CONSTANTS
    MaxSessions = 2
    MaxAsks = 1
    MaxData = 1
    None = None
    FirstLayers = {"jump", "target"}
    Excluded = {"pasted commands", "close while preparing"}
SPECIFICATION Spec
CHECK_DEADLOCK FALSE
PROPERTIES
    LateEventsIgnored
