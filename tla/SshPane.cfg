CONSTANTS
    MaxSessions = 2
    MaxAsks = 1
    MaxData = 1
    None = None
    FirstLayers = {"jump", "target"}
    Excluded = {"late teardown", "pasted commands", "close while preparing"}
SPECIFICATION Spec
\* A closed pane, and the last session of the bound, are followed by nothing.
CHECK_DEADLOCK FALSE
INVARIANTS
    TypeOK
    TrustedOnlyOnceStored
    SecretsReachTheirPrompt
    NothingLeftBehind
    PaneConsistent
PROPERTIES
    LateEventsIgnored
