\* Direct connections: a jump host repeats the same phases.
CONSTANTS
    MaxSessions = 2
    MaxAsks = 1
    MaxData = 0
    None = None
    FirstLayers = {"target"}
    Excluded = {"late teardown", "pasted commands", "close while preparing"}
SPECIFICATION FairSpec
CHECK_DEADLOCK FALSE
PROPERTIES
    EveryAttemptSettles
    DisconnectReturnsToPrompt
