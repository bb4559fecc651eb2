CONSTANTS
    MaxSessions = 1
    MaxInput = 1
    MaxOutput = 1
    WriteQueue = 1
    EventQueue = 2
    None = None
    Excluded <- MCResetLeftOut
SPECIFICATION FairSpec
CHECK_DEADLOCK FALSE
PROPERTIES
    DisconnectCompletes
