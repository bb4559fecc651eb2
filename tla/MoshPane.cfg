CONSTANTS
    MaxSessions = 1
    MaxInput = 3
    MaxOutput = 1
    WriteQueue = 1
    EventQueue = 2
    None = None
    Excluded <- MCHangsLeftOut
SPECIFICATION FairSpec
CHECK_DEADLOCK FALSE
INVARIANTS
    TypeOK
    InputHasNoGaps
    FinalOutputShown
    PageReleased
PROPERTIES
    DisconnectCompletes
    EndIsNoticed
