CONSTANTS
    MaxTransfers = 2
    Blocks = 1
    MaxNames = 2
    QueueSize = 2
    Faults <- MCFaults
    Excluded <- MCNoDrop
    None = None
SPECIFICATION FairSpec
CHECK_DEADLOCK FALSE
INVARIANTS
    TypeOK
    ToldTheTruth
    TemporaryFilesGone
    PaneFreed
PROPERTIES
    FinalNamesSafe
    CancellationSettles
