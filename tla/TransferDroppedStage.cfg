CONSTANTS
    MaxTransfers = 1
    Blocks = 1
    MaxNames = 2
    QueueSize = 2
    Faults <- MCFaults
    Excluded = {}
    None = None
SPECIFICATION Spec
CHECK_DEADLOCK FALSE
INVARIANTS
    PaneFreed
