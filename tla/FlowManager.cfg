SPECIFICATION Spec
CONSTANTS
    c1 = c1
    c2 = c2
    Callers <- MCCallers
    PortIds = {1, 2}
    MaxWorkers = 4
    MaxThreads = 2
    NDEBUG = TRUE
    NoOwner = NoOwner
SYMMETRY CallerSymmetry
INVARIANTS
    TypeOK
    RunningWorkerAllocated
    MapEntriesLive
