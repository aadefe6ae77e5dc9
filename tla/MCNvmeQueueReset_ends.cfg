\* One reset, followed to the end of the system.
SPECIFICATION FairSpecReset
CONSTANTS
    r1 = r1
    r2 = r2
    NULL = NULL
    p1 = p1
    Cpus <- OneCpu
    Reqs <- TwoReqs
    CidOf <- UniqueCids2
    Depth = 2
    HistoryDepth = 2
    Threshold = 1
    MaxResets = 1
INVARIANTS
    TypeOKReset
    Recoverable
PROPERTIES
    ResetEnds
\* A reset may call through a null pointer, and the system stops.
CHECK_DEADLOCK FALSE
