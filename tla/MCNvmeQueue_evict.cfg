SPECIFICATION Spec
CONSTANTS
    r1 = r1
    r2 = r2
    r3 = r3
    r4 = r4
    NULL = NULL
    p1 = p1
    p2 = p2
    Cpus <- OneCpu
    Reqs <- TwoReqs
    CidOf <- SharedCids2
    Depth = 3
    HistoryDepth = 2
    Threshold = 1
INVARIANT EvictionFindsOldCmd
