\* A controller with the smallest queues NVMe allows, and the threshold of the source.
SPECIFICATION Spec
CONSTANTS
    r1 = r1
    r2 = r2
    r3 = r3
    r4 = r4
    NULL = NULL
    p1 = p1
    p2 = p2
    Cpus <- OneCpu
    Reqs <- TwoReqs
    CidOf <- UniqueCids2
    Depth = 2
    HistoryDepth = 2
    Threshold = 8
INVARIANT
    SubQNeverOverrun
