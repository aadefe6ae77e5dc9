SPECIFICATION Spec
CONSTANTS
    r1 = r1
    r2 = r2
    r3 = r3
    r4 = r4
    NULL = NULL
    p1 = p1
    p2 = p2
    Cpus <- TwoCpus
    Reqs <- ThreeReqs
    CidOf <- UniqueCids3
    Depth = 3
    HistoryDepth = 3
    Threshold = 1
INVARIANTS
    TypeOK
    SubQNeverOverrun
    PhaseTellsNew
    CompletesOwnRequest
    InflightExact
    NothingLost
    FreeIsQuiet
PROPERTIES
    DoorbellFreesOnlyRead
SYMMETRY CpuSymmetry
