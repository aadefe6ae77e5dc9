SPECIFICATION Spec
CONSTANTS
    r1 = r1
    r2 = r2
    r3 = r3
    r4 = r4
    NULL = NULL
    p1 = p1
    p2 = p2
    Cpus <- OneCpu
    Reqs <- ThreeReqs
    CidOf <- SharedCids3
    Depth = 3
    HistoryDepth = 2
    Threshold = 1
INVARIANTS
    SubQNeverOverrun
    PhaseTellsNew
PROPERTIES
    DoorbellFreesOnlyRead
\* SubmitCmd may call through a null pointer here, and the system stops.
CHECK_DEADLOCK FALSE
