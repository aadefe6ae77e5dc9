\* A reset of two outstanding requests, until it has gone through History.
SPECIFICATION SpecReset
CONSTANTS
    r1 = r1
    r2 = r2
    NULL = NULL
    p1 = p1
    Cpus <- OneCpu
    Reqs <- TwoReqs
    CidOf <- UniqueCids2
    Depth = 3
    HistoryDepth = 2
    Threshold = 1
    MaxResets = 1
INVARIANTS
    ResetCompletesAll
CONSTRAINT UntilSwept
\* Nothing is followed past the constraint.
CHECK_DEADLOCK FALSE
