SPECIFICATION Spec
CONSTANTS
    Registry = {2}
    MaxIoQ = 2
    CtrlQueues = 2
    Namespaces = 1
    Nvme10 = FALSE
    BootStates <- OffOrReady
    Fatal = FALSE
    Surprise = FALSE
    Workers = {w1}
    MaxSleeps = 0
    MaxResets = 0
    NULL = NULL
INVARIANT
    RemoveDeletesQueues
CHECK_DEADLOCK FALSE
