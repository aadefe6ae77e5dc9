\* Two queues wanted, or as many as the controller has; one to be had; one sleep, one bus reset, all faults.
SPECIFICATION FairSpec
CONSTANTS
    Registry = {0, 2}
    MaxIoQ = 2
    CtrlQueues = 1
    Namespaces = 1
    Nvme10 = FALSE
    BootStates <- OffOrReady
    Fatal = TRUE
    Surprise = TRUE
    Workers = {w1}
    MaxSleeps = 1
    MaxResets = 1
    NULL = NULL
INVARIANTS
    TypeOK
    IoOnlyToRegistered
    HealthyNeverCrashes
PROPERTIES
    EnableOnlyWhenQuiet
    StartsWhenHealthy
\* The system stops at a bugcheck and after the removal.
CHECK_DEADLOCK FALSE
