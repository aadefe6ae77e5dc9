\* A page of 4 bytes, a list page of 4 entries and transfers of at most 8 blocks of 2
\* bytes; fields of 4, 8, 8, 16 and 32 values.
CONSTANTS
    e1 = e1
    e2 = e2
    NULL = NULL
    Exts <- AllExts
    Workloads <- Loads
    NszeValues <- Sizes
    CtrlStatuses <- Statuses
    Blocks = {1, 2}
    BlockAddr <- PoolAddr
    LogPageSize = 4
    SenseBuffer = TRUE
    Room = 1
    PageSize = 4
    ListEntries = 4
    Frame <- Frames
    BlockSize = 2
    MinPageSize = 4
    MDTS = 2
    Word8 = 4
    Word16 = 8
    Word21 = 8
    Word32 = 16
    Word64 = 32
    UlongRange = 65536
    NqnLength = 20
SPECIFICATION Spec
CHECK_DEADLOCK FALSE
INVARIANTS
    TypeOK
    AnsweredOnce
    NoOrphan
    BuffersHeld
    NothingKept
    PrpsCoverBuffer
    RangeKept
    CapacityMatchesRange
    RepliesFit
    StatusKept
PROPERTIES
    SenseShowsSelect
