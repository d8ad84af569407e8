SPECIFICATION HeapSpec
CONSTANTS
    Owners = {o1, o2}
    NoOwner = NoOwner
    FirstFree = 2
    LastPage = 9
    EntriesPerPage = 4
    MaxRequest = 3
    KThread = {t1, t2}
    KPage = {1, 2, 3, 4}
    PAGE_SIZE = 6
    sizes <- MCSizes
    NPAGEREFS = 2
    Requests = {1, 3, 5, 7}
    MaxLive = 3
    MBLOCKSIZE = 2
    HeapMax = 12
    Sizes = {0, 1, 3, 8}
    MaxBlocks = 4
    SMALLSIZE = 2
    MEDIUMSIZE = 5
    BIGSIZE = 10
    HUGESIZE = 64
    OVERHEAD = 4
    ABSURD_OVERHEAD = 8
    Slots = {1, 2, 3}
    StressSizes = {1, 4, 9}
    MaxStress = 6
    MaxTests = 3
INVARIANTS
    FailureIsReal
    KernelHeapSound
    UserHeapTested
PROPERTIES
    ImplementsCoremap
    LockReleased
CHECK_DEADLOCK FALSE
