SPECIFICATION AsSpec
CONSTANTS
    k1 = k1
    Owners <- MCOwners
    FirstFree = 1
    LastPage = 12
    EntriesPerPage = 16
    MaxRequest = 1
    Process = {p1, p2}
    As = {a1, a2}
    CPU = {c1}
    NULL = NULL
    NUM_TLB = 2
    NPages1 = 1
    NPages2 = 1
    DUMBVM_STACKPAGES = 1
    PtePerPage = 2
    PreemptAt = {"user"}
    FilePages2 = 0
    Touched <- MCTouched
    MaxStolen = 0
INVARIANT NoWildFree
CHECK_DEADLOCK FALSE
