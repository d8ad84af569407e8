SPECIFICATION AsSpec
CONSTANTS
    k1 = k1
    Owners <- MCOwners
    FirstFree = 1
    LastPage = 14
    EntriesPerPage = 16
    MaxRequest = 2
    Process = {p1, p2}
    As = {a1, a2, a3}
    CPU = {c1}
    NULL = NULL
    NUM_TLB = 2
    NPages1 = 1
    NPages2 = 1
    DUMBVM_STACKPAGES = 1
    PtePerPage = 2
    FilePages2 = 0
    Touched <- MCTouched
    PreemptAt = {"user", "exec", "load", "args", "spawn"}
    MaxStolen = 1
SYMMETRY Symmetry
INVARIANTS
    FramesExclusive
    UsedIffHeld
    TLBCoherent
    MemoryPrivate
PROPERTY TextIntact
CHECK_DEADLOCK FALSE
