SPECIFICATION SyncSpec
CONSTANTS
    Thread = {t1, t2, t3, t4}
    None = None
    SemThread = {t1, t2, t3, t4}
    NoThread = None
    InitialCount = 1
    MaxV = 3
    Cat = {c1, c2}
    Mouse = {m1}
    NumBowls = 2
    NumLoops = 2
    NoOne = None
INVARIANTS
    MutualExclusion
    WakeupsKept
    CatMouseSound
PROPERTIES
    ImplementsMonitor
    LockProgress
    Drained
CHECK_DEADLOCK FALSE
