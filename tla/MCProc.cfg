SPECIFICATION Spec
CONSTANTS
    Proc = {p1, p2, p3, p4}
    Menu = Menu
    NULL = NULL
    PID_MAX = 5
    Faults = {}
    MaxSignals = 2
SYMMETRY Symmetry
INVARIANTS
    TableSound
    NoLostWakeup
    ZombieHasReaper
    PromptMeansIdle
CHECK_DEADLOCK FALSE
