SPECIFICATION Spec
CONSTANTS
    Proc = {p1, p2, p3}
    Menu = Menu
    NULL = NULL
    PID_MAX = 4
    Faults = {}
    MaxSignals = 2
SYMMETRY Symmetry
INVARIANT WaitsForOwnChild
CHECK_DEADLOCK FALSE
