SPECIFICATION Spec
CONSTANTS
    Proc = {p1, p2, p3}
    Menu = Menu
    NULL = NULL
    PID_MAX = 4
    Faults = {"fork", "menu", "badpid"}
    MaxSignals = 2
PROPERTY MenuReturns
CHECK_DEADLOCK FALSE
