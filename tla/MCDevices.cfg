SPECIFICATION DevicesSpec
CONSTANTS
    DiskThread = {t1, t2}
    D_BLOCKS = 2
    TRIES = 2
    MaxIo = 3
    MaxMedia = 2
    EmuThread = {e1, e2}
    Handle = {h1, h2}
    LoadFails = {"array"}
    MaxCalls = 5
    MaxErrors = 3
    RETRIES = 1
    Writer = {w1, w2}
    Poller = {p1}
    Reader = {r1}
    CONSOLE_INPUT_BUFFER_SIZE = 2
    DELAYBUFSIZE = 1
    MaxOut = 2
    MaxTyped = 2
    LB_NSLOTS = 3
    Present = {"ltimer", "lser", "lhd"}
    HwCpus = {1, 4}
    DudLimit = 1
    Second = 4
    Small = 2
    MaxIrqs = 2
    MaxTime = 5
INVARIANTS
    DiskSound
    EmuSound
    ConsoleSound
    BusSound
CHECK_DEADLOCK FALSE
