SPECIFICATION KernelSpec
CONSTANTS
    Position <- MCPosition
    BLOCKSIZE = 2
    DISKBLOCKS = 2
    Value = {"x", "y"}
    Thread3 = {t1, t2, t3}
    ArrayFirst = 2
    BITS_PER_WORD = 3
    LINE = 4
    WORD = 16
    USERSPACETOP = 8
    PAGE = 4
    MaxLib = 6
    TCpu = {c1, c2}
    TThread = {t1, t2, t3}
    MaxTraps = 3
    BootLine <- MCBootLine
    TypedLine <- MCTypedLine
    MAXMENUARGS = 3
    MaxLines = 2
    PCpu = {c1, c2}
    Panicker = {c1}
    MaxNested = 3
    Test = {"sem", "lock", "cv", "add", "stats", "loud", "sleep"}
    NTHREADS = 3
    NTESTTHREADS = 2
    NLOOPS = 4
    ADDLOOPS = 1
    MaxTests = 2
    FsTest = {"fstest", "readstress", "writestress", "writestress2", "createstress"}
    NCHUNKS = 3
    FsThreads = 2
    NCREATES = 2
    ShPid = {1, 2, 3, 4}
    MAXBG = 2
    MaxCommands = 5
    numprocs = 2
    numkeys = 5
    RANDOM_MAX = 5
    WORKNUM = 2
    MAX_TYPES = 3
    degrees <- MCDegrees
    seps <- MCSeps
    DefaultType = 2
    StateArray = {"a"}
    randtbl = "randtbl"
    W = 3
    MaxRandCalls = 4
INVARIANTS
    LibrarySound
    TrapSound
    StartStopSound
    KernelTestsSound
    ProgramsSound
CHECK_DEADLOCK FALSE
