SPECIFICATION StorageSpec
CONSTANTS
    NBLOCKS = 8
    SFS_NDIRECT = 1
    SFS_DBPERIDB = 2
    PERBLOCK = 4
    Name = {a, b}
    User = {u1, u2}
    Extents <- MCExtents
    MaxOps = 4
    MaxFaults = 2
    MaxFuel = 2
    Proc = {p1, p2}
    Attach <- MCAttach
    Label <- MCLabel
INVARIANTS
    SfsSound
    ReadBack
    SyncedSurvives
    SfsckSound
    VfsSound
SYMMETRY MCSymmetry
CHECK_DEADLOCK FALSE
