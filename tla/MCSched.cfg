CONSTANTS
    NCPU = 2
    NTHREAD = 3
    MIGRATE_HARDCLOCKS = 1
SPECIFICATION TsSpec
INVARIANTS ThreadsAccounted IplExact IdleTold
PROPERTY IdleServes
CHECK_DEADLOCK FALSE
