SPECIFICATION CmSpec
CONSTANTS
    Cat = {c1}
    Mouse = {m1}
    NumBowls = 2
    NumLoops = 1
    NoOne = NoOne
PROPERTIES
    Finishes
CHECK_DEADLOCK FALSE
