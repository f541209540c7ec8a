SPECIFICATION SessionSpec
CONSTANTS
    Containers = {1, 2}
    Commands = {11, 12, 13}
INVARIANTS
    LeavesNothingBehind
    EnginesAreAttended
CHECK_DEADLOCK FALSE
