CONSTANTS
    MaxFirst = 4
    MaxSecond = 2
    MaxPages = 2
    Consistent = TRUE
SPECIFICATION Spec
CHECK_DEADLOCK FALSE
INVARIANTS
    NothingIsSkipped
    NothingTwice
