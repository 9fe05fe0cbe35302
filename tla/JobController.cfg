CONSTANTS
    MaxCalls = 3
    None = None
SPECIFICATION Spec
CHECK_DEADLOCK FALSE
INVARIANTS
    ResultIsTrue
    ReleasedOnlyAfterEnd
    CleanedUpOnce
PROPERTIES
    CallsEnd
    KeepsJobContract
