CONSTANTS
    MaxAttempts = 2
    MaxLength <- MCMaxLength
    MaxBytes = 4
    Chunk = 2
    LineLimit = 2
    RangeIgnored = TRUE
SPECIFICATION Spec
CHECK_DEADLOCK FALSE
INVARIANTS
    ReadsResume
