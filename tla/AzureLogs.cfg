CONSTANTS
    MaxAttempts = 2
    MaxLength <- MCMaxLength
    MaxBytes = 4
    Chunk = 2
    LineLimit = 2
    RangeIgnored = FALSE
SPECIFICATION Spec
CHECK_DEADLOCK FALSE
INVARIANTS
    TypeOK
    LinesAreExact
    AttemptsInOrder
