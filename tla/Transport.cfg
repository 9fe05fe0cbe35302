CONSTANTS
    c1 = c1
    c2 = c2
    Caller <- MCCaller
    Start <- MCStart
    LastAttempt = 2
    RequestTimeout = 2
    MaxTokens = 3
    Life = 2
    Early = 1
    Never = Never
SPECIFICATION Spec
CHECK_DEADLOCK FALSE
INVARIANTS
    TypeOK
    SentOnce
    NewTokenAfterRefusal
    KeepsDeadline
PROPERTY
    CallsReturn
