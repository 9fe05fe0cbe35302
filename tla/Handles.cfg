CONSTANTS
    c1 = c1
    c2 = c2
    d1 = d1
    d2 = d2
    Service = {"gcp", "aws", "azure"}
    Caller <- MCCaller
    Calls <- MCCalls
    Earlier <- MCEarlier
    Data = {d1, d2}
    Partial = Partial
    Damaged = Damaged
    None = None
    Replaces = FALSE
    LastAttempt = 1
SPECIFICATION MCSpec
CHECK_DEADLOCK FALSE
INVARIANTS
    SuccessIsTrue
    OneMachinePerCreate
    NamesFailClosed
    WaitIsTrue
PROPERTY
    FileIsRecoverable
