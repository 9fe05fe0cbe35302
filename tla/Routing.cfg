CONSTANTS
    c1 = c1
    c2 = c2
    Caller <- MCCaller
    Setup <- MCSetup
    None = None
    Jobs <- MCJobs
    Programmed <- MCProgrammed
    Environment <- MCEnvironment
    Market <- MCMarket
    MaxTime = 2
    Ttl = 2
    SpotTtl = 1
SPECIFICATION Spec
CHECK_DEADLOCK FALSE
INVARIANTS
    TypeOK
    QuoteIsFresh
    SubmittedWithinCeiling
    RouteIsBest
    PlanFits
