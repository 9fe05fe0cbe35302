CONSTANTS
    Name <- MCName
    Fixed = n1
    MaxCopies = 2
    None = None
    n1 = n1
    n2 = n2
    n3 = n3
SPECIFICATION Spec
CHECK_DEADLOCK FALSE
INVARIANTS
    TypeOK
    WorkKeepsItsDefinition
    OneJobPerRun
    RefusalMeansNoJob
PROPERTY
    KeepsSubmitContract
