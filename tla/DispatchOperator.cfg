CONSTANTS
    e1 = e1
    e2 = e2
    i1 = i1
    i2 = i2
    p1 = p1
    p2 = p2
    None = None
    Foreign = Foreign
    Exec = {e1, e2}
    Id = {i1, i2}
    Path = {p1, p2}
    Assignments <- MCSharedPath
    MaxGeneration = 1
    Shared = {}
    MaxDeletions = 1
SPECIFICATION Spec
SYMMETRY MCSymmetry
CHECK_DEADLOCK FALSE
PROPERTIES
    KeepsContract
