CONSTANTS
    Callers = {c1, c2}
    Holes = {stdio}
    Kinds <- MCKinds
    MaxThrown = 3
SPECIFICATION Spec
INVARIANTS
    TypeOK
    ErrorsKept
    IdsAreTheirs
    TotalCounts
    ArgumentsSuffice
CHECK_DEADLOCK FALSE
