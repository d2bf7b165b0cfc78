CONSTANTS
    stod <- ElseNumbers
    Sources <- ElseSources
SPECIFICATION Spec
INVARIANTS
    ElseIsRead
CHECK_DEADLOCK FALSE
