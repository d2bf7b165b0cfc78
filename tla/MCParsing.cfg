CONSTANTS
    stod <- MCstod
    Sources <- MCSources
SPECIFICATION Spec
INVARIANTS
    TypeOK
    ReadsBack
    ReadsScripts
    NamesResolve
    VariablesAreLocal
    HangsReport
CHECK_DEADLOCK FALSE
