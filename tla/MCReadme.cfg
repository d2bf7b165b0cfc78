SPECIFICATION Spec
CONSTANTS
    Nums <- MCNums
    Strs <- ScriptStrs
    Empty = ""
    Holes <- ScriptHoles
    Programs <- ScriptPrograms
    MaxDepth = 6
    MaxStack = 40
    MaxRefId = 2
    MaxRuns = 2
INVARIANTS
    RunsAsWritten
    ReadmeListing
    PrintsTheElements
PROPERTIES
    Completes
