SPECIFICATION Spec
CONSTANTS
    Nums <- MCNums
    Strs <- MCStrs
    Empty = ""
    Holes <- MCHoles
    Programs <- LoopPrograms
    MaxDepth = 6
    MaxStack = 40
    MaxRefId = 1
    MaxRuns = 1
INVARIANTS
    BodyNeedsItsCondition
