SPECIFICATION Spec
CONSTANTS
    Nums <- MCNums
    Strs <- MCStrs
    Empty = ""
    Holes <- MCHoles
    Programs <- RetPrograms
    MaxDepth = 3
    MaxStack = 4
    MaxRefId = 1
    MaxRuns = 1
PROPERTIES
    RetPopsTheContext
