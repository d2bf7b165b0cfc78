SPECIFICATION Spec
CONSTANTS
    Nums <- MCNums
    Strs <- MCStrs
    Empty = ""
    Holes <- MCHoles
    Programs <- MCProgramSet
    MaxDepth = 3
    MaxStack = 4
    MaxRefId = 3
    MaxRuns = 2
INVARIANTS
    TypeOK
    PcAligned
    MetReadsCaller
    DanglingOnlyFromHost
PROPERTIES
    RefinesCallStack
