SPECIFICATION LedgerSpec
CONSTANTS
    Nums <- MCNums
    Strs <- MCStrs
    Empty = ""
    Holes <- MCHoles
    Programs <- ArrayPrograms
    MaxDepth = 2
    MaxStack = 4
    MaxRefId = 2
    MaxRuns = 1
INVARIANTS
    CountersBalance
    GoneOnlyIfReturned
PROPERTIES
    NeverReborn
