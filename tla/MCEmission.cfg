SPECIFICATION Spec
CONSTANTS
    Nums <- MCNums
    Strs = {""}
    Empty = ""
    Straight <- MCStraight
    Arguments = {0}
    MaxPc <- MCMaxPc
    MaxOpen = 4
INVARIANTS
    CodeIsWellFormed
    NothingHidden
