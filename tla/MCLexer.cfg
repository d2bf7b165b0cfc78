CONSTANTS
    Sources <- MCSources
    MaxTokens = 7
SPECIFICATION Spec
INVARIANTS
    TypeOK
    NothingAfterEof
    BlocksBalance
    QuietInParentheses
    SameLevelSameBlock
    ListIsText
    ReportedOnce
PROPERTY
    ReadsAsWhole
CHECK_DEADLOCK FALSE
