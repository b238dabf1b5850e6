SPECIFICATION MCSpec
CONSTANTS
    NULL = NULL
    Empty = Empty
    Names <- MCNames
    Begins <- MCBegins
    Table <- MCTable
    ArgVectors <- MCArgVectors
    MaxArgs = 2
    MaxCalls = 2
    IntMin <- MCIntMin
    IntMax = 1
    SignedChar = TRUE
    Texts <- MCTexts
    Sids <- MCSids
    Errnos = {0, 10}
    MaxDepth = 2
    BtSize = 4
\* The process ends, and the parses of one table are bounded by MaxCalls.
CHECK_DEADLOCK FALSE
INVARIANTS
    ResultExact
    ValuesExact
    ErrorsAsAsked
    MessageClean
    OnlySuccessReturns
    ReportExact
PROPERTY
    ErrnoKept
