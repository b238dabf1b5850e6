SPECIFICATION MCSpec
CONSTANTS
    NULL = NULL
    Empty = Empty
    Names <- MCNames
    Begins <- MCBegins
    Table <- MCNoLetter
    ArgVectors <- MCOneOption
    MaxArgs = 2
    MaxCalls = 1
    IntMin <- MCIntMin
    IntMax = 1
    SignedChar = TRUE
    Texts <- MCTexts
    Sids <- MCSids
    Errnos = {0, 10}
    MaxDepth = 2
    BtSize = 4
\* The process ends, and the parses of one table are bounded by MaxCalls.
CHECK_DEADLOCK FALSE
INVARIANT
    OptionIsFound
