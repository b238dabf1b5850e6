SPECIFICATION Spec
CONSTANTS
    NULL = NULL
    RatioUnit = 4
    MaxNodes = 4
    MaxSplitNodes = 4
    MaxManyShown = 4
    MaxShown = 1
    SplitConfigs <- WideGaps
    QuadConfigs <- NoConfigs
    ScreenRects <- OneScreen
    Flaky = {}
    NullGaps = FALSE
INVARIANTS
    TilingOfAll
\* Allocation stops at MaxNodes; that no call gets stuck is CallsReturn.
CHECK_DEADLOCK FALSE
