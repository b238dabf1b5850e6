SPECIFICATION MCSpec
CONSTANTS
    NULL = NULL
    RatioUnit = 4
    MaxNodes = 10
    MaxSplitNodes = 7
    MaxManyShown = 4
    MaxShown = 4
    SplitConfigs <- Splits
    QuadConfigs <- Quads
    ScreenRects <- Screens
    Flaky = {1, 2}
    NullGaps = TRUE
INVARIANTS
    TypeOK
    Tiling
    FreedOnce
    LeavesInformed
    FlagsExact
PROPERTIES
    CallsReturn
\* Allocation stops at MaxNodes; that no call gets stuck is CallsReturn.
CHECK_DEADLOCK FALSE
