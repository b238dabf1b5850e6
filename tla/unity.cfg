SPECIFICATION MCSpec
CONSTANTS
    NULL = NULL
    NaN = NaN
    Inf = Inf
    NegInf = NegInf
    p = p
    q = q
    old = old
    new = new
    ByteBits = 2
    IntBits = 4
    Printable = {1}
    FloatMax = 3
    Precision = 2
    ArgVectors <- MCArgVectors
    Number <- MCNumber
    Contains <- MCContains
    Tests <- MCTests
    Calls <- MCCalls
    Cells <- MCCells
    Values <- MCValues
    MaxPointers = 2
    MaxSteps = 3
\* The run is over when UnityMain has returned.
CHECK_DEADLOCK FALSE
INVARIANTS
    TotalsExact
    PointersRestored
    VerdictExact
    ReportTells
PROPERTY
    SuiteEnds
