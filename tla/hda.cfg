SPECIFICATION MCSpec
CONSTANTS
    NULL = NULL
    Junk = Junk
    a = a
    b = b
    Elem <- MCElem
    Buffers <- MCBuffers
    MaxBuf = 3
    MaxMin = 15
    Mins <- MCMins
    ElSz = 4
    HeaderBytes = 4
    SizeMax = 63
    PtrMax = 31
\* The process really ends when the allocator refuses a request.
CHECK_DEADLOCK FALSE
INVARIANTS
    TypeOK
    InBounds
    Initialised
    Amortised
    DarrFits
PROPERTIES
    RefinesAbsSeq
    DarrRefinesAbsSeq
