SPECIFICATION MCSpec
CONSTANTS
    NULL = NULL
    Junk = Junk
    Dangling = Dangling
    NUL = NUL
    a = a
    b = b
    Elem <- MCElem
    Strings <- MCStrings
    Code <- MCCode
    MaxStr = 3
    DstrMax = 7
    FmtMax = 5
    Beyond = 2
    ByteMod = 8
    HashMod = 64
    ElSz = 1
    HeaderBytes = 8
    SizeMax = 31
    PtrMax = 15
\* The process really ends when the allocator refuses a request.
CHECK_DEADLOCK FALSE
INVARIANTS
    TypeOK
    Terminated
    
    DstrSpelled
    HashIsPolynomial
PROPERTY
    RefinesAbsStr
