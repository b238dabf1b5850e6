SPECIFICATION Spec
CONSTANTS
    NULL = NULL
    Junk = Junk
    k1 = k1
    k2 = k2
    k3 = k3
    p1 = p1
    p2 = p2
    v1 = v1
    v2 = v2
    Addr = {a1, a2, a3, a4, a5, a6, a7}
    Val = {v1, v2}
    Plain <- ThreeKeys
    Pointer <- NoPointers
    TextOf <- NoText
    Elem <- MCElem
    ElSz = 2
    HeaderBytes = 2
    SizeMax = 31
    PtrMax = 15
VIEW Structure
INVARIANTS
    TypeOK
    Ownership
    UniqueKeys
    HeldIsValid
PROPERTIES
    OrderKept
    RefinesAbsMap
