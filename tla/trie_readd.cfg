SPECIFICATION Spec
CONSTANTS
    NULL = NULL
    a = a
    b = b
    Char = {a, b}
    Words <- OneWord
    Val = {v1, v2}
    MaxBlocks = 3
INVARIANTS
    AllReleased
