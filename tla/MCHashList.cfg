CONSTANTS
    Hashes = {1, 2, 3}
    LastByte = 1
    Byte <- MCByte
    Items = {i1, i2, i3, i4}
    Data = {d1, d2, d3}
    NULL = NULL
    Free = Free
SPECIFICATION Spec
INVARIANTS LinkedInOrder DataOwned WalkVisitsAll
PROPERTIES MapSpec CallsEnd
