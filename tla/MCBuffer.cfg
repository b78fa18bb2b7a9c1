SPECIFICATION Spec
CONSTANTS
    WORD = 2
    Byte <- MCByte
    Aligns <- MCAligns
    MaxLen = 6
INVARIANTS
    TypeOK
    InBounds
    GrowAssertion
    FreshIsZero
PROPERTIES
    RegionsAreFresh
    AllocReturns
    ImplementsByteString
CHECK_DEADLOCK FALSE
