SPECIFICATION Spec
CONSTANTS
    U16 = 24
    MaxFields = 6
    Elements = {0, 1, 2, 3}
INVARIANTS
    TypeOK
    NoOverlap
    InsideObject
    AlignedInArrays
    WordMultiple
CHECK_DEADLOCK FALSE
