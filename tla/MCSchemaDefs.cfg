SPECIFICATION Spec
CONSTANTS
    SN = 16
    PN = 8
    W = 32
    DefNames = {1, 2}
    Shapes <- MCShapes
INVARIANTS
    TypeOK
    Faithful
    AssertsHold
    FieldsApart
    CleanBetweenFiles
    RefusedForAType
CHECK_DEADLOCK FALSE
