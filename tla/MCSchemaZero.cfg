SPECIFICATION Spec
CONSTANTS
    SN = 16
    PN = 8
    W = 32
    DefNames = {1, 2}
    Shapes <- MCEnums
INVARIANTS
    FirstSymbolZero
CHECK_DEADLOCK FALSE
