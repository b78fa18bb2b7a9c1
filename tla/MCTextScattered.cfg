SPECIFICATION Spec
CONSTANTS
    SN = 16
    PN = 8
    Bounds <- MCScattered
    Outputs <- MCOutputs
INVARIANTS
    ScatteredRefused
CHECK_DEADLOCK FALSE
