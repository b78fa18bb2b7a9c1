SPECIFICATION Spec
CONSTANTS
    SN = 16
    PN = 8
    Bounds <- MCFailure
    Outputs <- MCOutputs
INVARIANTS
    FailureLeavesNoTrace
CHECK_DEADLOCK FALSE
