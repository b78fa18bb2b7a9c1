SPECIFICATION Spec
CONSTANTS
    Inputs <- MCInputs
    Strings <- MCStrings
    MaxCols <- MCMaxCols
INVARIANTS
    TypeOK
    LiteralsRead
    NumbersRead
    LinesCounted
PROPERTIES
    LexerEnds
CHECK_DEADLOCK FALSE
