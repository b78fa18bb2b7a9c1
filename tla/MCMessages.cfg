SPECIFICATION MsgSpec
CONSTANTS
    SN = 16
    PN = 8
    Bounds <- MCBounds
    Outputs <- MCOutputs
    BuiltBound <- MCBuiltBound
    Versions <- MCVersions
    Rooms <- MCRooms
    MaxCalls = 4
    Numbers <- MCNumbers
    Strings <- MCStrings
    Lengths <- MCLengths
INVARIANTS
    TypeOK
    Faithful
    EarlierIntact
    NoAbort
    RoundTrip
    RawShowsAll
PROPERTIES
    ImplementsStore
CHECK_DEADLOCK FALSE
