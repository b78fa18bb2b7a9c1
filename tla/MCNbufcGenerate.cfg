SPECIFICATION MainSpec
CONSTANTS
    BUFSIZ = 2
    MaxSize = 5
    MaxRoom = 1
    Chars <- MCChars
    Dirs <- MCDirs
    Names <- MCNames
    MAXINCDIR = 3
INVARIANTS
    BothGenerated
CHECK_DEADLOCK FALSE
