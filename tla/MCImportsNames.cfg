SPECIFICATION Spec
CONSTANTS
    Path = {"a", "b", "c"}
    Root = "a"
    MaxImports = 2
    MAX_DEPTH = 4
INVARIANTS
    NamesPersist
CHECK_DEADLOCK FALSE
