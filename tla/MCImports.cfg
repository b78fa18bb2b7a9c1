SPECIFICATION Spec
CONSTANTS
    Path = {"a", "b", "c"}
    Root = "a"
    MaxImports = 2
    MAX_DEPTH = 4
INVARIANTS
    TypeOK
    OpenAreRunning
    ImportsAreCompiled
    CompiledOnce
    CirclesRefused
PROPERTIES
    CompilerEnds
CHECK_DEADLOCK FALSE
