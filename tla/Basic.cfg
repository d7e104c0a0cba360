SPECIFICATION Spec
CONSTANTS
    HeaderSize = 16
    MinSplit = 32
    HeapStart = 4096
    LineSize = 264
    EnvSizes <- MCEnvSizes
    Numbers = {10, 20, 30}
    Variables = {"A"}
    Texts <- MCTexts
INVARIANTS
    HeapIsProgram
PROPERTIES
    Implements
    RunEnds
CHECK_DEADLOCK FALSE
