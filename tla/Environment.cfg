SPECIFICATION EnvSpec
CONSTANTS
    MAX_ENV = 2
    Chars <- MCChars
    Keys <- MCKeys
    Values <- MCValues
    MaxEntries = 3
    MaxNested = 2
INVARIANTS
    KernelFollows
PROPERTIES
    SetIsRead
    ChildApart
