SPECIFICATION Spec
CONSTANTS
    FDMax = 5
    MaxObjects = 3
    MaxDepth = 3
    ClosesInherited = TRUE
INVARIANTS
    NoDangling
