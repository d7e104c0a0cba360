SPECIFICATION Spec
CONSTANTS
    FDMax = 5
    MaxObjects = 3
    MaxDepth = 3
    ClosesInherited = FALSE
INVARIANTS
    NoDangling
    ObjectsOwned
