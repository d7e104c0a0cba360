SPECIFICATION FairSpec
CONSTANTS
    PageUnits = 2
    TableSize = 2
    DirSize = 3
    Pages = 8
    StackBase = 4
    StackTop = 5
    MemoryStart = 5
    MaxArgs = 1
    MaxEnv = 1
    Machines <- MCMachines
INVARIANTS
    Isolation
    ContextIntact
    BreakMapped
    NoFrameLost
    HeapExact
PROPERTIES
    Implements
    
