SPECIFICATION Spec
CONSTANTS
    HeaderSize = 16
    MinSplit = 32
    HeapStart = 64
    InitialSize = 96
    PageSize = 64
    Requests <- MCRequests
    MaxSize = 224
INVARIANT HeapSound
PROPERTY
    Implements
