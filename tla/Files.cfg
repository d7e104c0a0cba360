SPECIFICATION Spec
CONSTANTS
    Clusters = 6
    FatPer = 4
    ClusterSectors = 2
    NFats = 2
    BodyLen = 3
    ExtLen = 1
    LfnLen = 2
    MaxLfn = 6
    DirPer = 2
    MaxDir = 8
    RootClust = 2
    MaxNumber = 4
    SectorUnits = 2
    Handles = {1, 2}
    Offsets = 64
    Works <- MCWorks
INVARIANTS ChainsSound Accounted NamesApart ListedOnce
PROPERTIES Implements FullIsFull
CHECK_DEADLOCK FALSE
