SPECIFICATION Spec
CONSTANTS
    PathMax = 13
    PartSize = 4
    MaxParts = 4
    MaxDrives = 2
    MaxVolumes = 3
    Entries = 3
    MaxNested = 2
    Absent = Absent
    NoVolume = NoVolume
    Machines <- MCMachines
    Asked <- MCAsked
    Commands <- MCCommands
    SearchPath <- MCSearchPath
    FirstProgram <- MCFirstProgram
INVARIANTS
    CwdStands
    VolumesAsNumbered
PROPERTIES
    Implements
