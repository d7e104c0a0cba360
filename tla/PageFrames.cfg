SPECIFICATION PMMSpec
CONSTANTS
    FrameSize = 4
    LowAddresses <- MCLow
    MemorySizes <- MCHigh
INVARIANTS
    FramesSound
    WasteBounded
