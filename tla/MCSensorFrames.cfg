CONSTANTS
    Frames = {1, 2, 3}
    Buffers = {1, 2, 3}
    Sizes = {1, 2}
    NoFrame = NoFrame
    NoBuffer = NoBuffer
    P = 2
    IdMod = 3
    MaxBurst = 2
    MaxOut = 1
    MaxOpens = 2
SPECIFICATION FairSpec
INVARIANTS
    TypeOK
    FramesAreWhole
    BuffersAreExclusive
    StrayFramesOnly
    FramesAreHeld
PROPERTIES
    FramesKeepComing
CHECK_DEADLOCK FALSE
