CONSTANTS
    Frames = {1, 2, 3}
    Buffers = {1, 2, 3}
    Sizes = {1}
    NoFrame = NoFrame
    NoBuffer = NoBuffer
    P = 2
    IdMod = 3
    MaxBurst = 2
    MaxOut = 1
    MaxOpens = 2
SPECIFICATION FairSpec
PROPERTIES
    StartedStreamDelivers
CHECK_DEADLOCK FALSE
