CONSTANTS
    Frames = {1, 2, 3}
    Buffers = {1, 2, 3, 4}
    Sizes = {1, 2}
    NoFrame = NoFrame
    NoBuffer = NoBuffer
SPECIFICATION PoolSpec
INVARIANT FramesFit
