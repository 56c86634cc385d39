CONSTANTS
    NUM_STREAMS = 3
    Volumes <- HarpVolumes
    WIDTH = 6
    HEIGHT = 4
    LEFT_STREAM_INDEX = 1
    RIGHT_STREAM_INDEX = 5
    TOP = 1
    BOTTOM = 3
    THRESHOLD = 910
    BACKGROUND = 50000
    MIN_PIXELS = 1
    Frames <- MCFrames
SPECIFICATION FairSpec
INVARIANTS
    TypeOK
    AudioTypeOK
    OwnedMatchesFrame
    HandCountsOnce
    SceneIsHeard
    GreenIsHeard
    HigherHandIsLouder
PROPERTIES
    HeldNoteNotRestruck
    ImplementsGate
    HandIsHeard
    SilenceSettles
