CONSTANTS
    CAPTURE = 20
    Serials = 23
SPECIFICATION Spec
INVARIANTS
    TypeOK
    FilesAreWhole
    FilesWereAsked
PROPERTIES
    CaptureIsServed
