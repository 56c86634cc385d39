CONSTANTS
    Unit = 2
    Distances = {1000, 1010}
    Zooms <- MCZooms
    Aims <- MCAims
SPECIFICATION Spec
INVARIANTS
    AimIsFromCenter
