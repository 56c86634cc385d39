CONSTANTS
    Readers = {r1, r2}
    Frames = {f1, f2, f3, f4}
    NoFrame = NoFrame
    Driver = Driver
    Holder = Holder
SPECIFICATION StartedSpec
INVARIANTS
    ReadReturnsAFrame
