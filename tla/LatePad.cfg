SPECIFICATION Spec
CONSTANTS
    c1 = c1
    Cameras <- OneCamera
    MaxPipes = 2
    Faults <- Late
CHECK_DEADLOCK FALSE
INVARIANTS
    ReadyIsLinked
