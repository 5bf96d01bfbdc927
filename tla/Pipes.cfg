SPECIFICATION FairSpec
CONSTANTS
    c1 = c1
    Cameras <- OneCamera
    MaxPipes = 3
    Faults <- StopHangs
CHECK_DEADLOCK FALSE
INVARIANTS
    FailureIsOwn
PROPERTIES
    RuntimeSpec
    ComesBack
    AllReleased
