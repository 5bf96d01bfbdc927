SPECIFICATION FairSpec
CONSTANTS
    c1 = c1
    c2 = c2
    Cameras <- TwoCameras
    ErrorCap = 1
    Faults <- All
CHECK_DEADLOCK FALSE
INVARIANTS
    ReportIsTrue
    LinkedEndsClosed
    ExitTellsWhy
PROPERTIES
    RuntimeSpec
    OneCallAtATime
    StopEnds
    WedgeEnds
    HealthyCameraRuns
