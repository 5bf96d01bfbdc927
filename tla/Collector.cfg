SPECIFICATION Spec
CONSTANTS
    car = car
    person = person
    Classes <- TwoClasses
    Sessions <- ThreeSessions
    PerSecond = 2
    ClockSteps <- StepsBack
    MaxTime = 4
    MaxFrames = 3
    FaultCap = 1
    MaxStarts = 2
CHECK_DEADLOCK FALSE
INVARIANTS
    PairsKept
    QuotaKept
