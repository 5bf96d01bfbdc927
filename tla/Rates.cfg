SPECIFICATION FrameRateSpec
CONSTANTS
    Sources <- CameraRates
    Targets <- AnyTarget
    MaxSeen = 60
    MaxStrays = 1
    HasInterval = TRUE
    FrameInterval = 3
    Starts <- TwoStarts
    MaxGap = 7
    ClockSteps <- BackAndForth
    MaxSteps = 1
    MaxTime = 15
CHECK_DEADLOCK FALSE
INVARIANTS
    ShareKept
    EvenBelowTarget
    BurstBounded
    RateKept
    WaitBounded
