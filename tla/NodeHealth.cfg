SPECIFICATION Spec
CONSTANTS
    t1 = t1
    t2 = t2
    Thread <- MCThread
    Unmeasured = 12
    MinSample = 1
    MaxSample = 9
    Sample <- MCSample
    RetryAfters <- MCRetryAfters
    TicksPerSec = 2
    PenaltySecs = 1
    MaxRetryAfterSecs = 2
    MaxClock = 7
SYMMETRY Symmetry
INVARIANTS TypeOK PenaltyServedInFull PenaltyEnds EmaWithinSamples
PROPERTY MeasuredForGood
