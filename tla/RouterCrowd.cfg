SPECIFICATION MetricsSpec
CONSTANTS
    n1 = n1
    n2 = n2
    r1 = r1
    r2 = r2
    r3 = r3
    m1 = m1
    m2 = m2
    NoNode = NoNode
    Node <- MCNode
    Request <- Crowd
    Method <- MCMethod
    Tier <- MCTier
    MaxConcurrent <- MCMaxConcurrent
    Burst <- CrowdBurst
    Interval <- MCInterval
    Threshold <- MCThreshold
    Cost <- MCCost
    UnknownCost = 9
    Response <- OneResponse
    TicksPerSec = 2
    PenaltySecs = 1
    MaxRetryAfterSecs = 2
    GlobalTimeout = 2
    AttemptTimeout = 1
    MaxClock = 2
SYMMETRY CrowdSymmetry
INVARIANTS PermitsConserved WaitersQueued OverspendBounded GaugeNeverDrifts AttemptsPartitioned SkipsCounted
PROPERTY FailedMeansExhausted
