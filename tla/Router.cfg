SPECIFICATION FairSpec
CONSTANTS
    n1 = n1
    n2 = n2
    r1 = r1
    r2 = r2
    r3 = r3
    m1 = m1
    m2 = m2
    NoNode = NoNode
    Node <- MCNode
    Request <- MCRequest
    Method <- OneMethod
    Tier <- FlatTier
    MaxConcurrent <- MCMaxConcurrent
    Burst <- MCBurst
    Interval <- MCInterval
    Threshold <- MCThreshold
    Cost <- CrowdCost
    UnknownCost = 9
    Response <- MCResponse
    TicksPerSec = 2
    PenaltySecs = 1
    MaxRetryAfterSecs = 2
    GlobalTimeout = 2
    AttemptTimeout = 1
    MaxClock = 3
INVARIANTS TypeOK OneAttemptPerNode
PROPERTIES KeepsPromise EveryRequestAnswered 
