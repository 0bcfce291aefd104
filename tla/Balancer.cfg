SPECIFICATION BalancerSpec
CONSTANTS
    a = a
    b = b
    c = c
    r1 = r1
    Name <- MCName
    Config <- MCConfig
    StartConfig <- MCStartConfig
    Tier <- MCTier
    MaxNodes = 2
    Latency <- MCLatency
    Unmeasured = 9
    MaxReloads = 3
    MaxUsage = 2
    Request <- MCRequest
INVARIANTS TypeOK SlotsDistinct PublishedIsAccepted SlotsNeverRunDry SpendSurvivesReload AttemptsBounded
PROPERTIES ImplementsTopology NamesKeepSlots
