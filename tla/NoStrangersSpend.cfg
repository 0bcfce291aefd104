SPECIFICATION BalancerSpec
CONSTANTS
    a = a
    b = b
    c = c
    r1 = r1
    Name <- MCName
    Config <- MCConfig
    StartConfig <- MCStartConfig
    Tier <- MCTier
    MaxNodes = 2
    Latency <- MCLatency
    Unmeasured = 9
    MaxReloads = 2
    MaxUsage = 2
    Request <- MCRequest
INVARIANT NoStrangersSpend
