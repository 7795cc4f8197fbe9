SPECIFICATION Spec
CONSTANTS
    n1 = n1
    n2 = n2
    s1 = s1
    s2 = s2
    Times <- MCTimes
    Period <- MCPeriod
    Claims <- OwnOnly
    Tables <- OneTable
    Nodes = {n1}
    Shards <- OneShard
    ShardOf <- Together
    Assignments <- Each
    LastDay = 6
    MaxMishaps = 0
INVARIANT NightsLoseNothing
INVARIANT QuotaHeld
PROPERTY NewestKept
