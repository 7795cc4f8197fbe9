SPECIFICATION FairSpec
CONSTANTS
    n1 = n1
    n2 = n2
    s1 = s1
    s2 = s2
    Times <- MCTimes
    Period <- MCPeriod
    Claims <- Prefix
    Tables <- BothTables
    Nodes = {n1, n2}
    Shards <- TwoShards
    ShardOf <- Apart
    Assignments <- AFew
    LastDay = 2
    MaxMishaps = 1
INVARIANT TypeOK
PROPERTY ReconcileSparesListed
PROPERTY HistoryConverges
