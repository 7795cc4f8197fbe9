SPECIFICATION FairSpec
CONSTANTS
    t1 = t1
    t2 = t2
    t3 = t3
    w1 = w1
    w2 = w2
    NoTask = NoTask
    Tasks = {t1, t2}
    Workers = {w1, w2}
    Ticks = {c1}
    Operators = {}
    Viewers = {}
    RetryLimit <- OneRetry
    MaxFaults = 0
    ResultsExpire = FALSE
    RedisMayFail = FALSE
    ForeignBackups = TRUE
PROPERTY RunsOneAtATime
PROPERTY EveryRunSettles
PROPERTY StaleKeyCleared
