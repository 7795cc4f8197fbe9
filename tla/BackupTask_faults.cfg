SPECIFICATION Spec
CONSTANTS
    t1 = t1
    t2 = t2
    t3 = t3
    w1 = w1
    w2 = w2
    NoTask = NoTask
    Tasks = {t1, t2}
    Workers = {w1, w2}
    Ticks = {}
    Operators = {o1}
    Viewers = {o1}
    RetryLimit <- NoRetry
    MaxFaults = 1
    ResultsExpire = TRUE
    RedisMayFail = TRUE
    ForeignBackups = FALSE
SYMMETRY RunAndWorkerSymmetry
INVARIANT TypeOK
INVARIANT LoggedSuccessHasRow
INVARIANT EndedIsLogged
PROPERTY CancelOnlyIfAsked

INVARIANT OneTransferOnNode
