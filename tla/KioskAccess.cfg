SPECIFICATION FairSpec
CONSTANTS
    m1 = m1
    m2 = m2
    own = own
    fresh = fresh
    admin = admin
    audit = audit
    Machines = {m1, m2}
    Keys = {own, fresh}
    LiveKeys = {own}
    NoKey = NoKey
    PruneMinScans = 2
    PruneMaxAbsolute = 5
    FractionFloor = 8
    MaxRequests = 2
    MaxFaults = 1
PROPERTY WithdrawnGrantsGo
PROPERTY ApprovedGetsIn
PROPERTY ClientLearns
