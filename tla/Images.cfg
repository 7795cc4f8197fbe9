SPECIFICATION FairSpec
CONSTANTS
    x = x
    y = y
    k = k
    Builds = {x, y}
    Kiosks = {k}
    NoImage = NoImage
    Torn = Torn
    MaxEdits = 1
    MaxEvents = 2
INVARIANT StoredHashHonest
PROPERTY TemplateCatchesUp
PROPERTY LockReleased
