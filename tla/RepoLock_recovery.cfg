SPECIFICATION FairSpec
CONSTANTS
    b1 = b1
    b2 = b2
    p1 = p1
    p2 = p2
    d1 = d1
    NoOne = NoOne
    Abandoned = Abandoned
    Backups = {b1, b2}
    Prunes = {p1}
    Deleters = {}
    MaintTTL = 1
    WriterTTL <- MixedTTL
    MaxFaults = 1
    CutOff = {p1}
INVARIANT RegisteredWhileWriting
PROPERTY StaleLockCleared
