SPECIFICATION Spec
CONSTANTS
    b1 = b1
    b2 = b2
    p1 = p1
    p2 = p2
    d1 = d1
    NoOne = NoOne
    Abandoned = Abandoned
    Backups = {b1}
    Prunes = {p1, p2}
    Deleters = {d1}
    MaintTTL = 2
    WriterTTL <- OneTTL
    MaxFaults = 1
    CutOff = {b1, p1, p2}
INVARIANTS TypeOK ExclusiveMaintenance
PROPERTIES FlagLeavesOnlyItsOwner BreakSparesAnnounced
SYMMETRY PruneSymmetry
