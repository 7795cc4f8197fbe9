SPECIFICATION FairSpec
CONSTANTS
    h1 = h1
    h2 = h2
    Harvests = {h1, h2}
    MaxSamples = 4
    Stamp <- MCStamp
    Boot <- MCBoot
    Excited = {3}
    MaxGap = 2
    Window = 2
    MinSamples = 1
    Bucket = 2
    Cap = 2
    MaxFaults = 1
INVARIANT NothingLostSilently
INVARIANT FitsIndependent
PROPERTY DueIsHarvested
CHECK_DEADLOCK FALSE
