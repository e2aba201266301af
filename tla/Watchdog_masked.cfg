SPECIFICATION FairSpec
CONSTANTS
    FailThreshold = 2
    RecoveringProbes = 2
    Cooldown = 9
    BootGrace = 3
    PageStale = 3
    PowerTimer = TRUE
    PowerEvery = 2
    MaxFaults = 1
PROPERTY WedgedPageHeals
