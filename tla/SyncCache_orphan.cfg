SPECIFICATION FairSpec
CONSTANTS
    Media <- MCMedia
    Other <- MCOther
    Limit = 1
    Broken = {}
    SendsEtag = TRUE
    MaxClock = 2
    MaxCrashes = 1
    MaxShorts = 0
    MaxPowerCuts = 0
PROPERTIES TombstonePurged
