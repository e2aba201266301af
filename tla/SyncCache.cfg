SPECIFICATION FairSpec
CONSTANTS
    Media <- MCMedia
    Other <- MCOther
    Limit = 1
    Broken = {1}
    SendsEtag = TRUE
    MaxClock = 3
    MaxCrashes = 1
    MaxShorts = 1
    MaxPowerCuts = 1
INVARIANTS MirrorCoversCursor ServedFileComplete NoTombstonedBlob
PROPERTIES  ReplicaSpec
