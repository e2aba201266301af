SPECIFICATION FairSpec
CONSTANTS
    Reassert = 2
    WakeMinutes = 2
    MaxChanges = 2
    MaxTaps = 1
    MaxSessions = 2
    MaxBoots = 2
    MaxFails = 1
    MaxWriteFails = 1
    MaxOutside = 1
INVARIANTS LitWithinMinute LitWithinReassert RecordTruthful
PROPERTY PanelSleeps
