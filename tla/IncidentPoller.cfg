SPECIFICATION PollerSpec
CONSTANTS
    Interval = 2
    Timeout = 4
    Grace = 15
    MaxFlips = 2
    MaxRestarts = 1
    MaxEnrols = 2
    MaxExcess = 13
INVARIANTS KeepsThroughBlip ClearedInTime ShownInTime
