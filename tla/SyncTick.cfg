SPECIFICATION TickFairSpec
CONSTANTS
    BatchSize = 1
    MaxEvents = 2
    MaxFaults = 1
    wall = wall
    v1 = v1
    Part <- MCPart
    Wall = wall
    Etags = {1, 2}
    First = 1
    Starts <- MCStarts
    MaxVideoFaults = 1
INVARIANTS TickTypeOK NothingLost DuplicatesNeedFaults DamageIsRefetched
PROPERTIES DeliverySpec VideosSettle
CHECK_DEADLOCK FALSE
