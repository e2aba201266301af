SPECIFICATION FairSpec
CONSTANTS
    left = left
    right = right
    wall = wall
    cast = cast
    Order <- MCOrder
    Page = {wall, cast}
    Cast = {cast}
    Wall = wall
    Threshold = 2
    MaxChanges = 2
    MaxFaults = 1
INVARIANTS NoCastBehindLaunch PlacedRight
PROPERTIES CastsYield Converges
CHECK_DEADLOCK FALSE
