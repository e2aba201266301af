SPECIFICATION FairSpec
CONSTANTS
    wall = wall
    signage = signage
    Display = {wall, signage}
    Wall = wall
    Outputs <- MCOutputs
    Names = {1}
    MaxServerOps = 1
    MaxQuotes = 3
    MaxAssigns = 1
    MaxFaults = 1
PROPERTIES OwnKeysOnly AssignmentShown RestartsStop
CHECK_DEADLOCK FALSE
