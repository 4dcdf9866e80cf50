SPECIFICATION FairSpec
CONSTANTS
    o1 = o1
    o2 = o2
    Orders = {o1}
    Resting = {}
    MaxConfig = 1
    MaxMoves = 1
PROPERTIES StopEnds
CHECK_DEADLOCK FALSE
