SPECIFICATION Spec
CONSTANTS
    o1 = o1
    o2 = o2
    Orders = {o1}
    Resting = {}
    MaxConfig = 2
    MaxMoves = 2
INVARIANTS StoppedIsFlat
PROPERTIES PauseConfirmsFlat ResetStartsClean
CHECK_DEADLOCK FALSE
