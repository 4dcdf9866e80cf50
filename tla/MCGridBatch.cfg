SPECIFICATION FairSpec
CONSTANTS
    b0 = b0
    b1 = b1
    b2 = b2
    bR = bR
    p1 = p1
    p2 = p2
    k1 = k1
    r1 = r1
    Batches = {b1, b2}
    Commands = {p1, p2, k1}
    Cancels = {k1}
    Resting = {}
    BatchOf <- MCBatchOf
    SeqOf <- MCSeqOf
    TargetOf <- MCTargetOf
    MaxQueueDepth = 3
    MaxMoves = 1
    MaxAborts = 1
    NoBatch = none
INVARIANTS PlacesFirst ChainOrdered LiveOrdersOwned
PROPERTIES KeepsContract CancelsGetOut
CHECK_DEADLOCK FALSE
