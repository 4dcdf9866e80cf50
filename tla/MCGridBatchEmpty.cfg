SPECIFICATION Spec
CONSTANTS
    b0 = b0
    b1 = b1
    b2 = b2
    bR = bR
    p1 = p1
    p2 = p2
    k1 = k1
    r1 = r1
    Batches = {b0, b1, b2, bR}
    Commands = {p1, p2, k1, r1}
    Cancels = {k1}
    Resting = {r1}
    BatchOf <- ChainBatchOf
    SeqOf <- MCSeqOf
    TargetOf <- ChainTargetOf
    MaxQueueDepth = 3
    MaxMoves = 1
    MaxAborts = 0
    NoBatch = none
INVARIANT EmptyPlanKeepsOrder
CHECK_DEADLOCK FALSE
