SPECIFICATION Spec
CONSTANTS
    Requests = {p1, p2}
    Reversals = {p1}
    MaxQuantity = 2
    MaxQueueDepth = 2
    NoRow = none
INVARIANTS ReversalBacked RejectedIsOver NoOrphanOpening
