SPECIFICATION Spec
CONSTANTS
    Requests = {r1, r2}
    MaxQuantity = 3
    MaxQueueDepth = 3
    NoRequest = none
INVARIANTS NoOverExposure NoOrphanChild
