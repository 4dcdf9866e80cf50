SPECIFICATION FairSpec
CONSTANTS
    a1 = a1
    l1 = l1
    k1 = k1
    k2 = k2
    Accounts = {a1}
    Commands = {l1, k1, k2}
    AccountOf <- MCAccountOf
    KindOf <- MCKindOf
    TargetOf <- MCTargetOf
    Standalone = {k1}
    Revocable = {l1}
    MaxQueueDepth = 3
    MaxAborts = 2
    NoCommand = none
CHECK_DEADLOCK FALSE
INVARIANTS SentOnce Fence NoHiddenExposure CancelTruth
PROPERTIES KeepsContract ExchangeOutcomesSettle
