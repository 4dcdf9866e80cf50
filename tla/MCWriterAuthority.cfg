SPECIFICATION AuthoritySpec
CONSTANTS
    Processes = {p1, p2}
    FlatReceipts = {f1}
    Handoffs = {h1}
    TTL = 1
    MaxRevision = 6
    MaxTime = 3
    MaxReadback = 3
    MaxOps = 6
    MaxFailures = 4
SYMMETRY Symmetric
INVARIANTS
    GuardIsCurrent
    FencedStaysFenced
    ProtectedUntilFlat
    ReceiptsUsedOnce
    AckedDurable
    NeverRollsBack
CHECK_DEADLOCK FALSE
