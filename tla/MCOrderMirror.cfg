SPECIFICATION FairSpec
CONSTANTS
    small = small
    large = large
    Terms = {small, large}
    Quantity <- MCQuantity
    Minimum <- MCMinimum
    Step = 2
    MaxAttempts = 1
    MaxAmends = 1
    MaxMoves = 2
    MaxChildren = 2
CHECK_DEADLOCK FALSE
INVARIANTS NeverOvercopied StoppedLeavesNothing
PROPERTIES FilledSourceKeepsChild DrainEnds
