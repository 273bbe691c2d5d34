CONSTANTS
    People = {p1, p2}
    MaxMoves = 3
SPECIFICATION FairSpec
CHECK_DEADLOCK FALSE
INVARIANTS NewestCounts
PROPERTIES EventuallyTracked
