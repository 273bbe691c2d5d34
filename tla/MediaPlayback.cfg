CONSTANTS
    Calls = {c1, c2}
    NoEntry = NoEntry
    TTL = 2
    CallTimeout = 1
    MaxTime = 4
SPECIFICATION Spec
SYMMETRY Interchangeable
INVARIANTS TypeOK StaleBound RepliesUsable DeleteForgets
