CONSTANTS
    Sessions = {s1}
    Pairs = {p1, p2, p3, p4}
    Calls = {c1, c2, c3}
    NoSession = NoSession
    NoPair = NoPair
    AccessTTL = 2
    RefreshTTL = 2
    CallTimeout = 1
    MaxTime = 4
SPECIFICATION Spec
SYMMETRY Interchangeable
CHECK_DEADLOCK FALSE
INVARIANTS TypeOK VersionsDistinct RevocationBound NoLockout
PROPERTIES RevivalBound
