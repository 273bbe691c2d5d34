CONSTANTS
    Calls = {c1, c2, c3}
    NoState = NoState
    TTL = 2
    CallTimeout = 1
    MaxTime = 4
    MaxSaves = 3
SPECIFICATION Spec
SYMMETRY Interchangeable
INVARIANTS TypeOK VersionCounts EndedRoomForgotten
PROPERTIES ClockSetBack
