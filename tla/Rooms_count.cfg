CONSTANTS
    Rooms = {r1}
    n1 = n1
    Names = {n1}
    Name <- SameName
    Calls = {c1}
    Closer = Closer
    NoRoom = NoRoom
    MaxFaults = 0
SPECIFICATION Spec
INVARIANTS ClosedCountExact
