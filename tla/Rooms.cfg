CONSTANTS
    Rooms = {r1, r2}
    n1 = n1
    Names = {n1}
    Name <- SameName
    Calls = {c1, c2}
    Closer = Closer
    NoRoom = NoRoom
    MaxFaults = 1
SPECIFICATION Spec
SYMMETRY Interchangeable
INVARIANTS TypeOK EndedByOne EndedIsEmptied OccupiedHasRow
PROPERTIES OccupiedNotCut
