CONSTANTS
    Rooms = {r1}
    n1 = n1
    Names = {n1}
    Name <- SameName
    Calls = {c1, c2}
    Closer = Closer
    NoRoom = NoRoom
    MaxFaults = 2
SPECIFICATION FairSpec
PROPERTIES StaleRoomsEnd
