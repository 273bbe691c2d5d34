------------------------------ MODULE MCRooms ------------------------------
(* Rooms on small instances.                                               *)
EXTENDS Rooms, TLC

CONSTANTS n1

\* All rooms have the same name, the worst case for LiveKit.
SameName == [r \in Rooms |-> n1]

\* Requests are interchangeable, and so are rooms of one name.
Interchangeable == Permutations(Calls) \cup Permutations(Rooms)
=============================================================================
