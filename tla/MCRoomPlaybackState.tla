------------------------ MODULE MCRoomPlaybackState ------------------------
(* RoomPlaybackState on a small instance.                                  *)
EXTENDS RoomPlaybackState, TLC

\* Requests are interchangeable.
Interchangeable == Permutations(Calls)
=============================================================================
