--------------------------- MODULE MCParticipants ---------------------------
(* Participants on a small instance.                                       *)
EXTENDS Participants, TLC
=============================================================================
