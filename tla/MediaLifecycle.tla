--------------------------- MODULE MediaLifecycle ---------------------------
(***************************************************************************)
(* What the media pipeline promises about one video, to whoever only reads *)
(* its row and its objects: the playback service and, through it, clients. *)
(* Handlers, queue, worker and cleaner are invisible here; MediaRefinement *)
(* shows that together they do nothing but the steps below.                *)
(***************************************************************************)
VARIABLES
    phase,    \* what a SELECT by id shows of the row
    whole,    \* preview, manifest and every segment are in the bucket
    purged    \* a DeleteMedia has purged the prefix, wholly or in part

lvars == <<phase, whole, purged>>

Phases == {"absent", "pending", "ready", "failed", "deleted"}

Live == phase \in {"pending", "ready", "failed"}

LInit == phase = "absent" /\ whole = FALSE /\ purged = FALSE

Create == phase = "absent" /\ phase' = "pending" /\ UNCHANGED <<whole, purged>>

\* Another CompleteUpload sets the row back, even one that is ready.
Pend == Live /\ phase' = "pending" /\ UNCHANGED <<whole, purged>>

Fail == Live /\ phase' = "failed" /\ UNCHANGED <<whole, purged>>

\* A row becomes ready when everything is stored.
Publish == Live /\ (whole \/ purged) /\ phase' = "ready" /\ UNCHANGED <<whole, purged>>

\* The last missing output arrives, perhaps after the deletion.
Store == phase # "absent" /\ whole' = TRUE /\ UNCHANGED <<phase, purged>>

\* Only a DeleteMedia takes objects from a video that is not deleted.
Purge == phase # "absent" /\ purged' = TRUE /\ whole' \in {whole, FALSE} /\ UNCHANGED phase

\* The cleaner takes what is left of a deleted video.
Reclaim == phase = "deleted" /\ whole' = FALSE /\ UNCHANGED <<phase, purged>>

\* A row is deleted once its prefix was purged, and stays so.
Delete == Live /\ purged /\ phase' = "deleted" /\ UNCHANGED <<whole, purged>>

LNext == Create \/ Pend \/ Fail \/ Publish \/ Store \/ Purge \/ Reclaim \/ Delete

LSpec == LInit /\ [][LNext]_lvars
=============================================================================
