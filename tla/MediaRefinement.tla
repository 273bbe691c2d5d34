-------------------------- MODULE MediaRefinement --------------------------
(***************************************************************************)
(* MediaPipeline, seen through one video, implements MediaLifecycle.       *)
(***************************************************************************)
EXTENDS MediaPipeline

CONSTANT Video    \* the video that is looked at

ASSUME VideoAssumption == Video \in Media

\* What GetByID returns for the video.
Phase ==
    CASE Video \in deleted -> "deleted"
      [] Video \notin deleted /\ status[Video] = "none" -> "absent"
      [] Video \notin deleted /\ status[Video] \in {"ready", "failed"} -> status[Video]
      [] OTHER -> "pending"

L == INSTANCE MediaLifecycle WITH
         phase  <- Phase,
         whole  <- Outputs \subseteq objects[Video],
         purged <- Purged(Video)

\* The pipeline shows a video's readers nothing but its lifecycle: a row is
\* ready only once everything is stored, only a DeleteMedia takes objects from
\* a row that is not deleted, a row is deleted after its purge and for good.
ImplementsLifecycle == L!LSpec
=============================================================================
