-------------------------- MODULE MCMediaPipeline --------------------------
(* MediaPipeline on small instances.                                       *)
EXTENDS MediaPipeline, TLC

\* Call slots are interchangeable, and so are media ids; used for safety only.
Interchangeable == Permutations(Calls) \cup Permutations(Media)
=============================================================================
