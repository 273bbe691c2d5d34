------------------------- MODULE MCMediaRefinement -------------------------
(* MediaPipeline and its lifecycle on a small instance.                    *)
EXTENDS MediaRefinement, TLC
=============================================================================
