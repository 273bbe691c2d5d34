-------------------------- MODULE MCMediaPlayback --------------------------
(* MediaPlayback on a small instance.                                      *)
EXTENDS MediaPlayback, TLC

\* Requests are interchangeable.
Interchangeable == Permutations(Calls)
=============================================================================
