----------------------------- MODULE MCSessions -----------------------------
(* Sessions on small instances.                                            *)
EXTENDS Sessions, TLC

\* Requests, sessions and token pairs are interchangeable.
Interchangeable ==
    Permutations(Calls) \cup Permutations(Sessions) \cup Permutations(Pairs)
=============================================================================
