------------------------------- MODULE MCRetry ------------------------------
(* Retry on a small instance.                                              *)
EXTENDS Retry, TLC
=============================================================================
