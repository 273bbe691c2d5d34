---------------------------- MODULE MCAlgorithms ----------------------------
(* The pure algorithms, over all short texts: TailBuffer writes every text  *)
(* there is, in all pieces; each of them is also a file name somebody may   *)
(* upload.                                                                  *)
EXTENDS TailBuffer, StorageKeys

Characters == {"a", ".", "/", " ", "\t"}

\* Purges find the object of a video whatever its file name, with the
\* exceptions of Unpurgeable, and no other video's.
KeysPurged == PurgeFinds(written)
=============================================================================
