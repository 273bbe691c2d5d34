----------------------------- MODULE TailBuffer -----------------------------
(***************************************************************************)
(* tailBuffer, the io.Writer that keeps the end of ffmpeg's stderr: what   *)
(* an error message can quote of it.                                       *)
(***************************************************************************)
EXTENDS Integers, Sequences

CONSTANTS
    Chars,        \* the bytes that can be written
    MaxBuffer,    \* bound: maxBytes is at most this
    MaxText       \* bound: bytes written in all

ASSUME BufferAssumption == MaxBuffer \in Nat /\ MaxText \in Nat

VARIABLES
    maxBytes,    \* the capacity the buffer was made with
    buf,
    written      \* history: all that was ever written

vars == <<maxBytes, buf, written>>

Init ==
    /\ maxBytes \in 0 .. MaxBuffer
    /\ buf = << >>
    /\ written = << >>

\* The last n bytes of s.
LastBytes(s, n) == SubSeq(s, Len(s) - n + 1, Len(s))

\* Mutant of Needed: the bytes that are being written are not counted.
NeededLate(p) == Len(buf) - maxBytes

\* How many bytes must leave the buffer for p to fit.
Needed(p) == Len(buf) + Len(p) - maxBytes

Write(p) ==
    /\ Len(written) + Len(p) <= MaxText
    /\ written' = written \o p
    /\ buf' = IF maxBytes <= 0 THEN buf
              ELSE IF Len(p) >= maxBytes THEN LastBytes(p, maxBytes)
              ELSE IF Needed(p) > 0 THEN SubSeq(buf, Needed(p) + 1, Len(buf)) \o p
              ELSE buf \o p
    /\ UNCHANGED maxBytes

Next == \E n \in 0 .. MaxText : \E p \in [1 .. n -> Chars] : Write(p)

Spec == Init /\ [][Next]_vars

-----------------------------------------------------------------------------
(* Properties.                                                             *)

\* Whatever pieces the output arrives in, empty ones and ones larger than the
\* buffer included, the buffer holds exactly the last maxBytes bytes of it.
TailExact ==
    buf = LastBytes(written, IF Len(written) < maxBytes THEN Len(written) ELSE maxBytes)
=============================================================================
