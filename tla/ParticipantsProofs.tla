------------------------- MODULE ParticipantsProofs -------------------------
(***************************************************************************)
(* What the stored set of participants is worth, for any number of people  *)
(* and of moves.                                                           *)
(***************************************************************************)
EXTENDS Participants, TLAPS

TypeOK ==
    /\ moves \in [People -> Nat]
    /\ applied \in [People -> Nat]
    /\ newest \in [People -> Nat]
    /\ participants \subseteq People
    /\ givenUp \subseteq People

\* Every post is a move that was made.
PostsInv == \A e \in posts : e.who \in People /\ e.n \in 1 .. moves[e.who]

\* SAdd and SRem leave in the set what the event that was applied last for a
\* person says, whichever event that was.
AppliedInv ==
    \A p \in People :
        /\ p \in participants <=> applied[p] % 2 = 1
        /\ applied[p] <= newest[p]
        /\ newest[p] <= moves[p]

Inv == TypeOK /\ PostsInv /\ AppliedInv

\* An event that is applied, once or again, in order or not.
LEMMA TrackKeepsInv ==
    ASSUME Inv, NEW e \in posts, TrackParticipant(e), UNCHANGED moves, posts' \subseteq posts,
           givenUp' \subseteq People
    PROVE  Inv'
<1> USE DEF Inv
<1>1. e.who \in People /\ e.n \in Nat /\ e.n <= moves[e.who]
  BY DEF PostsInv, TypeOK
<1>2. TypeOK'
  BY <1>1 DEF TypeOK, TrackParticipant
<1>3. PostsInv'
  BY DEF PostsInv
<1>4. ASSUME NEW p \in People
      PROVE  /\ (p \in participants <=> applied[p] % 2 = 1)'
             /\ applied'[p] <= newest'[p]
             /\ newest'[p] <= moves'[p]
  <2>1. CASE p = e.who
    BY <1>1, <2>1 DEF TypeOK, AppliedInv, TrackParticipant, Joined
  <2>2. CASE p # e.who
    BY <1>1, <2>2 DEF TypeOK, AppliedInv, TrackParticipant
  <2> QED BY <2>1, <2>2
<1> QED BY <1>2, <1>3, <1>4 DEF AppliedInv

\* Every step preserves the invariant.
LEMMA StepKeepsInv ==
    ASSUME Inv, [Next]_vars
    PROVE  Inv'
<1> USE DEF Inv
<1>1. ASSUME NEW p \in People, Move(p)
      PROVE  Inv'
  <2>1. TypeOK' BY <1>1 DEF Move, TypeOK
  <2>2. \A q \in People : moves[q] <= moves'[q] /\ moves[q] \in Nat /\ moves'[q] \in Nat
    BY <1>1 DEF Move, TypeOK
  <2>3. moves'[p] = moves[p] + 1
    BY <1>1 DEF Move, TypeOK
  <2>4. PostsInv'
    BY <1>1, <2>2, <2>3 DEF Move, Event, PostsInv
  <2>5. AppliedInv'
    BY <1>1, <2>2 DEF Move, AppliedInv, TypeOK
  <2> QED BY <2>1, <2>4, <2>5
<1>2. ASSUME UNCHANGED <<moves, participants, applied, newest>>, posts' \subseteq posts,
             givenUp' \subseteq People
      PROVE  Inv'
  BY <1>2 DEF TypeOK, PostsInv, AppliedInv
<1>3. ASSUME NEW e \in posts, Webhook(e)
      PROVE  Inv'
  BY <1>3, TrackKeepsInv DEF Webhook, TypeOK
<1>4. ASSUME NEW e \in posts, WebhookError(e)
      PROVE  Inv'
  BY <1>2, <1>4, TrackKeepsInv DEF WebhookError, TypeOK
<1>5. ASSUME NEW e \in posts, GiveUp(e)
      PROVE  Inv'
  BY <1>2, <1>5 DEF GiveUp, TypeOK, PostsInv
<1>6. CASE UNCHANGED vars
  BY <1>2, <1>6 DEF vars, TypeOK
<1> QED BY <1>1, <1>3, <1>4, <1>5, <1>6 DEF Next

\* The invariant holds in every reachable state of every instance.
THEOREM Invariance == Spec => []Inv
<1>1. Init => Inv
  BY DEF Init, Inv, TypeOK, PostsInv, AppliedInv
<1>2. Inv /\ [Next]_vars => Inv'
  BY StepKeepsInv
<1> QED BY <1>1, <1>2, PTL DEF Spec

\* Whatever LiveKit repeats, reorders or gives up: when the event a person's
\* entry rests on is the newest one, the set in Redis is right about the person.
THEOREM NewestEventDecides == Spec => []NewestCounts
<1>1. Inv => NewestCounts
  BY DEF Inv, AppliedInv, NewestCounts, Present
<1> QED BY <1>1, Invariance, PTL
=============================================================================
