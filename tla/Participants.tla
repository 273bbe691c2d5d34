---------------------------- MODULE Participants ----------------------------
(***************************************************************************)
(* Who is in a room, by the webhooks LiveKit sends: WebhookService keeps   *)
(* the set room:<name>:participants in Redis, adding an identity on        *)
(* participant_joined and removing it on participant_left.                 *)
(*                                                                         *)
(* LiveKit is external.  It posts every event at least once and may give   *)
(* it up after some tries; events overtake one another, and one whose      *)
(* reply was an error or was lost is posted again.  The handler looks at   *)
(* nothing but the event: not at its time, not at earlier events.          *)
(***************************************************************************)
EXTENDS Integers

CONSTANTS
    People,      \* identities; those of one room
    MaxMoves     \* bound: how often each of them joins or leaves

ASSUME MovesAssumption == MaxMoves \in Nat

VARIABLES
    moves,           \* person -> joins and leaves so far; odd: in the room
    posts,           \* events LiveKit has yet to get through
    participants,    \* the Redis set
    applied,         \* history: person -> the event applied last
    newest,          \* history: person -> the newest event ever applied
    givenUp          \* history: people whose newest event LiveKit gave up

vars == <<moves, posts, participants, applied, newest, givenUp>>

\* The n-th move of a person; odd ones are joins.
Event(p, n) == [who |-> p, n |-> n]
Joined(e) == e.n % 2 = 1
Present(p) == moves[p] % 2 = 1

Init ==
    /\ moves = [p \in People |-> 0]
    /\ posts = {}
    /\ participants = {}
    /\ applied = [p \in People |-> 0]
    /\ newest = [p \in People |-> 0]
    /\ givenUp = {}

\* A person joins or leaves the LiveKit room.
Move(p) ==
    /\ moves[p] < MaxMoves
    /\ moves' = [moves EXCEPT ![p] = @ + 1]
    /\ posts' = posts \cup {Event(p, moves[p] + 1)}
    /\ givenUp' = givenUp \ {p}
    /\ UNCHANGED <<participants, applied, newest>>

\* Mutant of TrackParticipant: participant_left deletes the whole key.
TrackParticipantAll(e) ==
    /\ participants' = IF Joined(e) THEN participants \cup {e.who} ELSE {}
    /\ applied' = [applied EXCEPT ![e.who] = e.n]
    /\ newest' = [newest EXCEPT ![e.who] = IF e.n > @ THEN e.n ELSE @]

\* SAdd or SRem.
TrackParticipant(e) ==
    /\ participants' = IF Joined(e) THEN participants \cup {e.who} ELSE participants \ {e.who}
    /\ applied' = [applied EXCEPT ![e.who] = e.n]
    /\ newest' = [newest EXCEPT ![e.who] = IF e.n > @ THEN e.n ELSE @]

\* Mutant of Webhook: an error of Redis is answered with success.
WebhookErrorHidden(e) ==
    /\ e \in posts
    /\ TrackParticipant(e) \/ UNCHANGED <<participants, applied, newest>>
    /\ posts' = posts \ {e}
    /\ UNCHANGED <<moves, givenUp>>

\* The event is handled and LiveKit gets its 200.
Webhook(e) ==
    /\ e \in posts
    /\ TrackParticipant(e)
    /\ posts' = posts \ {e}
    /\ UNCHANGED <<moves, givenUp>>

\* Redis fails, having done its work or not, and the answer is 500; or the
\* answer is lost.  The event will be posted again.
WebhookError(e) ==
    /\ e \in posts
    /\ TrackParticipant(e) \/ UNCHANGED <<participants, applied, newest>>
    /\ UNCHANGED <<moves, posts, givenUp>>

GiveUp(e) ==
    /\ e \in posts
    /\ posts' = posts \ {e}
    /\ givenUp' = IF e.n = moves[e.who] THEN givenUp \cup {e.who} ELSE givenUp
    /\ UNCHANGED <<moves, participants, applied, newest>>

Next ==
    \/ \E p \in People : Move(p)
    \/ \E e \in posts : Webhook(e) \/ WebhookError(e) \/ GiveUp(e)

Spec == Init /\ [][Next]_vars

\* A post LiveKit goes on repeating gets through, unless it is given up.
FairSpec ==
    Spec /\ \A p \in People, n \in 1 .. MaxMoves : SF_vars(Webhook(Event(p, n)))

-----------------------------------------------------------------------------
(* Properties.                                                             *)

\* Whatever was lost, repeated or reordered before: if the event that was
\* applied last for a person is that person's newest one, the stored set is
\* right about this person, and events of others do not spoil it.
NewestCounts ==
    \A p \in People : applied[p] = moves[p] => (p \in participants <=> Present(p))

\* Posts are repeated until they succeed, so once people stay where they are
\* the stored set becomes and stays right about everyone, but for those whose
\* newest event LiveKit gave up, or for whom an older event was applied after a
\* newer one: nothing ever corrects these.
EventuallyTracked ==
    \A p \in People :
        <>[](\/ p \in participants <=> Present(p)
             \/ p \in givenUp
             \/ applied[p] < newest[p])
=============================================================================
