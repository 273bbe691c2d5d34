------------------------- MODULE RoomPlaybackState -------------------------
(***************************************************************************)
(* What a room is watching: one Redis key per room, which the host's       *)
(* SaveByHost reads, changes and writes back, and which guests poll with   *)
(* GetState.  The request must carry film, status, position and rate, so   *)
(* a save replaces them all; only the version depends on what was stored.  *)
(*                                                                         *)
(* The room itself is a row that Rooms creates and ends; here it is active *)
(* and may be ended.  Requests of others than the host change nothing.     *)
(***************************************************************************)
EXTENDS Integers, FiniteSets

CONSTANTS
    Calls,          \* slots for the host's requests in progress
    NoState,        \* the key is not there
    TTL,            \* the key's 24 hours
    CallTimeout,    \* deadline of a request's context
    MaxTime,        \* bound: the clock stops here
    MaxSaves        \* bound: saves that succeed

ASSUME TimesAssumption == /\ TTL \in Nat \ {0}
                          /\ CallTimeout \in Nat
                          /\ MaxTime \in Nat
                          /\ MaxSaves \in Nat
\* redis.Nil is no state.
ASSUME NoStateAssumption == NoState \notin [version: Nat, updatedAt: Nat, set: Nat]

VARIABLES
    now,         \* the clock
    endedAt,     \* when the room ended; MaxTime + 1: it is active
    state,       \* the key's value, with the time of its Set
    call,        \* call -> its progress
    saves,       \* history: Sets since the key was last absent
    overlapped   \* history: since then, two saves were between read and write at once

vars == <<now, endedAt, state, call, saves, overlapped>>

Never == MaxTime + 1
Active == endedAt = Never

IdleCall == [pc |-> "idle", start |-> 0, version |-> 0, updatedAt |-> 0]

\* The clock, the key and the calls are well-typed.
TypeOK ==
    /\ now \in 0 .. MaxTime
    /\ endedAt \in 0 .. Never
    /\ state \in [version: 1 .. MaxSaves, updatedAt: 0 .. now, set: 0 .. now] \cup {NoState}
    /\ call \in [Calls -> [pc: {"idle", "room", "get", "merge", "set"}, start: 0 .. now,
                           version: 0 .. MaxSaves, updatedAt: 0 .. now]]
    /\ saves \in 0 .. MaxSaves
    /\ overlapped \in BOOLEAN

Init ==
    /\ now = 0
    /\ endedAt = Never
    /\ state = NoState
    /\ call = [c \in Calls |-> IdleCall]
    /\ saves = 0
    /\ overlapped = FALSE

InTime(c) == now <= call[c].start + CallTimeout

\* The call has read the key and may still write it.
Writing(c) == call[c].pc \in {"merge", "set"}

Return(c) == call' = [call EXCEPT ![c] = IdleCall]

-----------------------------------------------------------------------------
(* SaveByHost.                                                             *)

SaveStart(c) ==
    /\ call[c].pc = "idle"
    /\ call' = [call EXCEPT ![c] = [IdleCall EXCEPT !.pc = "room", !.start = now]]
    /\ UNCHANGED <<now, endedAt, state, saves, overlapped>>

\* Mutant of SaveRoom: the status test is dropped.
SaveRoomEnded(c) ==
    /\ call[c].pc = "room"
    /\ InTime(c)
    /\ call' = [call EXCEPT ![c].pc = "get"]
    /\ UNCHANGED <<now, endedAt, state, saves, overlapped>>

\* GetRoomByID shows an active room.
SaveRoom(c) ==
    /\ call[c].pc = "room"
    /\ InTime(c)
    /\ Active
    /\ call' = [call EXCEPT ![c].pc = "get"]
    /\ UNCHANGED <<now, endedAt, state, saves, overlapped>>

\* Mutant of SaveGet: any error of Redis counts as a key that is not there.
SaveGetAnyError(c) ==
    /\ call[c].pc = "get"
    /\ InTime(c)
    /\ \E version \in {0, IF state = NoState THEN 0 ELSE state.version} :
           call' = [call EXCEPT ![c].pc = "merge", ![c].version = version]
    /\ overlapped' = (overlapped \/ \E d \in Calls : Writing(d))
    /\ UNCHANGED <<now, endedAt, state, saves>>

\* GetState; without a key the version starts from 0.
SaveGet(c) ==
    /\ call[c].pc = "get"
    /\ InTime(c)
    /\ call' = [call EXCEPT ![c].pc = "merge",
                            ![c].version = IF state = NoState THEN 0 ELSE state.version]
    /\ overlapped' = (overlapped \/ \E d \in Calls : Writing(d))
    /\ UNCHANGED <<now, endedAt, state, saves>>

\* Mutant of SaveMerge: the version is left as it was read.
SaveMergeSame(c) ==
    /\ call[c].pc = "merge"
    /\ call' = [call EXCEPT ![c].pc = "set", ![c].updatedAt = now]
    /\ UNCHANGED <<now, endedAt, state, saves, overlapped>>

\* The new state is made: the clock is read, the version counted up.
SaveMerge(c) ==
    /\ call[c].pc = "merge"
    /\ call[c].version < MaxSaves
    /\ call' = [call EXCEPT ![c].pc = "set", ![c].version = @ + 1, ![c].updatedAt = now]
    /\ UNCHANGED <<now, endedAt, state, saves, overlapped>>

\* Mutant of SaveSet: the Set is detached from the request's context.
SaveSetDetached(c) ==
    /\ call[c].pc = "set"
    /\ saves < MaxSaves
    /\ state' = [version |-> call[c].version, updatedAt |-> call[c].updatedAt, set |-> now]
    /\ saves' = saves + 1
    /\ Return(c)
    /\ UNCHANGED <<now, endedAt, overlapped>>

\* Set, whatever the key holds by now; the request succeeds, or its reply is lost.
SaveSet(c) ==
    /\ call[c].pc = "set"
    /\ InTime(c)
    /\ saves < MaxSaves
    /\ state' = [version |-> call[c].version, updatedAt |-> call[c].updatedAt, set |-> now]
    /\ saves' = saves + 1
    /\ Return(c)
    /\ UNCHANGED <<now, endedAt, overlapped>>

\* The room has ended, or Postgres, Redis or the deadline ends the call.
SaveError(c) ==
    /\ call[c].pc # "idle"
    /\ Return(c)
    /\ UNCHANGED <<now, endedAt, state, saves, overlapped>>

-----------------------------------------------------------------------------
\* RoomService ends the room; the key is left to expire.
EndRoom ==
    /\ Active
    /\ endedAt' = now
    /\ UNCHANGED <<now, state, call, saves, overlapped>>

Expired(t) == state # NoState /\ t >= state.set + TTL

\* Redis drops a key whose TTL is over; the next save starts a new count, which
\* a save that read the old one spoils.
Tick ==
    /\ now < MaxTime
    /\ now' = now + 1
    /\ IF Expired(now')
       THEN /\ state' = NoState
            /\ saves' = 0
            /\ overlapped' = \E c \in Calls : Writing(c)
       ELSE UNCHANGED <<state, saves, overlapped>>
    /\ UNCHANGED <<endedAt, call>>

SaveStep(c) == SaveStart(c) \/ SaveRoom(c) \/ SaveGet(c) \/ SaveMerge(c) \/ SaveSet(c) \/ SaveError(c)

Next == (\E c \in Calls : SaveStep(c)) \/ EndRoom \/ Tick

Spec == Init /\ [][Next]_vars

-----------------------------------------------------------------------------
(* Properties.                                                             *)

\* Read, change and write are three steps without a lock.  While saves have not
\* overlapped since the key appeared, none is lost: the version counts them.
VersionCounts ==
    /\ ~overlapped /\ state # NoState => state.version = saves
    /\ ~overlapped /\ state = NoState => saves = 0
    /\ ~overlapped => \A c \in Calls : Writing(c) =>
                          call[c].version = saves + (IF call[c].pc = "set" THEN 1 ELSE 0)

\* Nothing deletes the key when a room ends, and a save that read the room as
\* active may still write it.  It is gone a TTL and a request's time after.
EndedRoomForgotten ==
    ~Active /\ state # NoState => now < endedAt + CallTimeout + TTL

\* Guests reckon the film's position from updatedAt.  A slow save that
\* overwrites a newer one sets it back, by no more than one request's time.
ClockSetBack ==
    [][state # NoState /\ state' # NoState =>
          state'.updatedAt + CallTimeout >= state.updatedAt]_vars
=============================================================================
