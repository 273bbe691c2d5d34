---------------------- MODULE RoomPlaybackStateProofs ----------------------
(***************************************************************************)
(* The safety properties of RoomPlaybackState, for any number of saves at  *)
(* once and every TTL, request timeout and length of a run.                *)
(***************************************************************************)
EXTENDS RoomPlaybackState, TLAPS

States(t) == [version: 1 .. MaxSaves, updatedAt: 0 .. t, set: 0 .. t]
CallRecords(t) == [pc: {"idle", "room", "get", "merge", "set"}, start: 0 .. t,
                   version: 0 .. MaxSaves, updatedAt: 0 .. t]

(***************************************************************************)
(* The inductive invariant.                                                *)
(***************************************************************************)

\* A save r that has passed the room's test began before the room ended, at e;
\* the state it is about to write has a version and was made after it began.
CallOK(r, e) ==
    /\ r.pc \in {"get", "merge", "set"} => r.start <= e
    /\ r.pc = "set" => r.version > 0 /\ r.start <= r.updatedAt

CallInv == \A c \in Calls : CallOK(call[c], endedAt)

\* The key has not expired, and was written by a save that was in time.
StateInv ==
    state # NoState => /\ now < state.set + TTL
                       /\ state.set <= endedAt + CallTimeout

\* A room does not end in the future.
EndedInv == endedAt <= now \/ endedAt = Never

\* Saves have not overlapped as long as one at most is between read and write.
AloneInv == ~overlapped => \A c, d \in Calls : Writing(c) /\ Writing(d) => c = d

Inv == TypeOK /\ CallInv /\ StateInv /\ EndedInv /\ AloneInv /\ VersionCounts

-----------------------------------------------------------------------------
(* Lemmas.                                                                 *)

\* TypeOK in terms of the sets above.
LEMMA TypeFacts ==
    ASSUME TypeOK
    PROVE  /\ now \in Nat /\ now <= MaxTime /\ endedAt \in Nat /\ saves \in Nat
           /\ TTL \in Nat \ {0} /\ CallTimeout \in Nat /\ MaxTime \in Nat /\ MaxSaves \in Nat
           /\ state \in States(now) \cup {NoState}
           /\ call \in [Calls -> CallRecords(now)]
BY TimesAssumption DEF TypeOK, States, CallRecords, Never

\* TypeOK from the sets above.
LEMMA TypeFrom ==
    ASSUME now \in 0 .. MaxTime, endedAt \in 0 .. Never, state \in States(now) \cup {NoState},
           call \in [Calls -> CallRecords(now)], saves \in 0 .. MaxSaves, overlapped \in BOOLEAN
    PROVE  TypeOK
BY DEF TypeOK, States, CallRecords

\* What was well-typed stays so while time passes.
LEMMA TypesGrow ==
    ASSUME NEW t \in Nat, NEW u \in Nat, t <= u
    PROVE  /\ \A x \in States(t) : x \in States(u)
           /\ \A x \in CallRecords(t) : x \in CallRecords(u)
<1>1. \A i \in 0 .. t : i \in 0 .. u OBVIOUS
<1> QED BY <1>1 DEF States, CallRecords

\* A slot without a request satisfies everything said of requests.
LEMMA IdleOK ==
    ASSUME NEW t \in Nat, NEW e \in Nat
    PROVE  IdleCall \in CallRecords(t) /\ CallOK(IdleCall, e) /\ IdleCall.pc = "idle"
<1>1. 0 \in 0 .. t /\ 0 \in 0 .. MaxSaves BY TimesAssumption
<1> QED BY <1>1 DEF IdleCall, CallRecords, CallOK

\* A step that changes one request, and neither the clock nor the room.
LEMMA CallChange ==
    ASSUME Inv, NEW c \in Calls, NEW x \in CallRecords(now), CallOK(x, endedAt),
           call' = [call EXCEPT ![c] = x], now' = now, endedAt' = endedAt
    PROVE  /\ CallInv' /\ EndedInv' /\ call' \in [Calls -> CallRecords(now')]
           /\ call'[c] = x
           /\ \A d \in Calls \ {c} : call'[d] = call[d] /\ (Writing(d)' <=> Writing(d))
           /\ Writing(c)' <=> x.pc \in {"merge", "set"}
<1>1. call \in [Calls -> CallRecords(now)] BY TypeFacts DEF Inv
<1>2. call'[c] = x /\ \A d \in Calls \ {c} : call'[d] = call[d] BY <1>1
<1>3. call' \in [Calls -> CallRecords(now')] BY <1>1
<1>4. CallInv' /\ EndedInv' BY <1>2 DEF Inv, CallInv, EndedInv, Never
<1> QED BY <1>2, <1>3, <1>4 DEF Writing

\* The initial state satisfies the invariant.
LEMMA InvInit == Init => Inv
<1> SUFFICES ASSUME Init PROVE Inv OBVIOUS
<1>1. now = 0 /\ endedAt = MaxTime + 1 /\ state = NoState /\ saves = 0 /\ overlapped = FALSE
  BY DEF Init, Never
<1>2. IdleCall \in CallRecords(0) /\ CallOK(IdleCall, endedAt) /\ IdleCall.pc = "idle"
  BY <1>1, IdleOK, TimesAssumption
<1>3. call \in [Calls -> CallRecords(0)] /\ \A c \in Calls : call[c] = IdleCall
  BY <1>2 DEF Init
<1>4. TypeOK
  <2>1. now \in 0 .. MaxTime /\ endedAt \in 0 .. Never /\ saves \in 0 .. MaxSaves
    BY <1>1, TimesAssumption DEF Never
  <2> QED BY <1>1, <1>3, <2>1, TypeFrom
<1>5. \A c \in Calls : ~Writing(c) BY <1>2, <1>3 DEF Writing
<1>6. CallInv BY <1>2, <1>3 DEF CallInv
<1> QED BY <1>1, <1>4, <1>5, <1>6 DEF Inv, StateInv, EndedInv, AloneInv, VersionCounts, Never

-----------------------------------------------------------------------------
(* The steps of a save.                                                    *)

\* The steps before the read, and every way to end without a write.
LEMMA SaveOutsideInv ==
    ASSUME Inv, NEW c \in Calls, SaveStart(c) \/ SaveRoom(c) \/ SaveError(c)
    PROVE  Inv'
<1>1. /\ now' = now /\ endedAt' = endedAt /\ state' = state /\ saves' = saves
      /\ overlapped' = overlapped
  BY DEF SaveStart, SaveRoom, SaveError
<1>2. /\ now \in Nat /\ now <= MaxTime /\ endedAt \in Nat /\ call[c] \in CallRecords(now)
      /\ 0 \in 0 .. now /\ now \in 0 .. now /\ 0 \in 0 .. MaxSaves
  BY TypeFacts, TimesAssumption DEF Inv
<1>3. PICK x \in CallRecords(now) : /\ call' = [call EXCEPT ![c] = x] /\ CallOK(x, endedAt)
                                    /\ x.pc \notin {"merge", "set"}
  <2>1. CASE SaveStart(c)
    <3> DEFINE x == [IdleCall EXCEPT !.pc = "room", !.start = now]
    <3>1. call' = [call EXCEPT ![c] = x] BY <2>1 DEF SaveStart
    <3>2. x \in CallRecords(now) /\ x.pc = "room" BY <1>2 DEF IdleCall, CallRecords
    <3> HIDE DEF x
    <3>3. CallOK(x, endedAt) BY <3>2 DEF CallOK
    <3> QED BY <3>1, <3>2, <3>3
  <2>2. CASE SaveRoom(c)
    <3> DEFINE x == [call[c] EXCEPT !.pc = "get"]
    <3>1. call' = [call EXCEPT ![c] = x] /\ endedAt = MaxTime + 1
      BY <2>2 DEF SaveRoom, Active, Never
    <3>2. x \in CallRecords(now) /\ x.pc = "get" /\ x.start = call[c].start
      BY <1>2 DEF CallRecords
    <3>3. call[c].start \in 0 .. now BY <1>2 DEF CallRecords
    <3> HIDE DEF x
    <3>4. x.start <= endedAt BY <1>2, <3>1, <3>2, <3>3, TimesAssumption
    <3>5. CallOK(x, endedAt) BY <3>2, <3>4 DEF CallOK
    <3> QED BY <3>1, <3>2, <3>5
  <2>3. CASE SaveError(c)
    <3>1. call' = [call EXCEPT ![c] = IdleCall] BY <2>3 DEF SaveError, Return
    <3> QED BY <1>2, <3>1, IdleOK
  <2> QED BY <2>1, <2>2, <2>3
<1>4. /\ CallInv' /\ EndedInv' /\ call' \in [Calls -> CallRecords(now')]
      /\ \A d \in Calls \ {c} : call'[d] = call[d] /\ (Writing(d)' <=> Writing(d))
      /\ ~Writing(c)'
  BY <1>1, <1>3, CallChange
<1>5. TypeOK'
  <2>1. /\ now' \in 0 .. MaxTime /\ endedAt' \in 0 .. Never' /\ state' \in States(now') \cup {NoState}
        /\ saves' \in 0 .. MaxSaves /\ overlapped' \in BOOLEAN
    BY <1>1, TypeFacts DEF Inv, TypeOK, Never
  <2> QED BY <1>4, <2>1 DEF TypeOK, States, CallRecords
<1>6. StateInv' BY <1>1 DEF Inv, StateInv
<1>7. AloneInv' BY <1>1, <1>4 DEF Inv, AloneInv
<1>8. VersionCounts' BY <1>1, <1>4 DEF Inv, VersionCounts
<1> QED BY <1>4, <1>5, <1>6, <1>7, <1>8 DEF Inv

\* The read: a save that starts it while another may still write overlaps.
LEMMA SaveGetInv ==
    ASSUME Inv, NEW c \in Calls, SaveGet(c)
    PROVE  Inv'
<1> DEFINE v == IF state = NoState THEN 0 ELSE state.version
           x == [call[c] EXCEPT !.pc = "merge", !.version = v]
<1>1. /\ now' = now /\ endedAt' = endedAt /\ state' = state /\ saves' = saves
      /\ call' = [call EXCEPT ![c] = x] /\ call[c].pc = "get"
      /\ overlapped' = (overlapped \/ \E d \in Calls : Writing(d))
  BY DEF SaveGet
<1>2. call[c] \in CallRecords(now) /\ state \in States(now) \cup {NoState}
  BY TypeFacts DEF Inv
<1>3. v \in 0 .. MaxSaves BY <1>2, TimesAssumption DEF States
<1>4. ~overlapped => v = saves BY DEF Inv, VersionCounts
<1> HIDE DEF v
<1>5. x \in CallRecords(now) /\ x.pc = "merge" /\ x.version = v /\ x.start = call[c].start
  BY <1>2, <1>3 DEF CallRecords
<1> HIDE DEF x
<1>6. CallOK(x, endedAt) BY <1>1, <1>5 DEF Inv, CallInv, CallOK
<1>7. /\ CallInv' /\ EndedInv' /\ call' \in [Calls -> CallRecords(now')] /\ call'[c] = x
      /\ \A d \in Calls \ {c} : call'[d] = call[d] /\ (Writing(d)' <=> Writing(d))
  BY <1>1, <1>5, <1>6, CallChange
<1>8. TypeOK'
  <2>1. /\ now' \in 0 .. MaxTime /\ endedAt' \in 0 .. Never' /\ state' \in States(now') \cup {NoState}
        /\ saves' \in 0 .. MaxSaves
    BY <1>1, TypeFacts DEF Inv, TypeOK, Never
  <2>2. overlapped' \in BOOLEAN BY <1>1 DEF Inv, TypeOK
  <2> QED BY <1>7, <2>1, <2>2 DEF TypeOK, States, CallRecords
<1>9. StateInv' BY <1>1 DEF Inv, StateInv
<1>10. ~overlapped' => ~overlapped /\ \A d \in Calls : ~Writing(d) BY <1>1
<1>11. AloneInv' BY <1>7, <1>10 DEF AloneInv
<1>12. VersionCounts'
  <2>1. saves \in Nat BY TypeFacts DEF Inv
  <2>2. ASSUME ~overlapped', NEW d \in Calls, Writing(d)'
        PROVE  call'[d].version = saves' + (IF call'[d].pc = "set" THEN 1 ELSE 0)
    <3>1. d = c BY <1>7, <1>10, <2>2
    <3>2. call'[c].version = saves /\ call'[c].pc = "merge" BY <1>4, <1>5, <1>7, <1>10, <2>2
    <3> QED BY <1>1, <2>1, <3>1, <3>2
  <2> QED BY <1>1, <1>10, <2>2 DEF Inv, VersionCounts
<1> QED BY <1>7, <1>8, <1>9, <1>11, <1>12 DEF Inv

\* The change: the version is counted up and the clock read.
LEMMA SaveMergeInv ==
    ASSUME Inv, NEW c \in Calls, SaveMerge(c)
    PROVE  Inv'
<1> DEFINE v == call[c].version + 1
           x == [call[c] EXCEPT !.pc = "set", !.version = v, !.updatedAt = now]
<1>1. /\ now' = now /\ endedAt' = endedAt /\ state' = state /\ saves' = saves
      /\ overlapped' = overlapped
      /\ call' = [call EXCEPT ![c] = x] /\ call[c].pc = "merge" /\ call[c].version < MaxSaves
  BY DEF SaveMerge
<1>2. /\ call[c] \in CallRecords(now) /\ now \in Nat /\ now \in 0 .. now
      /\ call[c].version \in Nat /\ call[c].start \in 0 .. now
  BY TypeFacts DEF Inv, CallRecords
<1>3. v \in 0 .. MaxSaves /\ v > 0 BY <1>1, <1>2, TimesAssumption
<1> HIDE DEF v
<1>4. /\ x \in CallRecords(now) /\ x.pc = "set" /\ x.version = v /\ x.start = call[c].start
      /\ x.updatedAt = now
  BY <1>2, <1>3 DEF CallRecords
<1> HIDE DEF x
<1>5. CallOK(x, endedAt) BY <1>1, <1>2, <1>3, <1>4 DEF Inv, CallInv, CallOK
<1>6. /\ CallInv' /\ EndedInv' /\ call' \in [Calls -> CallRecords(now')] /\ call'[c] = x
      /\ \A d \in Calls \ {c} : call'[d] = call[d] /\ (Writing(d)' <=> Writing(d))
  BY <1>1, <1>4, <1>5, CallChange
<1>7. TypeOK'
  <2>1. /\ now' \in 0 .. MaxTime /\ endedAt' \in 0 .. Never' /\ state' \in States(now') \cup {NoState}
        /\ saves' \in 0 .. MaxSaves /\ overlapped' \in BOOLEAN
    BY <1>1, TypeFacts DEF Inv, TypeOK, Never
  <2> QED BY <1>6, <2>1 DEF TypeOK, States, CallRecords
<1>8. StateInv' BY <1>1 DEF Inv, StateInv
<1>9. Writing(c) BY <1>1 DEF Writing
<1>10. AloneInv' BY <1>1, <1>6, <1>9 DEF Inv, AloneInv
<1>11. VersionCounts'
  <2>1. saves \in Nat BY TypeFacts DEF Inv
  <2>2. ASSUME ~overlapped, NEW d \in Calls, Writing(d)'
        PROVE  call'[d].version = saves + (IF call'[d].pc = "set" THEN 1 ELSE 0)
    <3>1. CASE d = c
      <4>1. call[c].version = saves BY <1>1, <1>9, <2>1, <2>2 DEF Inv, VersionCounts
      <4>2. call'[c].version = saves + 1 /\ call'[c].pc = "set" BY <1>4, <1>6, <4>1 DEF v
      <4> QED BY <3>1, <4>2
    <3>2. CASE d # c
      <4>1. call'[d] = call[d] /\ Writing(d) BY <1>6, <2>2, <3>2
      <4> QED BY <2>2, <4>1 DEF Inv, VersionCounts
    <3> QED BY <3>1, <3>2
  <2> QED BY <1>1, <2>2 DEF Inv, VersionCounts
<1> QED BY <1>6, <1>7, <1>8, <1>10, <1>11 DEF Inv

\* The write: it is in time, and the only one if saves have not overlapped.
LEMMA SaveSetInv ==
    ASSUME Inv, NEW c \in Calls, SaveSet(c)
    PROVE  Inv'
<1> DEFINE s == [version |-> call[c].version, updatedAt |-> call[c].updatedAt, set |-> now]
<1>1. /\ now' = now /\ endedAt' = endedAt /\ overlapped' = overlapped
      /\ call' = [call EXCEPT ![c] = IdleCall] /\ call[c].pc = "set"
      /\ now <= call[c].start + CallTimeout /\ saves < MaxSaves
      /\ state' = s /\ saves' = saves + 1
  BY DEF SaveSet, Return, InTime
<1>2. /\ call[c] \in CallRecords(now) /\ now \in Nat /\ endedAt \in Nat /\ saves \in Nat
      /\ TTL \in Nat \ {0} /\ CallTimeout \in Nat
  BY TypeFacts DEF Inv
<1>3. /\ call[c].version \in 0 .. MaxSaves /\ call[c].updatedAt \in 0 .. now
      /\ call[c].start \in 0 .. now
  BY <1>2 DEF CallRecords
<1>4. call[c].start <= endedAt /\ call[c].version > 0 BY <1>1 DEF Inv, CallInv, CallOK
<1>5. s \in States(now)
  <2>1. call[c].version \in 1 .. MaxSaves /\ now \in 0 .. now BY <1>2, <1>3, <1>4, TimesAssumption
  <2> QED BY <1>3, <2>1 DEF States
<1>6. state' # NoState
  <2>1. s \in [version: Nat, updatedAt: Nat, set: Nat] BY <1>2, <1>3
  <2> QED BY <1>1, <2>1, NoStateAssumption
<1>7. state'.version = call[c].version /\ state'.set = now BY <1>1
<1> HIDE DEF s
<1>8. /\ CallInv' /\ EndedInv' /\ call' \in [Calls -> CallRecords(now')]
      /\ \A d \in Calls \ {c} : call'[d] = call[d] /\ (Writing(d)' <=> Writing(d))
      /\ ~Writing(c)'
  BY <1>1, <1>2, IdleOK, CallChange
<1>9. TypeOK'
  <2>1. /\ now' \in 0 .. MaxTime /\ endedAt' \in 0 .. Never' /\ overlapped' \in BOOLEAN
    BY <1>1 DEF Inv, TypeOK, Never
  <2>2. saves' \in 0 .. MaxSaves BY <1>1, <1>2, TimesAssumption
  <2>3. state' \in States(now') \cup {NoState} BY <1>1, <1>5
  <2> QED BY <1>8, <2>1, <2>2, <2>3 DEF TypeOK, States, CallRecords
<1>10. StateInv' BY <1>1, <1>2, <1>3, <1>4, <1>7 DEF StateInv
<1>11. Writing(c) BY <1>1 DEF Writing
<1>12. AloneInv' BY <1>1, <1>8 DEF Inv, AloneInv
<1>13. ~overlapped => \A d \in Calls : ~Writing(d)' BY <1>8, <1>11 DEF Inv, AloneInv
<1>14. ~overlapped => call[c].version = saves + 1 BY <1>1, <1>11 DEF Inv, VersionCounts
<1>15. VersionCounts' BY <1>1, <1>6, <1>7, <1>13, <1>14 DEF VersionCounts
<1> QED BY <1>8, <1>9, <1>10, <1>12, <1>15 DEF Inv

-----------------------------------------------------------------------------
(* The room and time.                                                      *)

\* The room ends now, after everything that happened to it.
LEMMA EndRoomInv ==
    ASSUME Inv, EndRoom
    PROVE  Inv'
<1>1. /\ now' = now /\ state' = state /\ call' = call /\ saves' = saves
      /\ overlapped' = overlapped /\ endedAt' = now
  BY DEF EndRoom
<1>2. /\ call \in [Calls -> CallRecords(now)] /\ state \in States(now) \cup {NoState}
      /\ now \in Nat /\ now <= MaxTime /\ CallTimeout \in Nat /\ MaxTime \in Nat
  BY TypeFacts DEF Inv
<1>3. TypeOK'
  <2>1. endedAt' \in 0 .. Never' BY <1>1, <1>2 DEF Never
  <2> QED BY <1>1, <2>1 DEF Inv, TypeOK, Never
<1>4. CallInv'
  <2>1. \A c \in Calls : call[c].start <= now BY <1>2 DEF CallRecords
  <2> QED BY <1>1, <2>1 DEF Inv, CallInv, CallOK
<1>5. StateInv'
  <2>1. state # NoState => state.set \in 0 .. now BY <1>2 DEF States
  <2> QED BY <1>1, <1>2, <2>1 DEF Inv, StateInv
<1>6. EndedInv' BY <1>1, <1>2 DEF EndedInv
<1>7. \A c \in Calls : Writing(c)' <=> Writing(c) BY <1>1 DEF Writing
<1>8. AloneInv' /\ VersionCounts' BY <1>1, <1>7 DEF Inv, AloneInv, VersionCounts
<1> QED BY <1>3, <1>4, <1>5, <1>6, <1>8 DEF Inv

\* Time passes; a key that expires starts a new count, unless a save has read
\* the old one.
LEMMA TickInv ==
    ASSUME Inv, Tick
    PROVE  Inv'
<1>1. /\ now < MaxTime /\ now' = now + 1 /\ call' = call /\ endedAt' = endedAt
      /\ \/ /\ state' = NoState /\ saves' = 0
            /\ overlapped' = \E c \in Calls : Writing(c)
         \/ /\ ~Expired(now') /\ state' = state /\ saves' = saves /\ overlapped' = overlapped
  BY DEF Tick
<1>2. /\ call \in [Calls -> CallRecords(now)] /\ state \in States(now) \cup {NoState}
      /\ now \in Nat /\ now <= MaxTime /\ TTL \in Nat \ {0} /\ CallTimeout \in Nat
      /\ MaxTime \in Nat /\ endedAt \in Nat /\ now' \in Nat /\ now <= now'
  BY <1>1, TypeFacts DEF Inv
<1>3. TypeOK'
  <2>1. /\ now' \in 0 .. MaxTime /\ endedAt' \in 0 .. Never'
    BY <1>1, <1>2 DEF Inv, TypeOK, Never
  <2>2. call' \in [Calls -> CallRecords(now')]
    <3>1. \A c \in Calls : call[c] \in CallRecords(now') BY <1>2, TypesGrow
    <3> QED BY <1>1, <1>2, <3>1
  <2>3. state' \in States(now') \cup {NoState} BY <1>1, <1>2, TypesGrow
  <2>4. saves' \in 0 .. MaxSaves /\ overlapped' \in BOOLEAN
    <3>1. saves \in 0 .. MaxSaves /\ overlapped \in BOOLEAN /\ 0 \in 0 .. MaxSaves
      BY TimesAssumption DEF Inv, TypeOK
    <3>2. (\E c \in Calls : Writing(c)) \in BOOLEAN OBVIOUS
    <3> QED BY <1>1, <3>1, <3>2
  <2> QED BY <2>1, <2>2, <2>3, <2>4 DEF TypeOK, States, CallRecords
<1>4. CallInv' BY <1>1 DEF Inv, CallInv
<1>5. StateInv'
  <2> SUFFICES ASSUME state' # NoState
               PROVE  now' < state'.set + TTL /\ state'.set <= endedAt' + CallTimeout
    BY DEF StateInv
  <2>1. state' = state /\ ~Expired(now') BY <1>1
  <2>2. state.set \in Nat /\ state # NoState BY <1>2, <2>1 DEF States
  <2>3. now' < state.set + TTL BY <1>2, <2>1, <2>2 DEF Expired
  <2> QED BY <1>1, <2>1, <2>2, <2>3 DEF Inv, StateInv
<1>6. EndedInv' BY <1>1, <1>2 DEF Inv, EndedInv, Never
<1>7. \A c \in Calls : Writing(c)' <=> Writing(c) BY <1>1 DEF Writing
<1>8. AloneInv' /\ VersionCounts'
  <2>1. CASE /\ state' = NoState /\ saves' = 0
             /\ overlapped' = \E c \in Calls : Writing(c)
    BY <1>7, <2>1 DEF AloneInv, VersionCounts
  <2>2. CASE state' = state /\ saves' = saves /\ overlapped' = overlapped
    BY <1>1, <1>7, <2>2 DEF Inv, AloneInv, VersionCounts
  <2> QED BY <1>1, <2>1, <2>2
<1> QED BY <1>3, <1>4, <1>5, <1>6, <1>8 DEF Inv

\* Every step keeps the invariant.
LEMMA InvStep ==
    ASSUME Inv, [Next]_vars
    PROVE  Inv'
<1>1. CASE UNCHANGED vars
  BY <1>1 DEF vars, Inv, TypeOK, CallInv, StateInv, EndedInv, AloneInv, VersionCounts, Writing,
              Never
<1> QED BY <1>1, SaveOutsideInv, SaveGetInv, SaveMergeInv, SaveSetInv, EndRoomInv, TickInv
        DEF Next, SaveStep

\* The invariant holds in every reachable state of every instance.
THEOREM Invariance == Spec => []Inv
BY InvInit, InvStep, PTL DEF Spec

-----------------------------------------------------------------------------
(* The properties.                                                         *)

\* The clock, the key and the requests stay well-typed; a stored version is
\* never 0.
THEOREM TypeCorrect == Spec => []TypeOK
BY Invariance, PTL DEF Inv

\* As long as saves do not overlap, the version counts them: none is lost.
THEOREM VersionsCountSaves == Spec => []VersionCounts
BY Invariance, PTL DEF Inv

\* The state of a room that has ended is gone a TTL and a request's time later,
\* although nothing deletes it and a late save may renew it.
THEOREM EndedRoomIsForgotten == Spec => []EndedRoomForgotten
<1>1. ASSUME Inv PROVE EndedRoomForgotten
  <2>1. /\ now \in Nat /\ endedAt \in Nat /\ TTL \in Nat /\ CallTimeout \in Nat
        /\ state # NoState => state.set \in Nat
    BY <1>1, TypeFacts DEF Inv, States
  <2> QED BY <1>1, <2>1 DEF Inv, StateInv, EndedRoomForgotten
<1> QED BY <1>1, Invariance, PTL

\* A slow save that overwrites a newer one sets updatedAt back by no more than
\* one request's time.
THEOREM ClockIsHardlySetBack == Spec => ClockSetBack
<1>1. ASSUME Inv, [Next]_vars, state # NoState, state' # NoState
      PROVE  state'.updatedAt + CallTimeout >= state.updatedAt
  <2>1. /\ state \in States(now) /\ now \in Nat /\ CallTimeout \in Nat
        /\ call \in [Calls -> CallRecords(now)]
    BY <1>1, TypeFacts DEF Inv
  <2>2. state.updatedAt \in 0 .. now BY <2>1 DEF States
  <2>3. CASE state' = state BY <2>1, <2>2, <2>3
  <2>4. ASSUME NEW c \in Calls, SaveSet(c)
        PROVE  state'.updatedAt + CallTimeout >= state.updatedAt
    <3>1. /\ call[c].pc = "set" /\ now <= call[c].start + CallTimeout
          /\ state'.updatedAt = call[c].updatedAt
      BY <2>4 DEF SaveSet, InTime
    <3>2. call[c].start <= call[c].updatedAt BY <1>1, <3>1 DEF Inv, CallInv, CallOK
    <3>3. call[c].start \in Nat /\ call[c].updatedAt \in Nat BY <2>1 DEF CallRecords
    <3> QED BY <2>1, <2>2, <3>1, <3>2, <3>3
  <2>5. \/ state' = state \/ state' = NoState \/ \E c \in Calls : SaveSet(c)
    <3>1. ASSUME NEW c \in Calls, SaveStep(c)
          PROVE  state' = state \/ SaveSet(c)
      BY <3>1 DEF SaveStep, SaveStart, SaveRoom, SaveGet, SaveMerge, SaveError
    <3>2. EndRoom \/ UNCHANGED vars => state' = state BY DEF EndRoom, vars
    <3>3. Tick => state' = state \/ state' = NoState BY DEF Tick
    <3> QED BY <1>1, <3>1, <3>2, <3>3 DEF Next
  <2> QED BY <1>1, <2>3, <2>4, <2>5
<1>2. Inv /\ [Next]_vars =>
        [state # NoState /\ state' # NoState =>
            state'.updatedAt + CallTimeout >= state.updatedAt]_vars
  BY <1>1
<1> QED BY <1>2, Invariance, PTL DEF Spec, ClockSetBack
=============================================================================
