---------------------------- MODULE RoomsProofs ----------------------------
(***************************************************************************)
(* The safety properties of Rooms, for every set of rooms, every naming of *)
(* them, any number of requests and any number of faults.                  *)
(***************************************************************************)
EXTENDS Rooms, TLAPS, FiniteSetTheorems

(***************************************************************************)
(* The inductive invariant.                                                *)
(***************************************************************************)

\* Exactly one actor's UPDATE has ended a room that has ended.
EndedInv ==
    \A r \in Rooms :
        /\ status[r] = "ended" => \E a \in Actors : ended[r] = {a}
        /\ status[r] # "ended" => ended[r] = {}

\* Who goes on to delete the LiveKit room is the actor whose UPDATE won.
DeleteInv ==
    \A a \in Actors : actor[a].pc = "delete" =>
        status[actor[a].r] = "ended" /\ a \in ended[actor[a].r]

\* A room id that is being inserted is known to nobody else yet.
InsertInv ==
    \A a \in Actors : actor[a].pc = "insert" =>
        /\ status[actor[a].r] = "none"
        /\ \A b \in Actors \ {a} : actor[b].r # actor[a].r

\* The closer's list holds rows only.
TodoInv == \A r \in todo : status[r] # "none"

Inv == TypeOK /\ EndedInv /\ DeleteInv /\ InsertInv /\ TodoInv /\ EndedIsEmptied

-----------------------------------------------------------------------------
(* Type correctness.                                                       *)

\* An actor that is at work has a room.
LEMMA ActorTarget ==
    ASSUME TypeOK, NEW a \in Actors, actor[a].pc # "idle"
    PROVE  actor[a].r \in Rooms
BY DEF TypeOK

\* What Return, Goto and Start do to the actors, one by one.
LEMMA ActorEffect ==
    ASSUME TypeOK, NEW a \in Actors
    PROVE  /\ Return(a) => /\ actor' \in [Actors -> [pc: PCs, r: Rooms \cup {NoRoom}]]
                           /\ actor'[a].pc = "idle" /\ actor'[a].r = NoRoom
                           /\ \A b \in Actors \ {a} : actor'[b] = actor[b]
           /\ \A pc \in PCs : Goto(a, pc) =>
                /\ actor' \in [Actors -> [pc: PCs, r: Rooms \cup {NoRoom}]]
                /\ actor'[a].pc = pc /\ actor'[a].r = actor[a].r
                /\ \A b \in Actors \ {a} : actor'[b] = actor[b]
           /\ \A r \in Rooms, pc \in PCs : Start(a, r, pc) =>
                /\ actor[a].pc = "idle"
                /\ actor' \in [Actors -> [pc: PCs, r: Rooms \cup {NoRoom}]]
                /\ actor'[a].pc = pc /\ actor'[a].r = r
                /\ \A b \in Actors \ {a} : actor'[b] = actor[b]
<1>1. Return(a) => /\ actor' \in [Actors -> [pc: PCs, r: Rooms \cup {NoRoom}]]
                   /\ actor'[a].pc = "idle" /\ actor'[a].r = NoRoom
                   /\ \A b \in Actors \ {a} : actor'[b] = actor[b]
  BY DEF TypeOK, Return, IdleActor, PCs
<1>2. ASSUME NEW pc \in PCs, Goto(a, pc)
      PROVE  /\ actor' \in [Actors -> [pc: PCs, r: Rooms \cup {NoRoom}]]
             /\ actor'[a].pc = pc /\ actor'[a].r = actor[a].r
             /\ \A b \in Actors \ {a} : actor'[b] = actor[b]
  <2>1. actor' = [actor EXCEPT ![a] = [@ EXCEPT !.pc = pc]] BY <1>2 DEF Goto
  <2> QED BY <2>1 DEF TypeOK
<1>3. ASSUME NEW r \in Rooms, NEW pc \in PCs, Start(a, r, pc)
      PROVE  /\ actor[a].pc = "idle"
             /\ actor' \in [Actors -> [pc: PCs, r: Rooms \cup {NoRoom}]]
             /\ actor'[a].pc = pc /\ actor'[a].r = r
             /\ \A b \in Actors \ {a} : actor'[b] = actor[b]
  BY <1>3 DEF TypeOK, Start
<1> QED BY <1>1, <1>2, <1>3

\* The actors stay well-typed.
LEMMA ActorsStep ==
    ASSUME TypeOK, NEW a \in Actors
    PROVE  LET ActorsOK == /\ actor' \in [Actors -> [pc: PCs, r: Rooms \cup {NoRoom}]]
                           /\ \A b \in Actors : actor'[b].pc = "idle" <=> actor'[b].r = NoRoom
           IN  /\ Return(a) => ActorsOK
               /\ \A pc \in PCs \ {"idle"} : actor[a].pc # "idle" /\ Goto(a, pc) => ActorsOK
               /\ \A r \in Rooms, pc \in PCs \ {"idle"} : Start(a, r, pc) => ActorsOK
<1>0. \A b \in Actors : actor[b].pc = "idle" <=> actor[b].r = NoRoom BY DEF TypeOK
<1>1. ASSUME Return(a)
      PROVE  \A b \in Actors : actor'[b].pc = "idle" <=> actor'[b].r = NoRoom
  BY <1>0, <1>1, ActorEffect
<1>2. ASSUME NEW pc \in PCs \ {"idle"}, actor[a].pc # "idle", Goto(a, pc)
      PROVE  \A b \in Actors : actor'[b].pc = "idle" <=> actor'[b].r = NoRoom
  BY <1>0, <1>2, ActorEffect
<1>3. ASSUME NEW r \in Rooms, NEW pc \in PCs \ {"idle"}, Start(a, r, pc)
      PROVE  \A b \in Actors : actor'[b].pc = "idle" <=> actor'[b].r = NoRoom
  BY <1>0, <1>3, ActorEffect, RoomsAssumption
<1> QED BY <1>1, <1>2, <1>3, ActorEffect

\* The initial state is well-typed.
LEMMA TypeOKInit == Init => TypeOK
BY RoomsAssumption DEF Init, TypeOK, IdleActor, PCs

\* Every action keeps the types.
LEMMA TypeOKStep ==
    ASSUME TypeOK, [Next]_vars
    PROVE  TypeOK'
<1> USE RoomsAssumption
<1> DEFINE ActorsOK == /\ actor \in [Actors -> [pc: PCs, r: Rooms \cup {NoRoom}]]
                       /\ \A a \in Actors : actor[a].pc = "idle" <=> actor[a].r = NoRoom
           Rest == /\ stale \subseteq Rooms /\ movie \subseteq Rooms /\ token \subseteq Rooms
                   /\ todo \subseteq Rooms /\ counted \subseteq Rooms /\ leaked \subseteq Rooms
                   /\ reopened \subseteq Rooms /\ faults \in 0 .. MaxFaults
           Row == /\ status \in [Rooms -> {"none", "active", "ended"}]
                  /\ ended \in [Rooms -> SUBSET Actors]
           LK == livekit \in [Names -> {"absent", "empty", "occupied"}]
<1>0. /\ TypeOK <=> ActorsOK /\ Rest /\ Row /\ LK
      /\ TypeOK' <=> ActorsOK' /\ Rest' /\ Row' /\ LK'
  BY DEF TypeOK
<1>a. ActorsOK /\ Rest /\ Row /\ LK BY <1>0
<1>b. \A a \in Actors : /\ Return(a) => ActorsOK'
                        /\ \A pc \in PCs \ {"idle"} : actor[a].pc # "idle" /\ Goto(a, pc) => ActorsOK'
                        /\ \A r \in Rooms, pc \in PCs \ {"idle"} : Start(a, r, pc) => ActorsOK'
  BY ActorsStep
<1>c. \A c \in Calls : c \in Actors BY DEF Actors
<1>d. Closer \in Actors BY DEF Actors
<1> HIDE DEF ActorsOK
<1>1. ASSUME NEW c \in Calls, NEW r \in Rooms,
             CreateLiveKit(c, r) \/ CreateLiveKitError(c, r) \/ JoinRead(c, r)
             \/ UpdateRead(c, r) \/ EndStart(c, r)
      PROVE  TypeOK'
  <2>1. ActorsOK'
    <3>1. UNCHANGED actor \/ \E pc \in PCs \ {"idle"} : Start(c, r, pc)
      BY <1>1 DEF CreateLiveKit, CreateLiveKitError, JoinRead, UpdateRead, EndStart, PCs
    <3> QED BY <1>a, <1>b, <1>c, <3>1 DEF ActorsOK
  <2>2. Row' BY <1>a, <1>1 DEF CreateLiveKit, CreateLiveKitError, JoinRead, UpdateRead, EndStart
  <2>3. LK' BY <1>a, <1>1 DEF CreateLiveKit, CreateLiveKitError, JoinRead, UpdateRead, EndStart
  <2>4. Rest'
    <3>1. reopened' \subseteq Rooms
      BY <1>a, <1>1 DEF CreateLiveKit, CreateLiveKitError, JoinRead, UpdateRead, EndStart, Reopen
    <3>2. faults' \in 0 .. MaxFaults
      BY <1>a, <1>1 DEF CreateLiveKit, CreateLiveKitError, JoinRead, UpdateRead, EndStart, Fault
    <3> QED BY <1>a, <1>1, <3>1, <3>2
            DEF CreateLiveKit, CreateLiveKitError, JoinRead, UpdateRead, EndStart
  <2> QED BY <1>0, <2>1, <2>2, <2>3, <2>4
<1>2. ASSUME NEW c \in Calls,
             CreateRow(c) \/ CreateRowError(c) \/ JoinReply(c) \/ UpdateWrite(c)
      PROVE  TypeOK'
  <2>0. c \in Actors /\ actor[c].r \in Rooms
    BY <1>2, <1>c, ActorTarget DEF CreateRow, CreateRowError, JoinReply, UpdateWrite
  <2>1. ActorsOK' BY <1>b, <1>2, <2>0 DEF CreateRow, CreateRowError, JoinReply, UpdateWrite
  <2>2. Row' BY <1>a, <1>2, <2>0 DEF CreateRow, CreateRowError, JoinReply, UpdateWrite
  <2>3. LK' BY <1>a, <1>2 DEF CreateRow, CreateRowError, JoinReply, UpdateWrite
  <2>4. Rest' BY <1>a, <1>2, <2>0 DEF CreateRow, CreateRowError, JoinReply, UpdateWrite, Fault
  <2> QED BY <1>0, <2>1, <2>2, <2>3, <2>4
<1>3. ASSUME NEW a \in Actors, EndStep(a)
      PROVE  TypeOK'
  <2> USE DEF EndStep, EndRead, EndReadError, EndRow, EndRowError, EndLiveKit, EndLiveKitError
  <2>0. actor[a].pc # "idle" /\ actor[a].r \in Rooms BY <1>3, ActorTarget
  <2>1. ActorsOK'
    <3>1. Return(a) \/ \E pc \in PCs \ {"idle"} : Goto(a, pc) BY <1>3 DEF PCs
    <3> QED BY <1>b, <2>0, <3>1
  <2>2. Row' BY <1>a, <1>3, <2>0
  <2>3. LK' BY <1>a, <1>3, <2>0
  <2>4. Rest' BY <1>a, <1>3, <2>0 DEF Fault, Count
  <2> QED BY <1>0, <2>1, <2>2, <2>3, <2>4
<1>4. ASSUME CloserList \/ CloserNext
      PROVE  TypeOK'
  <2>1. ActorsOK'
    <3>1. UNCHANGED actor \/ \E r \in Rooms : Start(Closer, r, "read")
      BY <1>4, <1>a DEF CloserList, CloserNext
    <3> QED BY <1>a, <1>b, <1>d, <3>1 DEF ActorsOK, PCs
  <2> QED BY <1>0, <1>a, <1>4, <2>1 DEF CloserList, CloserNext
<1>5. ASSUME NEW r \in Rooms, Age(r) \/ Connect(r) \/ ExpireToken(r)
      PROVE  TypeOK'
  <2>1. ActorsOK' BY <1>a, <1>5 DEF Age, Connect, ExpireToken, ActorsOK
  <2> QED BY <1>0, <1>a, <1>5, <2>1 DEF Age, Connect, ExpireToken, Reopen
<1>6. ASSUME NEW n \in Names, Disconnect(n) \/ EmptyTimeout(n)
      PROVE  TypeOK'
  <2>1. ActorsOK' BY <1>a, <1>6 DEF Disconnect, EmptyTimeout, ActorsOK
  <2> QED BY <1>0, <1>a, <1>6, <2>1 DEF Disconnect, EmptyTimeout
<1>7. ASSUME Restart
      PROVE  TypeOK'
  <2>1. ActorsOK' BY <1>7 DEF Restart, ActorsOK, IdleActor, PCs
  <2>2. {actor[a].r : a \in {b \in Actors : actor[b].pc = "delete"}} \subseteq Rooms
    BY ActorTarget
  <2> QED BY <1>0, <1>a, <1>7, <2>1, <2>2 DEF Restart, Fault
<1>8. CASE UNCHANGED vars BY <1>8 DEF vars, TypeOK
<1> QED BY <1>1, <1>2, <1>3, <1>4, <1>5, <1>6, <1>7, <1>8, <1>c, <1>d
        DEF Next, CallStep, CloserStep

-----------------------------------------------------------------------------
(* The invariant is inductive.                                             *)

\* There is no room and no work initially.
LEMMA InvInit == Init => Inv
<1> SUFFICES ASSUME Init PROVE Inv OBVIOUS
<1>1. TypeOK BY TypeOKInit
<1> QED BY <1>1 DEF Inv, Init, EndedInv, DeleteInv, InsertInv, TodoInv, EndedIsEmptied, IdleActor

\* A step that writes no row, opens no LiveKit room and neither begins nor ends
\* a deletion keeps the invariant: every actor stays as it is, goes on with its
\* room, becomes idle or takes up a room that has a row.
LEMMA QuietInv ==
    ASSUME Inv, TypeOK', status' = status, ended' = ended,
           leaked \subseteq leaked', reopened \subseteq reopened',
           \A r \in todo' : status[r] # "none",
           \A n \in Names : livekit'[n] # "absent" => livekit[n] # "absent",
           \A a \in Actors :
               \/ actor'[a] = actor[a]
               \/ /\ actor[a].pc # "delete"
                  /\ actor'[a].pc \notin {"insert", "delete"}
                  /\ \/ actor'[a].r = NoRoom
                     \/ actor'[a].r = actor[a].r
                     \/ actor'[a].r \in Rooms /\ status[actor'[a].r] # "none"
    PROVE  Inv'
<1>1. TypeOK /\ EndedInv /\ DeleteInv /\ InsertInv /\ TodoInv /\ EndedIsEmptied BY DEF Inv
<1>2. EndedInv' /\ TodoInv' BY <1>1 DEF EndedInv, TodoInv
<1>3. DeleteInv' BY <1>1 DEF DeleteInv
<1>4. InsertInv'
  <2> SUFFICES ASSUME NEW a \in Actors, actor'[a].pc = "insert"
               PROVE  /\ status[actor'[a].r] = "none"
                      /\ \A b \in Actors \ {a} : actor'[b].r # actor'[a].r
    BY DEF InsertInv
  <2>1. actor'[a] = actor[a] OBVIOUS
  <2>2. /\ status[actor[a].r] = "none" /\ \A b \in Actors \ {a} : actor[b].r # actor[a].r
        /\ actor[a].r \in Rooms
    BY <1>1, <2>1, ActorTarget DEF InsertInv
  <2> QED BY <2>1, <2>2, RoomsAssumption
<1>5. EndedIsEmptied'
  <2>1. \A r \in Rooms : Name[r] \in Names BY RoomsAssumption
  <2>2. \A a \in Actors : actor[a].pc = "delete" => actor'[a] = actor[a] OBVIOUS
  <2> QED BY <1>1, <2>1, <2>2 DEF EndedIsEmptied
<1> QED BY <1>2, <1>3, <1>4, <1>5 DEF Inv

\* Opening a LiveKit room records the ended rooms of its name as reopened.
LEMMA ReopenInv ==
    ASSUME TypeOK, EndedIsEmptied, NEW m \in Names, Reopen(m),
           status' = status, leaked' = leaked,
           \A n \in Names \ {m} : livekit'[n] = livekit[n],
           \A a \in Actors : actor[a].pc = "delete" => actor'[a] = actor[a]
    PROVE  EndedIsEmptied'
<1> SUFFICES ASSUME NEW r \in Rooms, status[r] = "ended", livekit'[Name[r]] # "absent",
                    ~\E a \in Actors : actor'[a].pc = "delete" /\ actor'[a].r = r
             PROVE  r \in leaked \/ r \in reopened'
  BY DEF EndedIsEmptied
<1>1. ~\E a \in Actors : actor[a].pc = "delete" /\ actor[a].r = r OBVIOUS
<1>2. CASE Name[r] = m
  <2>1. \A a \in Actors : actor[a] # [pc |-> "delete", r |-> r] BY <1>1
  <2> QED BY <1>2, <2>1 DEF Reopen
<1>3. CASE Name[r] # m
  <2>1. livekit'[Name[r]] = livekit[Name[r]] BY <1>3, RoomsAssumption
  <2> QED BY <1>1, <2>1 DEF EndedIsEmptied, Reopen
<1> QED BY <1>2, <1>3

\* CreateRoom's call of LiveKit takes a room id that nobody uses.
LEMMA CreateInv ==
    ASSUME Inv, TypeOK', NEW c \in Actors, NEW r \in Rooms,
           CreateLiveKit(c, r) \/ CreateLiveKitError(c, r)
    PROVE  Inv'
<1>1. TypeOK /\ EndedInv /\ DeleteInv /\ InsertInv /\ TodoInv /\ EndedIsEmptied BY DEF Inv
<1>2. /\ status[r] = "none" /\ actor[c].pc = "idle" /\ \A a \in Actors : actor[a].r # r
      /\ status' = status /\ ended' = ended /\ leaked' = leaked /\ todo' = todo
  BY DEF CreateLiveKit, CreateLiveKitError, Start
<1>3. /\ \A b \in Actors \ {c} : actor'[b] = actor[b]
      /\ actor'[c] = actor[c] \/ (actor'[c].pc = "insert" /\ actor'[c].r = r)
  BY <1>1, ActorEffect DEF CreateLiveKit, CreateLiveKitError, PCs
<1>4. \/ livekit' = livekit /\ reopened' = reopened
      \/ Reopen(Name[r]) /\ \A n \in Names \ {Name[r]} : livekit'[n] = livekit[n]
  BY <1>1 DEF CreateLiveKit, CreateLiveKitError, TypeOK
<1>5. EndedInv' /\ TodoInv' BY <1>1, <1>2 DEF EndedInv, TodoInv
<1>6. DeleteInv' BY <1>1, <1>2, <1>3 DEF DeleteInv
<1>7. InsertInv' BY <1>1, <1>2, <1>3 DEF InsertInv
<1>8. EndedIsEmptied'
  <2>1. \A a \in Actors : actor[a].pc = "delete" => actor'[a] = actor[a] BY <1>2, <1>3
  <2>2. CASE livekit' = livekit /\ reopened' = reopened
    BY <1>1, <1>2, <2>1, <2>2 DEF EndedIsEmptied
  <2>3. CASE Reopen(Name[r]) /\ \A n \in Names \ {Name[r]} : livekit'[n] = livekit[n]
    BY <1>1, <1>2, <2>1, <2>3, ReopenInv, RoomsAssumption
  <2> QED BY <1>4, <2>2, <2>3
<1> QED BY <1>5, <1>6, <1>7, <1>8 DEF Inv

\* The INSERT, answered or not, makes a room active that nobody has ended.
LEMMA InsertedInv ==
    ASSUME Inv, TypeOK', NEW c \in Actors, CreateRow(c) \/ CreateRowError(c)
    PROVE  Inv'
<1> DEFINE r == actor[c].r
<1>1. TypeOK /\ EndedInv /\ DeleteInv /\ InsertInv /\ TodoInv /\ EndedIsEmptied BY DEF Inv
<1>2. /\ actor[c].pc = "insert" /\ Return(c)
      /\ ended' = ended /\ leaked' = leaked /\ reopened' = reopened /\ todo' = todo
      /\ livekit' = livekit
      /\ status' = status \/ status' = [status EXCEPT ![r] = "active"]
  BY DEF CreateRow, CreateRowError
<1>3. /\ actor'[c].pc = "idle" /\ actor'[c].r = NoRoom
      /\ \A b \in Actors \ {c} : actor'[b] = actor[b]
  BY <1>1, <1>2, ActorEffect
<1>4. r \in Rooms /\ status[r] = "none" /\ \A b \in Actors \ {c} : actor[b].r # r
  BY <1>1, <1>2, ActorTarget DEF InsertInv
<1>5. /\ \A q \in Rooms \ {r} : status'[q] = status[q]
      /\ status'[r] \in {"none", "active"}
  BY <1>1, <1>2, <1>4 DEF TypeOK
<1> HIDE DEF r
<1>6. EndedInv' BY <1>1, <1>2, <1>4, <1>5 DEF EndedInv
<1>7. TodoInv' BY <1>1, <1>2, <1>4, <1>5 DEF TodoInv, TypeOK
<1>8. \A b \in Actors : actor'[b].pc # "idle" => /\ b # c /\ actor'[b] = actor[b]
                                                 /\ actor[b].r \in Rooms \ {r}
  BY <1>1, <1>3, <1>4, ActorTarget
<1>9. DeleteInv' BY <1>1, <1>2, <1>5, <1>8 DEF DeleteInv
<1>10. InsertInv'
  <2> SUFFICES ASSUME NEW a \in Actors, actor'[a].pc = "insert"
               PROVE  /\ status'[actor'[a].r] = "none"
                      /\ \A b \in Actors \ {a} : actor'[b].r # actor'[a].r
    BY DEF InsertInv
  <2>1. actor'[a] = actor[a] /\ actor[a].r \in Rooms \ {r} BY <1>8
  <2> QED BY <1>1, <1>3, <1>5, <2>1, RoomsAssumption DEF InsertInv
<1>11. EndedIsEmptied'
  <2>1. \A a \in Actors : actor[a].pc = "delete" => actor'[a] = actor[a] BY <1>2, <1>3
  <2>2. \A q \in Rooms : status'[q] = "ended" => status[q] = "ended" BY <1>5
  <2> QED BY <1>1, <1>2, <2>1, <2>2 DEF EndedIsEmptied
<1> QED BY <1>6, <1>7, <1>9, <1>10, <1>11 DEF Inv

\* The UPDATE that ends a room: of all the actors that read it as active, only
\* the first finds it active still, and that one deletes the LiveKit room or
\* leaves it behind.
LEMMA EndRowInv ==
    ASSUME Inv, TypeOK', NEW a \in Actors, EndRow(a) \/ EndRowError(a)
    PROVE  Inv'
<1> DEFINE r == actor[a].r
<1>1. TypeOK /\ EndedInv /\ DeleteInv /\ InsertInv /\ TodoInv /\ EndedIsEmptied BY DEF Inv
<1>2. /\ actor[a].pc = "update"
      /\ livekit' = livekit /\ reopened' = reopened /\ todo' = todo
      /\ leaked \subseteq leaked'
  BY DEF EndRow, EndRowError
<1>3. r \in Rooms BY <1>1, <1>2, ActorTarget
<1>4. CASE status' = status /\ ended' = ended /\ Return(a)
  <2>1. /\ actor'[a].r = NoRoom /\ actor'[a].pc = "idle"
        /\ \A b \in Actors \ {a} : actor'[b] = actor[b]
    BY <1>1, <1>4, ActorEffect
  <2>2. \A b \in Actors :
               \/ actor'[b] = actor[b]
               \/ /\ actor[b].pc # "delete"
                  /\ actor'[b].pc \notin {"insert", "delete"}
                  /\ \/ actor'[b].r = NoRoom
                     \/ actor'[b].r = actor[b].r
                     \/ actor'[b].r \in Rooms /\ status[actor'[b].r] # "none"
    BY <1>2, <2>1
  <2>3. \A q \in todo' : status[q] # "none" BY <1>1, <1>2 DEF TodoInv
  <2>4. \A n \in Names : livekit'[n] # "absent" => livekit[n] # "absent" BY <1>2
  <2> QED BY <1>2, <1>4, <2>2, <2>3, <2>4, QuietInv
<1>5. CASE /\ status[r] = "active"
           /\ status' = [status EXCEPT ![r] = "ended"]
           /\ ended' = [ended EXCEPT ![r] = @ \cup {a}]
           /\ Goto(a, "delete") \/ (Return(a) /\ r \in leaked')
  <2>1. /\ \A q \in Rooms \ {r} : status'[q] = status[q] /\ ended'[q] = ended[q]
        /\ status'[r] = "ended" /\ ended'[r] = {a}
    BY <1>1, <1>3, <1>5 DEF TypeOK, EndedInv
  <2>2. /\ \A b \in Actors \ {a} : actor'[b] = actor[b]
        /\ \/ actor'[a].pc = "delete" /\ actor'[a].r = r
           \/ actor'[a].pc = "idle" /\ actor'[a].r = NoRoom /\ r \in leaked'
    BY <1>1, <1>5, ActorEffect DEF PCs
  <2> HIDE DEF r
  <2>3. \A b \in Actors \ {a} : actor[b].pc \in {"insert", "delete"}
                                    => actor[b].r \in Rooms \ {r}
    BY <1>1, <1>5, ActorTarget DEF DeleteInv, InsertInv
  <2>4. EndedInv' BY <1>1, <2>1 DEF EndedInv
  <2>5. TodoInv' BY <1>1, <1>2, <2>1 DEF TodoInv, TypeOK
  <2>6. DeleteInv' BY <1>1, <2>1, <2>2, <2>3 DEF DeleteInv
  <2>7. InsertInv'
    <3> SUFFICES ASSUME NEW d \in Actors, actor'[d].pc = "insert"
                 PROVE  /\ status'[actor'[d].r] = "none"
                        /\ \A b \in Actors \ {d} : actor'[b].r # actor'[d].r
      BY DEF InsertInv
    <3>1. d # a /\ actor'[d] = actor[d] /\ actor[d].r \in Rooms \ {r} BY <2>2, <2>3
    <3> QED BY <1>1, <2>1, <2>2, <3>1, RoomsAssumption DEF InsertInv
  <2>8. EndedIsEmptied'
    <3> SUFFICES ASSUME NEW q \in Rooms, status'[q] = "ended", livekit'[Name[q]] # "absent"
                 PROVE  \/ \E b \in Actors : actor'[b].pc = "delete" /\ actor'[b].r = q
                        \/ q \in leaked' \/ q \in reopened'
      BY DEF EndedIsEmptied
    <3>1. CASE q = r BY <2>2, <3>1
    <3>2. CASE q # r
      <4>1. status[q] = "ended" BY <2>1, <3>2
      <4>2. \A b \in Actors : actor[b].pc = "delete" => actor'[b] = actor[b] BY <1>2, <2>2
      <4> QED BY <1>1, <1>2, <4>1, <4>2 DEF EndedIsEmptied
    <3> QED BY <3>1, <3>2
  <2> QED BY <2>4, <2>5, <2>6, <2>7, <2>8 DEF Inv
<1> QED
  <2>1. CASE EndRow(a) BY <1>4, <1>5, <2>1 DEF EndRow, Endable, Active
  <2>2. CASE EndRowError(a) BY <1>4, <1>5, <2>2 DEF EndRowError, Endable, Active
  <2> QED BY <2>1, <2>2

\* The deletion empties the LiveKit room, or fails and is recorded.
LEMMA EndLiveKitInv ==
    ASSUME Inv, TypeOK', NEW a \in Actors, EndLiveKit(a) \/ EndLiveKitError(a)
    PROVE  Inv'
<1> DEFINE r == actor[a].r
<1>1. TypeOK /\ EndedInv /\ DeleteInv /\ InsertInv /\ TodoInv /\ EndedIsEmptied BY DEF Inv
<1>2. /\ actor[a].pc = "delete" /\ Return(a)
      /\ status' = status /\ ended' = ended /\ reopened' = reopened /\ todo' = todo
      /\ leaked \subseteq leaked'
      /\ \/ livekit' = [livekit EXCEPT ![Name[r]] = "absent"]
         \/ livekit' = livekit /\ r \in leaked'
  BY DEF EndLiveKit, EndLiveKitError
<1>3. /\ \A b \in Actors \ {a} : actor'[b] = actor[b]
      /\ actor'[a].pc = "idle" /\ actor'[a].r = NoRoom
  BY <1>1, <1>2, ActorEffect
<1>4. r \in Rooms /\ Name[r] \in Names BY <1>1, <1>2, ActorTarget, RoomsAssumption
<1>5. EndedInv' /\ TodoInv' BY <1>1, <1>2 DEF EndedInv, TodoInv
<1>6. DeleteInv' BY <1>1, <1>2, <1>3 DEF DeleteInv
<1>7. InsertInv'
  <2> SUFFICES ASSUME NEW d \in Actors, actor'[d].pc = "insert"
               PROVE  /\ status'[actor'[d].r] = "none"
                      /\ \A b \in Actors \ {d} : actor'[b].r # actor'[d].r
    BY DEF InsertInv
  <2>1. actor'[d] = actor[d] /\ actor[d].r \in Rooms BY <1>1, <1>3, ActorTarget
  <2> QED BY <1>1, <1>2, <1>3, <2>1, RoomsAssumption DEF InsertInv
<1>8. EndedIsEmptied'
  <2> SUFFICES ASSUME NEW q \in Rooms, status'[q] = "ended", livekit'[Name[q]] # "absent"
               PROVE  \/ \E b \in Actors : actor'[b].pc = "delete" /\ actor'[b].r = q
                      \/ q \in leaked' \/ q \in reopened'
    BY DEF EndedIsEmptied
  <2>1. Name[q] \in Names BY RoomsAssumption
  <2>2. livekit[Name[q]] # "absent" /\ (q = r => q \in leaked')
    BY <1>1, <1>2, <1>4, <2>1 DEF TypeOK
  <2>3. CASE q = r BY <2>2, <2>3
  <2>4. CASE q # r
    <3>1. \A b \in Actors : actor[b].pc = "delete" /\ actor[b].r = q => actor'[b] = actor[b]
      BY <1>3, <2>4
    <3> QED BY <1>1, <1>2, <2>2, <3>1 DEF EndedIsEmptied
  <2> QED BY <2>3, <2>4
<1> QED BY <1>5, <1>6, <1>7, <1>8 DEF Inv

\* A token holder who connects may open the room of one that has ended.
LEMMA ConnectInv ==
    ASSUME Inv, TypeOK', NEW r \in Rooms, Connect(r)
    PROVE  Inv'
<1>1. TypeOK /\ EndedInv /\ DeleteInv /\ InsertInv /\ TodoInv /\ EndedIsEmptied BY DEF Inv
<1>2. /\ status' = status /\ ended' = ended /\ leaked' = leaked /\ todo' = todo
      /\ actor' = actor /\ Reopen(Name[r])
  BY DEF Connect
<1>3. EndedInv' /\ TodoInv' /\ DeleteInv' /\ InsertInv'
  BY <1>1, <1>2 DEF EndedInv, TodoInv, DeleteInv, InsertInv
<1>4. \A n \in Names \ {Name[r]} : livekit'[n] = livekit[n] BY <1>1 DEF Connect, TypeOK
<1>5. EndedIsEmptied' BY <1>1, <1>2, <1>4, ReopenInv, RoomsAssumption
<1> QED BY <1>3, <1>5 DEF Inv

\* A crash loses the deletions that were still to come.
LEMMA RestartInv ==
    ASSUME Inv, TypeOK', Restart
    PROVE  Inv'
<1>1. TypeOK /\ EndedInv /\ DeleteInv /\ InsertInv /\ TodoInv /\ EndedIsEmptied BY DEF Inv
<1>2. /\ status' = status /\ ended' = ended /\ reopened' = reopened /\ livekit' = livekit
      /\ todo' = {}
      /\ leaked' = leaked \cup {actor[a].r : a \in {b \in Actors : actor[b].pc = "delete"}}
      /\ \A a \in Actors : actor'[a].pc = "idle"
  BY DEF Restart, IdleActor
<1>3. EndedInv' /\ TodoInv' /\ DeleteInv' /\ InsertInv'
  BY <1>1, <1>2 DEF EndedInv, TodoInv, DeleteInv, InsertInv
<1>4. EndedIsEmptied' BY <1>1, <1>2 DEF EndedIsEmptied
<1> QED BY <1>3, <1>4 DEF Inv

\* The remaining steps write no row and open no LiveKit room.
LEMMA QuietSteps ==
    ASSUME Inv, TypeOK',
           \/ \E c \in Calls, r \in Rooms : JoinRead(c, r) \/ UpdateRead(c, r) \/ EndStart(c, r)
           \/ \E c \in Calls : JoinReply(c) \/ UpdateWrite(c)
           \/ \E a \in Actors : EndRead(a) \/ EndReadError(a)
           \/ CloserList \/ CloserNext
           \/ \E r \in Rooms : Age(r) \/ ExpireToken(r)
           \/ \E n \in Names : Disconnect(n) \/ EmptyTimeout(n)
           \/ UNCHANGED vars
    PROVE  Inv'
<1>1. TypeOK /\ TodoInv BY DEF Inv
<1> DEFINE Quiet(a) == \/ actor'[a] = actor[a]
                       \/ /\ actor[a].pc # "delete"
                          /\ actor'[a].pc \notin {"insert", "delete"}
                          /\ \/ actor'[a].r = NoRoom
                             \/ actor'[a].r = actor[a].r
                             \/ actor'[a].r \in Rooms /\ status[actor'[a].r] # "none"
           Same == status' = status /\ ended' = ended /\ leaked' = leaked /\ reopened' = reopened
<1> SUFFICES ASSUME TRUE
             PROVE  /\ Same
                    /\ \A r \in todo' : status[r] # "none"
                    /\ \A n \in Names : livekit'[n] # "absent" => livekit[n] # "absent"
                    /\ \A a \in Actors : Quiet(a)
  BY QuietInv
<1>c. \A c \in Calls : c \in Actors BY DEF Actors
<1>d. Closer \in Actors BY DEF Actors
<1>2. ASSUME NEW c \in Calls, NEW r \in Rooms,
             JoinRead(c, r) \/ UpdateRead(c, r) \/ EndStart(c, r)
      PROVE  /\ Same /\ todo' = todo /\ livekit' = livekit
             /\ \A a \in Actors : Quiet(a)
  <2>1. Same /\ todo' = todo /\ livekit' = livekit /\ status[r] # "none"
    BY <1>2 DEF JoinRead, UpdateRead, EndStart, Active
  <2>2. PICK pc \in {"join", "media", "read"} : Start(c, r, pc)
    BY <1>2 DEF JoinRead, UpdateRead, EndStart
  <2>3. /\ actor[c].pc = "idle" /\ actor'[c].pc = pc /\ actor'[c].r = r
        /\ \A b \in Actors \ {c} : actor'[b] = actor[b]
    BY <1>1, <1>c, <2>2, ActorEffect DEF PCs
  <2> QED BY <2>1, <2>2, <2>3
<1>3. ASSUME NEW a \in Actors, \/ JoinReply(a) \/ UpdateWrite(a)
                               \/ EndRead(a) \/ EndReadError(a)
      PROVE  /\ Same /\ todo' = todo /\ livekit' = livekit
             /\ \A b \in Actors : Quiet(b)
  <2>1. Same /\ todo' = todo /\ livekit' = livekit /\ actor[a].pc # "delete"
    BY <1>3 DEF JoinReply, UpdateWrite, EndRead, EndReadError
  <2>2. Return(a) \/ Goto(a, "update") BY <1>3 DEF JoinReply, UpdateWrite, EndRead, EndReadError
  <2>3. /\ \/ actor'[a].pc = "idle" /\ actor'[a].r = NoRoom
           \/ actor'[a].pc = "update" /\ actor'[a].r = actor[a].r
        /\ \A b \in Actors \ {a} : actor'[b] = actor[b]
    BY <1>1, <2>2, ActorEffect DEF PCs
  <2> QED BY <2>1, <2>3
<1>4. ASSUME CloserList
      PROVE  /\ Same /\ livekit' = livekit /\ actor' = actor
             /\ \A r \in todo' : status[r] # "none"
  BY <1>4 DEF CloserList, Active
<1>5. ASSUME CloserNext
      PROVE  /\ Same /\ livekit' = livekit
             /\ \A r \in todo' : status[r] # "none"
             /\ \A a \in Actors : Quiet(a)
  <2>1. PICK r \in todo : Start(Closer, r, "read") /\ todo' = todo \ {r} BY <1>5 DEF CloserNext
  <2>2. r \in Rooms /\ status[r] # "none" BY <1>1 DEF TypeOK, TodoInv
  <2>3. /\ actor[Closer].pc = "idle" /\ actor'[Closer].pc = "read" /\ actor'[Closer].r = r
        /\ \A b \in Actors \ {Closer} : actor'[b] = actor[b]
    BY <1>1, <1>d, <2>1, <2>2, ActorEffect DEF PCs
  <2>4. Same /\ livekit' = livekit BY <1>5 DEF CloserNext
  <2>5. \A q \in todo' : status[q] # "none" BY <1>1, <2>1 DEF TodoInv
  <2> QED BY <2>2, <2>3, <2>4, <2>5
<1>6. ASSUME NEW n \in Names, Disconnect(n) \/ EmptyTimeout(n)
      PROVE  /\ Same /\ todo' = todo /\ actor' = actor
             /\ \A m \in Names : livekit'[m] # "absent" => livekit[m] # "absent"
  BY <1>1, <1>6 DEF Disconnect, EmptyTimeout, TypeOK
<1>7. ASSUME NEW r \in Rooms, Age(r) \/ ExpireToken(r)
      PROVE  Same /\ todo' = todo /\ actor' = actor /\ livekit' = livekit
  BY <1>7 DEF Age, ExpireToken
<1>8. ASSUME UNCHANGED vars
      PROVE  Same /\ todo' = todo /\ actor' = actor /\ livekit' = livekit
  BY <1>8 DEF vars
<1> HIDE DEF Same
<1>9. \A r \in todo : status[r] # "none" BY <1>1 DEF TodoInv
<1> QED BY <1>2, <1>3, <1>4, <1>5, <1>6, <1>7, <1>8, <1>9, <1>c

\* Every step keeps the invariant.
LEMMA InvStep ==
    ASSUME Inv, [Next]_vars
    PROVE  Inv'
<1>1. TypeOK' BY TypeOKStep DEF Inv
<1>2. Closer \in Actors /\ \A c \in Calls : c \in Actors BY DEF Actors
<1>3. ASSUME NEW a \in Actors, EndStep(a)
      PROVE  Inv'
  BY <1>1, <1>3, QuietSteps, EndRowInv, EndLiveKitInv DEF EndStep
<1>4. ASSUME NEW c \in Calls, CallStep(c)
      PROVE  Inv'
  BY <1>1, <1>2, <1>3, <1>4, QuietSteps, InsertedInv DEF CallStep
<1>5. ASSUME CloserStep
      PROVE  Inv'
  BY <1>1, <1>2, <1>3, <1>5, QuietSteps DEF CloserStep
<1>6. ASSUME NEW c \in Calls, NEW r \in Rooms,
             CreateLiveKit(c, r) \/ CreateLiveKitError(c, r) \/ JoinRead(c, r)
             \/ UpdateRead(c, r) \/ EndStart(c, r)
      PROVE  Inv'
  BY <1>1, <1>2, <1>6, CreateInv, QuietSteps
<1>7. ASSUME NEW r \in Rooms, Age(r) \/ Connect(r) \/ ExpireToken(r)
      PROVE  Inv'
  BY <1>1, <1>7, ConnectInv, QuietSteps
<1>8. ASSUME NEW n \in Names, Disconnect(n) \/ EmptyTimeout(n)
      PROVE  Inv'
  BY <1>1, <1>8, QuietSteps
<1>9. ASSUME UNCHANGED vars
      PROVE  Inv'
  BY <1>1, <1>9, QuietSteps
<1> QED BY <1>1, <1>4, <1>5, <1>6, <1>7, <1>8, <1>9, RestartInv DEF Next

\* The invariant holds in every reachable state of every instance.
THEOREM Invariance == Spec => []Inv
BY InvInit, InvStep, PTL DEF Spec

-----------------------------------------------------------------------------
(* The properties.                                                         *)

\* Rows, LiveKit rooms and actors stay well-typed; every row is active or ended.
THEOREM TypeCorrect == Spec => []TypeOK
BY Invariance, PTL DEF Inv

\* Among any number of handlers and the closer that end a room at once, the
\* guard of the UPDATE lets one through, and only that one deletes in LiveKit.
THEOREM OneActorEnds == Spec => []EndedByOne
<1>1. Inv => EndedByOne
  <2> SUFFICES ASSUME Inv, NEW r \in Rooms
               PROVE  /\ Cardinality(ended[r]) = IF status[r] = "ended" THEN 1 ELSE 0
                      /\ Cardinality({a \in Actors : actor[a].pc = "delete" /\ actor[a].r = r}) <= 1
    BY DEF EndedByOne
  <2> DEFINE Deleters == {a \in Actors : actor[a].pc = "delete" /\ actor[a].r = r}
  <2>1. /\ status[r] = "ended" => \E a \in Actors : ended[r] = {a}
        /\ status[r] # "ended" => ended[r] = {}
    BY DEF Inv, EndedInv
  <2>2. Cardinality(ended[r]) = IF status[r] = "ended" THEN 1 ELSE 0
    BY <2>1, FS_EmptySet, FS_Singleton
  <2>3. Deleters \subseteq ended[r] BY DEF Inv, DeleteInv
  <2>4. Deleters = {} \/ \E a \in Actors : Deleters = {a} BY <2>1, <2>3
  <2>5. Cardinality(Deleters) <= 1
    <3> HIDE DEF Deleters
    <3>1. CASE Deleters = {}
      <4>1. Cardinality(Deleters) = 0 BY <3>1, FS_EmptySet
      <4> QED BY <4>1
    <3>2. CASE \E a \in Actors : Deleters = {a}
      <4>1. Cardinality(Deleters) = 1 BY <3>2, FS_Singleton
      <4> QED BY <4>1
    <3> QED BY <2>4, <3>1, <3>2
  <2> QED BY <2>2, <2>5
<1> QED BY <1>1, Invariance, PTL

\* A room that has ended is gone from LiveKit, but for a deletion still to come,
\* a fault, or someone opening the name again.
THEOREM EndedRoomIsEmptied == Spec => []EndedIsEmptied
BY Invariance, PTL DEF Inv

\* The service throws people out of an active room only by ending a namesake.
THEOREM OccupiedIsNotCut == Spec => OccupiedNotCut
<1>1. ASSUME Inv, [Next]_vars, NEW r \in Rooms, Active(r), livekit[Name[r]] = "occupied",
             livekit'[Name[r]] = "absent"
      PROVE  \E q \in Namesakes(r) : status[q] = "ended"
  <2>0. /\ Name[r] \in Names /\ livekit \in [Names -> {"absent", "empty", "occupied"}]
        /\ \A q \in Rooms : Name[q] \in Names
    BY <1>1, RoomsAssumption DEF Inv, TypeOK
  <2>1. PICK a \in Actors : EndLiveKit(a) \/ EndLiveKitError(a)
    <3>1. ASSUME livekit' = livekit PROVE FALSE BY <1>1, <3>1
    <3>2. ASSUME NEW c \in Calls, NEW q \in Rooms, CreateLiveKit(c, q) \/ CreateLiveKitError(c, q)
          PROVE  FALSE
      BY <1>1, <2>0, <3>2 DEF CreateLiveKit, CreateLiveKitError
    <3>3. ASSUME NEW q \in Rooms, Connect(q) PROVE FALSE BY <1>1, <2>0, <3>3 DEF Connect
    <3>4. ASSUME NEW n \in Names, Disconnect(n) \/ EmptyTimeout(n) PROVE FALSE
      BY <1>1, <2>0, <3>4 DEF Disconnect, EmptyTimeout
    <3>5. ASSUME NEW c \in Calls, NEW q \in Rooms,
                 JoinRead(c, q) \/ UpdateRead(c, q) \/ EndStart(c, q)
          PROVE  FALSE
      BY <3>1, <3>5 DEF JoinRead, UpdateRead, EndStart
    <3>6. ASSUME NEW c \in Calls, CreateRow(c) \/ CreateRowError(c) \/ JoinReply(c) \/ UpdateWrite(c)
          PROVE  FALSE
      BY <3>1, <3>6 DEF CreateRow, CreateRowError, JoinReply, UpdateWrite
    <3>7. ASSUME NEW a \in Actors, EndStep(a)
          PROVE  EndLiveKit(a) \/ EndLiveKitError(a)
      BY <3>1, <3>7 DEF EndStep, EndRead, EndReadError, EndRow, EndRowError
    <3>8. ASSUME CloserList \/ CloserNext PROVE FALSE BY <3>1, <3>8 DEF CloserList, CloserNext
    <3>9. ASSUME NEW q \in Rooms, Age(q) \/ ExpireToken(q) PROVE FALSE
      BY <3>1, <3>9 DEF Age, ExpireToken
    <3>10. ASSUME Restart \/ UNCHANGED vars PROVE FALSE BY <3>1, <3>10 DEF Restart, vars
    <3>11. Closer \in Actors /\ \A c \in Calls : c \in Actors BY DEF Actors
    <3> QED BY <1>1, <3>2, <3>3, <3>4, <3>5, <3>6, <3>7, <3>8, <3>9, <3>10, <3>11
            DEF Next, CallStep, CloserStep
  <2>2. /\ actor[a].pc = "delete" /\ livekit' = [livekit EXCEPT ![Name[actor[a].r]] = "absent"]
    BY <1>1, <2>1 DEF EndLiveKit, EndLiveKitError
  <2>3. actor[a].r \in Rooms /\ status[actor[a].r] = "ended"
    BY <1>1, <2>2, ActorTarget DEF Inv, DeleteInv
  <2>4. Name[actor[a].r] = Name[r] BY <1>1, <2>0, <2>2, <2>3
  <2>5. actor[a].r # r BY <1>1, <2>3 DEF Active
  <2> QED BY <2>3, <2>4, <2>5 DEF Namesakes
<1>2. Inv /\ [Next]_vars =>
        [\A r \in Rooms : /\ Active(r) /\ Active(r)'
                          /\ livekit[Name[r]] = "occupied"
                          /\ livekit'[Name[r]] = "absent"
                          => \E q \in Namesakes(r) : status[q] = "ended"]_vars
  BY <1>1
<1> QED BY <1>2, Invariance, PTL DEF Spec, OccupiedNotCut

-----------------------------------------------------------------------------
(* LiveKit rooms without a row.                                            *)

\* A join token, issued or about to be, is for a row.
TokenInv ==
    /\ \A r \in token : status[r] # "none"
    /\ \A a \in Actors : actor[a].pc = "join" => status[actor[a].r] # "none"

\* Rows are never deleted; they only become active or ended.
LEMMA RowsStay ==
    ASSUME TypeOK, [Next]_vars, NEW r \in Rooms, status[r] # "none"
    PROVE  status'[r] # "none"
<1>1. ASSUME status' = status PROVE status'[r] # "none" BY <1>1
<1>2. ASSUME NEW a \in Actors, CreateRow(a) \/ CreateRowError(a) \/ EndRow(a) \/ EndRowError(a)
      PROVE  status'[r] # "none"
  <2>1. \/ status' = status
        \/ status' = [status EXCEPT ![actor[a].r] = "active"]
        \/ status' = [status EXCEPT ![actor[a].r] = "ended"]
    BY <1>2 DEF CreateRow, CreateRowError, EndRow, EndRowError
  <2> QED BY <2>1 DEF TypeOK
<1>3. ASSUME NEW c \in Calls, NEW q \in Rooms,
             \/ CreateLiveKit(c, q) \/ CreateLiveKitError(c, q)
             \/ JoinRead(c, q) \/ UpdateRead(c, q) \/ EndStart(c, q)
      PROVE  status' = status
  BY <1>3 DEF CreateLiveKit, CreateLiveKitError, JoinRead, UpdateRead, EndStart
<1>4. ASSUME NEW a \in Actors, \/ JoinReply(a) \/ UpdateWrite(a) \/ EndRead(a) \/ EndReadError(a)
                               \/ EndLiveKit(a) \/ EndLiveKitError(a)
      PROVE  status' = status
  BY <1>4 DEF JoinReply, UpdateWrite, EndRead, EndReadError, EndLiveKit, EndLiveKitError
<1>5. ASSUME CloserList \/ CloserNext \/ Restart \/ UNCHANGED vars
      PROVE  status' = status
  BY <1>5 DEF CloserList, CloserNext, Restart, vars
<1>6. ASSUME NEW q \in Rooms, Age(q) \/ Connect(q) \/ ExpireToken(q)
      PROVE  status' = status
  BY <1>6 DEF Age, Connect, ExpireToken
<1>7. ASSUME NEW n \in Names, Disconnect(n) \/ EmptyTimeout(n)
      PROVE  status' = status
  BY <1>7 DEF Disconnect, EmptyTimeout
<1>8. Closer \in Actors /\ \A c \in Calls : c \in Actors BY DEF Actors
<1> QED BY <1>1, <1>2, <1>3, <1>4, <1>5, <1>6, <1>7, <1>8 DEF Next, CallStep, CloserStep, EndStep

\* Only JoinReply issues tokens, and only JoinRead, which found the row active,
\* leads to it.
LEMMA TokenStep ==
    ASSUME Inv, TokenInv, [Next]_vars
    PROVE  TokenInv'
<1>1. TypeOK BY DEF Inv
<1>2. token \subseteq Rooms /\ \A a \in Actors : actor[a].pc = "join" => actor[a].r \in Rooms
  BY <1>1, ActorTarget DEF TypeOK
<1> DEFINE Calm == /\ \A r \in token' : r \in token \/ (r \in Rooms /\ status[r] # "none")
                   /\ \A a \in Actors : actor'[a].pc = "join" =>
                         \/ actor'[a] = actor[a]
                         \/ actor'[a].r \in Rooms /\ status[actor'[a].r] # "none"
<1>3. Closer \in Actors /\ \A c \in Calls : c \in Actors BY DEF Actors
<1>4. ASSUME NEW c \in Calls, NEW r \in Rooms, JoinRead(c, r) PROVE Calm
  <2>1. status[r] # "none" /\ token' = token /\ Start(c, r, "join") BY <1>4 DEF JoinRead, Active
  <2>2. actor'[c].r = r /\ \A b \in Actors \ {c} : actor'[b] = actor[b]
    BY <1>1, <1>3, <2>1, ActorEffect DEF PCs
  <2> QED BY <2>1, <2>2
<1>5. ASSUME NEW c \in Calls, JoinReply(c) PROVE Calm
  <2>1. actor[c].pc = "join" /\ token' = token \cup {actor[c].r} /\ Return(c) BY <1>5 DEF JoinReply
  <2>2. actor'[c].pc = "idle" /\ \A b \in Actors \ {c} : actor'[b] = actor[b]
    BY <1>1, <1>3, <2>1, ActorEffect
  <2>3. actor[c].r \in Rooms /\ status[actor[c].r] # "none" BY <1>2, <1>3, <2>1 DEF TokenInv
  <2> QED BY <2>1, <2>2, <2>3
<1>6. ASSUME NEW c \in Calls, NEW r \in Rooms,
             CreateLiveKit(c, r) \/ CreateLiveKitError(c, r) \/ UpdateRead(c, r) \/ EndStart(c, r)
      PROVE  Calm
  <2>1. token' = token BY <1>6 DEF CreateLiveKit, CreateLiveKitError, UpdateRead, EndStart
  <2>2. actor' = actor \/ \E pc \in {"insert", "media", "read"} : Start(c, r, pc)
    BY <1>6 DEF CreateLiveKit, CreateLiveKitError, UpdateRead, EndStart
  <2>3. \A b \in Actors : actor'[b] = actor[b] \/ actor'[b].pc # "join"
    BY <1>1, <1>3, <2>2, ActorEffect DEF PCs
  <2> QED BY <2>1, <2>3
<1>7. ASSUME NEW a \in Actors, CreateRow(a) \/ CreateRowError(a) \/ UpdateWrite(a) \/ EndStep(a)
      PROVE  Calm
  <2>1. token' = token
    BY <1>7 DEF CreateRow, CreateRowError, UpdateWrite, EndStep, EndRead, EndReadError, EndRow,
                EndRowError, EndLiveKit, EndLiveKitError
  <2>2. Return(a) \/ Goto(a, "update") \/ Goto(a, "delete")
    BY <1>7 DEF CreateRow, CreateRowError, UpdateWrite, EndStep, EndRead, EndReadError, EndRow,
                EndRowError, EndLiveKit, EndLiveKitError
  <2>3. \A b \in Actors : actor'[b] = actor[b] \/ actor'[b].pc # "join"
    BY <1>1, <2>2, ActorEffect DEF PCs
  <2> QED BY <2>1, <2>3
<1>8. ASSUME CloserList \/ CloserNext PROVE Calm
  <2>1. token' = token BY <1>8 DEF CloserList, CloserNext
  <2>2. actor' = actor \/ \E r \in Rooms : Start(Closer, r, "read")
    BY <1>1, <1>8 DEF CloserList, CloserNext, TypeOK
  <2>3. \A b \in Actors : actor'[b] = actor[b] \/ actor'[b].pc # "join"
    BY <1>1, <1>3, <2>2, ActorEffect DEF PCs
  <2> QED BY <2>1, <2>3
<1>9. ASSUME NEW r \in Rooms, Age(r) \/ Connect(r) \/ ExpireToken(r) PROVE Calm
  BY <1>9 DEF Age, Connect, ExpireToken
<1>10. ASSUME NEW n \in Names, Disconnect(n) \/ EmptyTimeout(n) PROVE Calm
  BY <1>10 DEF Disconnect, EmptyTimeout
<1>11. ASSUME Restart PROVE Calm
  BY <1>11 DEF Restart, IdleActor
<1>12. ASSUME UNCHANGED vars PROVE Calm
  BY <1>12 DEF vars
<1>13. Calm
  <2> HIDE DEF Calm
  <2> QED BY <1>3, <1>4, <1>5, <1>6, <1>7, <1>8, <1>9, <1>10, <1>11, <1>12
          DEF Next, CallStep, CloserStep
<1>14. \A r \in Rooms : status[r] # "none" => status'[r] # "none" BY <1>1, RowsStay
<1> QED BY <1>2, <1>13, <1>14 DEF TokenInv

\* However CreateRoom fails between LiveKit and the INSERT, nobody ever gets into
\* a LiveKit room whose name no row has.
THEOREM OccupiedRoomHasRow == Spec => []OccupiedHasRow
<1>1. Init => TokenInv /\ OccupiedHasRow
  <2> SUFFICES ASSUME Init PROVE TokenInv /\ OccupiedHasRow OBVIOUS
  <2>1. TokenInv BY DEF Init, TokenInv, IdleActor
  <2>2. OccupiedHasRow BY DEF Init, OccupiedHasRow
  <2> QED BY <2>1, <2>2
<1>2. ASSUME Inv, TokenInv, OccupiedHasRow, [Next]_vars
      PROVE  OccupiedHasRow'
  <2>1. TypeOK BY <1>2 DEF Inv
  <2>2. \A r \in Rooms : status[r] # "none" => status'[r] # "none" BY <1>2, <2>1, RowsStay
  <2>3. ASSUME NEW n \in Names, livekit'[n] = "occupied"
        PROVE  livekit[n] = "occupied" \/ \E r \in token : Name[r] = n
    <3> DEFINE Goal == livekit[n] = "occupied" \/ \E r \in token : Name[r] = n
    <3>0. livekit \in [Names -> {"absent", "empty", "occupied"}] /\ \A r \in Rooms : Name[r] \in Names
      BY <2>1, RoomsAssumption DEF TypeOK
    <3>1. ASSUME livekit' = livekit PROVE Goal BY <2>3, <3>1
    <3>2. ASSUME NEW c \in Calls, NEW q \in Rooms, CreateLiveKit(c, q) \/ CreateLiveKitError(c, q)
          PROVE  Goal
      BY <2>3, <3>0, <3>2 DEF CreateLiveKit, CreateLiveKitError
    <3>3. ASSUME NEW q \in Rooms, Connect(q) PROVE Goal BY <2>3, <3>0, <3>3 DEF Connect
    <3>4. ASSUME NEW m \in Names, Disconnect(m) \/ EmptyTimeout(m) PROVE Goal
      BY <2>3, <3>0, <3>4 DEF Disconnect, EmptyTimeout
    <3>5. ASSUME NEW a \in Actors, EndLiveKit(a) \/ EndLiveKitError(a) PROVE Goal
      BY <2>3, <3>0, <3>5 DEF EndLiveKit, EndLiveKitError
    <3>6. ASSUME NEW c \in Calls, NEW q \in Rooms,
                 JoinRead(c, q) \/ UpdateRead(c, q) \/ EndStart(c, q)
          PROVE  livekit' = livekit
      BY <3>6 DEF JoinRead, UpdateRead, EndStart
    <3>7. ASSUME NEW a \in Actors,
                 \/ CreateRow(a) \/ CreateRowError(a) \/ JoinReply(a) \/ UpdateWrite(a)
                 \/ EndRead(a) \/ EndReadError(a) \/ EndRow(a) \/ EndRowError(a)
          PROVE  livekit' = livekit
      BY <3>7 DEF CreateRow, CreateRowError, JoinReply, UpdateWrite, EndRead, EndReadError,
                  EndRow, EndRowError
    <3>8. ASSUME CloserList \/ CloserNext \/ Restart \/ UNCHANGED vars
          PROVE  livekit' = livekit
      BY <3>8 DEF CloserList, CloserNext, Restart, vars
    <3>9. ASSUME NEW q \in Rooms, Age(q) \/ ExpireToken(q) PROVE livekit' = livekit
      BY <3>9 DEF Age, ExpireToken
    <3>10. Closer \in Actors /\ \A c \in Calls : c \in Actors BY DEF Actors
    <3> HIDE DEF Goal
    <3>11. Goal
      BY <1>2, <3>1, <3>2, <3>3, <3>4, <3>5, <3>6, <3>7, <3>8, <3>9, <3>10
         DEF Next, CallStep, CloserStep, EndStep
    <3> QED BY <3>11 DEF Goal
  <2>4. \A r \in token : r \in Rooms /\ status[r] # "none" BY <1>2, <2>1 DEF TypeOK, TokenInv
  <2> QED BY <1>2, <2>2, <2>3, <2>4 DEF OccupiedHasRow
<1> QED BY <1>1, <1>2, TokenStep, Invariance, PTL DEF Spec
=============================================================================
