--------------------------- MODULE SessionsProofs ---------------------------
(***************************************************************************)
(* The safety properties of Sessions, for every set of sessions, token     *)
(* pairs and requests and every lifetime and timeout.                      *)
(***************************************************************************)
EXTENDS Sessions, TLAPS

USE DEF ShapesOK

(***************************************************************************)
(* The inductive invariant.                                                *)
(***************************************************************************)

\* A stored row carries the pair whose version is the row's own; it was not
\* revoked in the future.  A row that is not stored was never revoked.
RowInv ==
    \A s \in Sessions :
        IF row[s].stored
        THEN /\ row[s].cur \in Pairs
             /\ pair[row[s].cur].s = s
             /\ pair[row[s].cur].version = row[s].version
             /\ row[s].version > 0
             /\ row[s].revoked <= now
        ELSE row[s].revoked = Never

\* A minted pair belongs to a stored session and was issued in the past; once
\* its rotation is committed (version > 0) no row overtakes it unnoticed, and a
\* revocation comes after it.
PairInv ==
    \A p \in Pairs :
        IF pair[p].s = NoSession
        THEN pair[p] = Unminted
        ELSE /\ row[pair[p].s].stored
             /\ pair[p].iat <= now
             /\ pair[p].version <= row[pair[p].s].version
             /\ pair[p].version > 0 /\ row[pair[p].s].revoked # Never
                    => pair[p].iat <= row[pair[p].s].revoked

\* Two committed pairs of one session have two versions.
DistinctInv ==
    \A p, q \in Pairs :
        pair[p].version > 0 /\ pair[p].s = pair[q].s /\ pair[p].version = pair[q].version
            => p = q

\* Only committed pairs reach a client.
DeliveredInv == \A p \in delivered : pair[p].version > 0

\* A request in progress works on a stored session with a pair of that session
\* that is committed from the rotation on; a refresh that has not rotated yet
\* began before the row expires, and its own expiry lies beyond its deadline.
CallInv ==
    \A c \in Calls : call[c].pc # "idle" =>
        /\ row[call[c].s].stored
        /\ call[c].began <= now
        /\ call[c].pc # "mint" => pair[call[c].new].s = call[c].s
        /\ call[c].pc = "reply" => pair[call[c].new].version > 0
        /\ call[c].pc = "rotate" =>
             pair[call[c].new].version = 0 /\ call[c].began + RefreshTTL <= call[c].expires
        /\ call[c].pc # "reply" => call[c].began <= row[call[c].s].expires

\* Two refreshes never hold the same pair.
HoldInv ==
    \A c, d \in Calls :
        call[c].pc = "rotate" /\ call[d].pc = "rotate" /\ call[c].new = call[d].new => c = d

\* An undisturbed session has at most one request, and what is in the cookie
\* (or on its way into it) is the row's pair.
CookieInv ==
    \A s \in Sessions : row[s].stored /\ s \notin disturbed =>
        /\ \A c, d \in Calls : call[c].s = s /\ call[d].s = s => c = d
        /\ \A c \in Calls : call[c].s = s /\ call[c].pc = "reply" => call[c].new = row[s].cur
        /\ (\A c \in Calls : call[c].s = s => call[c].pc # "reply") => jar[s] = row[s].cur

Inv == /\ TypeOK /\ RowInv /\ PairInv /\ DistinctInv /\ DeliveredInv
       /\ CallInv /\ HoldInv /\ CookieInv

-----------------------------------------------------------------------------
(* Type correctness.                                                       *)

\* A request in progress names a session, and a pair once it has minted one.
LEMMA CallTarget ==
    ASSUME TypeOK, NEW c \in Calls, call[c].pc # "idle"
    PROVE  /\ call[c].s \in Sessions
           /\ call[c].pc # "mint" => call[c].new \in Pairs
BY DEF TypeOK

\* Rotate's UPDATE, column by column: it leaves other rows alone, and of the
\* pairs it only stamps the one the request minted.
LEMMA RotateEffect ==
    ASSUME TypeOK, NEW c \in Calls, call[c].pc = "rotate", Rotate(c)
    PROVE  LET s == call[c].s
               p == call[c].new
           IN  /\ s \in Sessions /\ p \in Pairs
               /\ row' \in [Sessions -> [stored: BOOLEAN, cur: Pairs \cup {NoPair},
                                         version: Nat, expires: Nat,
                                         revoked: Nat \cup {Never}]]
               /\ pair' \in [Pairs -> [s: Sessions \cup {NoSession}, iat: Nat, version: Nat]]
               /\ \A t \in Sessions \ {s} : row'[t] = row[t]
               /\ row'[s].cur = p
               /\ row'[s].version = row[s].version + 1
               /\ row'[s].expires = call[c].expires
               /\ row'[s].stored = row[s].stored
               /\ row'[s].revoked = row[s].revoked
               /\ \A q \in Pairs \ {p} : pair'[q] = pair[q]
               /\ pair'[p].s = pair[p].s
               /\ pair'[p].iat = pair[p].iat
               /\ pair'[p].version = row[s].version + 1
<1> DEFINE s == call[c].s
           p == call[c].new
           e == call[c].expires
           r == row[s]
           v == r.version + 1
<1>1. /\ s \in Sessions /\ p \in Pairs /\ e \in Nat /\ v \in Nat
      /\ r \in [stored: BOOLEAN, cur: Pairs \cup {NoPair}, version: Nat, expires: Nat,
                revoked: Nat \cup {Never}]
      /\ pair[p] \in [s: Sessions \cup {NoSession}, iat: Nat, version: Nat]
  BY CallTarget DEF TypeOK
<1>2. Rotated(c) = [r EXCEPT !.cur = p, !.expires = e, !.version = v] BY DEF Rotated
<1>3. row' = [row EXCEPT ![s] = Rotated(c)] BY DEF Rotate
<1>4. pair' = [pair EXCEPT ![p] = [@ EXCEPT !.version = Rotated(c).version]] BY DEF Rotate
<1>5. /\ Rotated(c) \in [stored: BOOLEAN, cur: Pairs \cup {NoPair}, version: Nat,
                         expires: Nat, revoked: Nat \cup {Never}]
      /\ Rotated(c).cur = p /\ Rotated(c).version = v /\ Rotated(c).expires = e
      /\ Rotated(c).stored = r.stored /\ Rotated(c).revoked = r.revoked
  <2> HIDE DEF r, p, e, v
  <2> QED BY <1>1, <1>2
<1> HIDE DEF r, p, e, v, s
<1>6. /\ row' \in [Sessions -> [stored: BOOLEAN, cur: Pairs \cup {NoPair}, version: Nat,
                                expires: Nat, revoked: Nat \cup {Never}]]
      /\ row'[s] = Rotated(c)
      /\ \A t \in Sessions \ {s} : row'[t] = row[t]
  BY <1>1, <1>3, <1>5 DEF TypeOK
<1>7. /\ pair' \in [Pairs -> [s: Sessions \cup {NoSession}, iat: Nat, version: Nat]]
      /\ \A q \in Pairs \ {p} : pair'[q] = pair[q]
      /\ pair'[p].s = pair[p].s /\ pair'[p].iat = pair[p].iat /\ pair'[p].version = v
  BY <1>1, <1>4, <1>5 DEF TypeOK
<1> QED BY <1>1, <1>5, <1>6, <1>7 DEF r, p, e, v, s

\* The initial state is well-typed.
LEMMA TypeOKInit == Init => TypeOK
BY NamesAssumption, TimesAssumption
   DEF Init, TypeOK, TimesOK, NoRow, Unminted, IdleCall, Never

\* Every action keeps the types.
LEMMA ShapesStep ==
    ASSUME TypeOK, [Next]_vars
    PROVE  ShapesOK'
<1> USE NamesAssumption, TimesAssumption DEF TypeOK, Never
<1>1. ASSUME NEW c \in Calls, NEW s \in Sessions, NEW p \in Pairs, Login(c, s, p)
      PROVE  ShapesOK'
  BY <1>1 DEF Login, LoginRow
<1>2. ASSUME NEW c \in Calls, NEW s \in Sessions, NEW p \in Pairs, LoginError(c, s, p)
      PROVE  ShapesOK'
  BY <1>2 DEF LoginError, LoginRow
<1>3. ASSUME NEW c \in Calls, NEW s \in Sessions, RefreshRead(c, s)
      PROVE  ShapesOK'
  BY <1>3 DEF RefreshRead
<1>4. ASSUME NEW c \in Calls, NEW p \in Pairs, RefreshMint(c, p)
      PROVE  ShapesOK'
  <2>1. call' = [call EXCEPT ![c] = [@ EXCEPT !.pc = "rotate", !.new = p,
                                              !.expires = now + RefreshTTL]]
    BY <1>4 DEF RefreshMint
  <2> QED BY <1>4, <2>1, CallTarget DEF RefreshMint
<1>6. ASSUME NEW c \in Calls, RefreshRotate(c)
      PROVE  ShapesOK'
  <2>1. call[c].pc = "rotate" /\ Rotate(c) BY <1>6 DEF RefreshRotate
  <2>2. call' = [call EXCEPT ![c] = [@ EXCEPT !.pc = "reply"]] BY <1>6 DEF RefreshRotate
  <2>3. call[c].s \in Sessions /\ call[c].new \in Pairs BY <2>1, CallTarget
  <2>4. call' \in [Calls -> [pc: {"idle", "mint", "rotate", "reply"},
                             s: Sessions \cup {NoSession}, old: Pairs \cup {NoPair},
                             new: Pairs \cup {NoPair}, began: Nat, expires: Nat]]
    <3>1. call[c] \in [pc: {"idle", "mint", "rotate", "reply"},
                       s: Sessions \cup {NoSession}, old: Pairs \cup {NoPair},
                       new: Pairs \cup {NoPair}, began: Nat, expires: Nat]
      OBVIOUS
    <3>2. [call[c] EXCEPT !.pc = "reply"] \in
              [pc: {"idle", "mint", "rotate", "reply"},
               s: Sessions \cup {NoSession}, old: Pairs \cup {NoPair},
               new: Pairs \cup {NoPair}, began: Nat, expires: Nat]
      <4> HIDE NamesAssumption, TimesAssumption
      <4> QED BY <3>1
    <3> QED BY <2>2, <3>2
  <2>5. \A d \in Calls : /\ call'[d].pc = "idle" <=> call'[d].s = NoSession
                         /\ call'[d].pc \in {"rotate", "reply"} <=> call'[d].new # NoPair
    <3>1. \A d \in Calls \ {c} : call'[d] = call[d] BY <2>2
    <3>2. call'[c].pc = "reply" /\ call'[c].s = call[c].s /\ call'[c].new = call[c].new BY <2>2
    <3> QED BY <2>1, <2>3, <3>1, <3>2
  <2> QED BY <1>6, <2>1, <2>4, <2>5, RotateEffect DEF RefreshRotate
<1>7. ASSUME NEW c \in Calls, RefreshRotateError(c)
      PROVE  ShapesOK'
  <2>1. call[c].pc = "rotate" /\ Rotate(c) BY <1>7 DEF RefreshRotateError
  <2> QED BY <1>7, <2>1, RotateEffect DEF RefreshRotateError, Return, IdleCall
<1>8. ASSUME NEW c \in Calls, RefreshAbort(c)
      PROVE  ShapesOK'
  BY <1>8 DEF RefreshAbort, Return, IdleCall
<1>9. ASSUME NEW c \in Calls, Reply(c) \/ ReplyLost(c)
      PROVE  ShapesOK'
  <2>1. call[c].s \in Sessions /\ call[c].new \in Pairs BY <1>9, CallTarget DEF Reply, ReplyLost
  <2>2. call' = [call EXCEPT ![c] = IdleCall] BY <1>9 DEF Reply, ReplyLost, Return
  <2>3. CASE Reply(c) BY <2>1, <2>2, <2>3 DEF Reply, IdleCall
  <2>4. CASE ReplyLost(c) BY <2>1, <2>2, <2>4 DEF ReplyLost, IdleCall
  <2> QED BY <1>9, <2>3, <2>4
<1>10. ASSUME NEW p \in Pairs, Revoke(p)
       PROVE  ShapesOK'
  BY <1>10 DEF Revoke
<1>11. CASE Tick BY <1>11 DEF Tick
<1>12. CASE UNCHANGED vars BY <1>12 DEF vars
<1> QED BY <1>1, <1>2, <1>3, <1>4, <1>6, <1>7, <1>8, <1>9, <1>10, <1>11, <1>12 DEF Next

\* Every action keeps stored times within a lifetime of the clock: Refresh counts
\* the new expiry from its own reading of it, and Rotate stores that.
LEMMA TimesStep ==
    ASSUME TypeOK, [Next]_vars
    PROVE  TimesOK'
<1> USE TimesAssumption DEF TypeOK, TimesOK, Never
<1>0. now \in Nat /\ now' \in Nat /\ now <= now'
  <2>1. now' = now \/ now' = now + 1
    BY DEF Next, Login, LoginError, RefreshRead, RefreshMint, RefreshRotate, RefreshRotateError,
           RefreshAbort, Reply, ReplyLost, Revoke, Tick, vars
  <2>2. now \in Nat OBVIOUS
  <2> HIDE DEF TypeOK, TimesOK
  <2> QED BY <2>1, <2>2
<1> DEFINE RowTimes(r) == r.revoked <= now' /\ r.expires <= now' + RefreshTTL
           CallTimes(x) == x.began <= now' /\ x.expires <= now' + RefreshTTL
<1>1. /\ \A s \in Sessions : RowTimes(row[s])
      /\ \A p \in Pairs : pair[p].iat <= now'
      /\ \A c \in Calls : CallTimes(call[c])
  BY <1>0
<1> SUFFICES ASSUME TRUE
             PROVE  /\ \A s \in Sessions : row'[s] = row[s] \/ RowTimes(row'[s])
                    /\ \A p \in Pairs : pair'[p].iat = pair[p].iat \/ pair'[p].iat <= now'
                    /\ \A c \in Calls : call'[c] = call[c] \/ CallTimes(call'[c])
  BY <1>1
<1>2. ASSUME NEW c \in Calls, NEW s \in Sessions, NEW p \in Pairs,
             Login(c, s, p) \/ LoginError(c, s, p)
      PROVE  /\ \A t \in Sessions : row'[t] = row[t] \/ RowTimes(row'[t])
             /\ \A q \in Pairs : pair'[q].iat = pair[q].iat \/ pair'[q].iat <= now'
             /\ \A d \in Calls : call'[d] = call[d] \/ CallTimes(call'[d])
  <2>1. now' = now BY <1>2 DEF Login, LoginError
  <2>2. \A t \in Sessions : row'[t] = row[t] \/ RowTimes(row'[t])
    BY <1>0, <1>2, <2>1 DEF Login, LoginError, LoginRow
  <2>3. \A q \in Pairs : pair'[q].iat = pair[q].iat \/ pair'[q].iat <= now'
    BY <1>0, <1>2, <2>1 DEF Login, LoginError
  <2>4. \A d \in Calls : call'[d] = call[d] \/ CallTimes(call'[d])
    BY <1>0, <1>2, <2>1 DEF Login, LoginError
  <2> QED BY <2>2, <2>3, <2>4
<1>3. ASSUME NEW c \in Calls, NEW s \in Sessions, RefreshRead(c, s)
      PROVE  /\ UNCHANGED <<row, pair>>
             /\ \A d \in Calls : call'[d] = call[d] \/ CallTimes(call'[d])
  BY <1>0, <1>3 DEF RefreshRead
<1>4. ASSUME NEW c \in Calls, NEW p \in Pairs, RefreshMint(c, p)
      PROVE  /\ UNCHANGED row
             /\ \A q \in Pairs : pair'[q].iat = pair[q].iat \/ pair'[q].iat <= now'
             /\ \A d \in Calls : call'[d] = call[d] \/ CallTimes(call'[d])
  <2>1. call' = [call EXCEPT ![c] = [@ EXCEPT !.pc = "rotate", !.new = p,
                                              !.expires = now + RefreshTTL]]
    BY <1>4 DEF RefreshMint
  <2>2. call'[c].began = call[c].began /\ call'[c].expires = now + RefreshTTL BY <2>1
  <2>3. \A d \in Calls \ {c} : call'[d] = call[d] BY <2>1
  <2>4. \A q \in Pairs : pair'[q].iat = pair[q].iat \/ pair'[q].iat <= now'
    BY <1>0, <1>4 DEF RefreshMint
  <2> QED BY <1>1, <1>4, <2>2, <2>3, <2>4 DEF RefreshMint
<1>5. ASSUME NEW c \in Calls, RefreshRotate(c) \/ RefreshRotateError(c)
      PROVE  /\ \A t \in Sessions : row'[t] = row[t] \/ RowTimes(row'[t])
             /\ \A q \in Pairs : pair'[q].iat = pair[q].iat
             /\ \A d \in Calls : call'[d] = call[d] \/ CallTimes(call'[d])
  <2>1. call[c].pc = "rotate" /\ Rotate(c) BY <1>5 DEF RefreshRotate, RefreshRotateError
  <2>2. /\ \A t \in Sessions \ {call[c].s} : row'[t] = row[t]
        /\ call[c].s \in Sessions
        /\ row'[call[c].s].expires = call[c].expires
        /\ row'[call[c].s].revoked = row[call[c].s].revoked
        /\ \A q \in Pairs : pair'[q].iat = pair[q].iat
    BY <2>1, RotateEffect
  <2>3. \A t \in Sessions : row'[t] = row[t] \/ RowTimes(row'[t]) BY <1>1, <2>2
  <2>4. \/ call' = [call EXCEPT ![c] = [@ EXCEPT !.pc = "reply"]]
        \/ call' = [call EXCEPT ![c] = IdleCall]
    BY <1>5 DEF RefreshRotate, RefreshRotateError, Return
  <2>5. \A d \in Calls : call'[d] = call[d] \/ CallTimes(call'[d])
    <3>1. CASE call' = [call EXCEPT ![c] = [@ EXCEPT !.pc = "reply"]] BY <1>1, <3>1
    <3>2. CASE call' = [call EXCEPT ![c] = IdleCall] BY <1>0, <3>2 DEF IdleCall
    <3> QED BY <2>4, <3>1, <3>2
  <2> QED BY <2>2, <2>3, <2>5
<1>6. ASSUME NEW c \in Calls, RefreshAbort(c) \/ Reply(c) \/ ReplyLost(c)
      PROVE  /\ UNCHANGED <<row, pair>>
             /\ \A d \in Calls : call'[d] = call[d] \/ CallTimes(call'[d])
  <2>1. UNCHANGED <<row, pair>> /\ call' = [call EXCEPT ![c] = IdleCall]
    BY <1>6 DEF RefreshAbort, Reply, ReplyLost, Return
  <2> QED BY <1>0, <2>1 DEF IdleCall
<1>7. ASSUME NEW p \in Pairs, Revoke(p)
      PROVE  /\ \A t \in Sessions : row'[t] = row[t] \/ RowTimes(row'[t])
             /\ UNCHANGED <<pair, call>>
  <2>1. PICK s \in Sessions : row' = [row EXCEPT ![s] = [@ EXCEPT !.revoked = now]]
    BY <1>7 DEF Revoke
  <2>2. /\ row'[s].revoked = now /\ row'[s].expires = row[s].expires
        /\ \A t \in Sessions \ {s} : row'[t] = row[t]
    BY <2>1
  <2> QED BY <1>0, <1>1, <1>7, <2>2 DEF Revoke
<1>8. ASSUME Tick \/ UNCHANGED vars
      PROVE  UNCHANGED <<row, pair, call>>
  BY <1>8 DEF Tick, vars
<1> HIDE DEF RowTimes, CallTimes, TypeOK, TimesOK
<1> QED BY <1>2, <1>3, <1>4, <1>5, <1>6, <1>7, <1>8 DEF Next

\* Every action keeps the type invariant.
LEMMA TypeOKStep ==
    ASSUME TypeOK, [Next]_vars
    PROVE  TypeOK'
BY ShapesStep, TimesStep DEF TypeOK

-----------------------------------------------------------------------------
(* The invariant is inductive.                                             *)

\* Nobody is logged in initially.
LEMMA InvInit == Init => Inv
<1> SUFFICES ASSUME Init PROVE Inv OBVIOUS
<1>1. TypeOK BY TypeOKInit
<1> QED BY <1>1, NamesAssumption
        DEF Inv, Init, RowInv, PairInv, DistinctInv, DeliveredInv, CallInv, HoldInv, CookieInv,
            NoRow, Unminted, IdleCall, Never

\* Login stores the row together with its first pair; nobody worked on the
\* session before.
LEMMA LoginInv ==
    ASSUME Inv, TypeOK', NEW c \in Calls, NEW s \in Sessions, NEW p \in Pairs,
           Login(c, s, p) \/ LoginError(c, s, p)
    PROVE  Inv'
<1> USE NamesAssumption, TimesAssumption DEF Inv, TypeOK, Never
<1>1. /\ ~row[s].stored /\ pair[p] = Unminted /\ call[c].pc = "idle"
      /\ row' = [row EXCEPT ![s] = LoginRow(p)]
      /\ pair' = [pair EXCEPT ![p] = [s |-> s, iat |-> now, version |-> 1]]
      /\ UNCHANGED <<now, jar, delivered>>
  BY DEF Login, LoginError, Idle, Fresh
<1>2. \A d \in Calls : call[d].s # s BY <1>1 DEF CallInv
<1>3. \A q \in Pairs : pair[q].s # s BY <1>1 DEF PairInv, Unminted
<1>4. /\ row'[s].stored /\ row'[s].cur = p /\ row'[s].version = 1
      /\ row'[s].expires = now + RefreshTTL /\ row'[s].revoked = Never
      /\ \A t \in Sessions \ {s} : row'[t] = row[t]
      /\ pair'[p].s = s /\ pair'[p].iat = now /\ pair'[p].version = 1
      /\ \A q \in Pairs \ {p} : pair'[q] = pair[q]
      /\ pair[p].s = NoSession /\ pair[p].version = 0
  BY <1>1 DEF LoginRow, Unminted
<1>5. \A d \in Calls : \/ call'[d] = call[d]
                       \/ /\ d = c /\ Login(c, s, p)
                          /\ call'[d].pc = "reply" /\ call'[d].s = s /\ call'[d].new = p
                          /\ call'[d].began = now
  BY DEF Login, LoginError
<1>6. disturbed \subseteq disturbed' /\ (LoginError(c, s, p) => s \in disturbed')
  BY DEF Login, LoginError
<1>7. now' = now /\ jar' = jar /\ delivered' = delivered BY <1>1
<1> HIDE DEF Inv, TypeOK
<1>8. TypeOK /\ RowInv /\ PairInv /\ DistinctInv /\ DeliveredInv /\ CallInv /\ HoldInv /\ CookieInv
  BY DEF Inv
<1>9. RowInv'
  <2>1. \A t \in Sessions \ {s} : row[t].stored => row[t].cur # p
    BY <1>4, <1>8, NamesAssumption DEF RowInv
  <2> QED BY <2>1, <1>4, <1>7, <1>8 DEF RowInv, TypeOK, Never
<1>10. PairInv' BY <1>3, <1>4, <1>7, <1>8 DEF PairInv, TypeOK
<1>11. DistinctInv' BY <1>3, <1>4, <1>8 DEF DistinctInv, TypeOK
<1>12. DeliveredInv'
  <2>1. \A q \in delivered : q \in Pairs /\ q # p BY <1>4, <1>8 DEF DeliveredInv, TypeOK
  <2> QED BY <2>1, <1>4, <1>7, <1>8 DEF DeliveredInv
<1>13. CallInv' BY <1>2, <1>4, <1>5, <1>7, <1>8 DEF CallInv, TypeOK
<1>14. HoldInv' BY <1>5, <1>8 DEF HoldInv, TypeOK
<1>15. CookieInv'
  <2> SUFFICES ASSUME NEW t \in Sessions, row'[t].stored, t \notin disturbed'
               PROVE  /\ \A d, e \in Calls : call'[d].s = t /\ call'[e].s = t => d = e
                      /\ \A d \in Calls : call'[d].s = t /\ call'[d].pc = "reply"
                                              => call'[d].new = row'[t].cur
                      /\ (\A d \in Calls : call'[d].s = t => call'[d].pc # "reply")
                             => jar'[t] = row'[t].cur
    BY DEF CookieInv
  <2>1. CASE t = s
    <3>1. Login(c, s, p) BY <1>6, <2>1
    <3>2. call' = [call EXCEPT ![c] = [pc |-> "reply", s |-> s, old |-> NoPair, new |-> p,
                                       began |-> now, expires |-> 0]]
      BY <3>1 DEF Login
    <3> QED BY <1>2, <1>4, <1>8, <2>1, <3>2 DEF TypeOK
  <2>2. CASE t # s
    <3>1. row[t].stored /\ t \notin disturbed /\ row'[t] = row[t] BY <1>4, <1>6, <2>2
    <3>2. \A d \in Calls : call'[d].s = t => call'[d] = call[d] BY <1>5, <2>2
    <3>3. \A d \in Calls : call[d].s = t => call'[d] = call[d]
      BY <1>1, <1>5, <1>8, NamesAssumption DEF TypeOK
    <3> QED BY <1>7, <1>8, <3>1, <3>2, <3>3 DEF CookieInv
  <2> QED BY <2>1, <2>2
<1> QED BY <1>9, <1>10, <1>11, <1>12, <1>13, <1>14, <1>15 DEF Inv

\* RefreshRead only starts a request, on a row that has not expired; a second
\* one on the same session disturbs it.
LEMMA ReadInv ==
    ASSUME Inv, TypeOK', NEW c \in Calls, NEW s \in Sessions, RefreshRead(c, s)
    PROVE  Inv'
<1>1. TypeOK /\ RowInv /\ PairInv /\ DistinctInv /\ DeliveredInv /\ CallInv /\ HoldInv /\ CookieInv
  BY DEF Inv
<1>2. /\ call[c].pc = "idle" /\ row[s].stored /\ row[s].cur = jar[s] /\ now <= row[s].expires
      /\ now' = now /\ row' = row /\ pair' = pair /\ jar' = jar /\ delivered' = delivered
  BY <1>1, TimesAssumption DEF RefreshRead, Idle, TypeOK
<1>3. /\ \A d \in Calls \ {c} : call'[d] = call[d]
      /\ call'[c].pc = "mint" /\ call'[c].s = s /\ call'[c].began = now
  BY <1>1 DEF RefreshRead, TypeOK
<1>4. /\ disturbed \subseteq disturbed'
      /\ s \notin disturbed' => \A d \in Calls : call[d].s # s
  BY DEF RefreshRead, Busy
<1>5. RowInv' /\ PairInv' /\ DistinctInv' /\ DeliveredInv'
  BY <1>1, <1>2 DEF RowInv, PairInv, DistinctInv, DeliveredInv
<1>6. CallInv' BY <1>1, <1>2, <1>3 DEF CallInv, TypeOK
<1>7. HoldInv' BY <1>1, <1>3 DEF HoldInv
<1>8. CookieInv'
  <2> SUFFICES ASSUME NEW t \in Sessions, row'[t].stored, t \notin disturbed'
               PROVE  /\ \A d, e \in Calls : call'[d].s = t /\ call'[e].s = t => d = e
                      /\ \A d \in Calls : call'[d].s = t /\ call'[d].pc = "reply"
                                              => call'[d].new = row'[t].cur
                      /\ (\A d \in Calls : call'[d].s = t => call'[d].pc # "reply")
                             => jar'[t] = row'[t].cur
    BY DEF CookieInv
  <2>1. CASE t = s BY <1>2, <1>3, <1>4, <2>1
  <2>2. CASE t # s
    <3>1. \A d \in Calls : call'[d].s = t => call'[d] = call[d] BY <1>3, <2>2
    <3>2. \A d \in Calls : call[d].s = t => call'[d] = call[d]
      BY <1>1, <1>2, <1>3, NamesAssumption DEF TypeOK
    <3> QED BY <1>1, <1>2, <1>4, <3>1, <3>2 DEF CookieInv
  <2> QED BY <2>1, <2>2
<1> QED BY <1>5, <1>6, <1>7, <1>8 DEF Inv

\* RefreshMint creates an uncommitted pair that only its request holds.
LEMMA MintInv ==
    ASSUME Inv, TypeOK', NEW c \in Calls, NEW p \in Pairs, RefreshMint(c, p)
    PROVE  Inv'
<1> DEFINE s == call[c].s
<1>1. TypeOK /\ RowInv /\ PairInv /\ DistinctInv /\ DeliveredInv /\ CallInv /\ HoldInv /\ CookieInv
  BY DEF Inv
<1>2. /\ call[c].pc = "mint" /\ pair[p].s = NoSession /\ pair[p].version = 0
      /\ now' = now /\ row' = row /\ jar' = jar /\ delivered' = delivered
      /\ disturbed' = disturbed
  BY DEF RefreshMint, Fresh, Unminted
<1>3. s \in Sessions /\ row[s].stored /\ call[c].began <= now /\ call[c].began <= row[s].expires
  BY <1>1, <1>2, CallTarget DEF CallInv
<1>4. /\ \A q \in Pairs \ {p} : pair'[q] = pair[q]
      /\ pair'[p].s = s /\ pair'[p].iat = now /\ pair'[p].version = 0
  BY <1>1 DEF RefreshMint, TypeOK
<1>5. /\ \A d \in Calls \ {c} : call'[d] = call[d]
      /\ call'[c].pc = "rotate" /\ call'[c].s = s /\ call'[c].new = p
      /\ call'[c].expires = now + RefreshTTL /\ call'[c].began = call[c].began
  <2>1. call' = [call EXCEPT ![c] = [@ EXCEPT !.pc = "rotate", !.new = p,
                                              !.expires = now + RefreshTTL]]
    BY DEF RefreshMint
  <2> QED BY <1>1, <2>1 DEF TypeOK
<1> HIDE DEF s
<1>6. RowInv'
  <2>1. \A t \in Sessions : row[t].stored => row[t].cur # p
    BY <1>1, <1>2, NamesAssumption DEF RowInv
  <2> QED BY <2>1, <1>1, <1>2, <1>4 DEF RowInv
<1>7. PairInv'
  <2>1. now \in Nat /\ row[s].version \in Nat BY <1>1, <1>3, TimesAssumption DEF TypeOK
  <2>2. /\ pair'[p].s # NoSession /\ row'[pair'[p].s].stored /\ pair'[p].iat <= now'
        /\ pair'[p].version <= row'[pair'[p].s].version /\ ~(pair'[p].version > 0)
    BY <1>2, <1>3, <1>4, <2>1, NamesAssumption
  <2> QED BY <1>1, <1>2, <1>4, <2>2 DEF PairInv, Unminted
<1>8. DistinctInv'
  <2>1. \A q \in Pairs : pair'[q].version > 0 => q # p BY <1>4
  <2>2. \A q, r \in Pairs : pair'[q].version > 0 /\ pair'[q].version = pair'[r].version
                                => q # p /\ r # p
    BY <2>1
  <2> QED BY <1>1, <1>4, <2>2 DEF DistinctInv
<1>9. DeliveredInv'
  <2>1. \A q \in delivered : q \in Pairs /\ q # p BY <1>1, <1>2 DEF DeliveredInv, TypeOK
  <2> QED BY <2>1, <1>1, <1>2, <1>4 DEF DeliveredInv
<1>10. \A d \in Calls : call[d].pc \in {"rotate", "reply"} => call[d].new \in Pairs /\ call[d].new # p
  BY <1>1, <1>2, CallTarget, NamesAssumption DEF CallInv
<1>11. CallInv'
  <2>1. \A d \in Calls : call[d].pc \in {"idle", "mint", "rotate", "reply"} BY <1>1 DEF TypeOK
  <2>2. call[c].began \in Nat /\ now \in Nat BY <1>1, TimesAssumption DEF TypeOK
  <2>3. call'[c].began + RefreshTTL <= call'[c].expires
    BY <1>3, <1>5, <2>2, TimesAssumption
  <2> QED BY <1>1, <1>2, <1>3, <1>4, <1>5, <1>10, <2>1, <2>3 DEF CallInv
<1>12. HoldInv' BY <1>1, <1>5, <1>10 DEF HoldInv
<1>13. CookieInv'
  <2>1. \A d \in Calls : call'[d].s = call[d].s /\ (call'[d].pc = "reply" <=> call[d].pc = "reply")
                         /\ (call[d].pc = "reply" => call'[d].new = call[d].new)
    BY <1>2, <1>5 DEF s
  <2> QED BY <1>1, <1>2, <2>1 DEF CookieInv
<1> QED BY <1>6, <1>7, <1>8, <1>9, <1>11, <1>12, <1>13 DEF Inv

\* A committed UPDATE of Rotate makes the request's pair the row's pair under
\* the next version, whatever other requests committed since the row was read.
LEMMA RotateInv ==
    ASSUME Inv, TypeOK', NEW c \in Calls, RefreshRotate(c) \/ RefreshRotateError(c)
    PROVE  Inv'
<1> DEFINE s == call[c].s
           p == call[c].new
<1>1. TypeOK /\ RowInv /\ PairInv /\ DistinctInv /\ DeliveredInv /\ CallInv /\ HoldInv /\ CookieInv
  BY DEF Inv
<1>2. /\ call[c].pc = "rotate" /\ Rotate(c) /\ row[s].revoked = Never
      /\ now <= call[c].began + CallTimeout
      /\ now' = now /\ jar' = jar /\ delivered' = delivered /\ disturbed \subseteq disturbed'
  BY DEF RefreshRotate, RefreshRotateError, InTime, Rotatable
<1>3. /\ s \in Sessions /\ p \in Pairs /\ row[s].stored
      /\ pair[p].s = s /\ pair[p].version = 0
      /\ call[c].began + RefreshTTL <= call[c].expires
  BY <1>1, <1>2, CallTarget DEF CallInv
<1>4. /\ \A t \in Sessions \ {s} : row'[t] = row[t]
      /\ row'[s].cur = p /\ row'[s].version = row[s].version + 1
      /\ row'[s].expires = call[c].expires /\ row'[s].stored /\ row'[s].revoked = Never
      /\ \A q \in Pairs \ {p} : pair'[q] = pair[q]
      /\ pair'[p].s = s /\ pair'[p].iat = pair[p].iat /\ pair'[p].version = row[s].version + 1
  BY <1>1, <1>2, <1>3, RotateEffect
<1>5. /\ \A d \in Calls \ {c} : call'[d] = call[d]
      /\ \/ RefreshRotateError(c) /\ call'[c].pc = "idle" /\ call'[c].s = NoSession
            /\ s \in disturbed'
         \/ /\ call'[c].pc = "reply" /\ call'[c].s = s /\ call'[c].new = p
            /\ call'[c].began = call[c].began
  <2>1. CASE RefreshRotate(c)
    <3>1. call' = [call EXCEPT ![c] = [@ EXCEPT !.pc = "reply"]] BY <2>1 DEF RefreshRotate
    <3> QED BY <1>1, <3>1 DEF TypeOK
  <2>2. CASE RefreshRotateError(c)
    BY <1>1, <2>2 DEF RefreshRotateError, Return, IdleCall, TypeOK
  <2> QED BY <2>1, <2>2
<1>6. /\ now \in Nat /\ call[c].began \in Nat /\ call[c].expires \in Nat
      /\ row[s].version \in Nat /\ row[s].version > 0 /\ pair[p].iat \in Nat
      /\ pair[p].iat <= now
  BY <1>1, <1>3, NamesAssumption, TimesAssumption DEF TypeOK, RowInv, PairInv
<1>7. now <= call[c].expires BY <1>2, <1>3, <1>6, TimesAssumption
<1> HIDE DEF s, p
<1>8. RowInv'
  <2>1. \A t \in Sessions \ {s} : row[t].stored => row[t].cur # p BY <1>1, <1>3 DEF RowInv
  <2>2. row'[s].revoked <= now /\ row'[s].version > 0 BY <1>4, <1>6 DEF Never
  <2>3. ASSUME NEW t \in Sessions \ {s}, row[t].stored
        PROVE  row[t].cur \in Pairs /\ pair'[row[t].cur] = pair[row[t].cur]
    BY <1>1, <1>4, <2>1, <2>3 DEF RowInv
  <2> QED BY <1>1, <1>2, <1>3, <1>4, <2>2, <2>3 DEF RowInv
<1>9. PairInv'
  <2>1. \A q \in Pairs : pair[q].version \in Nat BY <1>1 DEF TypeOK
  <2> SUFFICES ASSUME NEW q \in Pairs, pair'[q].s # NoSession
               PROVE  /\ row'[pair'[q].s].stored
                      /\ pair'[q].iat <= now'
                      /\ pair'[q].version <= row'[pair'[q].s].version
                      /\ pair'[q].version > 0 /\ row'[pair'[q].s].revoked # Never
                            => pair'[q].iat <= row'[pair'[q].s].revoked
    <3>1. \A q \in Pairs : pair'[q].s = NoSession => pair'[q] = Unminted
      BY <1>1, <1>3, <1>4, NamesAssumption DEF PairInv
    <3> QED BY <3>1 DEF PairInv, Unminted
  <2>2. CASE q = p BY <1>2, <1>4, <1>6, <2>2
  <2>3. CASE q # p
    <3>1. pair'[q] = pair[q] /\ pair[q].s \in Sessions BY <1>1, <1>4, <2>3 DEF TypeOK
    <3>2. /\ row[pair[q].s].stored /\ pair[q].iat <= now
          /\ pair[q].version <= row[pair[q].s].version
          /\ pair[q].version > 0 /\ row[pair[q].s].revoked # Never
                => pair[q].iat <= row[pair[q].s].revoked
      BY <1>1, <3>1 DEF PairInv
    <3>3. CASE pair[q].s = s BY <1>2, <1>4, <1>6, <2>1, <3>1, <3>2, <3>3
    <3>4. CASE pair[q].s # s
      <4>1. row'[pair[q].s] = row[pair[q].s] BY <1>4, <3>1, <3>4
      <4> QED BY <1>2, <3>1, <3>2, <4>1
    <3> QED BY <3>3, <3>4
  <2> QED BY <2>2, <2>3
<1>10. DistinctInv'
  <2>1. \A q \in Pairs : pair[q].s = s => pair[q].version < row[s].version + 1
    BY <1>1, <1>3, <1>6, NamesAssumption DEF PairInv, TypeOK
  <2>2. \A q \in Pairs : pair'[q].s = pair[q].s BY <1>3, <1>4
  <2>3. \A q \in Pairs \ {p} : pair'[q].version = pair[q].version BY <1>4
  <2>4. \A q \in Pairs \ {p} : pair'[q].s = pair'[p].s => pair'[q].version # pair'[p].version
    <3>1. \A q \in Pairs : pair[q].version \in Nat BY <1>1 DEF TypeOK
    <3> QED BY <1>4, <1>6, <2>1, <2>2, <2>3, <3>1
  <2> QED BY <1>1, <2>2, <2>3, <2>4 DEF DistinctInv
<1>11. DeliveredInv'
  <2>1. \A q \in delivered : q \in Pairs /\ q # p BY <1>1, <1>3 DEF DeliveredInv, TypeOK
  <2> QED BY <2>1, <1>1, <1>2, <1>4 DEF DeliveredInv
<1>12. \A d \in Calls \ {c} : call[d].pc \in {"rotate", "reply"}
                                  => call[d].new \in Pairs /\ call[d].new # p
  BY <1>1, <1>2, <1>3, CallTarget DEF CallInv, HoldInv, p
<1>13. CallInv'
  <2> SUFFICES ASSUME NEW d \in Calls, call'[d].pc # "idle"
               PROVE  /\ row'[call'[d].s].stored
                      /\ call'[d].began <= now'
                      /\ call'[d].pc # "mint" => pair'[call'[d].new].s = call'[d].s
                      /\ call'[d].pc = "reply" => pair'[call'[d].new].version > 0
                      /\ call'[d].pc = "rotate" =>
                           /\ pair'[call'[d].new].version = 0
                           /\ call'[d].began + RefreshTTL <= call'[d].expires
                      /\ call'[d].pc # "reply" => call'[d].began <= row'[call'[d].s].expires
    BY DEF CallInv
  <2>1. CASE d = c BY <1>1, <1>2, <1>4, <1>5, <1>6, <2>1 DEF CallInv
  <2>2. CASE d # c
    <3>1. call'[d] = call[d] /\ call[d].s \in Sessions /\ call[d].began \in Nat
          /\ call[d].pc \in {"mint", "rotate", "reply"}
      BY <1>1, <1>5, <2>2, CallTarget DEF TypeOK
    <3>2. row'[call[d].s].stored /\ call[d].began <= now BY <1>1, <1>3, <1>4, <3>1 DEF CallInv
    <3>3. call[d].pc # "reply" => call[d].began <= row'[call[d].s].expires
      BY <1>1, <1>4, <1>6, <1>7, <3>1, <3>2 DEF CallInv
    <3>4. call[d].pc # "mint" => pair'[call[d].new] = pair[call[d].new]
      BY <1>4, <1>12, <2>2, <3>1
    <3> QED BY <1>1, <1>2, <3>1, <3>2, <3>3, <3>4 DEF CallInv
  <2> QED BY <2>1, <2>2
<1>14. HoldInv' BY <1>1, <1>5 DEF HoldInv
<1>15. CookieInv'
  <2> SUFFICES ASSUME NEW t \in Sessions, row'[t].stored, t \notin disturbed'
               PROVE  /\ \A d, e \in Calls : call'[d].s = t /\ call'[e].s = t => d = e
                      /\ \A d \in Calls : call'[d].s = t /\ call'[d].pc = "reply"
                                              => call'[d].new = row'[t].cur
                      /\ (\A d \in Calls : call'[d].s = t => call'[d].pc # "reply")
                             => jar'[t] = row'[t].cur
    BY DEF CookieInv
  <2>1. CASE t = s
    <3>1. \A d \in Calls \ {c} : call[d].s # s
      BY <1>1, <1>2, <1>3, <2>1 DEF CookieInv, s
    <3> QED BY <1>4, <1>5, <2>1, <3>1
  <2>2. CASE t # s
    <3>1. \A d \in Calls : call'[d].s = t => call'[d] = call[d]
      BY <1>5, <2>2, NamesAssumption
    <3>2. \A d \in Calls : call[d].s = t => call'[d] = call[d] BY <1>5, <2>2 DEF s
    <3> QED BY <1>1, <1>2, <1>4, <2>2, <3>1, <3>2 DEF CookieInv
  <2> QED BY <2>1, <2>2
<1> QED BY <1>8, <1>9, <1>10, <1>11, <1>13, <1>14, <1>15 DEF Inv

\* A request that ends drops its pair; only an answer that arrives moves the
\* cookie, and one that is lost disturbs the session.
LEMMA EndInv ==
    ASSUME Inv, TypeOK', NEW c \in Calls, RefreshAbort(c) \/ Reply(c) \/ ReplyLost(c)
    PROVE  Inv'
<1> DEFINE s == call[c].s
<1>1. TypeOK /\ RowInv /\ PairInv /\ DistinctInv /\ DeliveredInv /\ CallInv /\ HoldInv /\ CookieInv
  BY DEF Inv
<1>2. /\ call[c].pc # "idle"
      /\ now' = now /\ row' = row /\ pair' = pair
      /\ disturbed \subseteq disturbed'
  BY DEF RefreshAbort, Reply, ReplyLost
<1>3. s \in Sessions BY <1>1, <1>2, CallTarget
<1>4. /\ \A d \in Calls \ {c} : call'[d] = call[d]
      /\ call'[c].pc = "idle" /\ call'[c].s = NoSession
  BY <1>1 DEF RefreshAbort, Reply, ReplyLost, Return, IdleCall, TypeOK
<1>5. RowInv' /\ PairInv' /\ DistinctInv' BY <1>1, <1>2 DEF RowInv, PairInv, DistinctInv
<1>6. DeliveredInv'
  <2>1. \A q \in delivered' : q \in delivered \/ (q = call[c].new /\ call[c].pc = "reply")
    BY DEF RefreshAbort, Reply, ReplyLost
  <2> QED BY <1>1, <1>2, <2>1 DEF DeliveredInv, CallInv
<1>7. CallInv'
  <2>1. \A d \in Calls : call'[d].pc # "idle" => call'[d] = call[d] BY <1>4
  <2> QED BY <1>1, <1>2, <2>1 DEF CallInv
<1>8. HoldInv' BY <1>1, <1>4 DEF HoldInv
<1>9. CookieInv'
  <2> SUFFICES ASSUME NEW t \in Sessions, row'[t].stored, t \notin disturbed'
               PROVE  /\ \A d, e \in Calls : call'[d].s = t /\ call'[e].s = t => d = e
                      /\ \A d \in Calls : call'[d].s = t /\ call'[d].pc = "reply"
                                              => call'[d].new = row'[t].cur
                      /\ (\A d \in Calls : call'[d].s = t => call'[d].pc # "reply")
                             => jar'[t] = row'[t].cur
    BY DEF CookieInv
  <2>0. \A d \in Calls : call'[d].s = t => call'[d] = call[d] BY <1>4, NamesAssumption
  <2>1. CASE t = s
    <3>1. \A d \in Calls : call[d].s = s => d = c BY <1>1, <1>2, <1>3, <2>1 DEF CookieInv
    <3>2. \A d \in Calls : call'[d].s # t BY <1>4, <2>0, <2>1, <3>1, NamesAssumption
    <3>3. jar'[t] = row[t].cur
      <4>1. CASE RefreshAbort(c)
        <5>1. call[c].pc # "reply" /\ jar' = jar BY <4>1 DEF RefreshAbort
        <5> QED BY <1>1, <1>2, <2>1, <3>1, <5>1 DEF CookieInv
      <4>2. CASE Reply(c)
        <5>1. call[c].pc = "reply" /\ jar'[s] = call[c].new BY <1>1, <1>3, <4>2 DEF Reply, TypeOK
        <5> QED BY <1>1, <1>2, <2>1, <5>1 DEF CookieInv
      <4>3. CASE ReplyLost(c) BY <2>1, <4>3 DEF ReplyLost
      <4> QED BY <4>1, <4>2, <4>3
    <3> QED BY <1>2, <3>2, <3>3
  <2>2. CASE t # s
    <3>1. \A d \in Calls : call[d].s = t => call'[d] = call[d] BY <1>4, <2>2
    <3>2. jar'[t] = jar[t] BY <1>1, <2>2 DEF RefreshAbort, Reply, ReplyLost, TypeOK
    <3> QED BY <1>1, <1>2, <2>0, <3>1, <3>2 DEF CookieInv
  <2> QED BY <2>1, <2>2
<1> QED BY <1>5, <1>6, <1>7, <1>8, <1>9 DEF Inv

\* A revocation happens now, after every pair that was issued.
LEMMA RevokeInv ==
    ASSUME Inv, TypeOK', NEW p \in Pairs, Revoke(p)
    PROVE  Inv'
<1>1. TypeOK /\ RowInv /\ PairInv /\ DistinctInv /\ DeliveredInv /\ CallInv /\ HoldInv /\ CookieInv
  BY DEF Inv
<1>2. PICK s \in Sessions : /\ row[s].stored /\ row[s].cur = p
                            /\ row' = [row EXCEPT ![s] = [@ EXCEPT !.revoked = now]]
  BY DEF Revoke
<1>3. /\ now' = now /\ pair' = pair /\ jar' = jar /\ delivered' = delivered /\ call' = call
      /\ disturbed' = disturbed
  BY DEF Revoke
<1>4. /\ \A t \in Sessions : /\ row'[t].stored = row[t].stored /\ row'[t].cur = row[t].cur
                             /\ row'[t].version = row[t].version
                             /\ row'[t].expires = row[t].expires
      /\ \A t \in Sessions \ {s} : row'[t].revoked = row[t].revoked
      /\ row'[s].revoked = now
  BY <1>1, <1>2 DEF TypeOK
<1>5. now \in Nat BY <1>1, TimesAssumption DEF TypeOK
<1>6. RowInv' BY <1>1, <1>2, <1>3, <1>4, <1>5 DEF RowInv
<1>7. PairInv'
  <2>1. \A q \in Pairs : pair[q].s \in Sessions \cup {NoSession} BY <1>1 DEF TypeOK
  <2> QED BY <1>1, <1>3, <1>4, <2>1 DEF PairInv, Unminted
<1>8. DistinctInv' /\ DeliveredInv' /\ HoldInv'
  BY <1>1, <1>3 DEF DistinctInv, DeliveredInv, HoldInv
<1>9. CallInv'
  <2>1. \A d \in Calls : call[d].pc # "idle" => call[d].s \in Sessions BY <1>1, CallTarget
  <2> QED BY <1>1, <1>3, <1>4, <2>1 DEF CallInv
<1>10. CookieInv' BY <1>1, <1>3, <1>4 DEF CookieInv
<1> QED BY <1>6, <1>7, <1>8, <1>9, <1>10 DEF Inv

\* Time passing only weakens what is said about the past.
LEMMA TickInv ==
    ASSUME Inv, TypeOK', Tick
    PROVE  Inv'
<1>1. TypeOK /\ RowInv /\ PairInv /\ DistinctInv /\ DeliveredInv /\ CallInv /\ HoldInv /\ CookieInv
  BY DEF Inv
<1>2. /\ now \in Nat /\ now' = now + 1
      /\ row' = row /\ pair' = pair /\ jar' = jar /\ delivered' = delivered /\ call' = call
      /\ disturbed' = disturbed
  BY <1>1, TimesAssumption DEF Tick, TypeOK
<1>3. RowInv'
  <2>1. \A s \in Sessions : row[s].revoked \in Int BY <1>1 DEF TypeOK, Never
  <2> QED BY <1>1, <1>2, <2>1 DEF RowInv
<1>4. PairInv'
  <2>1. \A q \in Pairs : pair[q].iat \in Nat BY <1>1 DEF TypeOK
  <2> QED BY <1>1, <1>2, <2>1 DEF PairInv, Unminted
<1>5. DistinctInv' /\ DeliveredInv' /\ HoldInv' /\ CookieInv'
  BY <1>1, <1>2 DEF DistinctInv, DeliveredInv, HoldInv, CookieInv
<1>6. CallInv'
  <2>1. \A d \in Calls : call[d].began \in Nat BY <1>1 DEF TypeOK
  <2> QED BY <1>1, <1>2, <2>1 DEF CallInv
<1> QED BY <1>3, <1>4, <1>5, <1>6 DEF Inv

\* Every step keeps the invariant.
LEMMA InvStep ==
    ASSUME Inv, [Next]_vars
    PROVE  Inv'
<1>1. TypeOK' BY TypeOKStep DEF Inv
<1>2. CASE UNCHANGED vars
  BY <1>1, <1>2 DEF Inv, vars, RowInv, PairInv, DistinctInv, DeliveredInv, CallInv, HoldInv,
                    CookieInv, Unminted
<1> QED BY <1>1, <1>2, LoginInv, ReadInv, MintInv, RotateInv, EndInv, RevokeInv, TickInv DEF Next

\* The invariant holds in every reachable state of every instance.
THEOREM Invariance == Spec => []Inv
BY InvInit, InvStep, PTL DEF Spec

-----------------------------------------------------------------------------
(* The properties.                                                         *)

\* The clock, the table, the tokens and the requests stay well-typed, and a
\* request never keeps a pair it gave up.
THEOREM TypeCorrect == Spec => []TypeOK
BY Invariance, PTL DEF Inv

\* However refreshes overlap, two committed rotations of a session never report
\* the same version, and the row holds the pair of the highest one.
THEOREM VersionsStayDistinct == Spec => []VersionsDistinct
<1>1. Inv => VersionsDistinct
  <2> SUFFICES ASSUME Inv, NEW p \in Pairs, NEW q \in Pairs, pair[p].version > 0,
                      pair[p].s = pair[q].s, p # q
               PROVE  /\ pair[p].version # pair[q].version
                      /\ pair[p].version <= row[pair[p].s].version
                      /\ pair[p].version = row[pair[p].s].version => row[pair[p].s].cur = p
    BY DEF VersionsDistinct
  <2>1. pair[p].s \in Sessions BY DEF Inv, TypeOK, PairInv, Unminted
  <2>2. row[pair[p].s].stored /\ pair[p].version <= row[pair[p].s].version
    BY <2>1, NamesAssumption DEF Inv, PairInv
  <2>3. /\ row[pair[p].s].cur \in Pairs /\ pair[row[pair[p].s].cur].s = pair[p].s
        /\ pair[row[pair[p].s].cur].version = row[pair[p].s].version
    BY <2>1, <2>2 DEF Inv, RowInv
  <2> QED BY <2>2, <2>3 DEF Inv, DistinctInv
<1> QED BY <1>1, Invariance, PTL

\* A revoked session lets nobody in for longer than one access-token lifetime,
\* tokens replaced before the revocation and refreshes in flight included.
THEOREM RevocationIsBounded == Spec => []RevocationBound
<1>1. Inv => RevocationBound
  <2> SUFFICES ASSUME Inv, NEW p \in Pairs, Accepted(p), row[pair[p].s].revoked # Never
               PROVE  now < row[pair[p].s].revoked + AccessTTL
    BY DEF RevocationBound
  <2>1. pair[p].version > 0 /\ now < pair[p].iat + AccessTTL
    BY DEF Inv, DeliveredInv, Accepted
  <2>2. pair[p].s \in Sessions BY <2>1 DEF Inv, TypeOK, PairInv, Unminted
  <2>3. pair[p].iat <= row[pair[p].s].revoked
    BY <2>1, <2>2, NamesAssumption DEF Inv, PairInv
  <2>4. now \in Int /\ pair[p].iat \in Int /\ row[pair[p].s].revoked \in Int
    BY <2>2, TimesAssumption DEF Inv, TypeOK, Never
  <2> QED BY <2>1, <2>3, <2>4, TimesAssumption
<1> QED BY <1>1, Invariance, PTL

\* A browser that sends one refresh at a time and receives every answer always
\* holds the token the row accepts.
THEOREM RotationNeverLocksOut == Spec => []NoLockout
<1>1. Inv => NoLockout BY DEF Inv, CookieInv, NoLockout, Busy
<1> QED BY <1>1, Invariance, PTL

\* A refresh that tested the expiry long ago renews a session at most the
\* request timeout after it expired.
THEOREM RevivalIsBounded == Spec => RevivalBound
<1>1. ASSUME Inv, [Next]_vars, NEW s \in Sessions, row[s].stored,
             row'[s].version # row[s].version
      PROVE  now <= row[s].expires + CallTimeout
  <2>1. PICK c \in Calls : RefreshRotate(c) \/ RefreshRotateError(c)
    <3> USE DEF Inv, TypeOK
    <3>1. ASSUME NEW c \in Calls, NEW t \in Sessions, NEW p \in Pairs,
                 Login(c, t, p) \/ LoginError(c, t, p)
          PROVE  row'[s] = row[s]
      BY <1>1, <3>1 DEF Login, LoginError
    <3>2. ASSUME NEW p \in Pairs, Revoke(p)
          PROVE  row'[s].version = row[s].version
      <4>1. PICK t \in Sessions : row' = [row EXCEPT ![t] = [@ EXCEPT !.revoked = now]]
        BY <3>2 DEF Revoke
      <4> QED BY <1>1, <4>1
    <3> HIDE DEF Inv, TypeOK
    <3>3. ASSUME NEW c \in Calls, RefreshAbort(c) \/ Reply(c) \/ ReplyLost(c)
          PROVE  row' = row
      BY <3>3 DEF RefreshAbort, Reply, ReplyLost
    <3>4. ASSUME NEW c \in Calls, NEW t \in Sessions, RefreshRead(c, t)
          PROVE  row' = row
      BY <3>4 DEF RefreshRead
    <3>5. ASSUME NEW c \in Calls, NEW p \in Pairs, RefreshMint(c, p)
          PROVE  row' = row
      BY <3>5 DEF RefreshMint
    <3>6. Tick \/ UNCHANGED vars => row' = row BY DEF Tick, vars
    <3> QED BY <1>1, <3>1, <3>2, <3>3, <3>4, <3>5, <3>6 DEF Next
  <2>2. /\ call[c].pc = "rotate" /\ Rotate(c) /\ now <= call[c].began + CallTimeout
    BY <2>1 DEF RefreshRotate, RefreshRotateError, InTime
  <2>3. call[c].s = s BY <1>1, <2>2, RotateEffect DEF Inv
  <2>4. call[c].began <= row[s].expires BY <1>1, <2>2, <2>3 DEF Inv, CallInv
  <2>5. now \in Nat /\ call[c].began \in Nat /\ row[s].expires \in Nat
    BY <1>1, TimesAssumption DEF Inv, TypeOK
  <2> QED BY <2>2, <2>4, <2>5, TimesAssumption
<1>2. Inv /\ [Next]_vars =>
        [\A s \in Sessions : row[s].stored /\ row'[s].version # row[s].version
                                 => now <= row[s].expires + CallTimeout]_vars
  BY <1>1
<1> QED BY <1>2, Invariance, PTL DEF Spec, RevivalBound
=============================================================================
