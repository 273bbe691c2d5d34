------------------------ MODULE MediaPlaybackProofs ------------------------
(***************************************************************************)
(* The safety properties of MediaPlayback, for any number of requests and  *)
(* every playbackTTL, request timeout and length of a run.                 *)
(***************************************************************************)
EXTENDS MediaPlayback, TLAPS

CallRecords == [pc: CallPCs, kind: Kinds, start: Times, signed: Times, expires: Expiries,
                token: Expiries]
Entries == [set: Times, signed: Times, expires: Expiries]

(***************************************************************************)
(* The inductive invariant.                                                *)
(***************************************************************************)

\* A request r at time t, the row having been ready last at time l.  A request
\* that read the row found it ready, and signs after that.  What a reply of
\* GetPlayback carries comes from the cache, and is then no more than
\* CallTimeout + TTL old when the request begins, or is its own.
CallOK(r, t, l) ==
    /\ r.start <= t
    /\ r.pc # "reply" => r.token = 0
    /\ r.pc \in {"set", "token"} => r.kind = "play"
    /\ r.pc \in {"build", "stamp", "set"} => r.start <= l
    /\ r.pc \in {"stamp", "set"} => r.start <= r.signed /\ r.signed <= t
    /\ r.pc \in {"set", "token"} => r.signed + TTL <= r.expires /\ r.expires <= t + TTL
    /\ r.pc \in {"token", "reply"} /\ r.kind = "play" =>
         /\ r.start < l + CallTimeout + TTL
         /\ r.start < r.signed + CallTimeout + TTL
         /\ r.signed + TTL <= r.expires
         /\ \/ r.expires <= r.signed + TTL + CallTimeout
            \/ r.start <= r.signed /\ r.expires <= t + TTL
         /\ r.token # 0 => r.expires <= r.token
    /\ r.pc = "reply" /\ r.kind # "play" => r.start <= l

CallInv == \A c \in Calls : CallOK(call[c], now, lastReady)

\* An entry was written by a request that was still in time.
CacheInv ==
    cache # NoEntry =>
        /\ cache.set <= now
        /\ now < cache.set + TTL
        /\ cache.set <= cache.signed + CallTimeout
        /\ cache.set <= lastReady + CallTimeout
        /\ cache.signed + TTL <= cache.expires
        /\ cache.expires <= cache.set + TTL

\* While the row is ready, it was ready last now.
ReadyInv == phase = "ready" => lastReady = now

\* The Del comes after the deletion, and when it found no fill under way there
\* is none afterwards.
DelInv ==
    /\ del # "none" => phase = "deleted"
    /\ forgotten => /\ del # "none" /\ del # "pending"
                    /\ cache = NoEntry
                    /\ \A c \in Calls : ~Filling(c)

Inv == TypeOK /\ CallInv /\ CacheInv /\ ReadyInv /\ DelInv

-----------------------------------------------------------------------------
(* Lemmas.                                                                 *)

\* A clock reading, and one a TTL ahead, are times.
LEMMA TimesAreNat ==
    /\ Times \subseteq Nat /\ Expiries \subseteq Nat /\ Times \subseteq Expiries
    /\ \A t \in Times : t + TTL \in Expiries
    /\ 0 \in Times
BY TimesAssumption DEF Times, Expiries

\* TypeOK in terms of the sets above.
LEMMA TypeFacts ==
    ASSUME TypeOK
    PROVE  /\ now \in Times /\ lastReady \in Times /\ lastReady <= now
           /\ cache \in Entries \cup {NoEntry}
           /\ token \in Nat /\ token <= now + TTL
           /\ call \in [Calls -> CallRecords]
           /\ del \in {"none", "pending", "done", "lost"}
BY TimesAssumption DEF TypeOK, CallRecords, Entries, Times

\* What holds of a request goes on holding while time passes.
LEMMA CallOKLater ==
    ASSUME NEW r \in CallRecords, NEW t \in Times, NEW u \in Times, NEW l \in Times,
           NEW m \in Times, t <= u, l <= m, CallOK(r, t, l)
    PROVE  CallOK(r, u, m)
<1>1. /\ r.start \in Nat /\ r.signed \in Nat /\ r.expires \in Nat /\ r.token \in Nat
      /\ t \in Nat /\ u \in Nat /\ l \in Nat /\ m \in Nat /\ TTL \in Nat /\ CallTimeout \in Nat
  BY TimesAreNat, TimesAssumption DEF CallRecords
<1> QED BY <1>1 DEF CallOK

\* A request that does not exist satisfies everything said of requests.
LEMMA IdleOK ==
    ASSUME NEW t \in Times, NEW l \in Times
    PROVE  IdleCall \in CallRecords /\ CallOK(IdleCall, t, l)
<1>1. t \in Nat /\ 0 \in Times /\ 0 \in Expiries BY TimesAreNat
<1> QED BY <1>1 DEF IdleCall, CallRecords, CallPCs, Kinds, CallOK

\* A step that changes one request and keeps the clock.
LEMMA CallChange ==
    ASSUME Inv, NEW c \in Calls, NEW r \in CallRecords, call' = [call EXCEPT ![c] = r],
           now' = now, lastReady' = lastReady, CallOK(r, now, lastReady)
    PROVE  CallInv' /\ call' \in [Calls -> CallRecords]
<1>1. call \in [Calls -> CallRecords] BY TypeFacts DEF Inv
<1> QED BY <1>1 DEF Inv, CallInv

\* The initial state satisfies the invariant.
LEMMA InvInit == Init => Inv
<1> SUFFICES ASSUME Init PROVE Inv OBVIOUS
<1>0. 0 \in Times /\ 0 \in 0 .. 0 + TTL BY TimesAreNat, TimesAssumption
<1>1. IdleCall \in CallRecords /\ CallOK(IdleCall, 0, 0) BY <1>0, IdleOK
<1>2. TypeOK
  <2>1. phase \in Phases /\ whole \in BOOLEAN /\ purged \in BOOLEAN BY DEF Init, LInit, Phases
  <2>2. call \in [Calls -> CallRecords] BY <1>1 DEF Init
  <2>3. now \in Times /\ token \in 0 .. now + TTL /\ lastReady \in 0 .. now
    BY <1>0 DEF Init
  <2> QED BY <2>1, <2>2, <2>3 DEF Init, TypeOK, CallRecords
<1> QED BY <1>1, <1>2 DEF Inv, Init, LInit, CallInv, CacheInv, ReadyInv, DelInv

-----------------------------------------------------------------------------
(* The steps of a request.                                                 *)

\* Requests that neither write the cache nor a token: the next record of the
\* request is well-typed and satisfies what is said of its program counter.
LEMMA CallMoves ==
    ASSUME Inv, NEW c \in Calls,
           \/ \E kind \in Kinds : Start(c, kind)
           \/ GetHit(c) \/ GetMiss(c) \/ ResolveToken(c) \/ GetRow(c) \/ Build(c) \/ Stamp(c)
           \/ FillError(c) \/ IssueTokenError(c) \/ End(c)
    PROVE  /\ \E r \in CallRecords : /\ call' = [call EXCEPT ![c] = r]
                                     /\ CallOK(r, now, lastReady)
                                     /\ r.kind = "play" /\ r.pc \in {"build", "stamp", "set"}
                                          => Filling(c) \/ phase = "ready"
           /\ cache' = cache /\ token' = token /\ Idle
<1> DEFINE r == call[c]
           OK(x) == /\ x \in CallRecords
                    /\ call' = [call EXCEPT ![c] = x]
                    /\ CallOK(x, now, lastReady)
                    /\ x.kind = "play" /\ x.pc \in {"build", "stamp", "set"}
                         => Filling(c) \/ phase = "ready"
<1>1. /\ now \in Times /\ lastReady \in Times /\ lastReady <= now
      /\ cache \in Entries \cup {NoEntry}
      /\ call \in [Calls -> CallRecords] /\ r \in CallRecords
      /\ CallOK(r, now, lastReady)
  BY TypeFacts DEF Inv, CallInv
<1>2. /\ now \in Nat /\ lastReady \in Nat /\ TTL \in Nat \ {0} /\ CallTimeout \in Nat
      /\ r.start \in Nat /\ r.signed \in Nat /\ r.expires \in Nat /\ r.token \in Nat
      /\ now + TTL \in Expiries
  BY <1>1, TimesAreNat, TimesAssumption DEF CallRecords
<1>3. cache' = cache /\ token' = token /\ Idle
  BY DEF Start, GetHit, GetMiss, ResolveToken, GetRow, Build, Stamp, FillError, IssueTokenError, End
<1> SUFFICES \E x : OK(x) BY <1>3
<1>4. ASSUME NEW kind \in Kinds, Start(c, kind)
      PROVE  \E x : OK(x)
  <2> DEFINE x == [IdleCall EXCEPT !.pc = "get", !.kind = kind, !.start = now]
  <2>1. call' = [call EXCEPT ![c] = x] BY <1>4 DEF Start
  <2>2. /\ x \in CallRecords /\ x.pc = "get" /\ x.start = now /\ x.token = 0
    BY <1>1, IdleOK DEF CallRecords, IdleCall, CallPCs
  <2> HIDE DEF x
  <2>3. CallOK(x, now, lastReady) BY <1>2, <2>2 DEF CallOK
  <2> QED BY <2>1, <2>2, <2>3
<1>5. ASSUME GetHit(c)
      PROVE  \E x : OK(x)
  <2> DEFINE x == [r EXCEPT !.pc = "token", !.signed = cache.signed, !.expires = cache.expires]
  <2>1. /\ call' = [call EXCEPT ![c] = x] /\ r.kind = "play" /\ r.pc = "get" /\ cache # NoEntry
    BY <1>5 DEF GetHit
  <2>2. cache \in Entries /\ cache.signed \in Nat /\ cache.set \in Nat /\ cache.expires \in Nat
    BY <1>1, <2>1, TimesAreNat DEF Entries
  <2>3. /\ x \in CallRecords /\ x.pc = "token" /\ x.kind = "play" /\ x.start = r.start
        /\ x.token = r.token /\ x.signed = cache.signed /\ x.expires = cache.expires
    BY <1>1, <2>1, <2>2 DEF CallRecords, CallPCs, Entries
  <2>4. /\ cache.set <= now /\ now < cache.set + TTL
        /\ cache.set <= cache.signed + CallTimeout
        /\ cache.set <= lastReady + CallTimeout
        /\ cache.signed + TTL <= cache.expires
        /\ cache.expires <= cache.set + TTL
    BY <2>1 DEF Inv, CacheInv
  <2>5. r.start <= now /\ r.token = 0 BY <1>1, <2>1 DEF CallOK
  <2> HIDE DEF x, r
  <2>6. CallOK(x, now, lastReady) BY <1>2, <2>2, <2>3, <2>4, <2>5 DEF CallOK
  <2> QED BY <2>1, <2>3, <2>6
<1>6. ASSUME NEW pc \in {"row", "build", "token", "reply"}, Goto(c, pc),
             \/ r.pc = "get" /\ pc = "row"
             \/ r.pc = "row" /\ pc = "build" /\ phase = "ready"
             \/ r.pc = "set" /\ pc = "token"
             \/ r.pc = "token" /\ pc = "reply"
      PROVE  \E x : OK(x)
  <2> DEFINE x == [r EXCEPT !.pc = pc]
  <2>1. call' = [call EXCEPT ![c] = x] BY <1>6 DEF Goto
  <2>2. /\ x \in CallRecords /\ x.pc = pc /\ x.kind = r.kind /\ x.start = r.start
        /\ x.signed = r.signed /\ x.expires = r.expires /\ x.token = r.token
    BY <1>1 DEF CallRecords, CallPCs
  <2>3. phase = "ready" => lastReady = now BY DEF Inv, ReadyInv
  <2> HIDE DEF x, r
  <2>4. CallOK(x, now, lastReady) BY <1>1, <1>2, <1>6, <2>2, <2>3 DEF CallOK
  <2> QED BY <1>6, <2>1, <2>2, <2>4
<1>7. ASSUME Build(c)
      PROVE  \E x : OK(x)
  <2> DEFINE x == [r EXCEPT !.pc = "stamp", !.signed = now]
  <2>1. call' = [call EXCEPT ![c] = x] /\ r.pc = "build" BY <1>7 DEF Build
  <2>2. /\ x \in CallRecords /\ x.pc = "stamp" /\ x.kind = r.kind /\ x.start = r.start
        /\ x.signed = now /\ x.token = r.token
    BY <1>1 DEF CallRecords, CallPCs
  <2>3. r.kind = "play" => Filling(c) BY <2>1 DEF Filling
  <2> HIDE DEF x, r
  <2>4. CallOK(x, now, lastReady) BY <1>1, <1>2, <2>1, <2>2 DEF CallOK
  <2> QED BY <2>1, <2>2, <2>3, <2>4
<1>8. ASSUME Stamp(c)
      PROVE  \E x : OK(x)
  <2> DEFINE pc == IF r.kind = "play" THEN "set" ELSE "reply"
             x == [r EXCEPT !.pc = pc, !.expires = now + TTL]
  <2>1. call' = [call EXCEPT ![c] = x] /\ r.pc = "stamp" BY <1>8 DEF Stamp
  <2>2. pc \in CallPCs BY DEF CallPCs
  <2>3. r.kind = "play" => Filling(c) BY <2>1 DEF Filling
  <2>4. /\ r.kind = "play" => pc = "set"
        /\ r.kind # "play" => pc = "reply"
    OBVIOUS
  <2> HIDE DEF pc
  <2>5. /\ x \in CallRecords /\ x.pc = pc /\ x.kind = r.kind /\ x.start = r.start
        /\ x.signed = r.signed /\ x.expires = now + TTL /\ x.token = r.token
    BY <1>1, <1>2, <2>2 DEF CallRecords
  <2> HIDE DEF x, r
  <2>6. CallOK(x, now, lastReady) BY <1>1, <1>2, <2>1, <2>4, <2>5 DEF CallOK
  <2> QED BY <2>1, <2>3, <2>5, <2>6
<1>9. ASSUME End(c)
      PROVE  \E x : OK(x)
  <2>1. call' = [call EXCEPT ![c] = IdleCall] BY <1>9 DEF End, Return
  <2>2. IdleCall \in CallRecords /\ CallOK(IdleCall, now, lastReady) BY <1>1, IdleOK
  <2>3. IdleCall.pc = "idle" BY DEF IdleCall
  <2> QED BY <2>1, <2>2, <2>3
<1>10. CASE GetMiss(c) \/ ResolveToken(c) BY <1>6, <1>10 DEF GetMiss, ResolveToken
<1>11. CASE GetRow(c) BY <1>6, <1>11 DEF GetRow
<1>12. CASE FillError(c) \/ IssueTokenError(c) BY <1>6, <1>12 DEF FillError, IssueTokenError
<1> QED BY <1>4, <1>5, <1>7, <1>8, <1>9, <1>10, <1>11, <1>12

\* Fill and IssueToken, which also write to Redis.
LEMMA CallWrites ==
    ASSUME Inv, NEW c \in Calls, Fill(c) \/ IssueToken(c)
    PROVE  /\ \E r \in CallRecords : /\ call' = [call EXCEPT ![c] = r]
                                     /\ CallOK(r, now, lastReady)
                                     /\ r.pc \notin {"build", "stamp", "set"}
           /\ cache' \in Entries \cup {NoEntry} /\ CacheInv'
           /\ cache' = cache \/ Filling(c)
           /\ token' \in 0 .. now + TTL
           /\ Idle
<1> DEFINE r == call[c]
<1>1. /\ now \in Times /\ lastReady \in Times /\ lastReady <= now
      /\ cache \in Entries \cup {NoEntry}
      /\ call \in [Calls -> CallRecords] /\ r \in CallRecords
      /\ CallOK(r, now, lastReady)
      /\ token \in 0 .. now + TTL
  BY TypeFacts DEF Inv, CallInv, TypeOK
<1>2. /\ now \in Nat /\ lastReady \in Nat /\ TTL \in Nat \ {0} /\ CallTimeout \in Nat
      /\ r.start \in Nat /\ r.signed \in Nat /\ r.expires \in Nat /\ r.token \in Nat
      /\ now + TTL \in Expiries /\ r.signed \in Times /\ r.expires \in Expiries
  BY <1>1, TimesAreNat, TimesAssumption DEF CallRecords
<1>3. CASE Fill(c)
  <2> DEFINE x == [r EXCEPT !.pc = "token"]
             e == [set |-> now, signed |-> r.signed, expires |-> r.expires]
  <2>1. /\ call' = [call EXCEPT ![c] = x] /\ r.pc = "set" /\ now <= r.start + CallTimeout
        /\ cache' = e /\ token' = token /\ now' = now /\ lastReady' = lastReady /\ Idle
    BY <1>3 DEF Fill, InTime, Goto, Idle
  <2>2. /\ x \in CallRecords /\ x.pc = "token" /\ x.kind = r.kind /\ x.start = r.start
        /\ x.signed = r.signed /\ x.expires = r.expires /\ x.token = r.token
    BY <1>1 DEF CallRecords, CallPCs
  <2>3. e \in Entries /\ e.set = now /\ e.signed = r.signed /\ e.expires = r.expires
    BY <1>1, <1>2 DEF Entries
  <2>4. /\ r.start <= lastReady /\ r.start <= r.signed
        /\ r.signed + TTL <= r.expires /\ r.expires <= now + TTL /\ r.kind = "play"
    BY <1>1, <2>1 DEF CallOK
  <2>5. Filling(c) BY <2>1, <2>4 DEF Filling
  <2> HIDE DEF x, e, r
  <2>6. CallOK(x, now, lastReady) BY <1>1, <1>2, <2>1, <2>2, <2>4 DEF CallOK
  <2>7. CacheInv' BY <1>1, <1>2, <2>1, <2>3, <2>4 DEF CacheInv
  <2> QED BY <1>1, <2>1, <2>2, <2>3, <2>5, <2>6, <2>7
<1>4. CASE IssueToken(c)
  <2> DEFINE x == [r EXCEPT !.pc = "reply", !.token = now + TTL]
  <2>1. /\ call' = [call EXCEPT ![c] = x] /\ r.pc = "token"
        /\ cache' = cache /\ token' = now + TTL /\ now' = now /\ lastReady' = lastReady /\ Idle
    BY <1>4 DEF IssueToken, Idle
  <2>2. /\ x \in CallRecords /\ x.pc = "reply" /\ x.kind = r.kind /\ x.start = r.start
        /\ x.signed = r.signed /\ x.expires = r.expires /\ x.token = now + TTL
    BY <1>1, <1>2 DEF CallRecords, CallPCs
  <2> HIDE DEF x, r
  <2>3. CallOK(x, now, lastReady) BY <1>1, <1>2, <2>1, <2>2 DEF CallOK
  <2>4. CacheInv' BY <2>1 DEF Inv, CacheInv
  <2>5. token' \in 0 .. now + TTL BY <1>2, <2>1
  <2> QED BY <1>1, <2>1, <2>2, <2>3, <2>4, <2>5
<1> QED BY <1>3, <1>4

\* A request's step keeps the invariant.  A fill begins only with a ready row,
\* so there is none once the row is deleted and the last one has ended.
LEMMA CallStepInv ==
    ASSUME Inv, NEW c \in Calls, CallStep(c)
    PROVE  Inv'
<1>1. PICK r \in CallRecords : /\ call' = [call EXCEPT ![c] = r]
                               /\ CallOK(r, now, lastReady)
                               /\ r.kind = "play" /\ r.pc \in {"build", "stamp", "set"}
                                    => Filling(c) \/ phase = "ready"
  BY CallMoves, CallWrites DEF CallStep
<1>2. /\ Idle /\ token' \in 0 .. now + TTL /\ cache' \in Entries \cup {NoEntry}
      /\ CacheInv' /\ (cache' = cache \/ Filling(c))
  <2>1. CASE Fill(c) \/ IssueToken(c) BY <2>1, CallWrites
  <2>2. CASE ~(Fill(c) \/ IssueToken(c))
    <3>1. cache' = cache /\ token' = token /\ Idle BY <2>2, CallMoves DEF CallStep
    <3>2. CacheInv' BY <3>1 DEF Inv, CacheInv, Idle
    <3>3. token \in 0 .. now + TTL /\ cache \in Entries \cup {NoEntry}
      BY TypeFacts DEF Inv, TypeOK
    <3> QED BY <3>1, <3>2, <3>3
  <2> QED BY <2>1, <2>2
<1>3. /\ phase' = phase /\ whole' = whole /\ purged' = purged /\ now' = now /\ del' = del
      /\ lastReady' = lastReady /\ forgotten' = forgotten
  BY <1>2 DEF Idle, lvars
<1>4. CallInv' /\ call' \in [Calls -> CallRecords] BY <1>1, <1>3, CallChange
<1>5. TypeOK' BY <1>2, <1>3, <1>4 DEF Inv, TypeOK, CallRecords, Entries
<1>6. ReadyInv' BY <1>3 DEF Inv, ReadyInv
<1>7. DelInv'
  <2>1. del # "none" => phase = "deleted" BY DEF Inv, DelInv
  <2>2. ASSUME forgotten
        PROVE  /\ del # "none" /\ del # "pending" /\ cache' = NoEntry
               /\ \A d \in Calls : ~Filling(d)'
    <3>1. del # "none" /\ del # "pending" /\ cache = NoEntry /\ \A d \in Calls : ~Filling(d)
      BY <2>2 DEF Inv, DelInv
    <3>2. phase # "ready" BY <2>1, <3>1
    <3>3. cache' = NoEntry BY <1>2, <3>1
    <3>4. call \in [Calls -> CallRecords] BY TypeFacts DEF Inv
    <3>5. call'[c] = r /\ \A d \in Calls \ {c} : call'[d] = call[d] BY <1>1, <3>4
    <3>6. \A d \in Calls : ~Filling(d)' BY <1>1, <3>1, <3>2, <3>5 DEF Filling
    <3> QED BY <3>1, <3>3, <3>6
  <2> QED BY <1>3, <2>1, <2>2 DEF DelInv
<1> QED BY <1>2, <1>4, <1>5, <1>6, <1>7 DEF Inv

-----------------------------------------------------------------------------
(* The row, the Del, crashes and time.                                     *)

\* The pipeline changes the row; lastReady follows it, and a deleted row stays
\* deleted.
LEMMA PipelineInv ==
    ASSUME Inv, Pipeline
    PROVE  Inv'
<1>1. /\ now \in Times /\ lastReady \in Times /\ lastReady <= now
      /\ call \in [Calls -> CallRecords] /\ now \in Nat /\ lastReady \in Nat
  BY TypeFacts, TimesAreNat DEF Inv
<1>2. /\ now' = now /\ cache' = cache /\ token' = token /\ call' = call /\ forgotten' = forgotten
      /\ lastReady' = IF "ready" \in {phase, phase'} THEN now ELSE lastReady
  BY DEF Pipeline
<1>3. /\ lastReady' \in Times /\ lastReady <= lastReady' /\ lastReady' <= now
      /\ phase' = "ready" => lastReady' = now
  BY <1>1, <1>2
<1>4. /\ phase' \in Phases /\ whole' \in BOOLEAN /\ purged' \in BOOLEAN
      /\ phase = "deleted" => phase' = "deleted"
      /\ \/ del' = del
         \/ del' = "pending" /\ phase' = "deleted" /\ phase # "deleted"
  <2>1. phase \in Phases /\ whole \in BOOLEAN /\ purged \in BOOLEAN BY DEF Inv, TypeOK
  <2>2. CASE SoftDelete BY <2>1, <2>2 DEF SoftDelete, Delete, Live, Phases
  <2>3. CASE (Create \/ Pend \/ Fail \/ Publish) /\ UNCHANGED del
    BY <2>1, <2>3 DEF Create, Pend, Fail, Publish, Live, Phases
  <2>4. CASE (Store \/ Purge \/ Reclaim) /\ UNCHANGED del
    BY <2>1, <2>4 DEF Store, Purge, Reclaim
  <2> QED BY <2>2, <2>3, <2>4 DEF Pipeline
<1>5. TypeOK'
  <2>1. lastReady' \in 0 .. now BY <1>1, <1>3, TimesAreNat
  <2>2. del' \in {"none", "pending", "done", "lost"} BY <1>4 DEF Inv, TypeOK
  <2> QED BY <1>2, <1>4, <2>1, <2>2 DEF Inv, TypeOK
<1>6. CallInv'
  <2>1. ASSUME NEW c \in Calls PROVE CallOK(call[c], now, lastReady')
    BY <1>1, <1>3, CallOKLater DEF Inv, CallInv
  <2> QED BY <1>2, <2>1 DEF CallInv
<1>7. CacheInv'
  <2>1. cache # NoEntry => cache.set \in Nat BY TypeFacts, TimesAreNat DEF Inv, Entries
  <2>2. lastReady' \in Nat BY <1>3, TimesAreNat
  <2> QED BY <1>1, <1>2, <1>3, <2>1, <2>2, TimesAssumption DEF Inv, CacheInv
<1>8. ReadyInv' BY <1>2, <1>3 DEF ReadyInv
<1>9. DelInv'
  <2>1. \A c \in Calls : Filling(c)' <=> Filling(c) BY <1>2 DEF Filling
  <2>2. forgotten => phase = "deleted" BY DEF Inv, DelInv
  <2>3. forgotten' => del' = del BY <1>2, <1>4, <2>2
  <2>4. del' # "none" => phase' = "deleted" BY <1>4 DEF Inv, DelInv
  <2> QED BY <1>2, <2>1, <2>3, <2>4 DEF Inv, DelInv
<1> QED BY <1>5, <1>6, <1>7, <1>8, <1>9 DEF Inv

\* The Del, whether it takes effect or not, and a crash.
LEMMA DelInvStep ==
    ASSUME Inv, DelCache \/ DelLost \/ Restart
    PROVE  Inv'
<1>1. /\ phase' = phase /\ whole' = whole /\ purged' = purged /\ now' = now /\ token' = token
      /\ lastReady' = lastReady
      /\ del' \in {"none", "pending", "done", "lost"}
      /\ del' # "none" => del # "none"
      /\ cache' = cache \/ cache' = NoEntry
  BY DEF DelCache, DelLost, Restart, Inv, TypeOK, lvars
<1>2. now \in Times /\ lastReady \in Times /\ call \in [Calls -> CallRecords]
      /\ cache \in Entries \cup {NoEntry}
  BY TypeFacts DEF Inv
<1>3. CallInv' /\ call' \in [Calls -> CallRecords]
  <2>1. CASE call' = call BY <1>1, <1>2, <2>1 DEF Inv, CallInv
  <2>2. CASE call' = [c \in Calls |-> IdleCall]
    BY <1>1, <1>2, <2>2, IdleOK DEF CallInv
  <2> QED BY <2>1, <2>2 DEF DelCache, DelLost, Restart
<1>4. forgotten' \in BOOLEAN
  <2>1. forgotten \in BOOLEAN BY DEF Inv, TypeOK
  <2> QED BY <2>1 DEF DelCache, DelLost, Restart
<1>5. TypeOK'
  <2>1. cache' \in Entries \cup {NoEntry} BY <1>1, <1>2
  <2> QED BY <1>1, <1>3, <1>4, <2>1 DEF Inv, TypeOK, CallRecords, Entries
<1>6. CacheInv' BY <1>1 DEF Inv, CacheInv
<1>7. ReadyInv' BY <1>1 DEF Inv, ReadyInv
<1>8. DelInv'
  <2>1. del' # "none" => phase' = "deleted" BY <1>1 DEF Inv, DelInv
  <2>2. CASE DelCache
    <3>1. /\ cache' = NoEntry /\ del' = "done" /\ call' = call
          /\ forgotten' = \A c \in Calls : ~Filling(c)
      BY <2>2 DEF DelCache
    <3>2. \A c \in Calls : Filling(c)' <=> Filling(c) BY <3>1 DEF Filling
    <3> QED BY <2>1, <3>1, <3>2 DEF DelInv
  <2>3. CASE DelLost
    <3>1. ~forgotten' BY <2>3 DEF DelLost, Inv, DelInv
    <3> QED BY <2>1, <3>1 DEF DelInv
  <2>4. CASE Restart
    <3>1. /\ forgotten' = forgotten /\ cache' = cache
          /\ \A c \in Calls : call'[c].pc = "idle"
          /\ forgotten => del' = del
      BY <2>4 DEF Restart, IdleCall, Inv, DelInv
    <3>2. \A c \in Calls : ~Filling(c)' BY <3>1 DEF Filling
    <3> QED BY <2>1, <3>1, <3>2 DEF Inv, DelInv
  <2> QED BY <2>2, <2>3, <2>4
<1> QED BY <1>3, <1>5, <1>6, <1>7, <1>8 DEF Inv

\* Time passes: Redis drops what is too old.
LEMMA TickInv ==
    ASSUME Inv, Tick
    PROVE  Inv'
<1>1. /\ now \in Times /\ lastReady \in Times /\ lastReady <= now
      /\ call \in [Calls -> CallRecords] /\ now \in Nat /\ lastReady \in Nat
      /\ cache \in Entries \cup {NoEntry} /\ token \in Nat /\ token <= now + TTL
  BY TypeFacts, TimesAreNat DEF Inv
<1>2. /\ now' = now + 1 /\ now < MaxTime /\ call' = call /\ del' = del /\ forgotten' = forgotten
      /\ phase' = phase /\ whole' = whole /\ purged' = purged
      /\ cache' = (IF cache # NoEntry /\ now' >= cache.set + TTL THEN NoEntry ELSE cache)
      /\ token' = (IF now' >= token THEN 0 ELSE token)
      /\ lastReady' = (IF phase = "ready" THEN now' ELSE lastReady)
  BY DEF Tick, lvars
<1>3. now' \in Times /\ now' \in Nat /\ now <= now'
  BY <1>1, <1>2, TimesAssumption DEF Times
<1>4. /\ lastReady' \in Times /\ lastReady' \in Nat /\ lastReady <= lastReady'
      /\ lastReady' <= now'
  BY <1>1, <1>2, <1>3
<1>5. TypeOK'
  <2>1. token' \in 0 .. now' + TTL BY <1>1, <1>2, TimesAssumption
  <2>2. lastReady' \in 0 .. now' BY <1>3, <1>4
  <2>3. cache' \in Entries \cup {NoEntry} BY <1>1, <1>2
  <2> QED BY <1>1, <1>2, <1>3, <2>1, <2>2, <2>3 DEF Inv, TypeOK, CallRecords, Entries
<1>6. CallInv'
  <2>1. ASSUME NEW c \in Calls PROVE CallOK(call[c], now', lastReady')
    BY <1>1, <1>3, <1>4, CallOKLater DEF Inv, CallInv
  <2> QED BY <1>2, <2>1 DEF CallInv
<1>7. CacheInv'
  <2> SUFFICES ASSUME cache' # NoEntry
               PROVE  /\ cache.set <= now'
                      /\ now' < cache.set + TTL
                      /\ cache.set <= cache.signed + CallTimeout
                      /\ cache.set <= lastReady' + CallTimeout
                      /\ cache.signed + TTL <= cache.expires
                      /\ cache.expires <= cache.set + TTL
    BY <1>2 DEF CacheInv
  <2>1. cache' = cache /\ cache # NoEntry /\ ~(now' >= cache.set + TTL) BY <1>2
  <2>2. cache.set \in Nat BY <1>1, <2>1, TimesAreNat DEF Entries
  <2>3. /\ cache.set <= now /\ cache.set <= cache.signed + CallTimeout
        /\ cache.set <= lastReady + CallTimeout
        /\ cache.signed + TTL <= cache.expires
        /\ cache.expires <= cache.set + TTL
    BY <2>1 DEF Inv, CacheInv
  <2> QED BY <1>1, <1>3, <1>4, <2>1, <2>2, <2>3, TimesAssumption
<1>8. ReadyInv' BY <1>2 DEF ReadyInv
<1>9. DelInv'
  <2>1. \A c \in Calls : Filling(c)' <=> Filling(c) BY <1>2 DEF Filling
  <2> QED BY <1>2, <2>1 DEF Inv, DelInv
<1> QED BY <1>5, <1>6, <1>7, <1>8, <1>9 DEF Inv

\* Every step keeps the invariant.
LEMMA InvStep ==
    ASSUME Inv, [Next]_vars
    PROVE  Inv'
<1>1. CASE UNCHANGED vars
  <2>1. /\ UNCHANGED <<phase, whole, purged>>
        /\ UNCHANGED <<now, cache, token, call, del, lastReady, forgotten>>
    BY <1>1 DEF vars, lvars
  <2> QED BY <2>1 DEF Inv, TypeOK, CallInv, CacheInv, ReadyInv, DelInv, Filling
<1> QED BY <1>1, CallStepInv, PipelineInv, DelInvStep, TickInv DEF Next

\* The invariant holds in every reachable state of every instance.
THEOREM Invariance == Spec => []Inv
BY InvInit, InvStep, PTL DEF Spec

-----------------------------------------------------------------------------
(* The properties.                                                         *)

\* Row, clock, cache and requests stay well-typed; no manifest token outlives
\* one TTL.
THEOREM TypeCorrect == Spec => []TypeOK
BY Invariance, PTL DEF Inv

\* Whatever fills race a deletion or a re-upload, what playback answers is at
\* most 2 * CallTimeout + TTL behind the row, and what a manifest token fetches
\* at most CallTimeout.
THEOREM AnswersAreFresh == Spec => []StaleBound
<1>1. ASSUME Inv PROVE StaleBound
  <2>1. now \in Nat /\ lastReady \in Nat /\ call \in [Calls -> CallRecords]
        /\ cache \in Entries \cup {NoEntry}
    BY <1>1, TypeFacts, TimesAreNat DEF Inv
  <2>2. cache # NoEntry => now < lastReady + CallTimeout + TTL
    <3>1. cache # NoEntry => cache.set \in Nat BY <2>1, TimesAreNat DEF Entries
    <3> QED BY <1>1, <2>1, <3>1, TimesAssumption DEF Inv, CacheInv
  <2>3. ASSUME NEW c \in Calls, call[c].pc = "reply", InTime(c)
        PROVE  IF call[c].kind = "play" THEN now < lastReady + 2 * CallTimeout + TTL
                                        ELSE now <= lastReady + CallTimeout
    <3>1. /\ call[c].start \in Nat /\ now <= call[c].start + CallTimeout
          /\ TTL \in Nat /\ CallTimeout \in Nat
      BY <2>1, <2>3, TimesAreNat, TimesAssumption DEF CallRecords, InTime
    <3>2. CASE call[c].kind = "play"
      <4>1. call[c].start < lastReady + CallTimeout + TTL
        BY <1>1, <2>3, <3>2 DEF Inv, CallInv, CallOK
      <4> QED BY <2>1, <3>1, <3>2, <4>1
    <3>3. CASE call[c].kind # "play"
      <4>1. call[c].start <= lastReady BY <1>1, <2>3, <3>3 DEF Inv, CallInv, CallOK
      <4> QED BY <2>1, <3>1, <3>3, <4>1
    <3> QED BY <3>2, <3>3
  <2> QED BY <2>2, <2>3 DEF StaleBound
<1> QED BY <1>1, Invariance, PTL

\* The expiry a reply reports is never early and at most one request late, its
\* links are at most two requests past their time, and its token covers it.
THEOREM RepliesStayUsable == Spec => []RepliesUsable
<1>1. ASSUME Inv PROVE RepliesUsable
  <2> SUFFICES ASSUME NEW c \in Calls, call[c].pc = "reply", call[c].kind = "play", InTime(c)
               PROVE  /\ call[c].signed + TTL <= call[c].expires
                      /\ call[c].expires <= call[c].signed + TTL + CallTimeout
                      /\ now < call[c].signed + TTL + 2 * CallTimeout
                      /\ call[c].token # 0 => call[c].token >= call[c].expires
    BY DEF RepliesUsable
  <2>1. /\ now \in Nat /\ call[c] \in CallRecords /\ TTL \in Nat /\ CallTimeout \in Nat
    BY <1>1, TypeFacts, TimesAreNat, TimesAssumption DEF Inv
  <2>2. /\ call[c].start \in Nat /\ call[c].signed \in Nat /\ call[c].expires \in Nat
        /\ call[c].token \in Nat
    BY <2>1, TimesAreNat DEF CallRecords
  <2>3. now <= call[c].start + CallTimeout BY DEF InTime
  <2>4. /\ call[c].start < call[c].signed + CallTimeout + TTL
        /\ call[c].signed + TTL <= call[c].expires
        /\ \/ call[c].expires <= call[c].signed + TTL + CallTimeout
           \/ call[c].start <= call[c].signed /\ call[c].expires <= now + TTL
        /\ call[c].token # 0 => call[c].expires <= call[c].token
    BY <1>1 DEF Inv, CallInv, CallOK
  <2> QED BY <2>1, <2>2, <2>3, <2>4
<1> QED BY <1>1, Invariance, PTL

\* A Del that found no fill under way is final: the deleted video never comes
\* back into the cache.
THEOREM DeletionForgets == Spec => []DeleteForgets
<1>1. Inv => DeleteForgets BY DEF Inv, DelInv, DeleteForgets
<1> QED BY <1>1, Invariance, PTL
=============================================================================
