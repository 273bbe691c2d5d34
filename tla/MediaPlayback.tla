--------------------------- MODULE MediaPlayback ---------------------------
(***************************************************************************)
(* Playback of one video: GetPlayback and GetPlaybackByMediaID, which go   *)
(* through a Redis cache, ResolvePlaybackManifest, which goes through a    *)
(* manifest token, and the cache Del that ends a DeleteMedia.  The row and *)
(* its objects move as MediaLifecycle lets them, which MediaPipeline is    *)
(* shown to implement.                                                     *)
(*                                                                         *)
(* Time is a counter.  One constant, TTL, is the playbackTTL of the        *)
(* service: it dates signatures, cache entries and tokens alike.  A tick   *)
(* is at least the second to which a cached ExpiresAt is cut.  A Redis,    *)
(* Postgres or storage operation takes effect only while the request's     *)
(* context is alive; local steps may come later.                           *)
(*                                                                         *)
(* Callers do not appear, and no property says who is served.  GetPlayback *)
(* tests the owner after a miss only, a hit is served before the test, and *)
(* GetPlaybackByMediaID tests nobody; a call refused after a miss has      *)
(* changed nothing and is one that ends at the row.                        *)
(***************************************************************************)
EXTENDS Integers, MediaLifecycle

CONSTANTS
    Calls,          \* slots for requests in progress
    NoEntry,        \* the cache has no entry for the video
    TTL,            \* playbackTTL
    CallTimeout,    \* deadline of a request's context
    MaxTime         \* bound: the clock stops here

ASSUME TimesAssumption == /\ TTL \in Nat \ {0}
                          /\ CallTimeout \in Nat \ {0}
                          /\ MaxTime \in Nat

VARIABLES
    now,          \* the clock
    cache,        \* the entry under playbackCacheKey, or NoEntry
    token,        \* when the youngest manifest token expires; 0: there is none
    call,         \* call -> its progress
    del,          \* the cache Del of the DeleteMedia that deleted the row
    lastReady,    \* history: the last moment at which the row was ready
    forgotten     \* history: the Del took effect while no call was filling the cache

vars == <<lvars, now, cache, token, call, del, lastReady, forgotten>>

CallPCs == {"idle", "get", "row", "build", "stamp", "set", "token", "reply"}
Kinds == {"none", "play", "resolve"}

IdleCall == [pc |-> "idle", kind |-> "none", start |-> 0, signed |-> 0, expires |-> 0, token |-> 0]

Times == 0 .. MaxTime
Expiries == 0 .. MaxTime + TTL

\* Row, clock, cache and calls are well-typed; no token outlives one TTL and no
\* reply reports an expiry further ahead than one TTL beyond the last moment.
TypeOK ==
    /\ phase \in Phases /\ whole \in BOOLEAN /\ purged \in BOOLEAN
    /\ now \in Times
    /\ cache \in [set: Times, signed: Times, expires: Expiries] \cup {NoEntry}
    /\ token \in 0 .. now + TTL
    /\ call \in [Calls -> [pc: CallPCs, kind: Kinds, start: Times, signed: Times,
                           expires: Expiries, token: Expiries]]
    /\ del \in {"none", "pending", "done", "lost"}
    /\ lastReady \in 0 .. now
    /\ forgotten \in BOOLEAN

Init ==
    /\ LInit
    /\ now = 0
    /\ cache = NoEntry
    /\ token = 0
    /\ call = [c \in Calls |-> IdleCall]
    /\ del = "none"
    /\ lastReady = 0
    /\ forgotten = FALSE

InTime(c) == now <= call[c].start + CallTimeout

\* The call has read the row and may still write the cache.
Filling(c) == call[c].kind = "play" /\ call[c].pc \in {"build", "stamp", "set"}

Goto(c, pc) == call' = [call EXCEPT ![c].pc = pc]
Return(c) == call' = [call EXCEPT ![c] = IdleCall]
Idle == UNCHANGED <<lvars, now, del, lastReady, forgotten>>

-----------------------------------------------------------------------------
(* GetPlayback and GetPlaybackByMediaID.                                   *)

Start(c, kind) ==
    /\ call[c].pc = "idle"
    /\ kind # "none"
    /\ call' = [call EXCEPT ![c] = [IdleCall EXCEPT !.pc = "get", !.kind = kind, !.start = now]]
    /\ UNCHANGED <<cache, token>> /\ Idle

\* Mutant of GetHit: a hit renews the entry.
GetHitSliding(c) ==
    /\ call[c].pc = "get" /\ call[c].kind = "play"
    /\ InTime(c)
    /\ cache # NoEntry
    /\ call' = [call EXCEPT ![c].pc = "token", ![c].signed = cache.signed,
                            ![c].expires = cache.expires]
    /\ cache' = [cache EXCEPT !.set = now]
    /\ UNCHANGED token /\ Idle

\* The entry is returned as it is, with its own expiry, before row and owner are
\* looked at.
GetHit(c) ==
    /\ call[c].pc = "get" /\ call[c].kind = "play"
    /\ InTime(c)
    /\ cache # NoEntry
    /\ call' = [call EXCEPT ![c].pc = "token", ![c].signed = cache.signed,
                            ![c].expires = cache.expires]
    /\ UNCHANGED <<cache, token>> /\ Idle

\* No entry, or any error of Redis.
GetMiss(c) ==
    /\ call[c].pc = "get" /\ call[c].kind = "play"
    /\ Goto(c, "row")
    /\ UNCHANGED <<cache, token>> /\ Idle

\* Mutant of GetRow: the status test is dropped.
GetRowUnready(c) ==
    /\ call[c].pc = "row"
    /\ InTime(c)
    /\ phase \in {"pending", "ready", "failed"}
    /\ Goto(c, "build")
    /\ UNCHANGED <<cache, token>> /\ Idle

\* Mutant of GetRow: the SELECT forgets deleted_at IS NULL.
GetRowDeleted(c) ==
    /\ call[c].pc = "row"
    /\ InTime(c)
    /\ phase \in {"ready", "deleted"}
    /\ Goto(c, "build")
    /\ UNCHANGED <<cache, token>> /\ Idle

\* GetByID finds the row, and buildPlayback finds it ready.
GetRow(c) ==
    /\ call[c].pc = "row"
    /\ InTime(c)
    /\ phase = "ready"
    /\ Goto(c, "build")
    /\ UNCHANGED <<cache, token>> /\ Idle

\* GetObjectBytes reads the manifest, then signManifest starts to sign.  The
\* row may have been purged since it was read, the manifest being there or not.
Build(c) ==
    /\ call[c].pc = "build"
    /\ InTime(c)
    /\ call' = [call EXCEPT ![c].pc = "stamp", ![c].signed = now]
    /\ UNCHANGED <<cache, token>> /\ Idle

\* Mutant of Stamp: the expiry is reported twice as far ahead.
StampDouble(c) ==
    /\ call[c].pc = "stamp"
    /\ call' = [call EXCEPT ![c].pc = IF call[c].kind = "play" THEN "set" ELSE "reply",
                            ![c].expires = now + 2 * TTL]
    /\ UNCHANGED <<cache, token>> /\ Idle

\* The clock is read once more, after the last signature.
Stamp(c) ==
    /\ call[c].pc = "stamp"
    /\ call' = [call EXCEPT ![c].pc = IF call[c].kind = "play" THEN "set" ELSE "reply",
                            ![c].expires = now + TTL]
    /\ UNCHANGED <<cache, token>> /\ Idle

\* The cache is filled with what was built, whatever happened meanwhile.
Fill(c) ==
    /\ call[c].pc = "set"
    /\ InTime(c)
    /\ cache' = [set |-> now, signed |-> call[c].signed, expires |-> call[c].expires]
    /\ Goto(c, "token")
    /\ UNCHANGED token /\ Idle

\* The error of Set is ignored.
FillError(c) ==
    /\ call[c].pc = "set"
    /\ Goto(c, "token")
    /\ UNCHANGED <<cache, token>> /\ Idle

\* buildManifestProxyURL stores a new token.
IssueToken(c) ==
    /\ call[c].pc = "token"
    /\ InTime(c)
    /\ token' = now + TTL
    /\ call' = [call EXCEPT ![c].pc = "reply", ![c].token = now + TTL]
    /\ UNCHANGED cache /\ Idle

\* Without Redis the reply has no manifest URL.
IssueTokenError(c) ==
    /\ call[c].pc = "token"
    /\ Goto(c, "reply")
    /\ UNCHANGED <<cache, token>> /\ Idle

\* The reply is written; or the row is missing or not ready, or Postgres, the
\* storage or the context's deadline ends the call with an error.
End(c) ==
    /\ call[c].pc \in {"row", "build", "reply"} \/ (call[c].pc = "get" /\ call[c].kind = "resolve")
    /\ Return(c)
    /\ UNCHANGED <<cache, token>> /\ Idle

-----------------------------------------------------------------------------
(* ResolvePlaybackManifest asks for the token, then for the row; it has no *)
(* cache of its own.                                                       *)

ResolveToken(c) ==
    /\ call[c].pc = "get" /\ call[c].kind = "resolve"
    /\ InTime(c)
    /\ token # 0
    /\ Goto(c, "row")
    /\ UNCHANGED <<cache, token>> /\ Idle

-----------------------------------------------------------------------------
(* The row, and DeleteMedia's last step.                                   *)

\* SoftDelete is followed by a Del, unless its reply was an error or the
\* process stops in between.
SoftDelete ==
    /\ Delete
    /\ del' = "pending"

Pipeline ==
    /\ \/ SoftDelete
       \/ /\ Create \/ Pend \/ Fail \/ Publish \/ Store \/ Purge \/ Reclaim
          /\ UNCHANGED del
    /\ lastReady' = IF "ready" \in {phase, phase'} THEN now ELSE lastReady
    /\ UNCHANGED <<now, cache, token, call, forgotten>>

DelCache ==
    /\ del = "pending"
    /\ cache' = NoEntry
    /\ del' = "done"
    /\ forgotten' = \A c \in Calls : ~Filling(c)
    /\ UNCHANGED <<lvars, now, token, call, lastReady>>

\* The error of Del is ignored.
DelLost ==
    /\ del = "pending"
    /\ del' = "lost"
    /\ UNCHANGED <<lvars, now, cache, token, call, lastReady, forgotten>>

Restart ==
    /\ call' = [c \in Calls |-> IdleCall]
    /\ del' = IF del = "pending" THEN "lost" ELSE del
    /\ UNCHANGED <<lvars, now, cache, token, lastReady, forgotten>>

\* Redis drops keys whose TTL is over.
Tick ==
    /\ now < MaxTime
    /\ now' = now + 1
    /\ cache' = IF cache # NoEntry /\ now' >= cache.set + TTL THEN NoEntry ELSE cache
    /\ token' = IF now' >= token THEN 0 ELSE token
    /\ lastReady' = IF phase = "ready" THEN now' ELSE lastReady
    /\ UNCHANGED <<lvars, call, del, forgotten>>

CallStep(c) ==
    \/ \E kind \in Kinds : Start(c, kind)
    \/ GetHit(c) \/ GetMiss(c) \/ ResolveToken(c) \/ GetRow(c) \/ Build(c) \/ Stamp(c)
    \/ Fill(c) \/ FillError(c) \/ IssueToken(c) \/ IssueTokenError(c) \/ End(c)

Next ==
    \/ \E c \in Calls : CallStep(c)
    \/ Pipeline \/ DelCache \/ DelLost \/ Restart \/ Tick

Spec == Init /\ [][Next]_vars

-----------------------------------------------------------------------------
(* Properties.                                                             *)

\* DeleteMedia clears the cache once, and nothing else does: a fill in flight
\* can bring a deleted video back, and a row set back to processing stays in
\* the cache as ready.  But every fill began with a ready row and within one
\* request's time, so no answer is staler than that: an entry is at most
\* CallTimeout + TTL behind the row, a reply of GetPlayback one more
\* CallTimeout, a manifest fetched by token only CallTimeout.
StaleBound ==
    /\ cache # NoEntry => now < lastReady + CallTimeout + TTL
    /\ \A c \in Calls :
          call[c].pc = "reply" /\ InTime(c) =>
              IF call[c].kind = "play" THEN now < lastReady + 2 * CallTimeout + TTL
                                       ELSE now <= lastReady + CallTimeout

\* Signatures, cache entry and manifest token have the same TTL, but start
\* one after the other.  What a client is told is therefore off by at most the
\* time of the request that filled the cache: the reported expiry is that late,
\* and links handed out by a hit expired at most that long, plus the time of
\* the request itself, before.  The manifest token outlives the reply.
RepliesUsable ==
    \A c \in Calls :
        LET r == call[c] IN
        r.pc = "reply" /\ r.kind = "play" /\ InTime(c) =>
            /\ r.signed + TTL <= r.expires
            /\ r.expires <= r.signed + TTL + CallTimeout
            /\ now < r.signed + TTL + 2 * CallTimeout
            /\ r.token # 0 => r.token >= r.expires

\* Once DeleteMedia's Del has found no fill under way, the video never comes
\* back into the cache: SoftDelete precedes the Del, so later fills fail on the row.
DeleteForgets == forgotten => cache = NoEntry
=============================================================================
