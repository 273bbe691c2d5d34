------------------------------ MODULE Sessions ------------------------------
(***************************************************************************)
(* Login sessions: AuthService.Login and Refresh, the sessions table, and  *)
(* the access check of AuthMiddleware, against a clock.                    *)
(*                                                                         *)
(* Every login and every refresh mints one refresh token and one access    *)
(* token (JTI) together; such a pair is an element of Pairs, so the row's  *)
(* refresh_token_hash and access_jti columns are one field, `cur'.  A      *)
(* browser keeps the refresh token in a cookie that each reply overwrites. *)
(* Requests carry a context that is cancelled after CallTimeout.  Wrong    *)
(* passwords and unknown, replaced, revoked or expired refresh tokens are  *)
(* refused without an effect: they are stuttering steps.                   *)
(***************************************************************************)
EXTENDS Integers, FiniteSets

CONSTANTS
    Sessions,      \* session ids Login can create
    Pairs,         \* token pairs that can be minted
    Calls,         \* requests in progress
    NoSession, NoPair,
    AccessTTL, RefreshTTL,
    CallTimeout,   \* the router's request timeout
    MaxTime        \* bound on the clock

ASSUME NamesAssumption == NoSession \notin Sessions /\ NoPair \notin Pairs
ASSUME TimesAssumption == /\ AccessTTL \in Nat \ {0}
                          /\ RefreshTTL \in Nat
                          /\ CallTimeout \in Nat
                          /\ MaxTime \in Nat
                          /\ CallTimeout <= RefreshTTL

VARIABLES
    now,
    row,        \* the sessions table
    pair,       \* what a minted pair says: its session, issue time, version
    jar,        \* session -> the pair in the browser's cookie
    delivered,  \* pairs some reply carried to a client
    call,       \* requests in progress
    disturbed   \* history: sessions with overlapping refreshes or a lost reply

vars == <<now, row, pair, jar, delivered, call, disturbed>>

Never == -1

NoRow == [stored |-> FALSE, cur |-> NoPair, version |-> 0, expires |-> 0,
          revoked |-> Never]

Unminted == [s |-> NoSession, iat |-> 0, version |-> 0]

IdleCall == [pc |-> "idle", s |-> NoSession, old |-> NoPair, new |-> NoPair,
             began |-> 0, expires |-> 0]

\* Only a request that has minted a pair holds one.
ShapesOK ==
    /\ now \in 0 .. MaxTime
    /\ row \in [Sessions -> [stored: BOOLEAN, cur: Pairs \cup {NoPair}, version: Nat,
                             expires: Nat, revoked: Nat \cup {Never}]]
    /\ pair \in [Pairs -> [s: Sessions \cup {NoSession}, iat: Nat, version: Nat]]
    /\ jar \in [Sessions -> Pairs \cup {NoPair}]
    /\ delivered \subseteq Pairs
    /\ call \in [Calls -> [pc: {"idle", "mint", "rotate", "reply"},
                           s: Sessions \cup {NoSession}, old: Pairs \cup {NoPair},
                           new: Pairs \cup {NoPair}, began: Nat, expires: Nat]]
    /\ \A c \in Calls : /\ call[c].pc = "idle" <=> call[c].s = NoSession
                        /\ call[c].pc \in {"rotate", "reply"} <=> call[c].new # NoPair
    /\ disturbed \subseteq Sessions

\* No row revoked and no pair issued in the future, and no expiry further away
\* than one lifetime: renewals do not add up.
TimesOK ==
    /\ \A s \in Sessions : row[s].revoked <= now /\ row[s].expires <= now + RefreshTTL
    /\ \A p \in Pairs : pair[p].iat <= now
    /\ \A c \in Calls : call[c].began <= now /\ call[c].expires <= now + RefreshTTL

\* The clock, the table, the tokens and the requests are well-typed; times that
\* Login and Refresh stored lie within a lifetime of the clock.
TypeOK == ShapesOK /\ TimesOK

Init ==
    /\ now = 0
    /\ row = [s \in Sessions |-> NoRow]
    /\ pair = [p \in Pairs |-> Unminted]
    /\ jar = [s \in Sessions |-> NoPair]
    /\ delivered = {}
    /\ call = [c \in Calls |-> IdleCall]
    /\ disturbed = {}

-----------------------------------------------------------------------------
Idle(c) == call[c].pc = "idle"
Return(c) == call' = [call EXCEPT ![c] = IdleCall]
InTime(c) == now <= call[c].began + CallTimeout
Busy(s) == \E c \in Calls : call[c].s = s

\* IssueToken and generateRefreshToken: a pair nobody has seen.
Fresh(p) == pair[p] = Unminted

\* Login once the password is right: mint, then INSERT the session.  Before
\* the INSERT nobody knows the session, so this is one step.
LoginRow(p) == [stored |-> TRUE, cur |-> p, version |-> 1, expires |-> now + RefreshTTL,
                revoked |-> Never]

Login(c, s, p) ==
    /\ Idle(c) /\ ~row[s].stored /\ Fresh(p)
    /\ row' = [row EXCEPT ![s] = LoginRow(p)]
    /\ pair' = [pair EXCEPT ![p] = [s |-> s, iat |-> now, version |-> 1]]
    /\ call' = [call EXCEPT ![c] = [pc |-> "reply", s |-> s, old |-> NoPair, new |-> p,
                                    began |-> now, expires |-> 0]]
    /\ UNCHANGED <<now, jar, delivered, disturbed>>

\* Store fails after the INSERT was committed: a session nobody holds.
LoginError(c, s, p) ==
    /\ Idle(c) /\ ~row[s].stored /\ Fresh(p)
    /\ row' = [row EXCEPT ![s] = LoginRow(p)]
    /\ pair' = [pair EXCEPT ![p] = [s |-> s, iat |-> now, version |-> 1]]
    /\ disturbed' = disturbed \cup {s}
    /\ UNCHANGED <<now, jar, delivered, call>>

\* Mutant of RefreshRead: expiry is not checked.
RefreshReadExpired(c, s) ==
    /\ Idle(c)
    /\ row[s].stored /\ jar[s] # NoPair /\ row[s].cur = jar[s]
    /\ row[s].revoked = Never
    /\ call' = [call EXCEPT ![c] = [pc |-> "mint", s |-> s, old |-> jar[s], new |-> NoPair,
                                    began |-> now, expires |-> 0]]
    /\ disturbed' = IF Busy(s) THEN disturbed \cup {s} ELSE disturbed
    /\ UNCHANGED <<now, row, pair, jar, delivered>>

\* Refresh looks the cookie's token up and checks revocation and expiry.
RefreshRead(c, s) ==
    /\ Idle(c)
    /\ row[s].stored /\ jar[s] # NoPair /\ row[s].cur = jar[s]
    /\ row[s].revoked = Never /\ ~(row[s].expires < now)
    /\ call' = [call EXCEPT ![c] = [pc |-> "mint", s |-> s, old |-> jar[s], new |-> NoPair,
                                    began |-> now, expires |-> 0]]
    /\ disturbed' = IF Busy(s) THEN disturbed \cup {s} ELSE disturbed
    /\ UNCHANGED <<now, row, pair, jar, delivered>>

\* IssueToken, generateRefreshToken, and the clock read for the new expiry.
RefreshMint(c, p) ==
    /\ call[c].pc = "mint" /\ Fresh(p)
    /\ pair' = [pair EXCEPT ![p] = [s |-> call[c].s, iat |-> now, version |-> 0]]
    /\ call' = [call EXCEPT ![c].pc = "rotate", ![c].new = p, ![c].expires = now + RefreshTTL]
    /\ UNCHANGED <<now, row, jar, delivered, disturbed>>

\* Mutant of Rotated: the lifetime is added to what is left of the old one.
RotatedExtending(c) ==
    LET r == row[call[c].s] IN
    [r EXCEPT !.cur = call[c].new, !.expires = @ + RefreshTTL, !.version = @ + 1]

\* Mutant of Rotated: the version is computed from the row read earlier.
RotatedFromRead(c) ==
    LET r == row[call[c].s] IN
    [r EXCEPT !.cur = call[c].new, !.expires = call[c].expires,
              !.version = pair[call[c].old].version + 1]

\* The row after Rotate's UPDATE; the old token is not part of its WHERE.
Rotated(c) ==
    LET r == row[call[c].s] IN
    [r EXCEPT !.cur = call[c].new, !.expires = call[c].expires, !.version = @ + 1]

\* Mutant of Rotatable: the WHERE clause forgets revoked_at IS NULL.
RotatableAlways(s) == TRUE

\* WHERE id = s AND revoked_at IS NULL
Rotatable(s) == row[s].revoked = Never

Rotate(c) ==
    /\ row' = [row EXCEPT ![call[c].s] = Rotated(c)]
    /\ pair' = [pair EXCEPT ![call[c].new].version = Rotated(c).version]

RefreshRotate(c) ==
    /\ call[c].pc = "rotate" /\ InTime(c) /\ Rotatable(call[c].s)
    /\ Rotate(c)
    /\ call' = [call EXCEPT ![c].pc = "reply"]
    /\ UNCHANGED <<now, jar, delivered, disturbed>>

\* The UPDATE was committed, but the request saw an error.
RefreshRotateError(c) ==
    /\ call[c].pc = "rotate" /\ InTime(c) /\ Rotatable(call[c].s)
    /\ Rotate(c)
    /\ Return(c)
    /\ disturbed' = disturbed \cup {call[c].s}
    /\ UNCHANGED <<now, jar, delivered>>

\* A revoked row, a database error, a cancelled context: nothing was written.
RefreshAbort(c) ==
    /\ call[c].pc \in {"mint", "rotate"}
    /\ Return(c)
    /\ UNCHANGED <<now, row, pair, jar, delivered, disturbed>>

\* Mutant of Reply: the refresh cookie is set at login only.
ReplyWithoutCookie(c) ==
    /\ call[c].pc = "reply"
    /\ delivered' = delivered \cup {call[c].new}
    /\ jar' = IF call[c].old = NoPair THEN [jar EXCEPT ![call[c].s] = call[c].new] ELSE jar
    /\ Return(c)
    /\ UNCHANGED <<now, row, pair, disturbed>>

\* The reply arrives: the cookie is overwritten, in the order of arrival.
Reply(c) ==
    /\ call[c].pc = "reply"
    /\ delivered' = delivered \cup {call[c].new}
    /\ jar' = [jar EXCEPT ![call[c].s] = call[c].new]
    /\ Return(c)
    /\ UNCHANGED <<now, row, pair, disturbed>>

ReplyLost(c) ==
    /\ call[c].pc = "reply"
    /\ Return(c)
    /\ disturbed' = disturbed \cup {call[c].s}
    /\ UNCHANGED <<now, row, pair, jar, delivered>>

\* RevokeByAccessJTI, which the repository offers and AuthMiddleware relies on
\* (no route calls it yet): only the pair that is current names the row.
Revoke(p) ==
    /\ \E s \in Sessions :
           /\ row[s].stored /\ row[s].cur = p /\ row[s].revoked = Never
           /\ row' = [row EXCEPT ![s].revoked = now]
    /\ UNCHANGED <<now, pair, jar, delivered, call, disturbed>>

Tick ==
    /\ now < MaxTime
    /\ now' = now + 1
    /\ UNCHANGED <<row, pair, jar, delivered, call, disturbed>>

Next ==
    \/ \E c \in Calls, s \in Sessions, p \in Pairs : Login(c, s, p) \/ LoginError(c, s, p)
    \/ \E c \in Calls, s \in Sessions : RefreshRead(c, s)
    \/ \E c \in Calls, p \in Pairs : RefreshMint(c, p)
    \/ \E c \in Calls : \/ RefreshRotate(c) \/ RefreshRotateError(c) \/ RefreshAbort(c)
                        \/ Reply(c) \/ ReplyLost(c)
    \/ \E p \in Pairs : Revoke(p)
    \/ Tick

Spec == Init /\ [][Next]_vars

-----------------------------------------------------------------------------
\* AuthMiddleware lets a bearer of pair p in: the JWT has not expired, and no
\* revoked row carries its JTI (the row of a replaced JTI no longer does).
Accepted(p) ==
    /\ p \in delivered
    /\ now < pair[p].iat + AccessTTL
    /\ ~\E s \in Sessions : row[s].stored /\ row[s].cur = p /\ row[s].revoked # Never

\* However refreshes overlap, no two successful ones of a session report the
\* same version, and the row holds the pair of the highest version.
VersionsDistinct ==
    \A p, q \in Pairs :
        /\ pair[p].version > 0
        /\ pair[p].s = pair[q].s
        /\ p # q
        => /\ pair[p].version # pair[q].version
           /\ pair[p].version <= row[pair[p].s].version
           /\ pair[p].version = row[pair[p].s].version => row[pair[p].s].cur = p

\* A revocation ends the session's access within one access-token lifetime,
\* although tokens that were replaced earlier are not checked against it and a
\* refresh may have read the row before it was revoked.
RevocationBound ==
    \A p \in Pairs :
        /\ Accepted(p)
        /\ row[pair[p].s].revoked # Never
        => now < row[pair[p].s].revoked + AccessTTL

\* A browser that never overlaps refreshes and loses no reply always holds the
\* session's current refresh token between requests: rotation cannot lock it out.
NoLockout ==
    \A s \in Sessions :
        row[s].stored /\ s \notin disturbed /\ ~Busy(s) => jar[s] = row[s].cur

\* Expiry is tested before the rotation and not again by it: a session can be
\* renewed after it has expired, but by no more than the request timeout.
RevivalBound ==
    [][\A s \in Sessions :
          row[s].stored /\ row'[s].version # row[s].version
              => now <= row[s].expires + CallTimeout]_vars
=============================================================================
