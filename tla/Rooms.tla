------------------------------- MODULE Rooms -------------------------------
(***************************************************************************)
(* Conference rooms: RoomService over the rooms table and LiveKit, and the *)
(* hourly closer of stale rooms.                                           *)
(*                                                                         *)
(* The database keys rooms by id, LiveKit by name; names are chosen by     *)
(* users and need not be unique.  Handlers and the closer run the same     *)
(* endRoom, so both are "actors" here: read the row, UPDATE it to ended,   *)
(* delete the LiveKit room.  Refused requests (missing row, not the owner, *)
(* room ended, media not ready) change nothing and are stuttering steps.   *)
(***************************************************************************)
EXTENDS Integers, FiniteSets

CONSTANTS
    Rooms,       \* room ids newID can return
    Names,       \* LiveKit room names
    Name,        \* the name a room is created under
    Calls,       \* HTTP requests in progress
    Closer,      \* the closer's goroutine
    NoRoom,
    MaxFaults    \* bound: database errors, LiveKit errors and crashes

ASSUME RoomsAssumption == /\ Name \in [Rooms -> Names]
                          /\ Closer \notin Calls
                          /\ NoRoom \notin Rooms
                          /\ MaxFaults \in Nat

Actors == Calls \cup {Closer}

VARIABLES
    status,    \* rooms.status; "none": no row
    stale,     \* rooms older than the closer's minActiveDuration
    movie,     \* rooms whose media_id is set
    livekit,   \* LiveKit's rooms by name
    token,     \* rooms for which someone holds an unexpired join token
    actor,     \* what each handler, and the closer, is doing
    todo,      \* the closer: listed stale rooms still to visit
    counted,   \* the closer: rooms counted in this run's closedCount
    ended,     \* history: the actor whose UPDATE ended the room
    leaked,    \* history: rooms whose LiveKit room a fault left behind
    reopened,  \* history: ended rooms whose LiveKit room was opened again
    faults

vars == <<status, stale, movie, livekit, token, actor, todo, counted, ended, leaked,
          reopened, faults>>

PCs == {"idle", "insert", "read", "update", "delete", "join", "media"}

IdleActor == [pc |-> "idle", r |-> NoRoom]

\* Rows, LiveKit rooms and actors are well-typed.  A row is active or ended:
\* RoomPending is never stored, and a row with it could be neither joined nor
\* ended, and the closer would not list it.
TypeOK ==
    /\ status \in [Rooms -> {"none", "active", "ended"}]
    /\ stale \subseteq Rooms
    /\ movie \subseteq Rooms
    /\ livekit \in [Names -> {"absent", "empty", "occupied"}]
    /\ token \subseteq Rooms
    /\ actor \in [Actors -> [pc: PCs, r: Rooms \cup {NoRoom}]]
    /\ \A a \in Actors : actor[a].pc = "idle" <=> actor[a].r = NoRoom
    /\ todo \subseteq Rooms
    /\ counted \subseteq Rooms
    /\ ended \in [Rooms -> SUBSET Actors]
    /\ leaked \subseteq Rooms
    /\ reopened \subseteq Rooms
    /\ faults \in 0 .. MaxFaults

Init ==
    /\ status = [r \in Rooms |-> "none"]
    /\ stale = {}
    /\ movie = {}
    /\ livekit = [n \in Names |-> "absent"]
    /\ token = {}
    /\ actor = [a \in Actors |-> IdleActor]
    /\ todo = {}
    /\ counted = {}
    /\ ended = [r \in Rooms |-> {}]
    /\ leaked = {}
    /\ reopened = {}
    /\ faults = 0

Active(r) == status[r] = "active"
Fault == faults < MaxFaults /\ faults' = faults + 1
Return(a) == actor' = [actor EXCEPT ![a] = IdleActor]
Goto(a, pc) == actor' = [actor EXCEPT ![a].pc = pc]
Start(a, r, pc) ==
    /\ actor[a].pc = "idle"
    /\ actor' = [actor EXCEPT ![a] = [pc |-> pc, r |-> r]]

\* Someone opens the LiveKit room n after rooms of that name have ended.
Reopen(n) ==
    reopened' = reopened \cup {q \in Rooms : /\ Name[q] = n /\ status[q] = "ended"
                                           /\ \A a \in Actors : actor[a] # [pc |-> "delete", r |-> q]}

-----------------------------------------------------------------------------
(* CreateRoom: LiveKit first, then the row.                                *)

\* lk.CreateRoom returns the room that already has the name, if any.
CreateLiveKit(c, r) ==
    /\ status[r] = "none"
    /\ \A a \in Actors : actor[a].r # r
    /\ Start(c, r, "insert")
    /\ livekit' = [livekit EXCEPT ![Name[r]] = IF @ = "absent" THEN "empty" ELSE @]
    /\ Reopen(Name[r])
    /\ UNCHANGED <<status, stale, movie, token, todo, counted, ended, leaked, faults>>

\* lk.CreateRoom fails, having opened the room or not: no row is written.
CreateLiveKitError(c, r) ==
    /\ status[r] = "none"
    /\ \A a \in Actors : actor[a].r # r
    /\ actor[c].pc = "idle"
    /\ Fault
    /\ \/ UNCHANGED <<livekit, reopened>>
       \/ /\ livekit' = [livekit EXCEPT ![Name[r]] = IF @ = "absent" THEN "empty" ELSE @]
          /\ Reopen(Name[r])
    /\ UNCHANGED <<status, stale, movie, token, actor, todo, counted, ended, leaked>>

\* Mutant of CreateRow: the room is stored with the status that the source
\* declares and no query knows.
CreateRowPending(c) ==
    /\ actor[c].pc = "insert"
    /\ status' = [status EXCEPT ![actor[c].r] = "pending"]
    /\ Return(c)
    /\ UNCHANGED <<stale, movie, livekit, token, todo, counted, ended, leaked, reopened, faults>>

CreateRow(c) ==
    /\ actor[c].pc = "insert"
    /\ status' = [status EXCEPT ![actor[c].r] = "active"]
    /\ Return(c)
    /\ UNCHANGED <<stale, movie, livekit, token, todo, counted, ended, leaked, reopened, faults>>

\* The INSERT fails, committed or not; the LiveKit room stays.
CreateRowError(c) ==
    /\ actor[c].pc = "insert"
    /\ Fault
    /\ status' \in {status, [status EXCEPT ![actor[c].r] = "active"]}
    /\ Return(c)
    /\ UNCHANGED <<stale, movie, livekit, token, todo, counted, ended, leaked, reopened>>

-----------------------------------------------------------------------------
(* JoinRoom and UpdateRoomState: both test the status, then act later.     *)

\* Mutant of JoinRead: a missing row is no error.
JoinReadMissing(c, r) ==
    /\ status[r] # "ended"
    /\ Start(c, r, "join")
    /\ UNCHANGED <<status, stale, movie, livekit, token, todo, counted, ended, leaked, reopened, faults>>

JoinRead(c, r) ==
    /\ Active(r)
    /\ Start(c, r, "join")
    /\ UNCHANGED <<status, stale, movie, livekit, token, todo, counted, ended, leaked, reopened, faults>>

\* GenerateToken, signed locally and returned.
JoinReply(c) ==
    /\ actor[c].pc = "join"
    /\ token' = token \cup {actor[c].r}
    /\ Return(c)
    /\ UNCHANGED <<status, stale, movie, livekit, todo, counted, ended, leaked, reopened, faults>>

UpdateRead(c, r) ==
    /\ Active(r)
    /\ Start(c, r, "media")
    /\ UNCHANGED <<status, stale, movie, livekit, token, todo, counted, ended, leaked, reopened, faults>>

\* UpdateRoomMedia, to a media id (movie) or to NULL (conference), WHERE id only;
\* or the media is refused or the statement fails, and media_id stays.
UpdateWrite(c) ==
    /\ actor[c].pc = "media"
    /\ movie' \in {movie, movie \cup {actor[c].r}, movie \ {actor[c].r}}
    /\ Return(c)
    /\ UNCHANGED <<status, stale, livekit, token, todo, counted, ended, leaked, reopened, faults>>

-----------------------------------------------------------------------------
(* endRoom, run by a handler (EndRoomByOwner) or by the closer (EndRoom).  *)

EndStart(c, r) ==
    /\ status[r] # "none"
    /\ Start(c, r, "read")
    /\ UNCHANGED <<status, stale, movie, livekit, token, todo, counted, ended, leaked, reopened, faults>>

\* The closer counts a room for which endRoom returned no error.
Count(a) == counted' = IF a = Closer THEN counted \cup {actor[a].r} ELSE counted

\* GetRoomByID; a room that is not active is returned as it is, without error.
EndRead(a) ==
    /\ actor[a].pc = "read"
    /\ IF Active(actor[a].r) THEN Goto(a, "update") /\ UNCHANGED counted
                             ELSE Return(a) /\ Count(a)
    /\ UNCHANGED <<status, stale, movie, livekit, token, todo, ended, leaked, reopened, faults>>

\* GetRoomByID fails; the closer counts the room as failed and goes on.
EndReadError(a) ==
    /\ actor[a].pc = "read"
    /\ Fault
    /\ Return(a)
    /\ UNCHANGED <<status, stale, movie, livekit, token, todo, counted, ended, leaked, reopened>>

\* Mutant of Endable: the UPDATE forgets AND status = 'active'.
EndableAlways(r) == TRUE

\* WHERE id = r AND status = 'active'
Endable(r) == Active(r)

\* Mutant of EndRow: the LiveKit room is left to its empty timeout.
EndRowOnly(a) ==
    LET r == actor[a].r IN
    /\ actor[a].pc = "update"
    /\ IF Endable(r)
       THEN /\ status' = [status EXCEPT ![r] = "ended"]
            /\ ended' = [ended EXCEPT ![r] = @ \cup {a}]
       ELSE UNCHANGED <<status, ended>>
    /\ Return(a)
    /\ UNCHANGED <<stale, movie, livekit, token, todo, counted, leaked, reopened, faults>>

\* Mutant of EndRow: LiveKit is cleared before the row is updated.
EndRowAfterLiveKit(a) ==
    LET r == actor[a].r IN
    /\ actor[a].pc = "update"
    /\ livekit' = [livekit EXCEPT ![Name[r]] = "absent"]
    /\ Goto(a, "delete")
    /\ UNCHANGED <<status, ended, stale, movie, token, todo, counted, leaked, reopened, faults>>

\* The UPDATE; zero rows is ErrNotFound, which ends the request and is passed
\* over by the closer.
EndRow(a) ==
    LET r == actor[a].r IN
    /\ actor[a].pc = "update"
    /\ IF Endable(r)
       THEN /\ status' = [status EXCEPT ![r] = "ended"]
            /\ ended' = [ended EXCEPT ![r] = @ \cup {a}]
            /\ Goto(a, "delete")
       ELSE UNCHANGED <<status, ended>> /\ Return(a)
    /\ UNCHANGED <<stale, movie, livekit, token, todo, counted, leaked, reopened, faults>>

\* The UPDATE fails, committed or not: nobody will delete the LiveKit room.
EndRowError(a) ==
    LET r == actor[a].r IN
    /\ actor[a].pc = "update"
    /\ Fault
    /\ \/ UNCHANGED <<status, ended, leaked>>
       \/ /\ Endable(r)
          /\ status' = [status EXCEPT ![r] = "ended"]
          /\ ended' = [ended EXCEPT ![r] = @ \cup {a}]
          /\ leaked' = leaked \cup {r}
    /\ Return(a)
    /\ UNCHANGED <<stale, movie, livekit, token, todo, counted, reopened>>

\* lk.DeleteRoom throws everyone out.
EndLiveKit(a) ==
    /\ actor[a].pc = "delete"
    /\ livekit' = [livekit EXCEPT ![Name[actor[a].r]] = "absent"]
    /\ Return(a)
    /\ Count(a)
    /\ UNCHANGED <<status, stale, movie, token, todo, ended, leaked, reopened, faults>>

\* DeleteRoom fails after the row has ended, having emptied the LiveKit room or
\* not; a second attempt stops at EndRead.
EndLiveKitError(a) ==
    LET r == actor[a].r IN
    /\ actor[a].pc = "delete"
    /\ Fault
    /\ \/ UNCHANGED livekit /\ leaked' = leaked \cup {r}
       \/ livekit' = [livekit EXCEPT ![Name[r]] = "absent"] /\ UNCHANGED leaked
    /\ Return(a)
    /\ UNCHANGED <<status, stale, movie, token, todo, counted, ended, reopened>>

-----------------------------------------------------------------------------
(* The closer.                                                             *)

ClosingDone == actor[Closer].pc = "idle" /\ todo = {}

\* Mutant of CloserList: the age test is inverted.
CloserListYoung ==
    /\ ClosingDone
    /\ todo' = {r \in Rooms \ stale : Active(r)}
    /\ counted' = {}
    /\ UNCHANGED <<status, stale, movie, livekit, token, actor, ended, leaked, reopened, faults>>

\* ListActiveRooms and one clock reading, against which every age is taken.
CloserList ==
    /\ ClosingDone
    /\ todo' = {r \in stale : Active(r)}
    /\ counted' = {}
    /\ UNCHANGED <<status, stale, movie, livekit, token, actor, ended, leaked, reopened, faults>>

CloserNext ==
    /\ \E r \in todo : Start(Closer, r, "read") /\ todo' = todo \ {r}
    /\ UNCHANGED <<status, stale, movie, livekit, token, counted, ended, leaked, reopened, faults>>

-----------------------------------------------------------------------------
(* Time, LiveKit and its users, crashes.                                   *)

Age(r) ==
    /\ Active(r) /\ r \notin stale
    /\ stale' = stale \cup {r}
    /\ UNCHANGED <<status, movie, livekit, token, actor, todo, counted, ended, leaked, reopened, faults>>

\* A token holder connects; LiveKit creates the room if it is not there.
Connect(r) ==
    /\ r \in token
    /\ livekit' = [livekit EXCEPT ![Name[r]] = "occupied"]
    /\ Reopen(Name[r])
    /\ UNCHANGED <<status, stale, movie, token, actor, todo, counted, ended, leaked, faults>>

Disconnect(n) ==
    /\ livekit[n] = "occupied"
    /\ livekit' = [livekit EXCEPT ![n] = "empty"]
    /\ UNCHANGED <<status, stale, movie, token, actor, todo, counted, ended, leaked, reopened, faults>>

\* LiveKit's EmptyTimeout.
EmptyTimeout(n) ==
    /\ livekit[n] = "empty"
    /\ livekit' = [livekit EXCEPT ![n] = "absent"]
    /\ UNCHANGED <<status, stale, movie, token, actor, todo, counted, ended, leaked, reopened, faults>>

ExpireToken(r) ==
    /\ r \in token
    /\ token' = token \ {r}
    /\ UNCHANGED <<status, stale, movie, livekit, actor, todo, counted, ended, leaked, reopened, faults>>

Restart ==
    /\ Fault
    /\ actor' = [a \in Actors |-> IdleActor]
    /\ todo' = {}
    /\ counted' = {}
    /\ leaked' = leaked \cup {actor[a].r : a \in {b \in Actors : actor[b].pc = "delete"}}
    /\ UNCHANGED <<status, stale, movie, livekit, token, ended, reopened>>

EndStep(a) == \/ EndRead(a) \/ EndReadError(a)
              \/ EndRow(a) \/ EndRowError(a)
              \/ EndLiveKit(a) \/ EndLiveKitError(a)

CallStep(c) == CreateRow(c) \/ CreateRowError(c) \/ JoinReply(c) \/ UpdateWrite(c) \/ EndStep(c)

CloserStep == CloserList \/ CloserNext \/ EndStep(Closer)

Next ==
    \/ \E c \in Calls, r \in Rooms :
           CreateLiveKit(c, r) \/ CreateLiveKitError(c, r) \/ JoinRead(c, r) \/ UpdateRead(c, r) \/ EndStart(c, r)
    \/ \E c \in Calls : CallStep(c)
    \/ CloserStep
    \/ \E r \in Rooms : Age(r) \/ Connect(r) \/ ExpireToken(r)
    \/ \E n \in Names : Disconnect(n) \/ EmptyTimeout(n)
    \/ Restart

Spec == Init /\ [][Next]_vars

\* Goroutines run, remote calls return, the ticker fires and rooms grow old.
FairSpec == /\ Spec
            /\ \A c \in Calls : WF_vars(CallStep(c))
            /\ WF_vars(CloserStep)
            /\ \A r \in Rooms : WF_vars(Age(r))

-----------------------------------------------------------------------------
Namesakes(r) == {q \in Rooms \ {r} : Name[q] = Name[r]}

\* However many handlers and the closer end a room at once, one UPDATE wins:
\* one actor ends it, and so one actor deletes its LiveKit room.
EndedByOne ==
    \A r \in Rooms :
        /\ Cardinality(ended[r]) = IF status[r] = "ended" THEN 1 ELSE 0
        /\ Cardinality({a \in Actors : actor[a].pc = "delete" /\ actor[a].r = r}) <= 1

\* People in an active room are not thrown out by this service, unless a room
\* of the same name was ended.
OccupiedNotCut ==
    [][\A r \in Rooms :
          /\ Active(r) /\ Active(r)'
          /\ livekit[Name[r]] = "occupied"
          /\ livekit'[Name[r]] = "absent"
          => \E q \in Namesakes(r) : status[q] = "ended"]_vars

\* A room that has ended is gone from LiveKit, unless its deletion there is
\* still to come, was lost to a fault, or the name was opened again, by a token
\* that had not expired or for another room.
EndedIsEmptied ==
    \A r \in Rooms :
        status[r] = "ended" /\ livekit[Name[r]] # "absent" =>
            \/ \E a \in Actors : actor[a].pc = "delete" /\ actor[a].r = r
            \/ r \in leaked
            \/ r \in reopened

\* CreateRoom opens a LiveKit room before it writes the row, and leaves it there
\* when the INSERT fails.  Nobody gets into such a room, since only rows have join
\* tokens: a LiveKit room with people in it has a row of its name, and one
\* without stays empty until EmptyTimeout.
OccupiedHasRow ==
    \A n \in Names : livekit[n] = "occupied" => \E r \in Rooms : Name[r] = n /\ status[r] # "none"

\* No room stays active for ever: the closer ends what its owner does not.
StaleRoomsEnd == \A r \in Rooms : Active(r) ~> status[r] = "ended"

\* The closer reports as closed the rooms that it closed: one that a concurrent
\* request ended after the closer's list or read is passed over.
ClosedCountExact == \A r \in counted : Closer \in ended[r]
=============================================================================
