# Verification of the Calixio API

TLA+ models of the video-conference backend in this repository (Go, Postgres,
Redis, S3, LiveKit): what its concurrent parts do to the state they share, TLC
runs on small instances, and TLAPS proofs for every size. `PROJECT.json` maps
each definition to the lines it models.

## The system

| Component | State | Operations | Shares it with |
|---|---|---|---|
| Media upload (`service/media_upload.go`, `handlers/files`) | `media` rows, objects under `users/<owner>/media/<id>/` | InitUpload, CompleteUpload, DeleteMedia | transcoder, cleanup, clients holding presigned URLs |
| Media transcoder (`service/media_transcoder.go`) | a buffered channel of ids, one worker goroutine, temporary workspaces | Enqueue, worker, processMedia, withRetry, tailBuffer | upload service (queue, rows, bucket) |
| Media cleanup (`service/media_cleanup.go`) | none of its own | RunOnce, RunDaily | rows and bucket |
| Media playback (`media_upload.go:249-385`, `416-495`) | Redis: signed manifests, manifest tokens | GetPlayback, ResolvePlaybackManifest | rows, bucket, DeleteMedia |
| Object storage (`service/storage.go`) | the bucket | presign, head, get, upload, list, delete | all of the above |
| Sessions (`service/auth.go`, `repository/tokens.go`, `middleware/auth.go`) | `sessions` rows, JWTs, the browser's cookie | Login, Refresh, Rotate, Revoke, access check | overlapping requests |
| Rooms (`service/room.go`, `repository/rooms.go`) | `rooms` rows (by id), LiveKit rooms (by name), join tokens | CreateRoom, JoinRoom, UpdateRoomState, EndRoom | closer, LiveKit, participants |
| Stale room closer (`cmd/api/main.go:153`) | one goroutine, hourly | EndStaleActiveRooms | handlers that end rooms |
| Room playback state (`service/room_playback.go`) | one Redis key per room | SaveByHost, GetState | overlapping saves |
| Webhooks (`service/webhook.go`) | Redis set of participants per room | HandleEvent | LiveKit |
| HTTP layer, users, configuration | none that changes concurrently | | |

What is hard here: nothing is transactional across Postgres, S3, Redis and
LiveKit, so every handler is a sequence of remote steps that others interleave
with and that can stop in the middle. Every status test is a read that may be
stale when it is used. Jobs live in memory only. LiveKit is keyed by names,
the database by ids. `PROJECT.json` lists each such hazard at its line with the
properties that cover it, or a note where none does.

## Modules

| Module | Models |
|---|---|
| `MediaPipeline` | upload, transcoding, deletion and cleanup of videos |
| `MediaLifecycle` | the abstract specification of one video: what the pipeline promises to those who only read its row and objects |
| `MediaRefinement` | the mapping by which `MediaPipeline` implements `MediaLifecycle` |
| `MediaPlayback` | playback requests, cache and manifest tokens, composed with `MediaLifecycle` |
| `Retry` | `withRetry` and the deadline of a job |
| `TailBuffer`, `StorageKeys` | pure algorithms: the end of ffmpeg's output; object keys and what purges make of them |
| `Sessions` | login, refresh, rotation, revocation and the access check |
| `Rooms` | rooms in the database and in LiveKit, and the closer |
| `RoomPlaybackState` | what a room is watching: the host's saves |
| `Participants` | who is in a room, by LiveKit's webhooks |
| `*Proofs` | the TLAPS proofs about the module of that name; `MediaPipelineProofs` holds those about `MediaRefinement` too, `AlgorithmsProofs` those about `TailBuffer` and `StorageKeys` |
| `MC*` | symmetry sets and constant values for TLC; `MCAlgorithms` puts the two algorithm modules in one run |

Operators whose comment starts with "Mutant of" are deliberate bugs. No action
uses them; substituting one for the definition it names makes TLC report the
property that guards against it (`PROJECT.json`, `mutants`).

### MediaPipeline

One step is one database statement, one storage request or one channel
operation. `status` and `deleted` are the columns of the media table; `objects`
is the bucket, with the keys of a video numbered in the order in which the
worker uploads them (0 the original, 1 the preview, 2 the manifest, then the
segments: `os.ReadDir` sorts `index.m3u8` before `segment_00000.ts`); `url` is
who still holds a valid presigned PUT; `call`, `queue`, `worker` and `cleaner`
are the goroutines' program counters and locals. `Updated` is the WHERE clause
`deleted_at IS NULL` that all three UPDATE statements share.

`key` says of each row what kind of storage key its original has, which the
client's file name decides. Not every key can be purged: `Listed` is what a
listing of the video's folder returns, which lacks an original whose key is the
folder itself (file name `..`), and `Erased` what a deletion of listed keys
removes, which is not an original whose key ends in white space, since
`DeleteObjectsByPrefix` trims each key first. `StorageKeys` derives these kinds
from file names (`Unpurgeable`); here `KeyKinds` is the set of those that occur.

Failures. A statement that fails may have been applied or not. These
faults and restarts are bounded by `MaxFaults`; a processing failure of the
worker (bad file, full disk, deadline, retries used up) is not a fault and may
always happen. A restart empties the queue and every program counter: `main`
builds a new channel and re-reads nothing. `waitForShutdown` drains HTTP
requests for ten seconds and does not wait for the worker, so an orderly
shutdown loses jobs like a crash does.

`dropped`, `halfDeleted` and `torn` are history variables: they record which
rows lost their job to a fault, which deletions stopped after the purge, and
which videos have outputs of two attempts in the bucket. The properties use
them to say that nothing else causes the same damage.

`worker.dir` counts the workspaces tried. `WorkerFallback` is the loop of
`processMedia`: an error that mentions a full disk, in whichever step, makes
the worker begin again in the next directory, over what it had uploaded.
`withRetry` is a step that succeeds or fails here; `Retry` opens it up.

Abstractions. Owners, titles, sizes and MIME types only decide whether a
request is refused; a request refused before its first write is a stuttering
step. A listing of a prefix is one step, which is exact up to the 1000 keys of
a page. Media ids are 96 random bits and are taken not to collide. Redis, and
with it the `Del` at the end of DeleteMedia, belongs to `MediaPlayback`.

### MediaLifecycle and MediaRefinement

A video is absent, pending, ready, failed or deleted; `whole` says that all
outputs are stored, `purged` that its deletion has begun to take objects away.
The pipeline's status column, `deleted_at`, bucket and deletions in progress
map to these three; queue, worker, calls and cleaner disappear. The mapping
looks at one video, `Video`, whatever the others do.

### MediaPlayback

Extends `MediaLifecycle`, so the row it reads may do whatever the pipeline may
make it do, at any moment between two steps of a request. One step is one Redis,
Postgres or storage operation, or one reading of the clock; remote operations
take effect within `CallTimeout` of the start of the request, and so the time a
single command takes is part of it. `TTL` is `playbackTTL`, which the code uses
for signatures, cache entry and token alike, each counted from its own moment.
The two GetPlayback functions are one here, because callers do not appear: they
differ in whom they serve. `GetPlayback` tests the owner only after a miss
(`media_upload.go:280`) and serves a hit before that (255-271);
`GetPlaybackByMediaID` tests nobody and leaves it to the room
handler. No property here says who is served.
An entry that does not parse, an error of Redis and an absent entry are all a
miss. Of the tokens only the youngest is kept, the one that lives longest.

### RoomPlaybackState and Participants

A request must carry film, status, position and rate, so a save replaces them
and only `version` depends on what was read. `Participants` numbers the moves
of a person; LiveKit delivers their events in any order, again after an error
or a lost reply, and gives some up.

### Retry, TailBuffer and StorageKeys

`Retry` runs the storage operations of a job one after the other under one
deadline; the unit of time is the first backoff, and an operation ends at most
`Grace` after its context. An error of `withRetry` ends the attempt in one
workspace; when it mentions a full disk, `processMedia` begins again in the next
one, under the same context and so under the same bound (`WorkerFallback` of
`MediaPipeline`). `TailBuffer` is the writer with its slices.
`StorageKeys` treats names as sequences of characters, because its property is
about what trimming, cleaning and joining do to them; the service's own path
words count as one character. The functions of Go's `strings` and `path` are
modelled by what they do, on the characters that matter to them; splitting and
cleaning are recursive functions over the text and over its parts.

### Sessions

A login or a refresh mints a refresh token and an access token together, so a
pair stands for both. The model keeps the order of the code: read and check,
mint and read the clock, UPDATE, reply. The UPDATE happens within
`CallTimeout` of the start of the request (`router.go:36` cancels its context).
Replies may be lost or arrive in any order; the cookie jar keeps what arrived
last. `RevokeByAccessJTI` is modelled although no route calls it at this
commit: the access check is written for it, and `RevocationBound` says what it
will be worth.

### Rooms

`Name` need not be injective. Handlers and the closer run the same `endRoom`,
so they are all actors. LiveKit is external and modelled from its use: creating
a room that exists returns it, deleting one throws everyone out, an empty room
disappears, and a token holder who connects opens the room again. A call of
LiveKit that fails may have had its effect or not. A room is `stale` once it is
older than `minActiveDuration`. The source also has a status `pending`; that no
row ever gets it is part of `TypeOK`.

## Runs

| Run | Instance | Shows |
|---|---|---|
| `media_faults` | 1 video, 2 calls, preview and manifest, ordinary keys, queue 1, 2 workspaces, 2 faults | the safety properties below, under every interleaving of two requests, worker and cleaner, with faults |
| `media_two` | 2 videos, 1 call, ordinary keys, queue 1, batches of 1, 1 workspace, no fault | a full queue met by another video's job; a cleaner run of several batches over live and deleted rows |
| `media_live` | 1 video, 1 call, a segment too, all kinds of keys, 2 workspaces, 1 fault, fairness | the refinement, `JobsFinish`, `OrphansReclaimed` |
| `media_playback` | 2 requests, TTL 2, timeout 1, clock to 4 | the playback properties |
| `room_playback` | 3 saves at once, 3 in all per key, TTL 2, timeout 1, clock to 4 | the properties of a room's playback state |
| `participants` | 2 people, 3 moves each, fairness | the participant set |
| `retry` | 3 operations, all deadlines up to 24, grace 2 | `withRetry` |
| `algorithms` | texts of up to 5 of 5 characters, buffers of 0 to 3 | `tailBuffer` and the storage keys |
| `sessions` | 1 session, 4 pairs, 3 requests, TTLs of 2, timeout 1, clock to 4 | the session properties |
| `rooms` | 2 rooms of one name, 2 requests and the closer, 1 fault | the room safety properties |
| `rooms_live` | 1 room, 2 requests, 2 faults, fairness | `StaleRoomsEnd` |
| `rooms_count` | 1 room, 1 request | a violation, see below |

The longest, `media_faults`, `media_live` and `media_playback`, take about two
minutes.

Why these bounds suffice. Videos interact only through the queue and the
cleaner's batches, which `media_two` covers with the smallest sizes at which
both overflow. Two calls are needed for a deletion to meet a completion, or two
completions to meet each other; two faults for one to hit the recovery from
another. The segment of `media_live` makes the manifest differ from the last
upload. The kind of a key decides nothing but which purges remove an original,
so only the run that asks about that, `media_live`, has all three. Three
refreshes with four pairs overlap, reorder, and leave one after them; the clock
passes both lifetimes. In `media_playback` a fill by one request meets a hit by
another, and the clock goes past timeout, TTL and timeout again, the longest sum
in the properties; each of its bounds is attained, and one less fails. Three
saves let two overlap and a third read the outcome. Three moves make a person
join, leave and join, so that an old join can meet a new one. 24 exceeds the 21
seconds of all backoffs of three operations, so jobs end both by their attempts
and by their deadline. Five characters hold every case of `Base` and `Join` that
a name can meet after its last slash. The theorems remove the bounds for every
property but the liveness properties. `sessions`, `participants`, `retry` and
`algorithms` do not check deadlock, because their clocks, moves, jobs and texts
end.

### Properties of MediaPipeline

- `CleanerSparesLive`: the cleaner condemns only rows that are soft-deleted,
  even though uploads start while it runs and a batch query may fail.
- `RowFirst`: the reason for it; whatever names a video names an inserted row.
- `UploadsKept`, `ReadyComplete`: a row reported as ready has all its objects,
  unless a DeleteMedia is between purge and SoftDelete, or was cut there.
- `UniformReady`: no row stays ready over a mixture of two attempts' outputs,
  though repeated jobs and fallbacks rewrite them in place; it is set back by the
  CompleteUpload that queues the job, and a failed job marks it failed.
- `NoLostJob`: only a fault leaves a row waiting for nobody. In particular
  neither a full queue nor repeated, concurrent completions do.
- `OnlyDeleteRemoves`, `DeletedIsFinal`: objects vanish only by their own
  deletion; late writes never reach a soft-deleted row.
- `JobsFinish`, `OrphansReclaimed` (liveness): processing ends; what workers
  and clients still store under a deleted row is removed in the end, and for
  good. The exception is an original whose file name ends in white space or is
  `..`: no purge removes it, DeleteMedia's neither (`Lasting`; see `KeysPurged`).

The exceptions in these properties are real behaviours: after a restart rows
stay in `processing` until their owner completes the upload again, and a
DeleteMedia cut after its purge leaves a row that is ready and empty.

- `ImplementsLifecycle`: the pipeline does nothing but the steps of
  `MediaLifecycle` to a video.

### Properties of playback, retry and algorithms

- `StaleBound`: a cache hit never looks at the row, a fill may overtake a
  deletion, and the `Del` may fail. What is served is nonetheless at most
  `2 * CallTimeout + TTL` behind a row that was ready; a manifest fetched by
  token at most `CallTimeout`.
- `RepliesUsable`: signature, entry and token start one after the other, so a
  reported expiry, and a link in a hit, are off by the request's time at most.
- `DeleteForgets`: a `Del` that met no fill under way is final.
- `HoldsWorkerInTime`, `FaithfulResult`: `processMedia` keeps the only worker no
  longer than the job's deadline allows (the failure mark that follows it, at
  `media_transcoder.go:128`, runs under `context.Background()`, has no deadline
  and is not included); nil means all was done, an error that the deadline
  passed or that four attempts failed over seven seconds.
- `TailExact`: the buffer is the tail of the output, in whatever pieces.
- `KeysPurged`: whatever the file name, the key leads the cleaner to its video
  and a purge takes no other video's object. It takes this one's, with two
  exceptions, both stated by `Unpurgeable`: a name whose last part is `..`, which
  makes the key the folder itself, outside the purged prefix, and a name that
  ends in a tab (`a<tab>/`), whose key is trimmed before it is deleted. These objects
  stay in the bucket for good, and are what `OrphansReclaimed` leaves out.

### Properties of Sessions and Rooms

- `VersionsDistinct`: overlapping refreshes all succeed, with distinct
  versions, and the row holds the pair of the last.
- `RevocationBound`: revocation ends all access within one access lifetime,
  though replaced JTIs are no longer found. `RevivalBound`: an expired session
  can be renewed for at most the request timeout. `NoLockout`: a browser that
  neither overlaps refreshes nor loses a reply keeps a valid cookie.
- `EndedByOne`: one actor ends a room. `EndedIsEmptied`: an ended room is gone
  from LiveKit but for faults and for names opened again. `OccupiedNotCut`:
  nobody is thrown out of an active room unless a namesake ended.
  `OccupiedHasRow`: what CreateRoom opened in LiveKit before an INSERT that failed
  is entered by nobody, and so left to LiveKit's empty timeout.
- `StaleRoomsEnd` (liveness): every room ends.
- `VersionCounts`: as long as saves do not overlap, none is lost and versions
  count them; overlapping ones may lose updates and repeat versions.
  `ClockSetBack`: a slow save sets `updatedAt` back by a request's time at most.
  `EndedRoomForgotten`: an ended room's state lingers for a TTL and a request.
- `NewestCounts`: an event applied last and newest is decisive for its person.
  `EventuallyTracked` (liveness): the set becomes right about everyone except
  those whose newest event was given up, or overtaken by an older one: nothing
  in the service corrects these.

### Finding

`rooms_count`: the closer's comment (`room.go:168`) says that rooms ended by a
concurrent request after list or read are passed over. A room ended between
list and read is not: `endRoom` returns it without an error and it is counted
as closed by this run. Only the logged figure is affected.

### Fairness

Weak fairness of each handler, of the worker, of the cleaner and of the closer:
goroutines are scheduled, remote calls return (every context but that of the
two failure marks has a deadline), and tickers fire. Presigned URLs expire and
rooms grow old, since time passes. Clients are under no fairness, and faults
need not happen; being bounded, they stop. A worker step may always be a
failure, so `JobsFinish` does not say that transcoding succeeds. `Participants`
assumes strong fairness of each webhook that LiveKit goes on posting: it may
fail many times, not forever.

## Proofs

TLAPS proves every safety property that the passing runs check, for every value
of the constants: any number of videos, calls, segments, sessions, requests,
rooms, people and faults, every kind of key, every queue size, batch size,
lifetime and timeout, and file names of every length over every alphabet. Each
theorem states the property named beside it.

| Module | Theorem | Property |
|---|---|---|
| `MediaPipelineProofs` | `TypeCorrect` | `TypeOK` |
| | `RowsComeFirst` | `RowFirst` |
| | `CleanerIsSafe` | `CleanerSparesLive` |
| | `UploadsStay` | `UploadsKept` |
| | `ReadyIsComplete` | `ReadyComplete` |
| | `ReadyIsUniform` | `UniformReady` |
| | `JobsAreKept` | `NoLostJob` |
| | `DeletionIsFinal` | `DeletedIsFinal` |
| | `OnlyDeletionRemoves` | `OnlyDeleteRemoves` |
| | `PipelineImplementsLifecycle` | `ImplementsLifecycle`, for any one of the videos |
| `SessionsProofs` | `TypeCorrect` | `TypeOK` |
| | `VersionsStayDistinct` | `VersionsDistinct` |
| | `RevocationIsBounded` | `RevocationBound` |
| | `RotationNeverLocksOut` | `NoLockout` |
| | `RevivalIsBounded` | `RevivalBound` |
| `RoomsProofs` | `TypeCorrect` | `TypeOK` |
| | `OneActorEnds` | `EndedByOne` |
| | `EndedRoomIsEmptied` | `EndedIsEmptied` |
| | `OccupiedIsNotCut` | `OccupiedNotCut` |
| | `OccupiedRoomHasRow` | `OccupiedHasRow` |
| `MediaPlaybackProofs` | `TypeCorrect` | `TypeOK` |
| | `AnswersAreFresh` | `StaleBound` |
| | `RepliesStayUsable` | `RepliesUsable` |
| | `DeletionForgets` | `DeleteForgets` |
| `RoomPlaybackStateProofs` | `TypeCorrect` | `TypeOK` |
| | `VersionsCountSaves` | `VersionCounts` |
| | `EndedRoomIsForgotten` | `EndedRoomForgotten` |
| | `ClockIsHardlySetBack` | `ClockSetBack` |
| `RetryProofs` | `WorkerIsHeldInTime` | `HoldsWorkerInTime` |
| | `ResultIsFaithful` | `FaithfulResult` |
| `ParticipantsProofs` | `NewestEventDecides` | `NewestCounts` |
| `AlgorithmsProofs` | `BufferIsTail` | `TailExact` |
| | `KeysArePurged` | `KeysPurged` |

Assumptions. Only the named ASSUMEs of the modules, which TLC evaluates in its
runs: sets that are disjoint from the values standing for "none" (`redis.Nil` is
no stored state, and so on), sizes and times that are natural numbers, a
positive TTL. One of them says more: `CallTimeout <= RefreshTTL` in `Sessions`,
a request timeout not longer than a session (30 seconds against 30 days by
default). `RevivalBound` depends on it: a slower request could store an expiry
that has already passed, and with it expire a session under another request.

Every module has the same shape: an inductive invariant `Inv`, a lemma per action
or group of actions that preserve it, `Invariance`, and the theorems, each from
`Inv` alone (state properties) or from `Inv` and the step (action properties).
The bounds on clocks, saves and moves are in the guards, so the proofs hold
whatever they are.

### The pipeline

The inductive invariant is the conjunction of `TypeOK`, `RowFirst`,
`CleanerSparesLive`, `UploadsKept`, `ReadyComplete`, `NoLostJob` and
`UniformReady`, all checked by `media_faults`, and of `PublishUniform`: a
worker about to publish has rewritten everything. `CleanerSparesLive` is not
inductive alone: an id that the query does not return has no live row, which
means soft-deleted only because `RowFirst` says that a listed id has been
inserted. `ReadyComplete` needs `UploadsKept` for the step that publishes the
row, and both need that a purge is never forgotten (`PurgedStep`) and that only
purges remove objects (`ObjectsStep`). `NoLostJob` follows the job from the
handler to the queue to the worker (`OwnMedia`, `WorkerKeepsJobs`) and shows that
other videos' steps leave it alone (`OtherMedia`). `UniformReady` needs
`PublishUniform` where the row becomes ready, and the job's whereabouts
(`JobsKept*`) where the worker begins to overwrite a row that was ready.

The refinement treats a step's effect on the objects (`ObjectsSimulation`) and
on the row (`RowSimulation`) apart, since no action of the pipeline that
readers can see changes both. It needs the invariant where a row is published
(over outputs that are whole or purged, from `UploadsKept`), where the cleaner
takes objects (of deleted videos only, from `CleanerSparesLive`) and where
objects are stored (under rows that exist, from `RowFirst`).

### Sessions

`TypeOK` is inductive in two parts: the shapes, and from them `TimesOK`, by
which nothing is dated ahead of the clock and no expiry lies further ahead than
one refresh lifetime, however often a session is renewed. `RowInv` and `PairInv`
tie table and tokens together: a row carries the pair whose version is its own,
no pair's version exceeds its row's, and a pair that was committed was issued
before the revocation, because `Rotate` does not touch a revoked row. From
these, `DistinctInv` (a new version is above all others) and `RevocationBound`.
A pair must not be committed twice, which is `HoldInv`: two refreshes never hold
the same one. `CookieInv` is `NoLockout` with the reply that is still on its
way. `RevivalBound` rests on `CallInv`: a refresh that has not rotated yet began
before the row's present expiry, whoever stored that.

### Rooms

`EndedByOne` needs `EndedInv` (who has ended a room is one actor exactly, the
guard of the UPDATE) and `DeleteInv`: the actor that goes on to LiveKit is that
one. `EndedIsEmptied` is inductive with these. `InsertInv` says that a room being
created is known to nobody else, so that no actor ends it before its INSERT.
`OccupiedHasRow` needs `TokenInv`, by which tokens, issued or about to be, are for
rows, and `RowsStay`: no step removes a row.

### Playback

`CallOK` says of a request in each of its steps how old what it carries can be:
a request that read the row found it ready after its start; a cache entry was
written at most `CallTimeout` after that and is gone `TTL` later (`CacheInv`); so
a hit is at most `CallTimeout + TTL` old when its request begins, and the
request's own time is the second `CallTimeout` of `StaleBound`. The row's side is
`MediaLifecycle`, any of whose steps may happen in between (`PipelineInv`).
`DelInv` carries `DeleteForgets`: no request is filling the cache, and none can
begin to, since the row it would have to read is deleted.

### Room playback state, retry, participants, tail buffer

`RoomPlaybackState`: a save that passed the test of the room began before the
room ended (`CallInv`), so the key was written at most a request's time after
that (`StateInv`); at most one save is between read and write while none has
overlapped (`AloneInv`), so it writes the version after the stored one.
`Retry`: `BackoffInv` relates attempt, backoff and the time since the call, which
turns the number of attempts into the seven seconds of `FaithfulResult`;
`AppliedInv` records that operations before the current one had their effect.
`Participants`: membership is the parity of the event applied last, whichever
that was. `TailBuffer`: `Inv` states `TailExact` position by position; the lemmas
about `LastBytes`, about what follows from dropping bytes and appending, and
about the uniqueness of a tail do the rest.

### Storage keys

`KeysPurged` says something of each name alone (`EveryNameIsPurged`); `written`
only ranges over all names. `SanitizedName` is the heart of it: whatever the
name, `sanitizeFilename` yields one part of a path, without slashes, that is
neither empty nor `.`. A key is therefore made of texts that `path.Join` leaves
as they are (`Keys`), but for `..`, which takes the part `original` along and
leaves the video's folder. `TrimmedKey` says that trimming changes the last part
of a key only, and does so just when it ends in white space; so the first
four parts, from which the cleaner reads the video, survive (`KeyLeadsBack`),
and what a purge deletes is the listed key itself unless its name is
`Unpurgeable`.

These lemmas need induction over texts. The library's induction theorems take a
predicate, which the provers cannot instantiate; `InductionUpTo` takes a set
instead, and follows from the least element that every set of numbers has
(`Least`, from the well-foundedness of `<`). What `Split`, `FlattenSeq` and
`Clean` compute on the texts in question is given by an explicit function `g`,
shown to solve the recursion; the function that the definition chooses
solves it too, and agrees with `g` at every position by `InductionUpTo`
(`SplitPlain`, `FlattenSingles`, `CleanOrdinary`).

### Only model-checked

- Liveness (`JobsFinish`, `OrphansReclaimed`, `StaleRoomsEnd`,
  `EventuallyTracked`): out of the prover's reach.
- `ClosedCountExact` is false; the run `rooms_count` is its counterexample.

## Not modelled

- Users and registration: one INSERT under a unique index.
- The HTTP layer (decoding, validation, routing, logging) and the configuration:
  stateless, or read once; what matters of them is a constant.
- JWT signatures, bcrypt, ffmpeg and the SDKs: libraries. ffmpeg's arguments
  and encoding profile do not influence any state that others see.
- Listings (of rooms and of videos) and `GetState` only read.
- The text of manifests: `signManifest` replaces lines of it by signed URLs; the
  model keeps when it signed.
- What a room's media id means after the room has ended or its video was deleted
  (`room.go:115`): the code promises nothing about it.

## Further work

`MediaPlayback` reads the row through `MediaLifecycle`, and
`PipelineImplementsLifecycle` justifies that. A module that composes
`MediaPlayback` with `MediaPipeline` itself would turn this argument, too, into
a theorem.
