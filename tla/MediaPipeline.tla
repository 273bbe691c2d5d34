--------------------------- MODULE MediaPipeline ---------------------------
(***************************************************************************)
(* The life of an uploaded video, from the presigned PUT to the HLS        *)
(* output and to its removal.  Four parties share the media table and the  *)
(* object store:                                                           *)
(*                                                                         *)
(*   - HTTP calls: MediaUploadService.InitUpload, CompleteUpload and       *)
(*     DeleteMedia, one step per database, storage or queue operation;     *)
(*   - the transcoder's one worker goroutine, fed by an in-memory queue;   *)
(*   - the daily cleaner, MediaCleanupService.RunOnce;                     *)
(*   - clients, who hold presigned URLs and PUT the original file.         *)
(*                                                                         *)
(* A call that is refused before its first write (bad input, missing row,  *)
(* a caller who is not the owner) changes nothing: it is a stuttering      *)
(* step, so callers and owners do not appear.                              *)
(***************************************************************************)
EXTENDS Integers, Sequences, FiniteSets

CONSTANTS
    Media,          \* the ids newMediaID can return; never reused
    NoMedia,        \* "no media": the target of an idle call or worker
    Calls,          \* slots for HTTP calls in progress
    NumSegments,    \* segment_*.ts files ffmpeg writes for one video
    QueueSize,      \* capacity of the jobQueue channel
    BatchSize,      \* ids per ListExistingIDs query of the cleaner
    Workspaces,     \* candidate temporary directories (tempBaseDirs)
    KeyKinds,       \* the kinds of storage keys that clients' file names lead to
    Transcoding,    \* config: is there a transcoder at all?
    MaxFaults       \* bound: database errors, storage errors and crashes

ASSUME MediaAssumption == NoMedia \notin Media /\ IsFiniteSet(Media)
ASSUME SizesAssumption == /\ NumSegments \in Nat
                          /\ QueueSize \in Nat \ {0}
                          /\ BatchSize \in Nat \ {0}
                          /\ Workspaces \in Nat \ {0}
                          /\ MaxFaults \in Nat
ASSUME TranscodingAssumption == Transcoding \in BOOLEAN

\* An original whose key is "ordinary" lies in the video's folder and is deleted
\* under the name it is listed by.  A file name that ends in white space makes the
\* key "trimmed": listed, but another name is deleted.  The file name `..' makes it
\* the "folder" itself, not in the listing.  StorageKeys derives the three kinds
\* from file names.
ASSUME KeyKindsAssumption == KeyKinds \subseteq {"ordinary", "trimmed", "folder"}

(***************************************************************************)
(* The objects under users/<owner>/media/<id>/ by number: the original the *)
(* client PUTs, and the outputs in the order the worker uploads them       *)
(* (preview, then os.ReadDir order: index.m3u8 before segment_00000.ts).   *)
(***************************************************************************)
Original == 0
LastOutput == NumSegments + 2
Outputs == 1 .. LastOutput
Keys == 0 .. LastOutput

VARIABLES
    status,       \* media row -> its status column; "none": no row yet
    key,          \* media row -> the kind of its storage_key; "none": no row yet
    deleted,      \* rows whose deleted_at is set
    objects,      \* media -> keys present in the bucket under its prefix
    url,          \* media whose presigned PUT URL a client holds, unexpired
    call,         \* call -> what the handler has still to do
    queue,        \* the transcoder's channel
    worker,       \* the worker goroutine
    cleaner,      \* the cleanup goroutine
    faults,       \* faults so far
    dropped,      \* history: a fault cost the row its transcoding job
    halfDeleted,  \* history: a DeleteMedia ended after its purge, before SoftDelete
    torn          \* history: media whose stored outputs stem from two attempts

vars == <<status, key, deleted, objects, url, call, queue, worker, cleaner,
          faults, dropped, halfDeleted, torn>>

history == <<dropped, halfDeleted, torn>>

Statuses == {"none", "uploading", "uploaded", "processing", "ready", "failed"}

CallPCs == {"idle", "reply", "head", "mark", "processing", "enqueue", "failMark",
            "list", "flush", "soft"}

WorkerPCs == {"idle", "read", "prepare", "upload", "publish", "fail"}

CleanerPCs == {"idle", "query", "list", "flush"}

IdleCall == [pc |-> "idle", m |-> NoMedia, keys |-> {}]

IdleWorker == [pc |-> "idle", m |-> NoMedia, next |-> 1, dir |-> 1]

IdleCleaner == [pc |-> "idle", unchecked |-> {}, victims |-> {},
                m |-> NoMedia, keys |-> {}]

RowsOK ==
    /\ status \in [Media -> Statuses]
    /\ key \in [Media -> KeyKinds \cup {"none"}]
    /\ deleted \subseteq Media

BucketOK ==
    /\ objects \in [Media -> SUBSET Keys]
    /\ url \subseteq Media

CallsOK ==
    /\ call \in [Calls -> [pc: CallPCs, m: Media \cup {NoMedia}, keys: SUBSET Keys]]
    /\ \A c \in Calls : call[c].pc = "idle" <=> call[c].m = NoMedia

QueueOK == queue \in Seq(Media) /\ Len(queue) <= QueueSize

WorkerOK ==
    /\ worker \in [pc: WorkerPCs, m: Media \cup {NoMedia}, next: Outputs,
                   dir: 1 .. Workspaces]
    /\ worker.pc = "idle" <=> worker.m = NoMedia

CleanerOK ==
    /\ cleaner \in [pc: CleanerPCs, unchecked: SUBSET Media, victims: SUBSET Media,
                    m: Media \cup {NoMedia}, keys: SUBSET Keys]
    /\ cleaner.pc = "flush" <=> cleaner.m # NoMedia

HistoryOK ==
    /\ faults \in 0 .. MaxFaults
    /\ dropped \subseteq Media
    /\ halfDeleted \subseteq Media
    /\ torn \subseteq Media

\* Tables, bucket, queue and the goroutines' local state are well-typed: no
\* call, worker or cleaner is under way without a target, and the channel never
\* holds more than its capacity.
TypeOK == RowsOK /\ BucketOK /\ CallsOK /\ QueueOK /\ WorkerOK /\ CleanerOK /\ HistoryOK

Init ==
    /\ status = [m \in Media |-> "none"]
    /\ key = [m \in Media |-> "none"]
    /\ deleted = {}
    /\ objects = [m \in Media |-> {}]
    /\ url = {}
    /\ call = [c \in Calls |-> IdleCall]
    /\ queue = << >>
    /\ worker = IdleWorker
    /\ cleaner = IdleCleaner
    /\ faults = 0
    /\ dropped = {}
    /\ halfDeleted = {}
    /\ torn = {}

-----------------------------------------------------------------------------
(* The media table.  Every SELECT and UPDATE carries deleted_at IS NULL.   *)

Created(m) == status[m] # "none"

\* GetByID and ListExistingIDs see the row.
Live(m) == Created(m) /\ m \notin deleted

\* Mutant of Updated: the WHERE clause forgets deleted_at IS NULL.
UpdatedAnyRow(m, s) == [status EXCEPT ![m] = s]

\* The status column after UPDATE media SET status = s WHERE id = m AND
\* deleted_at IS NULL (UpdateUploadState, UpdateStatus, UpdateTranscodeResult).
Updated(m, s) == IF Live(m) THEN [status EXCEPT ![m] = s] ELSE status

\* A statement or a storage request fails.  A failed statement may still have
\* been committed: the connection broke, or the context was cancelled, later.
Fault == faults < MaxFaults /\ faults' = faults + 1
NoFault == UNCHANGED faults

Goto(c, pc) == call' = [call EXCEPT ![c].pc = pc]
Return(c) == call' = [call EXCEPT ![c] = IdleCall]
Start(c, m, pc) ==
    /\ call[c].pc = "idle"
    /\ call' = [call EXCEPT ![c] = [pc |-> pc, m |-> m, keys |-> {}]]

-----------------------------------------------------------------------------
(* InitUpload, and what the client does with the URL.                      *)

\* mediaRepo.Create; the client chose the file name the storage key ends in.
Insert(m) ==
    /\ status' = [status EXCEPT ![m] = "uploading"]
    /\ \E kind \in KeyKinds : key' = [key EXCEPT ![m] = kind]

\* Presigning is local; the INSERT is the call's only effect.
InitUpload(c, m) ==
    /\ ~Created(m)
    /\ Start(c, m, "reply")
    /\ Insert(m)
    /\ NoFault
    /\ UNCHANGED <<deleted, objects, url, queue, worker, cleaner, history>>

\* Mutant of InitUploadError: the error of Create is ignored.
InitUploadErrorIgnored(c, m) ==
    /\ ~Created(m)
    /\ call[c].pc = "idle"
    /\ Fault
    /\ Insert(m) \/ UNCHANGED <<status, key>>
    /\ url' = url \cup {m}
    /\ UNCHANGED <<deleted, objects, call, queue, worker, cleaner, history>>

\* Create fails: the URL is never handed out, though the row may exist.
InitUploadError(c, m) ==
    /\ ~Created(m)
    /\ call[c].pc = "idle"
    /\ Fault
    /\ Insert(m) \/ UNCHANGED <<status, key>>
    /\ UNCHANGED <<deleted, objects, url, call, queue, worker, cleaner, history>>

InitReply(c) ==
    /\ call[c].pc = "reply"
    /\ url' = url \cup {call[c].m}
    /\ Return(c)
    /\ NoFault
    /\ UNCHANGED <<status, key, deleted, objects, queue, worker, cleaner, history>>

\* The client PUTs the original; the bucket does not know about rows.
ClientPut(m) ==
    /\ m \in url
    /\ objects' = [objects EXCEPT ![m] = @ \cup {Original}]
    /\ UNCHANGED <<status, key, deleted, url, call, queue, worker, cleaner, faults, history>>

\* The presign TTL ends.
ExpireURL(m) ==
    /\ m \in url
    /\ url' = url \ {m}
    /\ UNCHANGED <<status, key, deleted, objects, call, queue, worker, cleaner, faults, history>>

-----------------------------------------------------------------------------
(* CompleteUpload.  Nothing in it asks for the row's present status, so it *)
(* may run on any live row, repeatedly and concurrently.                   *)

CompleteRead(c, m) ==
    /\ Live(m)
    /\ Start(c, m, "head")
    /\ NoFault
    /\ UNCHANGED <<status, key, deleted, objects, url, queue, worker, cleaner, history>>

CompleteHead(c) ==
    /\ call[c].pc = "head"
    /\ Original \in objects[call[c].m]
    /\ Goto(c, "mark")
    /\ NoFault
    /\ UNCHANGED <<status, key, deleted, objects, url, queue, worker, cleaner, history>>

\* No object, an empty one, a MIME type that is not allowed, a storage error.
CompleteRefuse(c) ==
    /\ call[c].pc = "head"
    /\ Return(c)
    /\ NoFault
    /\ UNCHANGED <<status, key, deleted, objects, url, queue, worker, cleaner, history>>

\* UpdateUploadState; ErrNotFound ends the call, and so does having no transcoder.
CompleteMark(c) ==
    LET m == call[c].m IN
    /\ call[c].pc = "mark"
    /\ status' = Updated(m, "uploaded")
    /\ IF Live(m) /\ Transcoding THEN Goto(c, "processing") ELSE Return(c)
    /\ NoFault
    /\ UNCHANGED <<key, deleted, objects, url, queue, worker, cleaner, history>>

CompleteProcessing(c) ==
    LET m == call[c].m IN
    /\ call[c].pc = "processing"
    /\ status' = Updated(m, "processing")
    /\ IF Live(m) THEN Goto(c, "enqueue") ELSE Return(c)
    /\ NoFault
    /\ UNCHANGED <<key, deleted, objects, url, queue, worker, cleaner, history>>

\* Either UPDATE fails, applied or not: the client gets an error and the row
\* stays without a job.
CompleteWriteError(c) ==
    LET m == call[c].m IN
    /\ call[c].pc \in {"mark", "processing"}
    /\ Fault
    /\ status' \in {status, Updated(m, IF call[c].pc = "mark" THEN "uploaded"
                                                              ELSE "processing")}
    /\ dropped' = dropped \cup {m}
    /\ Return(c)
    /\ UNCHANGED <<key, deleted, objects, url, queue, worker, cleaner, halfDeleted, torn>>

\* Mutant of CompleteEnqueue: the error of Enqueue is ignored.
CompleteEnqueueLossy(c) ==
    LET m == call[c].m IN
    /\ call[c].pc = "enqueue"
    /\ IF Len(queue) < QueueSize
       THEN queue' = Append(queue, m) /\ dropped' = dropped \ {m}
       ELSE UNCHANGED <<queue, dropped>>
    /\ Return(c)
    /\ NoFault
    /\ UNCHANGED <<status, key, deleted, objects, url, worker, cleaner, halfDeleted, torn>>

\* Mutant of CompleteEnqueue: the capacity test is off by one.
CompleteEnqueueOverfull(c) ==
    LET m == call[c].m IN
    /\ call[c].pc = "enqueue"
    /\ IF Len(queue) <= QueueSize
       THEN queue' = Append(queue, m) /\ dropped' = dropped \ {m} /\ Return(c)
       ELSE UNCHANGED <<queue, dropped>> /\ Goto(c, "failMark")
    /\ NoFault
    /\ UNCHANGED <<status, key, deleted, objects, url, worker, cleaner, halfDeleted, torn>>

\* Enqueue is a non-blocking send on the buffered channel.
CompleteEnqueue(c) ==
    LET m == call[c].m IN
    /\ call[c].pc = "enqueue"
    /\ IF Len(queue) < QueueSize
       THEN queue' = Append(queue, m) /\ dropped' = dropped \ {m} /\ Return(c)
       ELSE UNCHANGED <<queue, dropped>> /\ Goto(c, "failMark")
    /\ NoFault
    /\ UNCHANGED <<status, key, deleted, objects, url, worker, cleaner, halfDeleted, torn>>

\* The queue was full: the row is marked failed, on a background context.
CompleteFailMark(c) ==
    /\ call[c].pc = "failMark"
    /\ status' = Updated(call[c].m, "failed")
    /\ Return(c)
    /\ NoFault
    /\ UNCHANGED <<key, deleted, objects, url, queue, worker, cleaner, history>>

\* The error of that UPDATE is ignored.
CompleteFailMarkError(c) ==
    /\ call[c].pc = "failMark"
    /\ Fault
    /\ status' \in {status, Updated(call[c].m, "failed")}
    /\ dropped' = dropped \cup {call[c].m}
    /\ Return(c)
    /\ UNCHANGED <<key, deleted, objects, url, queue, worker, cleaner, halfDeleted, torn>>

-----------------------------------------------------------------------------
(* DeleteMedia: read the row, purge the prefix (list, then delete what was *)
(* listed), soft-delete the row.                                           *)

\* The keys that begin with the video's folder and a slash.
Listed(m) == objects[m] \ (IF key[m] = "folder" THEN {Original} ELSE {})

\* Of the keys listed, those present under the name that DeleteObjects is given:
\* DeleteObjectsByPrefix trims each key first.
Erased(m, keys) == keys \ (IF key[m] = "trimmed" THEN {Original} ELSE {})

DeleteRead(c, m) ==
    /\ Live(m)
    /\ Start(c, m, "list")
    /\ NoFault
    /\ UNCHANGED <<status, key, deleted, objects, url, queue, worker, cleaner, history>>

DeleteList(c) ==
    /\ call[c].pc = "list"
    /\ call' = [call EXCEPT ![c].pc = "flush", ![c].keys = Listed(call[c].m)]
    /\ NoFault
    /\ UNCHANGED <<status, key, deleted, objects, url, queue, worker, cleaner, history>>

\* DeleteObjects removes the listed keys, or what is left of them after the trim.
DeleteFlush(c) ==
    LET m == call[c].m IN
    /\ call[c].pc = "flush"
    /\ objects' = [objects EXCEPT ![m] = @ \ Erased(m, call[c].keys)]
    /\ call' = [call EXCEPT ![c].pc = "soft", ![c].keys = {}]
    /\ NoFault
    /\ UNCHANGED <<status, key, deleted, url, queue, worker, cleaner, history>>

\* A storage fault leaves some keys.  Per-key errors in the reply are not
\* looked at, so the call may go on; a failed request ends it.
DeleteFlushError(c) ==
    LET m == call[c].m IN
    /\ call[c].pc = "flush"
    /\ Fault
    /\ \E left \in SUBSET call[c].keys :
           objects' = [objects EXCEPT ![m] = @ \ Erased(m, call[c].keys \ left)]
    /\ \/ /\ call' = [call EXCEPT ![c].pc = "soft", ![c].keys = {}]
          /\ UNCHANGED halfDeleted
       \/ /\ Return(c)
          /\ halfDeleted' = halfDeleted \cup {m}
    /\ UNCHANGED <<status, key, deleted, url, queue, worker, cleaner, dropped, torn>>

\* ErrNotFound (a concurrent DeleteMedia won) is no different for the row.
DeleteSoft(c) ==
    /\ call[c].pc = "soft"
    /\ deleted' = deleted \cup {call[c].m}
    /\ Return(c)
    /\ NoFault
    /\ UNCHANGED <<status, key, objects, url, queue, worker, cleaner, history>>

DeleteSoftError(c) ==
    LET m == call[c].m IN
    /\ call[c].pc = "soft"
    /\ Fault
    /\ deleted' \in {deleted, deleted \cup {m}}
    /\ halfDeleted' = halfDeleted \cup {m}
    /\ Return(c)
    /\ UNCHANGED <<status, key, objects, url, queue, worker, cleaner, dropped, torn>>

-----------------------------------------------------------------------------
(* The transcoder's worker.                                                *)

WorkerTake ==
    /\ worker.pc = "idle"
    /\ queue # << >>
    /\ worker' = [pc |-> "read", m |-> Head(queue), next |-> 1, dir |-> 1]
    /\ queue' = Tail(queue)
    /\ UNCHANGED <<status, key, deleted, objects, url, call, cleaner, faults, history>>

WorkerRead ==
    /\ worker.pc = "read"
    /\ worker' = [worker EXCEPT !.pc = IF Live(worker.m) THEN "prepare" ELSE "fail"]
    /\ UNCHANGED <<status, key, deleted, objects, url, call, queue, cleaner, faults, history>>

\* Download, ffprobe and ffmpeg, all in a local workspace.
WorkerPrepare ==
    /\ worker.pc = "prepare"
    /\ Original \in objects[worker.m]
    /\ worker' = [worker EXCEPT !.pc = "upload", !.next = 1]
    /\ UNCHANGED <<status, key, deleted, objects, url, call, queue, cleaner, faults, history>>

\* The next output is stored.  Between the first and the last one the bucket
\* holds outputs of two attempts, or only some outputs.
Store ==
    /\ objects' = [objects EXCEPT ![worker.m] = @ \cup {worker.next}]
    /\ torn' = IF worker.next = LastOutput THEN torn \ {worker.m} ELSE torn \cup {worker.m}

\* Mutant of WorkerUpload: a failed upload is taken for a successful one.
WorkerUploadUnchecked ==
    /\ worker.pc = "upload"
    /\ Store \/ UNCHANGED <<objects, torn>>
    /\ worker' = IF worker.next = LastOutput
                 THEN [worker EXCEPT !.pc = "publish"]
                 ELSE [worker EXCEPT !.next = @ + 1]
    /\ UNCHANGED <<status, key, deleted, url, call, queue, cleaner, faults, dropped, halfDeleted>>

\* Mutant of WorkerUpload: the loop over the HLS files stops one short.
WorkerUploadShort ==
    /\ worker.pc = "upload"
    /\ Store
    /\ worker' = IF worker.next = LastOutput - 1
                 THEN [worker EXCEPT !.pc = "publish"]
                 ELSE [worker EXCEPT !.next = @ + 1]
    /\ UNCHANGED <<status, key, deleted, url, call, queue, cleaner, faults, dropped, halfDeleted>>

\* UploadFilePublic, one output after the other.
WorkerUpload ==
    /\ worker.pc = "upload"
    /\ Store
    /\ worker' = IF worker.next = LastOutput
                 THEN [worker EXCEPT !.pc = "publish"]
                 ELSE [worker EXCEPT !.next = @ + 1]
    /\ UNCHANGED <<status, key, deleted, url, call, queue, cleaner, faults, dropped, halfDeleted>>

\* UpdateTranscodeResult.
WorkerPublish ==
    /\ worker.pc = "publish"
    /\ status' = Updated(worker.m, "ready")
    /\ worker' = IF Live(worker.m) THEN IdleWorker ELSE [worker EXCEPT !.pc = "fail"]
    /\ UNCHANGED <<key, deleted, objects, url, call, queue, cleaner, faults, history>>

\* The operation that failed last may have taken effect.
FailedOperation ==
    \/ UNCHANGED <<status, objects, torn>>
    \/ worker.pc = "upload" /\ Store /\ UNCHANGED status
    \/ /\ worker.pc = "publish"
       /\ status' = Updated(worker.m, "ready")
       /\ UNCHANGED <<objects, torn>>

\* An error whose text says that a disk is full, the last directory not yet
\* tried: processMedia begins again in the next workspace.
WorkerFallback ==
    /\ worker.pc \in {"prepare", "upload", "publish"}
    /\ worker.dir < Workspaces
    /\ FailedOperation
    /\ worker' = [worker EXCEPT !.pc = "prepare", !.dir = @ + 1]
    /\ UNCHANGED <<key, deleted, url, call, queue, cleaner, faults, dropped, halfDeleted>>

\* processMedia returns an error: no source, a file ffmpeg rejects, a full
\* disk, the job's deadline, retries used up.
WorkerError ==
    /\ worker.pc \in {"read", "prepare", "upload", "publish"}
    /\ FailedOperation
    /\ worker' = [worker EXCEPT !.pc = "fail"]
    /\ UNCHANGED <<key, deleted, url, call, queue, cleaner, faults, dropped, halfDeleted>>

\* Mutant of WorkerFail: the failure is only logged.
WorkerFailSilent ==
    /\ worker.pc = "fail"
    /\ worker' = IdleWorker
    /\ UNCHANGED <<status, key, deleted, objects, url, call, queue, cleaner, faults, history>>

\* The worker marks the row of a failed job.
WorkerFail ==
    /\ worker.pc = "fail"
    /\ status' = Updated(worker.m, "failed")
    /\ worker' = IdleWorker
    /\ UNCHANGED <<key, deleted, objects, url, call, queue, cleaner, faults, history>>

\* Marking the row failed fails in turn: logged, and the worker goes on.
WorkerFailError ==
    /\ worker.pc = "fail"
    /\ Fault
    /\ status' \in {status, Updated(worker.m, "failed")}
    /\ dropped' = dropped \cup {worker.m}
    /\ worker' = IdleWorker
    /\ UNCHANGED <<key, deleted, objects, url, call, queue, cleaner, halfDeleted, torn>>

-----------------------------------------------------------------------------
(* The cleaner.                                                            *)

\* Mutant of MediaPrefixes: only prefixes that hold an original are recognised.
PrefixesOfOriginals == {m \in Media : Original \in objects[m]}

\* ListMediaPrefixes: every media id under which the bucket has an object.
MediaPrefixes == {m \in Media : objects[m] # {}}

\* A run starts, once a day; an empty bucket ends it at once.
CleanList ==
    /\ cleaner.pc = "idle"
    /\ cleaner' = IF MediaPrefixes = {} THEN cleaner
                  ELSE [IdleCleaner EXCEPT !.pc = "query", !.unchecked = MediaPrefixes]
    /\ UNCHANGED <<status, key, deleted, objects, url, call, queue, worker, faults, history>>

\* The ids of the next query.
Chunks(ids) ==
    {chunk \in SUBSET ids :
        Cardinality(chunk) = IF Cardinality(ids) < BatchSize THEN Cardinality(ids)
                                                             ELSE BatchSize}

\* Mutant of Checked: only the first batch is queried, and every other listed id
\* counts as missing.
CheckedFirstBatch(chunk, orphans) ==
    LET victims == orphans \cup (cleaner.unchecked \ chunk)
    IN  IF victims = {} THEN IdleCleaner
        ELSE [cleaner EXCEPT !.pc = "list", !.unchecked = {}, !.victims = victims]

\* The cleaner once `chunk' is checked and `orphans' are known to have no row.
Checked(chunk, orphans) ==
    LET unchecked == cleaner.unchecked \ chunk
        victims == cleaner.victims \cup orphans
    IN  IF unchecked = {} /\ victims = {} THEN IdleCleaner
        ELSE [cleaner EXCEPT !.pc = IF unchecked = {} THEN "list" ELSE "query",
                             !.unchecked = unchecked, !.victims = victims]

\* ListExistingIDs for one batch of the listed ids.
CleanQuery ==
    /\ cleaner.pc = "query"
    /\ \E chunk \in Chunks(cleaner.unchecked) :
           cleaner' = Checked(chunk, {m \in chunk : ~Live(m)})
    /\ UNCHANGED <<status, key, deleted, objects, url, call, queue, worker, faults, history>>

\* Mutant of CleanQueryError: a failed query counts as an empty answer.
CleanQueryErrorIgnored ==
    /\ cleaner.pc = "query"
    /\ Fault
    /\ \E chunk \in Chunks(cleaner.unchecked) : cleaner' = Checked(chunk, chunk)
    /\ UNCHANGED <<status, key, deleted, objects, url, call, queue, worker, history>>

\* A failed query abandons the run before anything is deleted.
CleanQueryError ==
    /\ cleaner.pc = "query"
    /\ Fault
    /\ cleaner' = IdleCleaner
    /\ UNCHANGED <<status, key, deleted, objects, url, call, queue, worker, history>>

\* DeleteObjectsByPrefix for one id without a row: list, then delete.
CleanListPrefix ==
    /\ cleaner.pc = "list"
    /\ \E m \in cleaner.victims :
           cleaner' = [cleaner EXCEPT !.pc = "flush", !.m = m, !.keys = Listed(m),
                                      !.victims = @ \ {m}]
    /\ UNCHANGED <<status, key, deleted, objects, url, call, queue, worker, faults, history>>

NextVictim ==
    cleaner' = IF cleaner.victims = {} THEN IdleCleaner
               ELSE [cleaner EXCEPT !.pc = "list", !.m = NoMedia, !.keys = {}]

CleanFlush ==
    /\ cleaner.pc = "flush"
    /\ objects' = [objects EXCEPT ![cleaner.m] = @ \ Erased(cleaner.m, cleaner.keys)]
    /\ NextVictim
    /\ UNCHANGED <<status, key, deleted, url, call, queue, worker, faults, history>>

\* Keys are left behind; the id is counted as failed, or not even that, and
\* the run goes on with the next one.
CleanFlushError ==
    /\ cleaner.pc = "flush"
    /\ Fault
    /\ \E left \in SUBSET cleaner.keys :
           objects' = [objects EXCEPT ![cleaner.m] = @ \ Erased(cleaner.m, cleaner.keys \ left)]
    /\ NextVictim
    /\ UNCHANGED <<status, key, deleted, url, call, queue, worker, history>>

-----------------------------------------------------------------------------
\* Media whose job exists only in the process's memory.
Holding(c) == call[c].pc \in {"processing", "enqueue", "failMark"}
InMemory == {call[c].m : c \in {d \in Calls : Holding(d)}}
            \cup {queue[i] : i \in DOMAIN queue}
            \cup ({worker.m} \ {NoMedia})

\* The process stops, by a crash or by waitForShutdown, which does not wait
\* for the worker, and starts again: main makes a new queue and re-reads nothing.
Restart ==
    /\ Fault
    /\ call' = [c \in Calls |-> IdleCall]
    /\ queue' = << >>
    /\ worker' = IdleWorker
    /\ cleaner' = IdleCleaner
    /\ dropped' = dropped \cup InMemory
    /\ halfDeleted' = halfDeleted \cup {call[c].m : c \in {d \in Calls : call[d].pc = "soft"}}
    /\ UNCHANGED <<status, key, deleted, objects, url, torn>>

StartCall(c) ==
    \E m \in Media : \/ InitUpload(c, m)
                     \/ InitUploadError(c, m)
                     \/ CompleteRead(c, m)
                     \/ DeleteRead(c, m)

CallStep(c) ==
    \/ InitReply(c)
    \/ CompleteHead(c) \/ CompleteRefuse(c)
    \/ CompleteMark(c) \/ CompleteProcessing(c) \/ CompleteWriteError(c)
    \/ CompleteEnqueue(c) \/ CompleteFailMark(c) \/ CompleteFailMarkError(c)
    \/ DeleteList(c) \/ DeleteFlush(c) \/ DeleteFlushError(c)
    \/ DeleteSoft(c) \/ DeleteSoftError(c)

WorkerStep ==
    \/ WorkerTake \/ WorkerRead \/ WorkerPrepare \/ WorkerUpload
    \/ WorkerPublish \/ WorkerFallback \/ WorkerError \/ WorkerFail \/ WorkerFailError

CleanerStep ==
    \/ CleanList \/ CleanQuery \/ CleanQueryError
    \/ CleanListPrefix \/ CleanFlush \/ CleanFlushError

Next ==
    \/ \E c \in Calls : StartCall(c) \/ CallStep(c)
    \/ \E m \in Media : ClientPut(m) \/ ExpireURL(m)
    \/ WorkerStep
    \/ CleanerStep
    \/ Restart

Spec == Init /\ [][Next]_vars

\* Handlers, the worker and the cleaner's ticker run on the Go scheduler and
\* every remote call of theirs returns; presigned URLs expire.  Nothing makes
\* a client start a call or PUT a file, and nothing makes faults happen.
Fairness ==
    /\ \A c \in Calls : WF_vars(CallStep(c))
    /\ WF_vars(WorkerStep)
    /\ WF_vars(CleanerStep)
    /\ \A m \in Media : WF_vars(ExpireURL(m))

FairSpec == Spec /\ Fairness

-----------------------------------------------------------------------------
(* Properties.                                                             *)

\* RunOnce deletes only what has no live row: an id it has decided to purge is
\* soft-deleted.  It lists the bucket first and asks the database afterwards,
\* and a key can only be PUT with a URL that InitUpload returned after its
\* INSERT, so an upload that starts during the run is never taken for an orphan.
CleanerSparesLive ==
    cleaner.victims \cup ({cleaner.m} \ {NoMedia}) \subseteq deleted

\* The reason: a row exists before anything can refer to it.  InitUpload
\* returns the URL only once Create has succeeded, so an object, a call, a job
\* or a listed id always belongs to a row that was inserted earlier.
RowFirst ==
    /\ \A m \in Media : objects[m] # {} \/ m \in url \/ m \in deleted => Created(m)
    /\ \A c \in Calls : call[c].pc # "idle" => Created(call[c].m)
    /\ \A i \in DOMAIN queue : Created(queue[i])
    /\ worker.pc # "idle" => Created(worker.m)
    /\ \A m \in cleaner.unchecked : Created(m)

\* A DeleteMedia has emptied the prefix, wholly or in part.
Purged(m) == \/ m \in deleted
             \/ m \in halfDeleted
             \/ \E c \in Calls : call[c].pc = "soft" /\ call[c].m = m

\* What the worker has uploaded is still there when it uploads the next file
\* and when it publishes the row, unless a DeleteMedia came in between.
UploadsKept ==
    worker.pc \in {"upload", "publish"} =>
        \/ Purged(worker.m)
        \/ (IF worker.pc = "publish" THEN Outputs ELSE 1 .. worker.next - 1)
               \subseteq objects[worker.m]

\* A row the API reports as ready has its preview, its manifest and every
\* segment in the bucket, unless a DeleteMedia has purged them and its
\* SoftDelete is still to come, or never came because of a fault.
ReadyComplete ==
    \A m \in Media :
        Live(m) /\ status[m] = "ready" =>
            Outputs \subseteq objects[m] \/ Purged(m)

\* A row whose status promises that transcoding will happen.
Waiting(m) == status[m] = "processing" \/ (Transcoding /\ status[m] = "uploaded")

\* A row that waits for transcoding has a job: in the queue, with the worker,
\* or in the hands of a CompleteUpload that is about to enqueue it or to mark
\* the row failed.  Only a fault leaves a row waiting for nobody.
NoLostJob ==
    \A m \in Media :
        Live(m) /\ Waiting(m) => m \in InMemory \cup dropped

\* A ready row is not left with outputs of two attempts: CompleteUpload may be
\* repeated, so a second job rewrites manifest and segments under a row that is
\* ready; if it stops half way, the row does not stay ready, unless a fault
\* took the job or yet another one is on its way.
UniformReady ==
    \A m \in Media :
        Live(m) /\ status[m] = "ready" /\ m \in torn => m \in InMemory \cup dropped

\* Objects disappear from the bucket only while a DeleteMedia of their own
\* row deletes them, or after that row is soft-deleted.
OnlyDeleteRemoves ==
    [][\A m \in Media :
          ~(objects[m] \subseteq objects'[m]) =>
              \/ m \in deleted
              \/ \E c \in Calls : call[c].pc = "flush" /\ call[c].m = m]_vars

\* A soft-deleted row stays as it is, whatever handlers and jobs that read it
\* before the deletion still write.
DeletedIsFinal ==
    [][\A m \in deleted : m \in deleted' /\ status'[m] = status[m]]_vars

\* Every row put in processing leaves it, or is deleted, or lost its job to a fault.
JobsFinish ==
    \A m \in Media :
        status[m] = "processing"
            ~> (status[m] # "processing" \/ m \in deleted \/ m \in dropped)

\* An original that no purge can name, by DeleteMedia or by the cleaner.
Lasting(m) == IF key[m] = "ordinary" THEN {} ELSE {Original}

\* Whatever a worker or a client still stores under a soft-deleted row, the
\* cleaner removes in the end, and nothing comes back.  The exception is an
\* original whose file name ends in white space or is `..': DeleteObjectsByPrefix
\* deletes another key, or does not list it, and it stays.
OrphansReclaimed ==
    \A m \in Media : m \in deleted ~> [](objects[m] \subseteq Lasting(m))
=============================================================================
