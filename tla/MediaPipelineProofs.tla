------------------------ MODULE MediaPipelineProofs ------------------------
(***************************************************************************)
(* The safety properties of MediaPipeline and its refinement of            *)
(* MediaLifecycle, for every set of media and of calls, every queue and    *)
(* batch size, any number of segments and faults.  VideoAssumption, about  *)
(* the video that is looked at, is used by the refinement only.            *)
(***************************************************************************)
EXTENDS MediaRefinement, TLAPS

USE DEF Original, LastOutput, Outputs, Keys, Store, FailedOperation, Insert

-----------------------------------------------------------------------------
(* Type correctness.                                                       *)

\* An UPDATE keeps the status column well-typed.
LEMMA UpdatedType ==
    ASSUME RowsOK, NEW m \in Media, NEW s \in Statuses
    PROVE  Updated(m, s) \in [Media -> Statuses]
BY DEF RowsOK, Updated

\* A call that is under way has a target.
LEMMA CallTarget ==
    ASSUME TypeOK, NEW c \in Calls, call[c].pc # "idle"
    PROVE  /\ call[c].m \in Media
           /\ objects[call[c].m] \in SUBSET Keys
           /\ call[c].keys \in SUBSET Keys
BY DEF TypeOK, CallsOK, BucketOK

\* So has a worker that is not idle.
LEMMA WorkerTarget ==
    ASSUME TypeOK, worker.pc # "idle"
    PROVE  worker.m \in Media /\ objects[worker.m] \in SUBSET Keys
BY DEF TypeOK, WorkerOK, BucketOK

\* A cleaner that deletes has a target.
LEMMA CleanerTarget ==
    ASSUME TypeOK, cleaner.pc = "flush"
    PROVE  cleaner.m \in Media /\ objects[cleaner.m] \in SUBSET Keys
BY DEF TypeOK, CleanerOK, BucketOK

\* A listing of a video's folder has keys of that video only.
LEMMA ListedType ==
    ASSUME TypeOK, NEW m \in Media
    PROVE  Listed(m) \in SUBSET Keys
BY DEF TypeOK, BucketOK, Listed

\* The ways in which the handlers change a call keep it well-typed.
LEMMA CallsStep ==
    ASSUME TypeOK, NEW c \in Calls
    PROVE  /\ Return(c) => CallsOK'
           /\ \A m \in Media, pc \in CallPCs \ {"idle"} : Start(c, m, pc) => CallsOK'
           /\ \A pc \in CallPCs \ {"idle"} :
                call[c].pc # "idle" /\ Goto(c, pc) => CallsOK'
           /\ \A pc \in CallPCs \ {"idle"}, keys \in SUBSET Keys :
                /\ call[c].pc # "idle"
                /\ call' = [call EXCEPT ![c].pc = pc, ![c].keys = keys]
                => CallsOK'
<1> USE MediaAssumption DEF TypeOK, CallsOK
<1>1. Return(c) => CallsOK' BY DEF Return, IdleCall, CallPCs
<1>2. ASSUME NEW m \in Media, NEW pc \in CallPCs \ {"idle"}, Start(c, m, pc)
      PROVE  CallsOK'
  BY <1>2 DEF Start
<1>3. ASSUME NEW pc \in CallPCs \ {"idle"}, call[c].pc # "idle", Goto(c, pc)
      PROVE  CallsOK'
  BY <1>3 DEF Goto
<1>4. ASSUME NEW pc \in CallPCs \ {"idle"}, NEW keys \in SUBSET Keys, call[c].pc # "idle",
             call' = [call EXCEPT ![c].pc = pc, ![c].keys = keys]
      PROVE  CallsOK'
  <2>1. call' = [call EXCEPT ![c] = [@ EXCEPT !.pc = pc, !.keys = keys]] BY <1>4
  <2> QED BY <1>4, <2>1
<1> QED BY <1>1, <1>2, <1>3, <1>4

\* Every action keeps the types.
LEMMA TypeOKStep ==
    ASSUME TypeOK, [Next]_vars
    PROVE  TypeOK'
<1> USE SizesAssumption, MediaAssumption
<1> USE DEF TypeOK, Fault, NoFault, history
<1>1. ASSUME NEW c \in Calls, NEW m \in Media,
             InitUpload(c, m) \/ InitUploadError(c, m) \/ CompleteRead(c, m) \/ DeleteRead(c, m)
      PROVE  TypeOK'
  <2>1. CASE InitUpload(c, m)
    <3>1. RowsOK' BY <2>1 DEF InitUpload, RowsOK, Statuses
    <3>2. CallsOK' BY <2>1, CallsStep DEF InitUpload, CallPCs
    <3> QED BY <2>1, <3>1, <3>2 DEF InitUpload, BucketOK, QueueOK, WorkerOK, CleanerOK, HistoryOK
  <2>2. CASE InitUploadError(c, m)
    BY <2>2 DEF InitUploadError, RowsOK, Statuses, BucketOK, CallsOK, QueueOK, WorkerOK,
                CleanerOK, HistoryOK
  <2>3. CASE CompleteRead(c, m)
    <3>1. CallsOK' BY <2>3, CallsStep DEF CompleteRead, CallPCs
    <3> QED BY <2>3, <3>1 DEF CompleteRead, RowsOK, BucketOK, QueueOK, WorkerOK, CleanerOK,
                              HistoryOK
  <2>4. CASE DeleteRead(c, m)
    <3>1. CallsOK' BY <2>4, CallsStep DEF DeleteRead, CallPCs
    <3> QED BY <2>4, <3>1 DEF DeleteRead, RowsOK, BucketOK, QueueOK, WorkerOK, CleanerOK,
                              HistoryOK
  <2> QED BY <1>1, <2>1, <2>2, <2>3, <2>4
<1>2. ASSUME NEW c \in Calls, CallStep(c)
      PROVE  TypeOK' 
  <2>0. call[c].pc # "idle" BY <1>2 DEF CallStep, InitReply, CompleteHead, CompleteRefuse, CompleteMark, CompleteProcessing, CompleteWriteError, CompleteEnqueue, CompleteFailMark, CompleteFailMarkError, DeleteList, DeleteFlush, DeleteFlushError, DeleteSoft, DeleteSoftError
  <2> USE CallTarget, CallsStep, <2>0
  <2>1. CASE InitReply(c)
    <3>1. CallsOK' BY <2>1 DEF InitReply, CallPCs
    <3> QED BY <2>1, <3>1 DEF InitReply, RowsOK, BucketOK, QueueOK, WorkerOK, CleanerOK, HistoryOK
  <2>2. CASE CompleteHead(c)
    <3>1. CallsOK' BY <2>2 DEF CompleteHead, CallPCs
    <3> QED BY <2>2, <3>1 DEF CompleteHead, RowsOK, BucketOK, QueueOK, WorkerOK, CleanerOK, HistoryOK
  <2>3. CASE CompleteRefuse(c)
    <3>1. CallsOK' BY <2>3 DEF CompleteRefuse, CallPCs
    <3> QED BY <2>3, <3>1 DEF CompleteRefuse, RowsOK, BucketOK, QueueOK, WorkerOK, CleanerOK, HistoryOK
  <2>4. CASE CompleteMark(c)
    <3>1. CallsOK' BY <2>4 DEF CompleteMark, CallPCs
    <3>2. RowsOK' BY <2>4, UpdatedType DEF CompleteMark, RowsOK, Statuses
    <3> QED BY <2>4, <3>1, <3>2 DEF CompleteMark, BucketOK, QueueOK, WorkerOK, CleanerOK, HistoryOK
  <2>5. CASE CompleteProcessing(c)
    <3>1. CallsOK' BY <2>5 DEF CompleteProcessing, CallPCs
    <3>2. RowsOK' BY <2>5, UpdatedType DEF CompleteProcessing, RowsOK, Statuses
    <3> QED BY <2>5, <3>1, <3>2 DEF CompleteProcessing, BucketOK, QueueOK, WorkerOK, CleanerOK, HistoryOK
  <2>6. CASE CompleteWriteError(c)
    <3>1. CallsOK' BY <2>6 DEF CompleteWriteError, CallPCs
    <3>2. RowsOK' BY <2>6, UpdatedType DEF CompleteWriteError, RowsOK, Statuses
    <3> HIDE CallsStep
    <3> QED BY <2>6, <3>1, <3>2 DEF CompleteWriteError, BucketOK, QueueOK, WorkerOK, CleanerOK, HistoryOK
  <2>7. CASE CompleteEnqueue(c)
    <3>1. CallsOK' BY <2>7 DEF CompleteEnqueue, CallPCs
    <3>2. QueueOK'
      <4>1. CASE UNCHANGED queue BY <4>1 DEF QueueOK
      <4>2. CASE Len(queue) < QueueSize /\ queue' = Append(queue, call[c].m)
        <5>1. queue \in Seq(Media) /\ call[c].m \in Media BY DEF QueueOK
        <5> HIDE CallTarget, CallsStep, MediaAssumption
        <5>2. queue' \in Seq(Media) /\ Len(queue') = Len(queue) + 1 BY <4>2, <5>1
        <5> QED BY <4>2, <5>1, <5>2 DEF QueueOK
      <4> QED BY <2>7, <4>1, <4>2 DEF CompleteEnqueue
    <3> QED BY <2>7, <3>1, <3>2 DEF CompleteEnqueue, RowsOK, BucketOK, WorkerOK, CleanerOK, HistoryOK
  <2>8. CASE CompleteFailMark(c)
    <3>1. CallsOK' BY <2>8 DEF CompleteFailMark, CallPCs
    <3>2. RowsOK' BY <2>8, UpdatedType DEF CompleteFailMark, RowsOK, Statuses
    <3> QED BY <2>8, <3>1, <3>2 DEF CompleteFailMark, BucketOK, QueueOK, WorkerOK, CleanerOK, HistoryOK
  <2>9. CASE CompleteFailMarkError(c)
    <3>1. CallsOK' BY <2>9 DEF CompleteFailMarkError, CallPCs
    <3>2. RowsOK' BY <2>9, UpdatedType DEF CompleteFailMarkError, RowsOK, Statuses
    <3> HIDE CallsStep
    <3> QED BY <2>9, <3>1, <3>2 DEF CompleteFailMarkError, BucketOK, QueueOK, WorkerOK, CleanerOK, HistoryOK
  <2>10. CASE DeleteList(c)
    <3>1. CallsOK'
      <4>1. call' = [call EXCEPT ![c].pc = "flush", ![c].keys = Listed(call[c].m)]
        BY <2>10 DEF DeleteList
      <4>2. "flush" \in CallPCs \ {"idle"} /\ Listed(call[c].m) \in SUBSET Keys
        BY ListedType DEF CallPCs
      <4> QED BY <4>1, <4>2, CallsStep
    <3> QED BY <2>10, <3>1 DEF DeleteList, RowsOK, BucketOK, QueueOK, WorkerOK, CleanerOK, HistoryOK
  <2>11. CASE DeleteFlush(c)
    <3>1. CallsOK'
      <4>1. call' = [call EXCEPT ![c].pc = "soft", ![c].keys = {}] BY <2>11 DEF DeleteFlush
      <4>2. "soft" \in CallPCs \ {"idle"} /\ {} \in SUBSET Keys BY DEF CallPCs
      <4> QED BY <4>1, <4>2, CallsStep
    <3> QED BY <2>11, <3>1 DEF DeleteFlush, RowsOK, BucketOK, QueueOK, WorkerOK, CleanerOK, HistoryOK
  <2>12. CASE DeleteFlushError(c)
    <3>1. Return(c) \/ call' = [call EXCEPT ![c].pc = "soft", ![c].keys = {}]
      BY <2>12 DEF DeleteFlushError
    <3>2. CallsOK'
      <4>1. CASE Return(c) BY <4>1
      <4>2. CASE call' = [call EXCEPT ![c].pc = "soft", ![c].keys = {}]
        <5>1. "soft" \in CallPCs \ {"idle"} /\ {} \in SUBSET Keys BY DEF CallPCs
        <5> QED BY <4>2, <5>1, CallsStep
      <4> QED BY <3>1, <4>1, <4>2
    <3> HIDE CallsStep
    <3>3. BucketOK' BY <2>12 DEF DeleteFlushError, BucketOK
    <3>4. HistoryOK' BY <2>12 DEF DeleteFlushError, HistoryOK
    <3> QED BY <2>12, <3>2, <3>3, <3>4 DEF DeleteFlushError, RowsOK, QueueOK, WorkerOK, CleanerOK
  <2>13. CASE DeleteSoft(c)
    <3>1. CallsOK' BY <2>13 DEF DeleteSoft, CallPCs
    <3> QED BY <2>13, <3>1 DEF DeleteSoft, RowsOK, BucketOK, QueueOK, WorkerOK, CleanerOK, HistoryOK
  <2>14. CASE DeleteSoftError(c)
    <3>1. CallsOK' BY <2>14 DEF DeleteSoftError, CallPCs
    <3> HIDE CallsStep
    <3> QED BY <2>14, <3>1 DEF DeleteSoftError, RowsOK, BucketOK, QueueOK, WorkerOK, CleanerOK, HistoryOK
  <2> QED BY <1>2, <2>1, <2>2, <2>3, <2>4, <2>5, <2>6, <2>7, <2>8, <2>9, <2>10, <2>11, <2>12, <2>13, <2>14 DEF CallStep
<1>3. ASSUME NEW m \in Media, ClientPut(m) \/ ExpireURL(m)
      PROVE  TypeOK'
  <2>1. BucketOK' BY <1>3 DEF ClientPut, ExpireURL, BucketOK
  <2> QED BY <1>3, <2>1 DEF ClientPut, ExpireURL, RowsOK, CallsOK, QueueOK, WorkerOK,
                            CleanerOK, HistoryOK
<1>4. ASSUME WorkerStep
      PROVE  TypeOK'
  <2> USE WorkerTarget DEF WorkerOK, WorkerPCs, IdleWorker
  <2>1. CASE WorkerTake
    <3>1. Head(queue) \in Media /\ QueueOK' BY <2>1 DEF WorkerTake, QueueOK
    <3> QED BY <2>1, <3>1 DEF WorkerTake, RowsOK, BucketOK, CallsOK, CleanerOK, HistoryOK
  <2>2. CASE WorkerRead
    BY <2>2 DEF WorkerRead, RowsOK, BucketOK, CallsOK, QueueOK, CleanerOK, HistoryOK
  <2>3. CASE WorkerPrepare
    <3>1. 1 \in Outputs OBVIOUS
    <3>2. WorkerOK' BY <2>3, <3>1 DEF WorkerPrepare
    <3> QED BY <2>3, <3>2 DEF WorkerPrepare, RowsOK, BucketOK, CallsOK, QueueOK, CleanerOK,
                              HistoryOK
  <2>4. CASE WorkerUpload
    <3>1. WorkerOK' BY <2>4 DEF WorkerUpload
    <3>2. BucketOK' BY <2>4 DEF WorkerUpload, BucketOK
    <3> QED BY <2>4, <3>1, <3>2 DEF WorkerUpload, RowsOK, CallsOK, QueueOK, CleanerOK, HistoryOK
  <2>5. CASE WorkerPublish
    <3>1. RowsOK' BY <2>5, UpdatedType DEF WorkerPublish, RowsOK, Statuses
    <3>2. WorkerOK'
      <4>1. worker.pc = "publish"
            /\ (worker' = IdleWorker \/ worker' = [worker EXCEPT !.pc = "fail"])
        BY <2>5 DEF WorkerPublish
      <4> QED BY <4>1
    <3> QED BY <2>5, <3>1, <3>2 DEF WorkerPublish, BucketOK, CallsOK, QueueOK, CleanerOK, HistoryOK
  <2>6. CASE WorkerFallback \/ WorkerError
    <3>1. RowsOK' BY <2>6, UpdatedType DEF WorkerFallback, WorkerError, RowsOK, Statuses
    <3>2. BucketOK' BY <2>6 DEF WorkerFallback, WorkerError, BucketOK
    <3>3. WorkerOK'
      <4>1. CASE WorkerFallback
        <5>1. worker.dir + 1 \in 1 .. Workspaces BY <4>1 DEF WorkerFallback
        <5>2. worker' = [worker EXCEPT !.pc = "prepare", !.dir = worker.dir + 1]
          BY <4>1 DEF WorkerFallback
        <5>3. worker.pc # "idle" BY <4>1 DEF WorkerFallback
        <5> QED BY <5>1, <5>2, <5>3
      <4>2. CASE WorkerError BY <4>2 DEF WorkerError
      <4> QED BY <2>6, <4>1, <4>2
    <3>4. HistoryOK' BY <2>6 DEF WorkerFallback, WorkerError, HistoryOK
    <3> QED BY <2>6, <3>1, <3>2, <3>3, <3>4 DEF WorkerFallback, WorkerError, CallsOK, QueueOK, CleanerOK
  <2>7. CASE WorkerFail
    <3>1. RowsOK' BY <2>7, UpdatedType DEF WorkerFail, RowsOK, Statuses
    <3> QED BY <2>7, <3>1 DEF WorkerFail, BucketOK, CallsOK, QueueOK, CleanerOK, HistoryOK
  <2>8. CASE WorkerFailError
    <3>1. RowsOK' BY <2>8, UpdatedType DEF WorkerFailError, RowsOK, Statuses
    <3> QED BY <2>8, <3>1 DEF WorkerFailError, BucketOK, CallsOK, QueueOK, CleanerOK, HistoryOK
  <2> QED BY <1>4, <2>1, <2>2, <2>3, <2>4, <2>5, <2>6, <2>7, <2>8 DEF WorkerStep
<1>5. ASSUME CleanerStep
      PROVE  TypeOK'
  <2> USE CleanerTarget DEF CleanerOK, CleanerPCs, IdleCleaner
  <2>1. CASE CleanList
    BY <2>1 DEF CleanList, MediaPrefixes, RowsOK, BucketOK, CallsOK, QueueOK, WorkerOK, HistoryOK
  <2>2. CASE CleanQuery
    <3>1. PICK chunk \in SUBSET cleaner.unchecked :
              cleaner' = Checked(chunk, {m \in chunk : ~Live(m)})
      BY <2>2 DEF CleanQuery, Chunks
    <3>2. chunk \subseteq Media OBVIOUS
    <3>3. CleanerOK' BY <2>2, <3>1, <3>2 DEF CleanQuery, Checked
    <3> QED BY <2>2, <3>3 DEF CleanQuery, RowsOK, BucketOK, CallsOK, QueueOK, WorkerOK, HistoryOK
  <2>3. CASE CleanQueryError
    BY <2>3 DEF CleanQueryError, RowsOK, BucketOK, CallsOK, QueueOK, WorkerOK, HistoryOK
  <2>4. CASE CleanListPrefix
    <3>1. PICK m \in cleaner.victims :
              cleaner' = [cleaner EXCEPT !.pc = "flush", !.m = m, !.keys = Listed(m),
                                         !.victims = @ \ {m}]
      BY <2>4 DEF CleanListPrefix
    <3>2. m \in Media /\ Listed(m) \in SUBSET Keys BY ListedType
    <3> HIDE CleanerTarget
    <3>3. CleanerOK' BY <3>1, <3>2
    <3> QED BY <2>4, <3>3 DEF CleanListPrefix, RowsOK, BucketOK, CallsOK, QueueOK, WorkerOK,
                              HistoryOK
  <2>5. CASE CleanFlush
    <3>1. CleanerOK' BY <2>5 DEF CleanFlush, NextVictim
    <3>2. BucketOK' BY <2>5 DEF CleanFlush, BucketOK
    <3> QED BY <2>5, <3>1, <3>2 DEF CleanFlush, RowsOK, CallsOK, QueueOK, WorkerOK, HistoryOK
  <2>6. CASE CleanFlushError
    <3>1. CleanerOK' BY <2>6 DEF CleanFlushError, NextVictim
    <3>2. BucketOK' BY <2>6 DEF CleanFlushError, BucketOK
    <3> QED BY <2>6, <3>1, <3>2 DEF CleanFlushError, RowsOK, CallsOK, QueueOK, WorkerOK, HistoryOK
  <2> QED BY <1>5, <2>1, <2>2, <2>3, <2>4, <2>5, <2>6 DEF CleanerStep
<1>6. ASSUME Restart
      PROVE  TypeOK'
  <2>1. {call[c].m : c \in {d \in Calls : call[d].pc = "soft"}} \subseteq Media
    BY CallTarget
  <2>2. InMemory \subseteq Media
    BY CallTarget, WorkerTarget DEF InMemory, Holding, QueueOK, WorkerOK
  <2> QED BY <1>6, <2>1, <2>2 DEF Restart, RowsOK, BucketOK, CallsOK, QueueOK, WorkerOK,
             CleanerOK, HistoryOK, IdleCall, IdleWorker, IdleCleaner, CallPCs, WorkerPCs, CleanerPCs
<1>7. CASE UNCHANGED vars
  BY <1>7 DEF vars, RowsOK, BucketOK, CallsOK, QueueOK, WorkerOK, CleanerOK, HistoryOK
<1> QED BY <1>1, <1>2, <1>3, <1>4, <1>5, <1>6, <1>7 DEF Next, StartCall

\* The initial state is well-typed.
LEMMA TypeOKInit == Init => TypeOK
BY SizesAssumption, MediaAssumption
   DEF Init, TypeOK, RowsOK, BucketOK, CallsOK, QueueOK, WorkerOK, CleanerOK, HistoryOK,
       Statuses, CallPCs, WorkerPCs, CleanerPCs, IdleCall, IdleWorker, IdleCleaner

\* Table, bucket, queue and goroutine state are well-typed in every reachable
\* state; in particular the job channel never exceeds its capacity.
THEOREM TypeCorrect == Spec => []TypeOK
BY TypeOKInit, TypeOKStep, PTL DEF Spec

-----------------------------------------------------------------------------
(* The media table: what a step may do to rows.                            *)

\* An UPDATE touches one row, and only if it is live.
LEMMA UpdatedRow ==
    ASSUME RowsOK, NEW m \in Media, NEW s \in Statuses \ {"none"}
    PROVE  /\ \A x \in Media : Updated(m, s)[x] = IF x = m /\ Live(m) THEN s ELSE status[x]
           /\ \A x \in Media : Created(x) => Updated(m, s)[x] # "none"
           /\ \A x \in deleted : Updated(m, s)[x] = status[x]
BY DEF RowsOK, Updated, Live, Created

\* Steps neither remove rows nor undo a deletion, and leave the status of a
\* soft-deleted row alone.
RowsKept ==
    /\ deleted \subseteq deleted'
    /\ \A m \in Media : Created(m) => Created(m)'
    /\ \A m \in deleted : status'[m] = status[m]

\* Every step leaves created rows created and deleted rows as they are.
LEMMA RowsStep ==
    ASSUME TypeOK, RowFirst, [Next]_vars
    PROVE  RowsKept
<1> USE DEF TypeOK, RowsKept, Created
<1>1. ASSUME NEW c \in Calls, StartCall(c)
      PROVE  RowsKept
  <2>1. PICK m \in Media : \/ InitUpload(c, m) \/ InitUploadError(c, m)
                           \/ CompleteRead(c, m) \/ DeleteRead(c, m)
    BY <1>1 DEF StartCall
  <2>2. CASE InitUpload(c, m) BY <2>2 DEF InitUpload, RowsOK, RowFirst
  <2>3. CASE InitUploadError(c, m) BY <2>3 DEF InitUploadError, RowsOK, RowFirst
  <2>4. CASE CompleteRead(c, m) BY <2>4 DEF CompleteRead
  <2>5. CASE DeleteRead(c, m) BY <2>5 DEF DeleteRead
  <2> QED BY <2>1, <2>2, <2>3, <2>4, <2>5
<1>2. ASSUME NEW c \in Calls, CallStep(c)
      PROVE  RowsKept
  <2> USE CallTarget, UpdatedRow
  <2>1. CASE \/ InitReply(c) \/ CompleteHead(c) \/ CompleteRefuse(c) \/ CompleteEnqueue(c)
             \/ DeleteList(c) \/ DeleteFlush(c) \/ DeleteFlushError(c)
    BY <2>1 DEF InitReply, CompleteHead, CompleteRefuse, CompleteEnqueue, DeleteList,
                DeleteFlush, DeleteFlushError
  <2>2. CASE CompleteMark(c) BY <2>2 DEF CompleteMark, Statuses
  <2>3. CASE CompleteProcessing(c) BY <2>3 DEF CompleteProcessing, Statuses
  <2>4. CASE CompleteWriteError(c) BY <2>4 DEF CompleteWriteError, Statuses
  <2>5. CASE CompleteFailMark(c) BY <2>5 DEF CompleteFailMark, Statuses
  <2>6. CASE CompleteFailMarkError(c) BY <2>6 DEF CompleteFailMarkError, Statuses
  <2>7. CASE DeleteSoft(c) \/ DeleteSoftError(c) BY <2>7 DEF DeleteSoft, DeleteSoftError
  <2> QED BY <1>2, <2>1, <2>2, <2>3, <2>4, <2>5, <2>6, <2>7 DEF CallStep
<1>3. ASSUME WorkerStep
      PROVE  RowsKept
  <2> USE WorkerTarget, UpdatedRow
  <2>1. CASE WorkerTake \/ WorkerRead \/ WorkerPrepare \/ WorkerUpload
    BY <2>1 DEF WorkerTake, WorkerRead, WorkerPrepare, WorkerUpload
  <2>2. CASE WorkerPublish BY <2>2 DEF WorkerPublish, Statuses
  <2>3. CASE WorkerFallback \/ WorkerError BY <2>3 DEF WorkerFallback, WorkerError, Statuses
  <2>4. CASE WorkerFail BY <2>4 DEF WorkerFail, Statuses
  <2>5. CASE WorkerFailError BY <2>5 DEF WorkerFailError, Statuses
  <2> QED BY <1>3, <2>1, <2>2, <2>3, <2>4, <2>5 DEF WorkerStep
<1>4. CASE CleanerStep
  BY <1>4 DEF CleanerStep, CleanList, CleanQuery, CleanQueryError, CleanListPrefix, CleanFlush,
              CleanFlushError
<1>5. CASE \/ \E m \in Media : ClientPut(m) \/ ExpireURL(m)
           \/ Restart
           \/ UNCHANGED vars
  BY <1>5 DEF ClientPut, ExpireURL, Restart, vars
<1> QED BY <1>1, <1>2, <1>3, <1>4, <1>5 DEF Next

-----------------------------------------------------------------------------
(* RowFirst and CleanerSparesLive.                                         *)

\* What a step of a handler can change: its own call, which keeps its target;
\* it only removes objects, and refers to no media but its target.
CallFrame(c) ==
    /\ call[c].pc # "idle"
    /\ \A d \in Calls \ {c} : call'[d] = call[d]
    /\ call'[c].pc # "idle" => call'[c].m = call[c].m
    /\ \A m \in Media : objects'[m] \subseteq objects[m]
    /\ url' \subseteq url \cup {call[c].m}
    /\ deleted' \subseteq deleted \cup {call[c].m}
    /\ queue' = queue \/ queue' = Append(queue, call[c].m)
    /\ UNCHANGED <<worker, cleaner>>

\* A step of a handler touches its own call, its own row and the tail of the queue.
LEMMA CallFrameStep ==
    ASSUME TypeOK, NEW c \in Calls, CallStep(c)
    PROVE  CallFrame(c)
<1> USE CallTarget DEF CallFrame, TypeOK, CallsOK, BucketOK, Goto, Return, IdleCall
<1>1. CASE InitReply(c) BY <1>1 DEF InitReply
<1>2. CASE CompleteHead(c) \/ CompleteRefuse(c) BY <1>2 DEF CompleteHead, CompleteRefuse
<1>3. CASE CompleteMark(c) \/ CompleteProcessing(c)
  BY <1>3 DEF CompleteMark, CompleteProcessing
<1>4. CASE CompleteWriteError(c) BY <1>4 DEF CompleteWriteError
<1>5. CASE CompleteEnqueue(c) BY <1>5 DEF CompleteEnqueue
<1>6. CASE CompleteFailMark(c) \/ CompleteFailMarkError(c)
  BY <1>6 DEF CompleteFailMark, CompleteFailMarkError
<1>7. CASE DeleteList(c) BY <1>7 DEF DeleteList
<1>8. CASE DeleteFlush(c) BY <1>8 DEF DeleteFlush
<1>9. CASE DeleteFlushError(c) BY <1>9 DEF DeleteFlushError
<1>10. CASE DeleteSoft(c) \/ DeleteSoftError(c) BY <1>10 DEF DeleteSoft, DeleteSoftError
<1> QED BY <1>1, <1>2, <1>3, <1>4, <1>5, <1>6, <1>7, <1>8, <1>9, <1>10 DEF CallStep

\* Every step keeps RowFirst: new references come from an existing row.
LEMMA RowFirstStep ==
    ASSUME TypeOK, RowFirst, [Next]_vars
    PROVE  RowFirst'
<1>0. RowsKept BY RowsStep
<1> USE <1>0 DEF TypeOK, RowsKept, RowFirst
<1>1. ASSUME NEW c \in Calls, StartCall(c)
      PROVE  RowFirst'
  <2>1. PICK m \in Media : \/ InitUpload(c, m) \/ InitUploadError(c, m)
                           \/ CompleteRead(c, m) \/ DeleteRead(c, m)
    BY <1>1 DEF StartCall
  <2> USE DEF Start, RowsOK, BucketOK, CallsOK, QueueOK, WorkerOK, CleanerOK
  <2>2. CASE InitUpload(c, m)
    <3>1. Created(m)' BY <2>2 DEF InitUpload, Created
    <3> QED BY <2>2, <3>1 DEF InitUpload
  <2>3. CASE InitUploadError(c, m) BY <2>3 DEF InitUploadError
  <2>4. CASE CompleteRead(c, m) BY <2>4 DEF CompleteRead, Live
  <2>5. CASE DeleteRead(c, m) BY <2>5 DEF DeleteRead, Live
  <2> QED BY <2>1, <2>2, <2>3, <2>4, <2>5
<1>2. ASSUME NEW c \in Calls, CallStep(c)
      PROVE  RowFirst'
  <2>1. CallFrame(c) BY <1>2, CallFrameStep
  <2>2. call[c].m \in Media /\ Created(call[c].m) BY <2>1, CallTarget DEF CallFrame
  <2>3. \A m \in Media : objects'[m] # {} \/ m \in url' \/ m \in deleted' => Created(m)'
    BY <2>1, <2>2 DEF CallFrame, RowsOK, BucketOK
  <2>4. (\A d \in Calls : call[d].pc # "idle" => Created(call[d].m))'
    BY <2>1, <2>2, CallTarget DEF CallFrame, CallsOK
  <2>5. (\A i \in DOMAIN queue : Created(queue[i]))'
    BY <2>1, <2>2 DEF CallFrame, QueueOK
  <2> QED BY <2>1, <2>3, <2>4, <2>5 DEF CallFrame, WorkerOK, CleanerOK
<1>3. ASSUME NEW m \in Media, ClientPut(m) \/ ExpireURL(m)
      PROVE  RowFirst'
  BY <1>3 DEF ClientPut, ExpireURL, RowsOK, BucketOK, CallsOK, QueueOK, WorkerOK, CleanerOK
<1>4. ASSUME WorkerStep
      PROVE  RowFirst'
  <2> USE WorkerTarget DEF RowsOK, BucketOK, CallsOK, QueueOK, WorkerOK, CleanerOK, IdleWorker
  <2>1. CASE WorkerTake
    <3>1. Head(queue) \in Media /\ Created(Head(queue)) BY <2>1 DEF WorkerTake
    <3>2. (\A i \in DOMAIN queue : Created(queue[i]))' BY <2>1 DEF WorkerTake
    <3>3. (worker.pc # "idle" => Created(worker.m))' BY <2>1, <3>1 DEF WorkerTake
    <3> QED BY <2>1, <3>2, <3>3 DEF WorkerTake
  <2>2. CASE WorkerRead \/ WorkerPrepare
    <3>1. worker'.m = worker.m /\ worker.pc # "idle" BY <2>2 DEF WorkerRead, WorkerPrepare
    <3> QED BY <2>2, <3>1 DEF WorkerRead, WorkerPrepare
  <2>3. CASE WorkerUpload BY <2>3 DEF WorkerUpload
  <2>4. CASE WorkerPublish BY <2>4 DEF WorkerPublish
  <2>5. CASE WorkerFallback \/ WorkerError
    <3>1. worker'.m = worker.m /\ worker.pc # "idle" BY <2>5 DEF WorkerFallback, WorkerError
    <3>2. \A m \in Media : objects'[m] \subseteq objects[m] \/ m = worker.m
      BY <2>5 DEF WorkerFallback, WorkerError
    <3> QED BY <2>5, <3>1, <3>2 DEF WorkerFallback, WorkerError
  <2>6. CASE WorkerFail \/ WorkerFailError BY <2>6 DEF WorkerFail, WorkerFailError
  <2> QED BY <1>4, <2>1, <2>2, <2>3, <2>4, <2>5, <2>6 DEF WorkerStep
<1>5. ASSUME CleanerStep
      PROVE  RowFirst'
  <2> USE CleanerTarget DEF RowsOK, BucketOK, CallsOK, QueueOK, WorkerOK, CleanerOK, IdleCleaner
  <2>1. CASE CleanList BY <2>1 DEF CleanList, MediaPrefixes
  <2>2. CASE CleanQuery \/ CleanQueryError
    <3>1. cleaner'.unchecked \subseteq cleaner.unchecked
      <4>1. CASE CleanQuery
        <5>1. PICK chunk, orphans : cleaner' = Checked(chunk, orphans) BY <4>1 DEF CleanQuery
        <5> QED BY <5>1 DEF Checked
      <4>2. CASE CleanQueryError BY <4>2 DEF CleanQueryError
      <4> QED BY <2>2, <4>1, <4>2
    <3> QED BY <2>2, <3>1 DEF CleanQuery, CleanQueryError
  <2>3. CASE CleanListPrefix BY <2>3 DEF CleanListPrefix
  <2>4. CASE CleanFlush \/ CleanFlushError
    <3>1. cleaner'.unchecked \subseteq cleaner.unchecked
      <4>1. NextVictim BY <2>4 DEF CleanFlush, CleanFlushError
      <4>2. CASE cleaner.victims = {} BY <4>1, <4>2 DEF NextVictim
      <4>3. CASE cleaner.victims # {} BY <4>1, <4>3 DEF NextVictim
      <4> QED BY <4>2, <4>3
    <3>2. \A m \in Media : objects'[m] \subseteq objects[m]
      <4>1. CASE CleanFlush BY <4>1 DEF CleanFlush
      <4>2. CASE CleanFlushError BY <4>2 DEF CleanFlushError
      <4> QED BY <2>4, <4>1, <4>2
    <3> QED BY <2>4, <3>1, <3>2 DEF CleanFlush, CleanFlushError
  <2> QED BY <1>5, <2>1, <2>2, <2>3, <2>4 DEF CleanerStep
<1>6. CASE Restart
  BY <1>6 DEF Restart, RowsOK, BucketOK, IdleCall, IdleWorker, IdleCleaner
<1>7. CASE UNCHANGED vars
  BY <1>7 DEF vars, RowsOK, BucketOK, CallsOK, QueueOK, WorkerOK, CleanerOK
<1> QED BY <1>1, <1>2, <1>3, <1>4, <1>5, <1>6, <1>7 DEF Next

\* A query of the cleaner condemns only deleted rows: every listed id has been
\* inserted, so an id the database no longer shows was soft-deleted.
LEMMA CleanerSparesLiveStep ==
    ASSUME TypeOK, RowFirst, CleanerSparesLive, [Next]_vars
    PROVE  CleanerSparesLive'
<1>0. deleted \subseteq deleted' BY RowsStep DEF RowsKept
<1> USE <1>0, MediaAssumption DEF CleanerSparesLive, TypeOK, CleanerOK, IdleCleaner
<1>1. ASSUME CleanerStep
      PROVE  CleanerSparesLive'
  <2>1. CASE CleanList BY <2>1 DEF CleanList, MediaPrefixes
  <2>2. CASE CleanQuery
    <3>1. PICK chunk \in SUBSET cleaner.unchecked :
              cleaner' = Checked(chunk, {m \in chunk : ~Live(m)})
      BY <2>2 DEF CleanQuery, Chunks
    <3>2. {m \in chunk : ~Live(m)} \subseteq deleted BY DEF RowFirst, Live
    <3> QED BY <2>2, <3>1, <3>2 DEF CleanQuery, Checked
  <2>3. CASE CleanQueryError BY <2>3 DEF CleanQueryError
  <2>4. CASE CleanListPrefix BY <2>4 DEF CleanListPrefix
  <2>5. CASE CleanFlush \/ CleanFlushError
    <3>1. NextVictim BY <2>5 DEF CleanFlush, CleanFlushError
    <3>2. CASE cleaner.victims = {} BY <3>1, <3>2 DEF NextVictim
    <3>3. CASE cleaner.victims # {} BY <3>1, <3>3 DEF NextVictim
    <3> QED BY <3>2, <3>3
  <2> QED BY <1>1, <2>1, <2>2, <2>3, <2>4, <2>5 DEF CleanerStep
<1>2. ASSUME NEW c \in Calls, CallStep(c)
      PROVE  CleanerSparesLive'
  BY <1>2, CallFrameStep DEF CallFrame
<1>3. ASSUME NEW c \in Calls, StartCall(c)
      PROVE  CleanerSparesLive'
  BY <1>3 DEF StartCall, InitUpload, InitUploadError, CompleteRead, DeleteRead
<1>4. CASE WorkerStep
  BY <1>4 DEF WorkerStep, WorkerTake, WorkerRead, WorkerPrepare, WorkerUpload, WorkerPublish,
              WorkerFallback, WorkerError, WorkerFail, WorkerFailError
<1>5. CASE \/ \E m \in Media : ClientPut(m) \/ ExpireURL(m)
           \/ Restart
           \/ UNCHANGED vars
  BY <1>5 DEF ClientPut, ExpireURL, Restart, vars
<1> QED BY <1>1, <1>2, <1>3, <1>4, <1>5 DEF Next

-----------------------------------------------------------------------------
(* ReadyComplete.                                                          *)

\* A purge is never forgotten: the DeleteMedia either soft-deletes the row or
\* leaves it half deleted.
LEMMA PurgedStep ==
    ASSUME TypeOK, RowFirst, [Next]_vars, NEW m \in Media, Purged(m)
    PROVE  Purged(m)'
<1>0. deleted \subseteq deleted' BY RowsStep DEF RowsKept
<1> USE <1>0 DEF Purged
<1>1. halfDeleted \subseteq halfDeleted'
  BY DEF Next, StartCall, InitUpload, InitUploadError, CompleteRead, DeleteRead,
         CallStep, InitReply, CompleteHead, CompleteRefuse, CompleteMark, CompleteProcessing,
         CompleteWriteError, CompleteEnqueue, CompleteFailMark, CompleteFailMarkError,
         DeleteList, DeleteFlush, DeleteFlushError, DeleteSoft, DeleteSoftError,
         ClientPut, ExpireURL, WorkerStep, WorkerTake, WorkerRead, WorkerPrepare, WorkerUpload,
         WorkerPublish, WorkerFallback, WorkerError, WorkerFail, WorkerFailError, CleanerStep, CleanList,
         CleanQuery, CleanQueryError, CleanListPrefix, CleanFlush, CleanFlushError, Restart,
         history, vars
<1>2. CASE m \in deleted \/ m \in halfDeleted BY <1>1, <1>2
<1>3. ASSUME NEW d \in Calls, call[d].pc = "soft", call[d].m = m
      PROVE  Purged(m)'
  <2>1. CASE call'[d] = call[d] BY <1>3, <2>1
  <2>2. CASE Restart BY <1>3, <2>2 DEF Restart
  <2>3. ASSUME NEW c \in Calls, CallStep(c)
        PROVE  Purged(m)'
    <3>1. CASE c # d BY <1>3, <2>1, <2>3, <3>1, CallFrameStep DEF CallFrame
    <3>2. CASE c = d
      BY <1>3, <2>3, <3>2
      DEF CallStep, InitReply, CompleteHead, CompleteRefuse, CompleteMark, CompleteProcessing,
          CompleteWriteError, CompleteEnqueue, CompleteFailMark, CompleteFailMarkError,
          DeleteList, DeleteFlush, DeleteFlushError, DeleteSoft, DeleteSoftError
    <3> QED BY <3>1, <3>2
  <2>4. ASSUME NEW c \in Calls, StartCall(c)
        PROVE  call'[d] = call[d]
    BY <1>3, <2>4 DEF StartCall, InitUpload, InitUploadError, CompleteRead, DeleteRead, Start,
                      TypeOK, CallsOK
  <2>5. CASE \/ WorkerStep
             \/ CleanerStep
             \/ \E x \in Media : ClientPut(x) \/ ExpireURL(x)
             \/ UNCHANGED vars
    BY <2>1, <2>5 DEF ClientPut, ExpireURL, WorkerStep, WorkerTake, WorkerRead, WorkerPrepare,
         WorkerUpload, WorkerPublish, WorkerFallback, WorkerError, WorkerFail, WorkerFailError, CleanerStep,
         CleanList, CleanQuery, CleanQueryError, CleanListPrefix, CleanFlush, CleanFlushError, vars
  <2> QED BY <2>1, <2>2, <2>3, <2>4, <2>5 DEF Next
<1> QED BY <1>2, <1>3

\* Objects vanish only from a row that a DeleteMedia purges or has deleted.
LEMMA ObjectsStep ==
    ASSUME TypeOK, RowFirst, CleanerSparesLive, [Next]_vars, NEW m \in Media
    PROVE  /\ objects[m] \subseteq objects'[m] \/ Purged(m)'
           /\ \/ objects[m] \subseteq objects'[m]
              \/ m \in deleted
              \/ \E c \in Calls : call[c].pc = "flush" /\ call[c].m = m
<1>0. Purged(m) => Purged(m)' BY PurgedStep
<1> DEFINE Kept == /\ objects[m] \subseteq objects'[m] \/ Purged(m)'
                   /\ \/ objects[m] \subseteq objects'[m]
                      \/ m \in deleted
                      \/ \E c \in Calls : call[c].pc = "flush" /\ call[c].m = m
<1>1. ASSUME NEW c \in Calls, DeleteFlush(c) \/ DeleteFlushError(c)
      PROVE  Kept
  <2>1. CASE call[c].m = m
    <3>1. call[c].pc = "flush" BY <1>1 DEF DeleteFlush, DeleteFlushError
    <3>2. CASE Return(c)
      BY <1>1, <2>1, <3>1, <3>2 DEF DeleteFlush, DeleteFlushError, Return, IdleCall, Purged,
                                    TypeOK, CallsOK
    <3>3. CASE call' = [call EXCEPT ![c].pc = "soft", ![c].keys = {}]
      BY <2>1, <3>1, <3>3 DEF Purged, TypeOK, CallsOK
    <3> QED BY <1>1, <3>2, <3>3 DEF DeleteFlush, DeleteFlushError
  <2>2. CASE call[c].m # m
    BY <1>1, <2>2 DEF DeleteFlush, DeleteFlushError, TypeOK, BucketOK
  <2> QED BY <2>1, <2>2
<1>2. CASE CleanFlush \/ CleanFlushError
  <2>1. cleaner.m \in deleted
    BY <1>2, CleanerTarget, MediaAssumption
       DEF CleanFlush, CleanFlushError, CleanerSparesLive
  <2>2. CASE cleaner.m = m BY <1>0, <2>1, <2>2 DEF Purged
  <2>3. CASE cleaner.m # m
    BY <1>2, <2>3 DEF CleanFlush, CleanFlushError, TypeOK, BucketOK
  <2> QED BY <2>2, <2>3
<1>3. CASE WorkerUpload \/ WorkerFallback \/ WorkerError
  BY <1>3, WorkerTarget DEF WorkerUpload, WorkerFallback, WorkerError, TypeOK, BucketOK
<1>4. ASSUME NEW x \in Media, ClientPut(x)
      PROVE  Kept
  BY <1>4 DEF ClientPut, TypeOK, BucketOK
<1>5. CASE UNCHANGED objects BY <1>5
<1> QED
  BY <1>1, <1>2, <1>3, <1>4, <1>5
  DEF Next, StartCall, InitUpload, InitUploadError, CompleteRead, DeleteRead,
      CallStep, InitReply, CompleteHead, CompleteRefuse, CompleteMark, CompleteProcessing,
      CompleteWriteError, CompleteEnqueue, CompleteFailMark, CompleteFailMarkError,
      DeleteList, DeleteSoft, DeleteSoftError, ExpireURL, WorkerStep, WorkerTake, WorkerRead,
      WorkerPrepare, WorkerPublish, WorkerFail, WorkerFailError, CleanerStep, CleanList,
      CleanQuery, CleanQueryError, CleanListPrefix, Restart, vars

\* Steps of others leave the worker alone or, on a restart, end its job.
LEMMA WorkerAlone ==
    ASSUME Next, ~WorkerStep
    PROVE  worker' = worker \/ worker' = IdleWorker
BY DEF Next, StartCall, InitUpload, InitUploadError, CompleteRead, DeleteRead,
       CallStep, InitReply, CompleteHead, CompleteRefuse, CompleteMark, CompleteProcessing,
       CompleteWriteError, CompleteEnqueue, CompleteFailMark, CompleteFailMarkError,
       DeleteList, DeleteFlush, DeleteFlushError, DeleteSoft, DeleteSoftError,
       ClientPut, ExpireURL, CleanerStep, CleanList, CleanQuery, CleanQueryError,
       CleanListPrefix, CleanFlush, CleanFlushError, Restart

\* Every step keeps UploadsKept: what the worker uploaded only a purge removes.
LEMMA UploadsKeptStep ==
    ASSUME TypeOK, RowFirst, CleanerSparesLive, UploadsKept, [Next]_vars
    PROVE  UploadsKept'
<1> USE SizesAssumption
<1>1. \A m \in Media : objects[m] \subseteq objects'[m] \/ Purged(m)' BY ObjectsStep
<1>2. \A m \in Media : Purged(m) => Purged(m)' BY PurgedStep
<1>3. ASSUME worker' = worker
      PROVE  UploadsKept'
  BY <1>1, <1>2, <1>3, WorkerTarget DEF UploadsKept
<1>4. CASE worker' = IdleWorker BY <1>4 DEF UploadsKept, IdleWorker
<1>5. ASSUME WorkerStep
      PROVE  UploadsKept'
  <2>1. CASE \/ WorkerTake \/ WorkerRead \/ WorkerFallback \/ WorkerError
             \/ WorkerFail \/ WorkerFailError
    <3>1. \E pc \in WorkerPCs \ {"upload", "publish"} :
              worker' = IdleWorker \/ worker'.pc = pc
      <4>0. CASE WorkerTake BY <4>0 DEF WorkerTake, WorkerPCs
      <4>1. CASE WorkerRead
        <5>1. PICK pc \in {"prepare", "fail"} : worker' = [worker EXCEPT !.pc = pc]
          BY <4>1 DEF WorkerRead
        <5> QED BY <5>1 DEF WorkerPCs, TypeOK, WorkerOK
      <4>2. CASE WorkerFallback
        <5>1. worker' = [worker EXCEPT !.pc = "prepare", !.dir = worker.dir + 1]
          BY <4>2 DEF WorkerFallback
        <5> QED BY <5>1 DEF WorkerPCs, TypeOK, WorkerOK
      <4>3. CASE WorkerError BY <4>3 DEF WorkerError, WorkerPCs, TypeOK, WorkerOK
      <4>4. CASE WorkerFail \/ WorkerFailError
        BY <4>4 DEF WorkerFail, WorkerFailError, WorkerPCs, IdleWorker
      <4> QED BY <2>1, <4>0, <4>1, <4>2, <4>3, <4>4
    <3> QED BY <3>1 DEF UploadsKept, IdleWorker
  <2>2. CASE WorkerPrepare
    BY <2>2 DEF WorkerPrepare, UploadsKept, TypeOK, WorkerOK
  <2>3. CASE WorkerUpload
    <3>1. worker.m \in Media /\ worker'.m = worker.m BY <2>3, WorkerTarget DEF WorkerUpload
    <3>2. CASE Purged(worker.m) BY <1>2, <3>1, <3>2 DEF UploadsKept
    <3>3. CASE 1 .. worker.next - 1 \subseteq objects[worker.m]
      <4>1. objects'[worker.m] = objects[worker.m] \cup {worker.next}
        BY <2>3, <3>1 DEF WorkerUpload, TypeOK, BucketOK
      <4>2. worker.next \in Outputs BY DEF TypeOK, WorkerOK
      <4>3. 1 .. worker.next \subseteq objects'[worker.m] BY <3>3, <4>1, <4>2
      <4>4. CASE worker.next = LastOutput
        BY <2>3, <3>1, <4>3, <4>4 DEF WorkerUpload, UploadsKept, TypeOK, WorkerOK
      <4>5. CASE worker.next # LastOutput
        <5>1. worker'.pc = "upload" /\ worker'.next = worker.next + 1
          BY <2>3, <4>2, <4>5 DEF WorkerUpload, TypeOK, WorkerOK
        <5>2. 1 .. worker'.next - 1 \subseteq objects'[worker.m] BY <4>2, <4>3, <5>1
        <5> QED BY <3>1, <5>1, <5>2 DEF UploadsKept
      <4> QED BY <4>4, <4>5
    <3> QED BY <2>3, <3>2, <3>3 DEF WorkerUpload, UploadsKept
  <2>4. CASE WorkerPublish
    BY <2>4 DEF WorkerPublish, UploadsKept, IdleWorker, TypeOK, WorkerOK
  <2> QED BY <1>5, <2>1, <2>2, <2>3, <2>4 DEF WorkerStep
<1> QED BY <1>3, <1>4, <1>5, WorkerAlone DEF vars

\* Only the worker, at the end of a job, makes a row ready.
LEMMA BecomesReady ==
    ASSUME TypeOK, [Next]_vars, NEW m \in Media, status'[m] = "ready", status[m] # "ready"
    PROVE  worker.pc = "publish" /\ worker.m = m /\ UNCHANGED objects
<1> USE DEF TypeOK
<1>1. ASSUME NEW c \in Calls, StartCall(c)
      PROVE  FALSE
  BY <1>1 DEF StartCall, InitUpload, InitUploadError, CompleteRead, DeleteRead, RowsOK
<1>2. ASSUME NEW c \in Calls, CallStep(c)
      PROVE  FALSE
  <2> USE CallTarget, UpdatedRow
  <2>1. UNCHANGED status \/ \E s \in {"uploaded", "processing", "failed"} :
                                status' = Updated(call[c].m, s)
    BY <1>2 DEF CallStep, InitReply, CompleteHead, CompleteRefuse, CompleteMark,
         CompleteProcessing, CompleteWriteError, CompleteEnqueue, CompleteFailMark,
         CompleteFailMarkError, DeleteList, DeleteFlush, DeleteFlushError, DeleteSoft,
         DeleteSoftError
  <2>2. call[c].m \in Media BY <1>2, CallFrameStep DEF CallFrame
  <2> QED BY <2>1, <2>2 DEF Statuses
<1>3. ASSUME WorkerStep
      PROVE  worker.pc = "publish" /\ worker.m = m /\ UNCHANGED objects
  <2> USE WorkerTarget, UpdatedRow
  <2>1. CASE WorkerTake \/ WorkerRead \/ WorkerPrepare \/ WorkerUpload
    BY <2>1 DEF WorkerTake, WorkerRead, WorkerPrepare, WorkerUpload
  <2>2. CASE WorkerPublish BY <2>2 DEF WorkerPublish, Statuses
  <2>3. CASE WorkerFallback \/ WorkerError BY <2>3 DEF WorkerFallback, WorkerError, Statuses
  <2>4. CASE WorkerFail BY <2>4 DEF WorkerFail, Statuses
  <2>5. CASE WorkerFailError BY <2>5 DEF WorkerFailError, Statuses
  <2> QED BY <1>3, <2>1, <2>2, <2>3, <2>4, <2>5 DEF WorkerStep
<1>4. CASE \/ CleanerStep
           \/ \E x \in Media : ClientPut(x) \/ ExpireURL(x)
           \/ Restart
           \/ UNCHANGED vars
  BY <1>4 DEF CleanerStep, CleanList, CleanQuery, CleanQueryError, CleanListPrefix, CleanFlush,
              CleanFlushError, ClientPut, ExpireURL, Restart, vars
<1> QED BY <1>1, <1>2, <1>3, <1>4 DEF Next

\* Every step keeps ReadyComplete: a row becomes ready after its last upload.
LEMMA ReadyCompleteStep ==
    ASSUME TypeOK, RowFirst, CleanerSparesLive, UploadsKept, ReadyComplete, [Next]_vars
    PROVE  ReadyComplete'
<1> SUFFICES ASSUME NEW m \in Media, Live(m)', status'[m] = "ready"
             PROVE  (Outputs \subseteq objects[m] \/ Purged(m))'
  BY DEF ReadyComplete
<1>1. objects[m] \subseteq objects'[m] \/ Purged(m)' BY ObjectsStep
<1>2. Purged(m) => Purged(m)' BY PurgedStep
<1>3. CASE status[m] = "ready"
  <2>1. Live(m) BY <1>3, RowsStep DEF RowsKept, Live, Created
  <2> QED BY <1>1, <1>2, <1>3, <2>1 DEF ReadyComplete
<1>4. CASE status[m] # "ready"
  BY <1>2, <1>4, BecomesReady DEF UploadsKept
<1> QED BY <1>3, <1>4

-----------------------------------------------------------------------------
(* NoLostJob and UniformReady.                                             *)

\* Where a job can be.
InCall(m) == \E c \in Calls : Holding(c) /\ call[c].m = m
InQueue(m) == \E i \in DOMAIN queue : queue[i] = m
HasJob(m) == InCall(m) \/ InQueue(m) \/ worker.m = m \/ m \in dropped

\* Rows that need a job: those that wait for one, and those that are ready with
\* outputs of two attempts.
Unsettled(m) == Waiting(m) \/ (status[m] = "ready" /\ m \in torn)

\* NoLostJob and UniformReady in one.
JobsKept == \A m \in Media : Live(m) /\ Unsettled(m) => HasJob(m)

\* The last upload makes the outputs those of one attempt.
PublishUniform == worker.pc = "publish" => worker.m \notin torn

\* Who holds the job, without the set InMemory.
LEMMA HasJobMeaning ==
    ASSUME NEW m \in Media
    PROVE  m \in InMemory \cup dropped <=> HasJob(m)
BY MediaAssumption DEF InMemory, HasJob, InCall, InQueue

\* JobsKept says what the two properties say.
LEMMA JobsKeptMeaning == JobsKept <=> NoLostJob /\ UniformReady
BY HasJobMeaning DEF JobsKept, NoLostJob, UniformReady, Unsettled

\* Only the worker's uploads change what is torn.
LEMMA TornStep ==
    ASSUME Next, ~WorkerStep
    PROVE  UNCHANGED torn
BY DEF Next, StartCall, InitUpload, InitUploadError, CompleteRead, DeleteRead,
       CallStep, InitReply, CompleteHead, CompleteRefuse, CompleteMark, CompleteProcessing,
       CompleteWriteError, CompleteEnqueue, CompleteFailMark, CompleteFailMarkError,
       DeleteList, DeleteFlush, DeleteFlushError, DeleteSoft, DeleteSoftError,
       ClientPut, ExpireURL, CleanerStep, CleanList, CleanQuery, CleanQueryError,
       CleanListPrefix, CleanFlush, CleanFlushError, Restart, history

\* The worker reaches the publication only by its last upload.
LEMMA PublishUniformStep ==
    ASSUME TypeOK, PublishUniform, [Next]_vars
    PROVE  PublishUniform'
<1> USE DEF PublishUniform
<1>1. CASE Next /\ ~WorkerStep BY <1>1, TornStep, WorkerAlone DEF IdleWorker
<1>2. CASE UNCHANGED vars BY <1>2 DEF vars
<1>3. ASSUME WorkerStep
      PROVE  PublishUniform'
  <2> USE DEF TypeOK, WorkerOK
  <2>1. CASE WorkerUpload BY <2>1 DEF WorkerUpload
  <2>2. CASE WorkerTake BY <2>2 DEF WorkerTake
  <2>3. CASE WorkerRead BY <2>3 DEF WorkerRead
  <2>4. CASE WorkerPrepare BY <2>4 DEF WorkerPrepare
  <2>5. CASE WorkerPublish BY <2>5 DEF WorkerPublish, IdleWorker
  <2>6. CASE WorkerFallback
    <3>1. worker' = [worker EXCEPT !.pc = "prepare", !.dir = worker.dir + 1]
      BY <2>6 DEF WorkerFallback
    <3> QED BY <3>1
  <2>7. CASE WorkerError BY <2>7 DEF WorkerError
  <2>8. CASE WorkerFail \/ WorkerFailError BY <2>8 DEF WorkerFail, WorkerFailError, IdleWorker
  <2> QED BY <1>3, <2>1, <2>2, <2>3, <2>4, <2>5, <2>6, <2>7, <2>8 DEF WorkerStep
<1> QED BY <1>1, <1>2, <1>3

\* A handler does not disturb another media's row or job.
LEMMA OtherMedia ==
    ASSUME TypeOK, NEW c \in Calls, CallStep(c), NEW m \in Media, m # call[c].m
    PROVE  /\ status'[m] = status[m]
           /\ HasJob(m) => HasJob(m)'
<1>1. CallFrame(c) /\ call[c].m \in Media BY CallFrameStep, CallTarget DEF CallFrame
<1>2. status'[m] = status[m]
  <2>1. UNCHANGED status \/ \E s \in Statuses \ {"none"} : status' = Updated(call[c].m, s)
    BY DEF CallStep, InitReply, CompleteHead, CompleteRefuse, CompleteMark,
         CompleteProcessing, CompleteWriteError, CompleteEnqueue, CompleteFailMark,
         CompleteFailMarkError, DeleteList, DeleteFlush, DeleteFlushError, DeleteSoft,
         DeleteSoftError, Statuses
  <2> QED BY <1>1, <2>1, UpdatedRow DEF TypeOK
<1>3. dropped \subseteq dropped' \cup {call[c].m}
  BY DEF CallStep, InitReply, CompleteHead, CompleteRefuse, CompleteMark, CompleteProcessing,
         CompleteWriteError, CompleteEnqueue, CompleteFailMark, CompleteFailMarkError,
         DeleteList, DeleteFlush, DeleteFlushError, DeleteSoft, DeleteSoftError, history
<1>4. InCall(m) => InCall(m)' BY <1>1 DEF InCall, Holding, CallFrame
<1>5. InQueue(m) => InQueue(m)' BY <1>1 DEF InQueue, CallFrame, TypeOK, QueueOK
<1> QED BY <1>1, <1>2, <1>3, <1>4, <1>5 DEF HasJob, CallFrame

\* A handler that acts on a waiting row leaves it with a job, or no longer waiting.
LEMMA OwnMedia ==
    ASSUME TypeOK, JobsKept, NEW c \in Calls, CallStep(c), NEW m \in Media, m = call[c].m,
           Live(m)', Unsettled(m)'
    PROVE  HasJob(m)'
<1>1. CallFrame(c) BY CallFrameStep
<1> USE HasJobMeaning, CallTarget DEF TypeOK, CallsOK
<1>2. ASSUME UNCHANGED <<status, queue, worker, dropped, torn>>, deleted \subseteq deleted',
             ~Holding(c)
      PROVE  HasJob(m)'
  <2>1. Live(m) /\ Unsettled(m) BY <1>2 DEF Live, Created, Unsettled, Waiting
  <2>2. HasJob(m) BY <2>1 DEF JobsKept
  <2>3. InCall(m) => InCall(m)' BY <1>1, <1>2 DEF InCall, Holding, CallFrame
  <2> QED BY <1>2, <2>2, <2>3 DEF HasJob, InQueue
<1>3. CASE \/ InitReply(c) \/ CompleteHead(c) \/ CompleteRefuse(c) \/ DeleteList(c)
           \/ DeleteFlush(c) \/ DeleteFlushError(c) \/ DeleteSoft(c) \/ DeleteSoftError(c)
  BY <1>2, <1>3 DEF InitReply, CompleteHead, CompleteRefuse, DeleteList, DeleteFlush,
                    DeleteFlushError, DeleteSoft, DeleteSoftError, Holding, history
<1>4. CASE CompleteMark(c)
  <2>1. Live(m) BY <1>4, UpdatedRow DEF CompleteMark, Live, Created, Statuses
  <2>2. status'[m] = "uploaded" BY <1>4, <2>1, UpdatedRow DEF CompleteMark, Statuses
  <2>3. Transcoding BY <2>2 DEF Unsettled, Waiting
  <2>4. Goto(c, "processing") BY <1>4, <2>1, <2>3 DEF CompleteMark
  <2> QED BY <2>4 DEF Goto, HasJob, InCall, Holding
<1>5. CASE CompleteProcessing(c)
  <2>1. Live(m) BY <1>5, UpdatedRow DEF CompleteProcessing, Live, Created, Statuses
  <2>2. Goto(c, "enqueue") BY <1>5, <2>1 DEF CompleteProcessing
  <2> QED BY <2>2 DEF Goto, HasJob, InCall, Holding
<1>6. CASE CompleteWriteError(c) \/ CompleteFailMarkError(c)
  BY <1>6 DEF CompleteWriteError, CompleteFailMarkError, HasJob
<1>7. CASE CompleteEnqueue(c)
  <2>1. CASE Len(queue) < QueueSize
    <3>1. queue' = Append(queue, m) /\ queue \in Seq(Media) BY <1>7, <2>1 DEF CompleteEnqueue, QueueOK
    <3>2. Len(queue) + 1 \in DOMAIN queue' /\ queue'[Len(queue) + 1] = m BY <3>1
    <3> QED BY <3>2 DEF HasJob, InQueue
  <2>2. CASE ~(Len(queue) < QueueSize)
    <3>1. Goto(c, "failMark") BY <1>7, <2>2 DEF CompleteEnqueue
    <3> QED BY <3>1 DEF Goto, HasJob, InCall, Holding
  <2> QED BY <2>1, <2>2
<1>8. CASE CompleteFailMark(c)
  <2>1. Live(m) BY <1>8, UpdatedRow DEF CompleteFailMark, Live, Created, Statuses
  <2>2. status'[m] = "failed" BY <1>8, <2>1, UpdatedRow DEF CompleteFailMark, Statuses
  <2> QED BY <2>2 DEF Unsettled, Waiting
<1> QED BY <1>3, <1>4, <1>5, <1>6, <1>7, <1>8 DEF CallStep

\* The worker ends a job only by making its row ready, with outputs of one
\* attempt, or failed.
LEMMA WorkerKeepsJobs ==
    ASSUME TypeOK, PublishUniform, JobsKept, WorkerStep, NEW m \in Media, Live(m)', Unsettled(m)'
    PROVE  HasJob(m)'
<1> USE HasJobMeaning, WorkerTarget DEF TypeOK
<1>1. UNCHANGED <<deleted, call>> /\ dropped \subseteq dropped'
  BY DEF WorkerStep, WorkerTake, WorkerRead, WorkerPrepare, WorkerUpload, WorkerPublish,
         WorkerFallback, WorkerError, WorkerFail, WorkerFailError, history
<1>2. InCall(m) => InCall(m)' BY <1>1 DEF InCall, Holding
<1>3. CASE WorkerTake
  <2>1. Live(m) /\ Unsettled(m) BY <1>3 DEF WorkerTake, Live, Created, Unsettled, Waiting, history
  <2>2. HasJob(m) BY <2>1 DEF JobsKept
  <2>3. worker.m = NoMedia /\ worker'.m = Head(queue) BY <1>3 DEF WorkerTake, WorkerOK
  <2>4. ASSUME InQueue(m)
        PROVE  InQueue(m)' \/ worker'.m = m
    <3>1. PICK i \in DOMAIN queue : queue[i] = m BY <2>4 DEF InQueue
    <3>2. CASE i = 1 BY <2>3, <3>1, <3>2 DEF QueueOK
    <3>3. CASE i # 1
      <4>1. i \in 2 .. Len(queue) BY <3>3 DEF QueueOK
      <4>2. i - 1 \in DOMAIN queue' /\ queue'[i - 1] = m
        BY <1>3, <3>1, <4>1 DEF WorkerTake, QueueOK
      <4> QED BY <4>2 DEF InQueue
    <3> QED BY <3>2, <3>3
  <2> QED BY <1>1, <1>2, <2>2, <2>3, <2>4, MediaAssumption DEF HasJob
<1>4. ASSUME worker.pc # "idle", UNCHANGED queue, status'[m] = status[m], worker.m # m
      PROVE  HasJob(m)'
  <2>0. m \in torn' => m \in torn
    BY <1>4 DEF WorkerStep, WorkerTake, WorkerRead, WorkerPrepare, WorkerUpload, WorkerPublish,
                WorkerFallback, WorkerError, WorkerFail, WorkerFailError, history
  <2>1. Live(m) /\ Unsettled(m) BY <1>1, <1>4, <2>0 DEF Live, Created, Unsettled, Waiting
  <2>2. HasJob(m) BY <2>1 DEF JobsKept
  <2> QED BY <1>1, <1>2, <1>4, <2>2 DEF HasJob, InQueue
<1>6. CASE worker'.m = m BY <1>6 DEF HasJob
<1>5. CASE WorkerRead \/ WorkerPrepare \/ WorkerUpload
  BY <1>4, <1>5, <1>6 DEF WorkerRead, WorkerPrepare, WorkerUpload, WorkerOK
<1>7. CASE WorkerFallback \/ WorkerError
  <2>1. worker.pc # "idle" /\ worker'.m = worker.m /\ UNCHANGED queue
    BY <1>7 DEF WorkerFallback, WorkerError, WorkerOK
  <2>2. CASE worker.m # m
    BY <1>4, <1>7, <2>1, <2>2, UpdatedRow DEF WorkerFallback, WorkerError, Statuses
  <2> QED BY <1>6, <2>1, <2>2
<1>8. CASE WorkerPublish
  <2>1. CASE worker.m # m BY <1>4, <1>8, <2>1, UpdatedRow DEF WorkerPublish, Statuses
  <2>2. CASE worker.m = m
    <3>1. CASE Live(m)
      <4>1. status'[m] = "ready" BY <1>8, <2>2, <3>1, UpdatedRow DEF WorkerPublish, Statuses
      <4>2. m \notin torn' BY <1>8, <2>2 DEF WorkerPublish, PublishUniform, history
      <4> QED BY <4>1, <4>2 DEF Unsettled, Waiting
    <3>2. CASE ~Live(m) BY <1>6, <1>8, <2>2, <3>2 DEF WorkerPublish, WorkerOK
    <3> QED BY <3>1, <3>2
  <2> QED BY <2>1, <2>2
<1>9. CASE WorkerFail
  <2>1. CASE worker.m # m BY <1>4, <1>9, <2>1, UpdatedRow DEF WorkerFail, Statuses
  <2>2. CASE worker.m = m
    <3>1. Live(m) BY <1>9, <2>2, UpdatedRow DEF WorkerFail, Live, Created, Statuses
    <3>2. status'[m] = "failed" BY <1>9, <2>2, <3>1, UpdatedRow DEF WorkerFail, Statuses
    <3> QED BY <3>2 DEF Unsettled, Waiting
  <2> QED BY <2>1, <2>2
<1>10. CASE WorkerFailError
  <2>1. CASE worker.m # m BY <1>4, <1>10, <2>1, UpdatedRow DEF WorkerFailError, Statuses
  <2>2. CASE worker.m = m BY <1>10, <2>2 DEF WorkerFailError, HasJob
  <2> QED BY <2>1, <2>2
<1> QED BY <1>3, <1>5, <1>7, <1>8, <1>9, <1>10 DEF WorkerStep

\* Every step keeps JobsKept: a job passes from hand to hand, or a fault drops it.
LEMMA JobsKeptStep ==
    ASSUME TypeOK, RowFirst, PublishUniform, JobsKept, [Next]_vars
    PROVE  JobsKept'
<1> SUFFICES ASSUME NEW m \in Media, Live(m)', Unsettled(m)'
             PROVE  HasJob(m)'
  BY DEF JobsKept
<1> USE HasJobMeaning DEF TypeOK
<1>0. deleted \subseteq deleted' BY RowsStep DEF RowsKept
<1>1. ASSUME NEW c \in Calls, StartCall(c)
      PROVE  HasJob(m)'
  <2>1. UNCHANGED <<deleted, queue, worker, dropped, torn>>
    BY <1>1 DEF StartCall, InitUpload, InitUploadError, CompleteRead, DeleteRead, history
  <2>2. status'[m] = status[m]
    BY <1>1 DEF StartCall, InitUpload, InitUploadError, CompleteRead, DeleteRead, RowsOK, Unsettled,
                Waiting
  <2>3. HasJob(m) BY <2>1, <2>2 DEF JobsKept, Live, Created, Unsettled, Waiting
  <2>4. \A d \in Calls : Holding(d) => call'[d] = call[d]
    BY <1>1 DEF StartCall, InitUpload, InitUploadError, CompleteRead, DeleteRead, Start, Holding,
                CallsOK
  <2> QED BY <2>1, <2>3, <2>4 DEF HasJob, InCall, InQueue, Holding
<1>2. ASSUME NEW c \in Calls, CallStep(c)
      PROVE  HasJob(m)'
  <2>1. CASE m = call[c].m BY <1>2, <2>1, OwnMedia
  <2>2. CASE m # call[c].m
    <3>0. UNCHANGED torn
      BY <1>2 DEF CallStep, InitReply, CompleteHead, CompleteRefuse, CompleteMark,
           CompleteProcessing, CompleteWriteError, CompleteEnqueue, CompleteFailMark,
           CompleteFailMarkError, DeleteList, DeleteFlush, DeleteFlushError, DeleteSoft,
           DeleteSoftError, history
    <3>1. status'[m] = status[m] /\ (HasJob(m) => HasJob(m)') BY <1>2, <2>2, OtherMedia
    <3>2. Live(m) /\ Unsettled(m) BY <1>0, <3>0, <3>1 DEF Live, Created, Unsettled, Waiting
    <3> QED BY <3>1, <3>2 DEF JobsKept
  <2> QED BY <2>1, <2>2
<1>3. CASE WorkerStep BY <1>3, WorkerKeepsJobs
<1>4. CASE \/ CleanerStep
           \/ \E x \in Media : ClientPut(x) \/ ExpireURL(x)
           \/ UNCHANGED vars
  <2>1. UNCHANGED <<status, deleted, call, queue, worker, dropped, torn>>
    BY <1>4 DEF CleanerStep, CleanList, CleanQuery, CleanQueryError, CleanListPrefix, CleanFlush,
                CleanFlushError, ClientPut, ExpireURL, history, vars
  <2>2. HasJob(m) BY <2>1 DEF JobsKept, Live, Created, Unsettled, Waiting
  <2> QED BY <2>1, <2>2 DEF HasJob, InCall, InQueue, Holding
<1>5. CASE Restart
  <2>1. Live(m) /\ Unsettled(m) BY <1>5 DEF Restart, Live, Created, Unsettled, Waiting
  <2>2. m \in InMemory \cup dropped BY <2>1 DEF JobsKept
  <2> QED BY <1>5, <2>2 DEF Restart, HasJob
<1> QED BY <1>1, <1>2, <1>3, <1>4, <1>5 DEF Next

-----------------------------------------------------------------------------
(* The theorems.                                                           *)

\* The inductive invariant.
Inv ==
    /\ TypeOK /\ RowFirst /\ CleanerSparesLive /\ UploadsKept /\ ReadyComplete
    /\ NoLostJob /\ UniformReady /\ PublishUniform

\* The initial state satisfies the inductive invariant.
LEMMA InvInit == Init => Inv
<1> SUFFICES ASSUME Init PROVE Inv OBVIOUS
<1>1. TypeOK BY TypeOKInit
<1> QED BY <1>1 DEF Init, Inv, RowFirst, CleanerSparesLive, UploadsKept, ReadyComplete, NoLostJob,
                    UniformReady, PublishUniform, Live, Created, IdleCall, IdleWorker, IdleCleaner

\* Every step preserves the inductive invariant.
LEMMA InvStep == Inv /\ [Next]_vars => Inv'
<1> SUFFICES ASSUME Inv, [Next]_vars PROVE Inv' OBVIOUS
<1>1. JobsKept' BY JobsKeptStep, JobsKeptMeaning DEF Inv
<1>2. (NoLostJob /\ UniformReady)' BY <1>1, JobsKeptMeaning, PTL
<1> QED BY <1>2, TypeOKStep, RowFirstStep, CleanerSparesLiveStep, UploadsKeptStep, ReadyCompleteStep,
   PublishUniformStep DEF Inv

\* The inductive invariant holds in every reachable state.
THEOREM Invariance == Spec => []Inv
BY InvInit, InvStep, PTL DEF Spec

\* RunOnce never condemns an id whose row is live.
THEOREM CleanerIsSafe == Spec => []CleanerSparesLive
BY Invariance, PTL DEF Inv

\* A row the API reports as ready can be played, unless it is being deleted or
\* its deletion was cut short.
THEOREM ReadyIsComplete == Spec => []ReadyComplete
BY Invariance, PTL DEF Inv

\* Without faults no row waits for a transcoding that nobody will do.
THEOREM JobsAreKept == Spec => []NoLostJob
BY Invariance, PTL DEF Inv

\* Nothing can refer to a video whose row is not inserted yet.
THEOREM RowsComeFirst == Spec => []RowFirst
BY Invariance, PTL DEF Inv

\* While the worker uploads, only a DeleteMedia of the row removes its outputs.
THEOREM UploadsStay == Spec => []UploadsKept
BY Invariance, PTL DEF Inv

\* A second job that stops half way does not leave its row ready.
THEOREM ReadyIsUniform == Spec => []UniformReady
BY Invariance, PTL DEF Inv

\* Late writes of handlers and of the worker do not reach a soft-deleted row.
THEOREM DeletionIsFinal == Spec => DeletedIsFinal
<1>1. Inv /\ [Next]_vars => [\A m \in deleted : m \in deleted' /\ status'[m] = status[m]]_vars
  BY RowsStep DEF Inv, RowsKept
<1> QED BY <1>1, Invariance, PTL DEF Spec, DeletedIsFinal

\* No step but a purge by the row's own DeleteMedia takes objects from a live row.
THEOREM OnlyDeletionRemoves == Spec => OnlyDeleteRemoves
<1>1. Inv /\ [Next]_vars =>
        [\A m \in Media :
            ~(objects[m] \subseteq objects'[m]) =>
                \/ m \in deleted
                \/ \E c \in Calls : call[c].pc = "flush" /\ call[c].m = m]_vars
  BY ObjectsStep DEF Inv
<1> QED BY <1>1, Invariance, PTL DEF Spec, OnlyDeleteRemoves

-----------------------------------------------------------------------------
(* MediaPipeline implements MediaLifecycle, for every video of every       *)
(* instance: the inductive invariant above carries the step simulation.    *)

\* What a SELECT can tell about the video stays as it is.
SameRow == status'[Video] = status[Video] /\ (Video \in deleted' <=> Video \in deleted)

\* A video is first purged by the deleting step of one of its DeleteMedia calls.
LEMMA NewPurge ==
    ASSUME TypeOK, [Next]_vars, ~Purged(Video), Purged(Video)'
    PROVE  \E c \in Calls : /\ DeleteFlush(c) \/ DeleteFlushError(c)
                            /\ call[c].m = Video
<1> USE VideoAssumption DEF Purged
<1>1. ASSUME UNCHANGED <<deleted, halfDeleted>>,
             \A c \in Calls : call'[c].pc = "soft" => call'[c] = call[c]
      PROVE  FALSE
  BY <1>1
<1>2. ASSUME NEW c \in Calls, StartCall(c)
      PROVE  FALSE
  BY <1>1, <1>2 DEF StartCall, InitUpload, InitUploadError, CompleteRead, DeleteRead, Start,
                    history, TypeOK, CallsOK
<1>3. ASSUME NEW c \in Calls, CallStep(c)
      PROVE  (DeleteFlush(c) \/ DeleteFlushError(c)) /\ call[c].m = Video
  <2> USE DEF TypeOK, CallsOK, Goto, Return, IdleCall
  <2>1. CASE \/ InitReply(c) \/ CompleteHead(c) \/ CompleteRefuse(c) \/ CompleteFailMark(c)
             \/ CompleteFailMarkError(c)
    BY <1>1, <2>1 DEF InitReply, CompleteHead, CompleteRefuse, CompleteFailMark,
                      CompleteFailMarkError, history
  <2>2. CASE CompleteMark(c) \/ CompleteProcessing(c) \/ CompleteWriteError(c)
    BY <1>1, <2>2 DEF CompleteMark, CompleteProcessing, CompleteWriteError, history
  <2>3. CASE CompleteEnqueue(c) BY <1>1, <2>3 DEF CompleteEnqueue
  <2>4. CASE DeleteList(c) BY <1>1, <2>4 DEF DeleteList, history
  <2>5. CASE DeleteSoft(c) \/ DeleteSoftError(c)
    <3>1. call[c].pc = "soft" /\ Return(c) BY <2>5 DEF DeleteSoft, DeleteSoftError
    <3>2. call[c].m # Video BY <3>1
    <3> QED BY <2>5, <3>1, <3>2 DEF DeleteSoft, DeleteSoftError, history
  <2>6. CASE DeleteFlush(c) \/ DeleteFlushError(c)
    <3>1. CASE Return(c)
      BY <2>6, <3>1 DEF DeleteFlush, DeleteFlushError, history
    <3>2. CASE call' = [call EXCEPT ![c].pc = "soft", ![c].keys = {}]
      <4>1. call'[c].m = call[c].m /\ \A d \in Calls \ {c} : call'[d] = call[d] BY <3>2
      <4>2. UNCHANGED deleted /\ halfDeleted' \subseteq halfDeleted \cup {call[c].m}
        BY <2>6 DEF DeleteFlush, DeleteFlushError, history
      <4> QED BY <2>6, <4>1, <4>2
    <3> QED BY <2>6, <3>1, <3>2 DEF DeleteFlush, DeleteFlushError
  <2> QED BY <1>3, <2>1, <2>2, <2>3, <2>4, <2>5, <2>6 DEF CallStep
<1>4. CASE \/ CleanerStep \/ WorkerStep
           \/ \E m \in Media : ClientPut(m) \/ ExpireURL(m)
           \/ UNCHANGED vars
  BY <1>4 DEF CleanerStep, CleanList, CleanQuery, CleanQueryError, CleanListPrefix, CleanFlush,
       CleanFlushError, WorkerStep, WorkerTake, WorkerRead, WorkerPrepare, WorkerUpload,
       WorkerPublish, WorkerFallback, WorkerError, WorkerFail, WorkerFailError, ClientPut,
       ExpireURL, history, vars
<1>5. CASE Restart BY <1>5 DEF Restart, IdleCall
<1> QED BY <1>2, <1>3, <1>4, <1>5 DEF Next

\* A step that leaves the row alone stores, purges or reclaims objects.
LEMMA ObjectsSimulation ==
    ASSUME Inv, Inv', [Next]_vars, SameRow
    PROVE  [L!LNext]_(L!lvars)
<1> USE VideoAssumption
<1> DEFINE W == Outputs \subseteq objects[Video]
           P == Purged(Video)
<1>1. Phase' = Phase BY DEF SameRow, Phase
<1>2. P => P' BY PurgedStep DEF Inv
<1>3. W => W' \/ P' BY ObjectsStep DEF Inv
<1>4. ASSUME ~P, P'
      PROVE  W' => W
  <2>1. PICK c \in Calls : (DeleteFlush(c) \/ DeleteFlushError(c)) /\ call[c].m = Video
    BY <1>4, NewPurge DEF Inv
  <2>2. CallStep(c) BY <2>1 DEF CallStep
  <2>3. objects'[Video] \subseteq objects[Video] BY <2>2, CallFrameStep DEF CallFrame, Inv
  <2> QED BY <2>3
<1>5. ASSUME ~P, P'
      PROVE  Phase # "absent"
  <2>1. PICK c \in Calls : (DeleteFlush(c) \/ DeleteFlushError(c)) /\ call[c].m = Video
    BY <1>5, NewPurge DEF Inv
  <2>2. Created(Video) BY <2>1 DEF DeleteFlush, DeleteFlushError, Inv, RowFirst
  <2> QED BY <2>2 DEF Phase, Created
<1>6. ASSUME W \/ W'
      PROVE  Phase # "absent"
  <2>1. 1 \in Outputs BY SizesAssumption DEF Outputs, LastOutput
  <2>2. Created(Video) \/ Created(Video)' BY <1>6, <2>1 DEF Inv, RowFirst
  <2>3. status[Video] # "none" BY <2>2 DEF Created, SameRow
  <2> QED BY <2>3 DEF Phase
<1>7. CASE W' = W /\ P' = P BY <1>1, <1>7 DEF L!lvars
<1>8. CASE ~P /\ P'
  <2>1. L!Purge BY <1>1, <1>4, <1>5, <1>8 DEF L!Purge
  <2> QED BY <2>1 DEF L!LNext
<1>9. CASE P' = P /\ ~W /\ W'
  <2>1. L!Store BY <1>1, <1>6, <1>9 DEF L!Store
  <2> QED BY <2>1 DEF L!LNext
<1>10. CASE P' = P /\ W /\ ~W'
  <2>1. L!Purge BY <1>1, <1>3, <1>6, <1>10 DEF L!Purge
  <2> QED BY <2>1 DEF L!LNext
<1>11. P \in BOOLEAN /\ P' \in BOOLEAN BY DEF Purged
<1> QED BY <1>2, <1>7, <1>8, <1>9, <1>10, <1>11

\* How a step changes the video's row, leaving its objects alone.
RowChange ==
    /\ objects'[Video] = objects[Video]
    /\ \/ /\ status[Video] = "none" /\ Video \notin deleted'
          /\ status'[Video] = "uploading"
       \/ /\ Live(Video) /\ Video \notin deleted'
          /\ status'[Video] \in {"uploaded", "processing", "failed"}
       \/ /\ Live(Video) /\ Video \notin deleted'
          /\ status'[Video] = "ready"
          /\ Outputs \subseteq objects[Video] \/ Purged(Video)
       \/ /\ Live(Video) /\ Video \in deleted'
          /\ Purged(Video)

\* Rows change by an INSERT, by an UPDATE of a live row, or by a SoftDelete
\* that follows a purge.
LEMMA RowChangeStep ==
    ASSUME Inv, [Next]_vars, ~SameRow
    PROVE  RowChange
<1> USE VideoAssumption DEF SameRow, RowChange, Inv, TypeOK
<1>1. ASSUME NEW c \in Calls, StartCall(c)
      PROVE  RowChange
  <2>1. PICK m \in Media : \/ InitUpload(c, m) \/ InitUploadError(c, m)
                           \/ CompleteRead(c, m) \/ DeleteRead(c, m)
    BY <1>1 DEF StartCall
  <2>2. CASE CompleteRead(c, m) \/ DeleteRead(c, m) BY <2>2 DEF CompleteRead, DeleteRead
  <2>3. CASE InitUpload(c, m) \/ InitUploadError(c, m)
    <3>1. UNCHANGED <<deleted, objects>> BY <2>3 DEF InitUpload, InitUploadError
    <3>2. ~Created(m) /\ status' \in {status, [status EXCEPT ![m] = "uploading"]}
      BY <2>3 DEF InitUpload, InitUploadError
    <3>3. m = Video /\ status'[Video] = "uploading" BY <3>1, <3>2 DEF RowsOK
    <3>4. Video \notin deleted BY <3>2, <3>3 DEF RowFirst
    <3> QED BY <3>1, <3>2, <3>3, <3>4 DEF Created
  <2> QED BY <2>1, <2>2, <2>3
<1>2. ASSUME NEW c \in Calls, CallStep(c)
      PROVE  RowChange
  <2>0. call[c].m \in Media BY <1>2, CallFrameStep, CallTarget DEF CallFrame
  <2>1. CASE \/ InitReply(c) \/ CompleteHead(c) \/ CompleteRefuse(c) \/ CompleteEnqueue(c)
             \/ DeleteList(c) \/ DeleteFlush(c) \/ DeleteFlushError(c)
    BY <2>1 DEF InitReply, CompleteHead, CompleteRefuse, CompleteEnqueue, DeleteList,
                DeleteFlush, DeleteFlushError
  <2>2. CASE \/ CompleteMark(c) \/ CompleteProcessing(c) \/ CompleteWriteError(c)
             \/ CompleteFailMark(c) \/ CompleteFailMarkError(c)
    <3>1. UNCHANGED <<deleted, objects>>
      BY <2>2 DEF CompleteMark, CompleteProcessing, CompleteWriteError, CompleteFailMark,
                  CompleteFailMarkError
    <3>2. UNCHANGED status \/ \E s \in {"uploaded", "processing", "failed"} :
                                  status' = Updated(call[c].m, s)
      BY <2>2 DEF CompleteMark, CompleteProcessing, CompleteWriteError, CompleteFailMark,
                  CompleteFailMarkError
    <3>3. PICK s \in {"uploaded", "processing", "failed"} : status' = Updated(call[c].m, s)
      BY <3>1, <3>2
    <3>4. Live(Video) /\ status'[Video] = s
      BY <2>0, <3>1, <3>3, UpdatedRow DEF Statuses
    <3> QED BY <3>1, <3>4 DEF Live
  <2>3. CASE DeleteSoft(c) \/ DeleteSoftError(c)
    <3>1. UNCHANGED <<status, objects>> /\ call[c].pc = "soft"
      BY <2>3 DEF DeleteSoft, DeleteSoftError
    <3>2. deleted' = deleted \/ deleted' = deleted \cup {call[c].m}
      BY <2>3 DEF DeleteSoft, DeleteSoftError
    <3>3. call[c].m = Video /\ Video \in deleted' /\ Video \notin deleted BY <3>1, <3>2
    <3>4. Live(Video) BY <3>1, <3>3 DEF RowFirst, Live
    <3> QED BY <3>1, <3>3, <3>4 DEF Purged
  <2> QED BY <1>2, <2>1, <2>2, <2>3 DEF CallStep
<1>3. ASSUME WorkerStep
      PROVE  RowChange
  <2>1. UNCHANGED deleted
    BY <1>3 DEF WorkerStep, WorkerTake, WorkerRead, WorkerPrepare, WorkerUpload, WorkerPublish,
                WorkerFallback, WorkerError, WorkerFail, WorkerFailError
  <2>2. \/ UNCHANGED status
        \/ /\ worker.pc = "fail" /\ UNCHANGED objects
           /\ status' = Updated(worker.m, "failed")
        \/ /\ worker.pc = "publish" /\ UNCHANGED objects
           /\ status' = Updated(worker.m, "ready")
    BY <1>3 DEF WorkerStep, WorkerTake, WorkerRead, WorkerPrepare, WorkerUpload, WorkerPublish,
                WorkerFallback, WorkerError, FailedOperation, WorkerFail, WorkerFailError
  <2>3. CASE worker.pc = "fail" /\ UNCHANGED objects /\ status' = Updated(worker.m, "failed")
    <3>1. worker.m \in Media BY <2>3, WorkerTarget
    <3>2. Live(Video) /\ status'[Video] = "failed"
      BY <2>1, <2>3, <3>1, UpdatedRow DEF Statuses
    <3> QED BY <2>1, <2>3, <3>2 DEF Live
  <2>4. CASE worker.pc = "publish" /\ UNCHANGED objects /\ status' = Updated(worker.m, "ready")
    <3>1. worker.m \in Media BY <2>4, WorkerTarget
    <3>2. Live(Video) /\ status'[Video] = "ready" /\ worker.m = Video
      BY <2>1, <2>4, <3>1, UpdatedRow DEF Statuses
    <3>3. Outputs \subseteq objects[Video] \/ Purged(Video) BY <2>4, <3>2 DEF UploadsKept
    <3> QED BY <2>1, <2>4, <3>2, <3>3 DEF Live
  <2> QED BY <2>1, <2>2, <2>3, <2>4
<1>4. CASE \/ CleanerStep
           \/ \E m \in Media : ClientPut(m) \/ ExpireURL(m)
           \/ Restart
           \/ UNCHANGED vars
  BY <1>4 DEF CleanerStep, CleanList, CleanQuery, CleanQueryError, CleanListPrefix, CleanFlush,
       CleanFlushError, ClientPut, ExpireURL, Restart, vars
<1> QED BY <1>1, <1>2, <1>3, <1>4 DEF Next

\* A step that changes the row is one of Create, Pend, Fail, Publish, Delete.
LEMMA RowSimulation ==
    ASSUME Inv, [Next]_vars, ~SameRow
    PROVE  L!LNext
<1> USE VideoAssumption DEF RowChange, Live, Created
<1>1. RowChange BY RowChangeStep
<1>2. (Outputs \subseteq objects[Video])' = (Outputs \subseteq objects[Video])
  BY <1>1 DEF Outputs, LastOutput
<1>3. Purged(Video)' = Purged(Video)
  <2>1. Purged(Video) => Purged(Video)' BY PurgedStep DEF Inv
  <2>2. ASSUME ~Purged(Video), Purged(Video)'
        PROVE  FALSE
    <3>1. PICK c \in Calls : DeleteFlush(c) \/ DeleteFlushError(c)
      BY <2>2, NewPurge DEF Inv
    <3>2. UNCHANGED <<status, deleted>> BY <3>1 DEF DeleteFlush, DeleteFlushError
    <3> QED BY <3>2 DEF SameRow
  <2>3. Purged(Video) \in BOOLEAN /\ Purged(Video)' \in BOOLEAN BY DEF Purged
  <2> QED BY <2>1, <2>2, <2>3
<1>4. CASE status[Video] = "none" /\ Video \notin deleted' /\ status'[Video] = "uploading"
  <2>1. Video \notin deleted BY <1>4, RowsStep DEF Inv, RowsKept
  <2>2. Phase = "absent" /\ Phase' = "pending" BY <1>4, <2>1 DEF Phase
  <2> QED BY <1>2, <1>3, <2>2 DEF L!LNext, L!Create
<1>5. ASSUME Live(Video)
      PROVE  L!Live
  BY <1>5 DEF L!Live, Phase
<1>6. CASE Live(Video) /\ Video \notin deleted' /\ status'[Video] \in {"uploaded", "processing"}
  <2>1. Phase' = "pending" BY <1>6 DEF Phase
  <2> QED BY <1>2, <1>3, <1>5, <1>6, <2>1 DEF L!LNext, L!Pend
<1>7. CASE Live(Video) /\ Video \notin deleted' /\ status'[Video] = "failed"
  <2>1. Phase' = "failed" BY <1>7 DEF Phase
  <2> QED BY <1>2, <1>3, <1>5, <1>7, <2>1 DEF L!LNext, L!Fail
<1>8. CASE /\ Live(Video) /\ Video \notin deleted' /\ status'[Video] = "ready"
           /\ Outputs \subseteq objects[Video] \/ Purged(Video)
  <2>1. Phase' = "ready" BY <1>8 DEF Phase
  <2> QED BY <1>2, <1>3, <1>5, <1>8, <2>1 DEF L!LNext, L!Publish
<1>9. CASE Live(Video) /\ Video \in deleted' /\ Purged(Video)
  <2>1. Phase' = "deleted" BY <1>9 DEF Phase
  <2> QED BY <1>2, <1>3, <1>5, <1>9, <2>1 DEF L!LNext, L!Delete
<1> QED BY <1>1, <1>4, <1>6, <1>7, <1>8, <1>9

\* Before its INSERT a video is absent and has no objects.
LEMMA InitSimulation == Init => L!LInit
<1> SUFFICES ASSUME Init PROVE L!LInit OBVIOUS
<1> USE VideoAssumption DEF Init
<1>1. Phase = "absent" BY DEF Phase
<1>2. 1 \in Outputs BY SizesAssumption DEF Outputs, LastOutput
<1>3. (Outputs \subseteq objects[Video]) = FALSE BY <1>2
<1>4. Purged(Video) = FALSE BY DEF Purged, IdleCall
<1> QED BY <1>1, <1>3, <1>4 DEF L!LInit

\* Handlers, queue, worker, cleaner, faults and restarts together show the
\* readers of a video nothing but its lifecycle.
THEOREM PipelineImplementsLifecycle == Spec => ImplementsLifecycle
<1>1. Inv /\ Inv' /\ [Next]_vars => [L!LNext]_(L!lvars)
  BY ObjectsSimulation, RowSimulation
<1> QED BY <1>1, InitSimulation, Invariance, PTL DEF Spec, ImplementsLifecycle, L!LSpec
=============================================================================
