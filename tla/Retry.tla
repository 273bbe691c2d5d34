------------------------------- MODULE Retry -------------------------------
(***************************************************************************)
(* MediaTranscoderService.withRetry against a clock.  A transcoding job    *)
(* runs a number of storage operations one after another (the download,    *)
(* the preview, every HLS file), each of them retried, all under the one   *)
(* deadline of the job's context.  Time is counted in the first backoff,   *)
(* one second; only operations and waits take time.                        *)
(***************************************************************************)
EXTENDS Integers

CONSTANTS
    Operations,     \* storage operations of a job
    MaxDeadline,    \* bound: the job's timeout is at most this
    Grace           \* an operation returns within this of its context's end

ASSUME RetryAssumption == Operations \in Nat /\ MaxDeadline \in Nat /\ Grace \in Nat

maxAttempts == 4

\* What the waits between maxAttempts attempts add up to.
AllBackoffs == 2 ^ (maxAttempts - 1) - 1

VARIABLES
    now,
    deadline,    \* when the context of the job ends
    op,          \* the operation being tried; operations before it returned nil
    pc,          \* "check", "op", "wait" or "done"
    attempt,
    backoff,
    wake,        \* when the timer of the wait fires
    result,      \* what the job's last withRetry returned
    began,       \* history: when withRetry was called for op
    applied      \* history: operations the store has carried out

vars == <<now, deadline, op, pc, attempt, backoff, wake, result, began, applied>>

Init ==
    /\ now = 0
    /\ deadline \in 0 .. MaxDeadline
    /\ op = 1
    /\ pc = IF Operations = 0 THEN "done" ELSE "check"
    /\ attempt = 1
    /\ backoff = 1
    /\ wake = 0
    /\ result = "nil"
    /\ began = 0
    /\ applied = {}

\* ctx.Err() # nil
Expired == now >= deadline

\* withRetry returns an error, which ends the attempt in this workspace.  One that
\* mentions a full disk lets processMedia begin again in the next workspace: the
\* same operations under the same context, from an empty applied.
Return(err) ==
    /\ pc' = "done"
    /\ result' = err
    /\ UNCHANGED <<now, deadline, op, attempt, backoff, wake, began>>

\* The test before every attempt.
Check ==
    /\ pc = "check"
    /\ IF Expired
       THEN Return("context")
       ELSE /\ pc' = "op"
            /\ UNCHANGED <<now, deadline, op, attempt, backoff, wake, result, began>>
    /\ UNCHANGED applied

\* fn() returns nil, be it after the deadline: the next operation begins.
OpNil ==
    /\ pc = "op"
    /\ applied' = applied \cup {op}
    /\ IF op = Operations
       THEN pc' = "done" /\ UNCHANGED op
       ELSE pc' = "check" /\ op' = op + 1
    /\ attempt' = 1
    /\ backoff' = 1
    /\ began' = now
    /\ UNCHANGED <<now, deadline, wake, result>>

\* Mutant of LastAttempt: the error is assigned to a variable of the else
\* branch only, and lastErr, still nil, is returned.
LastAttemptShadowed == Return("nil")

\* The loop ends with lastErr.
LastAttempt == Return("lastErr")

\* fn() returns an error, having had its effect or not.
OpError ==
    /\ pc = "op"
    /\ applied' \in {applied, applied \cup {op}}
    /\ IF Expired THEN Return("context")
       ELSE IF attempt = maxAttempts THEN LastAttempt
       ELSE /\ pc' = "wait"
            /\ wake' = now + backoff
            /\ UNCHANGED <<now, deadline, op, attempt, backoff, result, began>>

\* select: the timer fires.
Timer ==
    /\ pc = "wait"
    /\ now >= wake
    /\ pc' = "check"
    /\ attempt' = attempt + 1
    /\ backoff' = 2 * backoff
    /\ UNCHANGED <<now, deadline, op, wake, result, began, applied>>

\* select: the context is done.
CtxDone ==
    /\ pc = "wait"
    /\ Expired
    /\ Return("context")
    /\ UNCHANGED applied

\* Mutant of WaitsOn: the wait is a time.Sleep.
WaitsOnTimerOnly == now < wake

\* Neither channel of the select is ready.
WaitsOn == now < wake /\ ~Expired

Tick ==
    /\ \/ pc = "op" /\ now < deadline + Grace
       \/ pc = "wait" /\ WaitsOn
    /\ now' = now + 1
    /\ UNCHANGED <<deadline, op, pc, attempt, backoff, wake, result, began, applied>>

Next == Check \/ OpNil \/ OpError \/ Timer \/ CtxDone \/ Tick

Spec == Init /\ [][Next]_vars

-----------------------------------------------------------------------------
(* Properties.                                                             *)

\* However the operations and the doubling waits fall, processMedia holds the only
\* worker no longer than the job's timeout and the time one operation needs to
\* notice the end of its context.  The failure mark that the worker writes after
\* it is not under this deadline (its context is context.Background()) and not
\* part of this module: it is WorkerFail of MediaPipeline.
HoldsWorkerInTime == pc # "done" => now <= deadline + Grace

\* withRetry reports what happened: a job whose operations all returned nil has
\* had all their effects; one that gives up had its context end, or had the
\* operation fail maxAttempts times over the whole span of the backoffs.
FaithfulResult ==
    pc = "done" =>
        CASE result = "nil" -> applied = 1 .. Operations
          [] result = "context" -> Expired
          [] result = "lastErr" -> attempt = maxAttempts /\ now >= began + AllBackoffs
=============================================================================
