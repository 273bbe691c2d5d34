---------------------------- MODULE RetryProofs ----------------------------
(***************************************************************************)
(* The safety properties of Retry, for every number of operations, every   *)
(* job timeout and however long an operation needs to notice its end.      *)
(***************************************************************************)
EXTENDS Retry, TLAPS

(***************************************************************************)
(* The inductive invariant.                                                *)
(***************************************************************************)

TypeOK ==
    /\ now \in Nat /\ deadline \in Nat /\ wake \in Nat /\ began \in Nat
    /\ pc \in {"check", "op", "wait", "done"}
    /\ result \in {"nil", "context", "lastErr"}

\* The backoff doubles with every attempt; before attempt n all the waits up to
\* it have passed since withRetry was called, and a wait will have.
BackoffInv ==
    /\ <<attempt, backoff>> \in {<<1, 1>>, <<2, 2>>, <<3, 4>>, <<4, 8>>}
    /\ pc \in {"check", "op"} => now >= began + backoff - 1
    /\ pc = "wait" => attempt < 4 /\ wake >= began + 2 * backoff - 1

\* Operations before the one being tried have had their effects, and that one
\* may have had it.
AppliedInv ==
    pc # "done" => /\ op \in 1 .. Operations
                   /\ 1 .. op - 1 \subseteq applied
                   /\ applied \subseteq 1 .. op
                   /\ result = "nil"

Inv == TypeOK /\ BackoffInv /\ AppliedInv /\ HoldsWorkerInTime /\ FaithfulResult

-----------------------------------------------------------------------------
(* The invariant is inductive.                                             *)

\* All waits together.
LEMMA AllBackoffsIs7 == AllBackoffs = 7
<1>1. 2 ^ 3 = 8 OBVIOUS
<1> QED BY <1>1 DEF AllBackoffs, maxAttempts

\* A job begins with its first attempt, or has nothing to do.
LEMMA InvInit == Init => Inv
<1> SUFFICES ASSUME Init PROVE Inv OBVIOUS
<1> USE RetryAssumption
<1>1. deadline \in Nat BY DEF Init
<1>2. /\ now = 0 /\ op = 1 /\ attempt = 1 /\ backoff = 1 /\ wake = 0 /\ began = 0
      /\ result = "nil" /\ applied = {}
      /\ pc = IF Operations = 0 THEN "done" ELSE "check"
  BY DEF Init
<1>3. TypeOK BY <1>1, <1>2 DEF TypeOK
<1>4. BackoffInv BY <1>2 DEF BackoffInv
<1>5. AppliedInv BY <1>2 DEF AppliedInv
<1>6. HoldsWorkerInTime BY <1>1, <1>2 DEF HoldsWorkerInTime
<1>7. FaithfulResult
  <2>1. pc = "done" => applied = 1 .. Operations BY <1>2
  <2> QED BY <1>2, <2>1 DEF FaithfulResult
<1> QED BY <1>3, <1>4, <1>5, <1>6, <1>7 DEF Inv

\* withRetry gives up with an error that is true.
LEMMA ReturnInv ==
    ASSUME Inv, NEW err \in {"context", "lastErr"}, Return(err),
           err = "context" => Expired,
           err = "lastErr" => attempt = maxAttempts /\ pc = "op"
    PROVE  Inv'
<1> USE RetryAssumption
<1>1. /\ pc' = "done" /\ result' = err /\ now' = now /\ deadline' = deadline /\ op' = op
      /\ attempt' = attempt /\ backoff' = backoff /\ wake' = wake /\ began' = began
  BY DEF Return
<1>2. TypeOK' BY <1>1 DEF Inv, TypeOK
<1>3. BackoffInv' BY <1>1 DEF Inv, BackoffInv
<1>4. AppliedInv' /\ HoldsWorkerInTime' BY <1>1 DEF AppliedInv, HoldsWorkerInTime
<1>5. FaithfulResult'
  <2>1. err = "context" => Expired' BY <1>1 DEF Expired
  <2>2. err = "lastErr" => attempt' = maxAttempts /\ now' >= began' + AllBackoffs
    <3>1. err = "lastErr" => attempt = 4 /\ backoff = 8 BY DEF Inv, BackoffInv, maxAttempts
    <3>2. now \in Nat /\ began \in Nat BY DEF Inv, TypeOK
    <3>3. err = "lastErr" => now >= began + 7 BY <3>1, <3>2 DEF Inv, BackoffInv
    <3> QED BY <1>1, <3>3, AllBackoffsIs7
  <2> QED BY <1>1, <2>1, <2>2 DEF FaithfulResult
<1> QED BY <1>2, <1>3, <1>4, <1>5 DEF Inv

\* Every step keeps the invariant.
LEMMA InvStep ==
    ASSUME Inv, [Next]_vars
    PROVE  Inv'
<1> USE RetryAssumption
<1>0. /\ now \in Nat /\ deadline \in Nat /\ wake \in Nat /\ began \in Nat
      /\ attempt \in 1 .. 4 /\ backoff \in {1, 2, 4, 8}
      /\ pc \in {"check", "op", "wait", "done"}
      /\ result \in {"nil", "context", "lastErr"}
  BY DEF Inv, TypeOK, BackoffInv
<1>1. CASE Check
  <2>1. CASE Expired BY <1>1, <2>1, ReturnInv DEF Check
  <2>2. CASE ~Expired
    <3>1. /\ pc = "check" /\ pc' = "op"
          /\ UNCHANGED <<now, deadline, op, attempt, backoff, wake, result, began, applied>>
      BY <1>1, <2>2 DEF Check
    <3> QED BY <3>1 DEF Inv, TypeOK, BackoffInv, AppliedInv, HoldsWorkerInTime, FaithfulResult
  <2> QED BY <2>1, <2>2
<1>2. CASE OpNil
  <2>1. /\ pc = "op" /\ applied' = applied \cup {op} /\ attempt' = 1 /\ backoff' = 1
        /\ began' = now /\ now' = now /\ deadline' = deadline /\ wake' = wake
        /\ result' = result
        /\ \/ op = Operations /\ pc' = "done" /\ op' = op
           \/ op # Operations /\ pc' = "check" /\ op' = op + 1
    BY <1>2 DEF OpNil
  <2>2. /\ op \in 1 .. Operations /\ 1 .. op - 1 \subseteq applied /\ applied \subseteq 1 .. op
        /\ result = "nil"
    BY <2>1 DEF Inv, AppliedInv
  <2>3. applied' = 1 .. op
    <3>1. 1 .. op = (1 .. op - 1) \cup {op} BY <2>2
    <3> QED BY <2>1, <2>2, <3>1
  <2>4. TypeOK' BY <1>0, <2>1 DEF TypeOK
  <2>5. BackoffInv' BY <1>0, <2>1 DEF BackoffInv
  <2>6. AppliedInv'
    <3>1. CASE pc' = "done" BY <3>1 DEF AppliedInv
    <3>2. CASE op # Operations /\ pc' = "check" /\ op' = op + 1
      <4>1. op' \in 1 .. Operations /\ op' - 1 = op BY <2>2, <3>2
      <4>2. 1 .. op \subseteq 1 .. op' BY <2>2, <3>2
      <4> QED BY <2>1, <2>2, <2>3, <4>1, <4>2 DEF AppliedInv
    <3> QED BY <2>1, <3>1, <3>2
  <2>7. HoldsWorkerInTime' BY <2>1 DEF Inv, HoldsWorkerInTime
  <2>8. FaithfulResult' BY <2>1, <2>2, <2>3 DEF FaithfulResult
  <2> QED BY <2>4, <2>5, <2>6, <2>7, <2>8 DEF Inv
<1>3. CASE OpError
  <2>1. pc = "op" /\ applied' \in {applied, applied \cup {op}} BY <1>3 DEF OpError
  <2>2. CASE Expired BY <1>3, <2>2, ReturnInv DEF OpError
  <2>3. CASE ~Expired /\ attempt = maxAttempts
    BY <1>3, <2>1, <2>3, ReturnInv DEF OpError, LastAttempt
  <2>4. CASE ~Expired /\ attempt # maxAttempts
    <3>1. /\ pc' = "wait" /\ wake' = now + backoff /\ now' = now /\ deadline' = deadline
          /\ op' = op /\ attempt' = attempt /\ backoff' = backoff /\ result' = result
          /\ began' = began
      BY <1>3, <2>4 DEF OpError
    <3>2. TypeOK' BY <1>0, <3>1 DEF TypeOK
    <3>3. BackoffInv'
      <4>1. attempt < 4 BY <1>0, <2>4 DEF maxAttempts
      <4>2. wake' >= began + 2 * backoff - 1 BY <1>0, <2>1, <3>1 DEF Inv, BackoffInv
      <4> QED BY <3>1, <4>1, <4>2 DEF Inv, BackoffInv
    <3>4. AppliedInv'
      <4>1. op \in 1 .. Operations /\ op \in 1 .. op BY <2>1 DEF Inv, AppliedInv
      <4> QED BY <2>1, <3>1, <4>1 DEF Inv, AppliedInv
    <3>5. HoldsWorkerInTime' BY <2>1, <3>1 DEF Inv, HoldsWorkerInTime
    <3>6. FaithfulResult' BY <3>1 DEF FaithfulResult
    <3> QED BY <3>2, <3>3, <3>4, <3>5, <3>6 DEF Inv
  <2> QED BY <2>2, <2>3, <2>4
<1>4. CASE Timer
  <2>1. /\ pc = "wait" /\ now >= wake /\ pc' = "check" /\ attempt' = attempt + 1
        /\ backoff' = 2 * backoff
        /\ UNCHANGED <<now, deadline, op, wake, result, began, applied>>
    BY <1>4 DEF Timer
  <2>2. TypeOK' BY <2>1 DEF Inv, TypeOK
  <2>3. BackoffInv'
    <3>1. <<attempt, backoff>> \in {<<1, 1>>, <<2, 2>>, <<3, 4>>}
      BY <2>1 DEF Inv, BackoffInv
    <3>2. <<attempt', backoff'>> \in {<<2, 2>>, <<3, 4>>, <<4, 8>>} BY <2>1, <3>1
    <3>3. now' >= began' + backoff' - 1 BY <1>0, <2>1 DEF Inv, BackoffInv
    <3> QED BY <2>1, <3>2, <3>3 DEF BackoffInv
  <2>4. AppliedInv' BY <2>1 DEF Inv, AppliedInv
  <2>5. HoldsWorkerInTime' BY <2>1 DEF Inv, HoldsWorkerInTime
  <2>6. FaithfulResult' BY <2>1 DEF FaithfulResult
  <2> QED BY <2>2, <2>3, <2>4, <2>5, <2>6 DEF Inv
<1>5. CASE CtxDone BY <1>5, ReturnInv DEF CtxDone
<1>6. CASE Tick
  <2>1. /\ now' = now + 1 /\ pc \in {"op", "wait"}
        /\ \/ now < deadline + Grace
           \/ now < deadline
        /\ UNCHANGED <<deadline, op, pc, attempt, backoff, wake, result, began, applied>>
    BY <1>0, <1>6 DEF Tick, WaitsOn, Expired
  <2>2. TypeOK' BY <1>0, <2>1 DEF TypeOK
  <2>3. BackoffInv' BY <1>0, <2>1 DEF Inv, BackoffInv
  <2>4. AppliedInv' BY <2>1 DEF Inv, AppliedInv
  <2>5. HoldsWorkerInTime' BY <1>0, <2>1 DEF HoldsWorkerInTime
  <2>6. FaithfulResult' BY <2>1 DEF FaithfulResult
  <2> QED BY <2>2, <2>3, <2>4, <2>5, <2>6 DEF Inv
<1>7. CASE UNCHANGED vars
  BY <1>7 DEF vars, Inv, TypeOK, BackoffInv, AppliedInv, HoldsWorkerInTime, FaithfulResult, Expired
<1> QED BY <1>1, <1>2, <1>3, <1>4, <1>5, <1>6, <1>7 DEF Next

\* The invariant holds in every reachable state of every instance.
THEOREM Invariance == Spec => []Inv
BY InvInit, InvStep, PTL DEF Spec

-----------------------------------------------------------------------------
(* The properties.                                                         *)

\* A job, however many operations it has and however they fail, holds the only
\* worker no longer than its timeout and one operation's grace.
THEOREM WorkerIsHeldInTime == Spec => []HoldsWorkerInTime
BY Invariance, PTL DEF Inv

\* A job reported as done has had all its effects; one that gave up met the end
\* of its context, or failed four times over the whole span of the backoffs.
THEOREM ResultIsFaithful == Spec => []FaithfulResult
BY Invariance, PTL DEF Inv
=============================================================================
