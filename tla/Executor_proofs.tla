--------------------------- MODULE Executor_proofs ---------------------------
(***************************************************************************)
(* What is proved of Executor for every catalogue, chain and retry budget. *)
(***************************************************************************)
EXTENDS Executor, TLAPS

\* A call started after the caller had gone is the executor's last: it can only end
\* with the context's error, which ends the loop.
LateIsLast == late \in {0, 1} /\ (late = 1 => pc \in {"calling", "done"})

\* "Context cancellation aborts immediately" (Execute, chatWithRetry,
\* streamWithRetry): however a cancellation falls between lookups, calls, retries,
\* backoffs and escalations, at most one provider call starts after it.
THEOREM CancellationStops == Spec => []CancelStops
<1>1. Init => LateIsLast
  BY DEF Init, LateIsLast
<1>2. LateIsLast /\ [Next]_vars => LateIsLast'
  <2> SUFFICES ASSUME LateIsLast, [Next]_vars PROVE LateIsLast'
    OBVIOUS
  <2>1. CASE Lookup
    BY <2>1 DEF Lookup, LateIsLast, hist
  <2>2. CASE Exhausted
    BY <2>2 DEF Exhausted, Return, LateIsLast, hist
  <2>3. CASE StartCall
    BY <2>3 DEF StartCall, LateIsLast
  <2>4. CASE late = 0 /\ Succeed
    BY <2>4 DEF Succeed, Return, LateIsLast, hist
  <2>5. ASSUME NEW e \in Outcomes, Fail(e) PROVE LateIsLast'
    <3>1. late' = late /\ pc = "calling"
      BY <2>5 DEF Fail
    <3>2. CASE late = 0
      BY <3>1, <3>2 DEF LateIsLast
    <3>3. CASE late = 1
      <4>1. e = "stopped"
        BY <3>3 DEF Outcomes
      <4>2. CandidateFailed(e, tries + 1)
        BY <2>5, <4>1 DEF Fail, GivesUp, Stopped
      <4>3. pc' = "done"
        BY <4>1, <4>2 DEF CandidateFailed, Return, Stopped
      <4>4. QED BY <3>1, <3>3, <4>3 DEF LateIsLast
    <3>4. QED BY <3>2, <3>3 DEF LateIsLast
  <2>6. CASE BackoffOver
    BY <2>6 DEF BackoffOver, LateIsLast, hist
  <2>7. CASE BackoffCancelled
    BY <2>7 DEF BackoffCancelled, LateIsLast
  <2>8. CASE Emit
    BY <2>8 DEF Emit, LateIsLast, hist
  <2>9. CASE Cancel
    BY <2>9 DEF Cancel, LateIsLast, hist
  <2>10. CASE UNCHANGED vars
    BY <2>10 DEF vars, LateIsLast
  <2>11. QED
    BY <2>1, <2>2, <2>3, <2>4, <2>5, <2>6, <2>7, <2>8, <2>9, <2>10
       DEF Next, Step, CallReturns, Done
<1>3. LateIsLast => CancelStops
  BY DEF LateIsLast, CancelStops
<1>4. QED BY <1>1, <1>2, <1>3, PTL DEF Spec
=============================================================================
