------------------------------ MODULE Executor ------------------------------
(***************************************************************************)
(* One request walking its candidates in internal/domain/routing/          *)
(* executor.go: Execute (stream = FALSE) and ExecuteStream (TRUE), with    *)
(* the retry loops chatWithRetry and streamWithRetry and the escalation to *)
(* larger context windows.                                                 *)
(*                                                                         *)
(* A provider call is two steps, its start and its return, so that the     *)
(* caller may go away in between.  An error is known by how the code       *)
(* classifies it: isClientError, IsContextLengthError (an overflow may be  *)
(* worded as a 4xx or not), cancellation or deadline, anything else.       *)
(***************************************************************************)
EXTENDS Naturals, Sequences, FiniteSets, SequencesExt

CONSTANTS
    Models,
    Window,         \* ContextWindowFor
    MaxAttempts,    \* RetryConfig.MaxAttempts
    MaxChain,       \* fallback candidates per decision (2 or 3 in chat.go)
    None

ASSUME ExecutorAssumption ==
    /\ IsFiniteSet(Models)
    /\ Window \in [Models -> Nat \ {0}]
    /\ MaxAttempts \in Nat \ {0}
    /\ MaxChain \in Nat
    /\ None \notin Models

Errors == {"transient", "client", "overflow4xx", "overflow", "stopped"}

isClientError(e) == e \in {"client", "overflow4xx"}

IsContextLengthError(e) == e \in {"overflow4xx", "overflow"}

\* A variant of Stopped: the code forgets to tell a cancellation apart.
StoppedNever(e) == FALSE

\* errors.Is(err, context.Canceled) || errors.Is(err, context.DeadlineExceeded)
Stopped(e) == e = "stopped"

VARIABLES
    stream,     \* ExecuteStream rather than Execute
    decision,   \* the primary model followed by its fallback chain
    ordered,    \* the candidates still in play
    i,          \* index of the current candidate
    tries,      \* attempts finished at the current candidate
    attempts,   \* totalAttempts
    used,       \* usedFallback
    last,       \* lastCandidate
    wrote,      \* the attempt has emitted a chunk
    ctxDone,    \* the caller is gone
    pc,         \* "pick", "ready", "calling", "backoff" or "done"
    result,     \* the ExecuteResult and error returned
    \* History, read by no step of the executor (late tells CallReturns how a
    \* call that started too late must end):
    late,       \* provider calls started after the caller was gone
    floor       \* largest window that has overflowed

hist == <<late, floor>>

vars == <<stream, decision, ordered, i, tries, attempts, used, last,
          wrote, ctxDone, pc, result, late, floor>>

\* BuildFallbackChain never repeats a model and excludes the primary; Execute
\* is called only with a chain that is not empty.
Decisions ==
    {d \in UNION {[1 .. n -> Models] : n \in 2 .. MaxChain + 1} :
        \A a, b \in DOMAIN d : d[a] = d[b] => a = b}

\* orderedCandidates: the primary first.
Init ==
    /\ stream \in BOOLEAN
    /\ decision \in Decisions
    /\ ordered = decision
    /\ i = 1
    /\ tries = 0
    /\ attempts = 0
    /\ used = FALSE
    /\ last = None
    /\ wrote = FALSE
    /\ ctxDone = FALSE
    /\ pc = "pick"
    /\ result = None
    /\ late = 0
    /\ floor = 0

-----------------------------------------------------------------------------
\* escalateCandidates: keep the larger windows; insertion sort, ascending.

InsertByWindow(c, sorted) ==
    LET n == Cardinality({k \in DOMAIN sorted : Window[sorted[k]] <= Window[c]})
    IN  SubSeq(sorted, 1, n) \o <<c>> \o SubSeq(sorted, n + 1, Len(sorted))

\* A variant of escalateCandidates that lets an equal window through.
escalateToEqual(remaining, minWindow) ==
    LET Enough(c) == Window[c] >= minWindow
    IN  FoldLeft(LAMBDA sorted, c : InsertByWindow(c, sorted), <<>>,
                 SelectSeq(remaining, Enough))

escalateCandidates(remaining, minWindow) ==
    LET Larger(c) == Window[c] > minWindow
    IN  FoldLeft(LAMBDA sorted, c : InsertByWindow(c, sorted), <<>>,
                 SelectSeq(remaining, Larger))

-----------------------------------------------------------------------------
Candidate == ordered[i]

Return(r) ==
    /\ pc' = "done"
    /\ result' = r

\* The head of the loop in Execute.  The primary's provider has been looked up
\* by the handler already, so only a fallback's lookup can fail.
Lookup ==
    /\ pc = "pick"
    /\ i <= Len(ordered)
    /\ last' = Candidate
    /\ used' = (used \/ i > 1)
    /\ \/ /\ pc' = "ready"
          /\ UNCHANGED i
       \/ /\ Candidate # decision[1]
          /\ i' = i + 1
          /\ UNCHANGED pc
    /\ UNCHANGED <<stream, decision, ordered, tries, attempts, wrote, ctxDone, result, hist>>

\* The loop is over.
Exhausted ==
    /\ pc = "pick"
    /\ i > Len(ordered)
    /\ Return([ok |-> FALSE, stopped |-> FALSE, model |-> last,
               fallback |-> used, attempts |-> attempts])
    /\ UNCHANGED <<stream, decision, ordered, i, tries, attempts, used, last, wrote, ctxDone, hist>>

\* p.Chat or p.Stream starts.
StartCall ==
    /\ pc = "ready"
    /\ pc' = "calling"
    /\ wrote' = FALSE
    /\ late' = IF ctxDone THEN late + 1 ELSE late
    /\ UNCHANGED <<stream, decision, ordered, i, tries, attempts, used, last, ctxDone, result, floor>>

\* A chunk reaches the client through fn.
Emit ==
    /\ pc = "calling"
    /\ stream
    /\ ~wrote
    /\ wrote' = TRUE
    /\ UNCHANGED <<stream, decision, ordered, i, tries, attempts, used, last, ctxDone, pc, result, hist>>

Succeed ==
    /\ pc = "calling"
    /\ attempts' = attempts + tries + 1
    /\ Return([ok |-> TRUE, stopped |-> FALSE, model |-> Candidate,
               fallback |-> used, attempts |-> attempts + tries + 1])
    /\ UNCHANGED <<stream, decision, ordered, i, tries, used, last,
                   wrote, ctxDone, hist>>

\* What ends the retry loop at once.
GivesUp(e) == wrote \/ Stopped(e) \/ isClientError(e)

\* A variant of Escalate: the candidates already tried are not cut off.
EscalateFromStart ==
    /\ ordered' = escalateCandidates(decision, Window[Candidate])
    /\ used' = TRUE
    /\ i' = 1

\* The remaining candidates with a larger window; the loop starts over.
Escalate ==
    /\ ordered' = escalateCandidates(SubSeq(ordered, i + 1, Len(ordered)), Window[Candidate])
    /\ used' = TRUE
    /\ i' = 1

\* The body of Execute after chatWithRetry has failed with e after n attempts.
CandidateFailed(e, n) ==
    /\ attempts' = attempts + n
    /\ tries' = 0
    /\ floor' = IF IsContextLengthError(e) /\ Window[Candidate] > floor
                THEN Window[Candidate] ELSE floor
    /\ IF Stopped(e)
       THEN /\ Return([ok |-> FALSE, stopped |-> TRUE, model |-> Candidate,
                       fallback |-> FALSE, attempts |-> attempts + n])
            /\ UNCHANGED <<ordered, i, used>>
       ELSE /\ pc' = "pick"
            /\ UNCHANGED result
            /\ IF IsContextLengthError(e)
               THEN Escalate
               ELSE /\ i' = i + 1
                    /\ UNCHANGED <<ordered, used>>

LastTry == tries + 1 = MaxAttempts

\* chatWithRetry and streamWithRetry after a failed attempt.
Fail(e) ==
    /\ pc = "calling"
    /\ IF GivesUp(e) \/ LastTry
       THEN CandidateFailed(e, tries + 1)
       ELSE /\ pc' = "backoff"
            /\ tries' = tries + 1
            /\ UNCHANGED <<ordered, i, attempts, used, result, floor>>
    /\ UNCHANGED <<stream, decision, last, wrote, ctxDone, late>>

\* A variant of the select without its timer case.
BackoffNoTimer ==
    /\ pc = "backoff"
    /\ ctxDone
    /\ pc' = "ready"
    /\ UNCHANGED <<stream, decision, ordered, i, tries, attempts, used, last, wrote, ctxDone, result, hist>>

\* The backoff's select: the timer, or the caller has gone.  When both are
\* ready Go takes either.
BackoffOver ==
    /\ pc = "backoff"
    /\ pc' = "ready"
    /\ UNCHANGED <<stream, decision, ordered, i, tries, attempts, used, last, wrote, ctxDone, result, hist>>

BackoffCancelled ==
    /\ pc = "backoff"
    /\ ctxDone
    /\ CandidateFailed("stopped", tries)
    /\ UNCHANGED <<stream, decision, last, wrote, ctxDone, late>>

\* The request's context ends: the client disconnects or its deadline passes.
Cancel ==
    /\ pc # "done"
    /\ ~ctxDone
    /\ ctxDone' = TRUE
    /\ UNCHANGED <<stream, decision, ordered, i, tries, attempts, used, last, wrote, pc, result, hist>>

\* External: what a provider call may end with.  A call that was started with
\* a context already over ends with that context's error.
Outcomes == IF late > 0 THEN {"stopped"} ELSE Errors

CallReturns == (late = 0 /\ Succeed) \/ \E e \in Outcomes : Fail(e)

Step ==
    Lookup \/ Exhausted \/ StartCall \/ CallReturns \/ BackoffOver \/ BackoffCancelled

Done == pc = "done" /\ UNCHANGED vars

Next == Step \/ Emit \/ Cancel \/ Done

Spec == Init /\ [][Next]_vars

\* The executor's goroutine runs, providers answer and timers fire.
FairSpec == Spec /\ WF_vars(Step)

-----------------------------------------------------------------------------
\* The loop's variables have their types, and an ExecuteResult exists exactly
\* when the loop has returned.
TypeOK ==
    /\ stream \in BOOLEAN
    /\ decision \in Decisions
    /\ ordered \in Seq(Models)
    /\ i \in 1 .. Len(ordered) + 1
    /\ tries \in 0 .. MaxAttempts - 1
    /\ attempts \in Nat
    /\ used \in BOOLEAN
    /\ last \in Models \cup {None}
    /\ wrote \in BOOLEAN
    /\ ctxDone \in BOOLEAN
    /\ pc \in {"pick", "ready", "calling", "backoff", "done"}
    /\ pc \in {"ready", "calling", "backoff"} => i <= Len(ordered)
    /\ result = None <=> pc # "done"
    /\ late \in Nat
    /\ floor \in Nat

\* "smallest sufficient window wins" (executor.go:259): once a window has
\* overflowed only larger ones are called, the smallest of those left first,
\* over any number of escalations in one request.
EscalationClimbs ==
    pc \in {"ready", "calling", "backoff"} =>
        /\ Window[Candidate] > floor
        /\ floor > 0 => \A k \in i .. Len(ordered) : Window[Candidate] <= Window[ordered[k]]

\* "Context cancellation aborts immediately": after the caller has gone at
\* most one more provider call starts (the one the select lets slip).
CancelStops == late <= 1

\* Execute keeps the promise of Walk: whatever retries and escalations do to
\* the list and the index, the primary is called first, no candidate is taken
\* up twice, and what is returned is about the last one taken up.
W == INSTANCE Walk

walk ==
    [at    |-> IF last = None THEN decision[1] ELSE last,
     left  |-> Range(SubSeq(ordered, IF pc = "pick" /\ last # None THEN i ELSE i + 1, Len(ordered))),
     phase |-> IF last = None \/ pc \in {"ready", "calling", "backoff"} THEN "calling"
               ELSE IF pc = "pick" THEN "between"
               ELSE IF result.ok THEN "ok"
               ELSE IF result.stopped THEN "stopped"
               ELSE "failed"]

KeepsWalk ==
    /\ walk = W!Start(decision[1], Range(Tail(decision)))
    /\ [][walk' \in W!Steps(walk)]_walk

\* The request ends: every chain of retries, fallbacks and escalations does.
Terminates == <>(pc = "done")
=============================================================================
