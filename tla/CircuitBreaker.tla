--------------------------- MODULE CircuitBreaker ---------------------------
(***************************************************************************)
(* One model's circuit breaker in one ixr process, with the concurrent     *)
(* requests that consult it.  A request asks IsAllowed, calls the provider *)
(* without holding any lock, and reports the outcome when the call         *)
(* returns, unless the call ended because the caller went away             *)
(* (shouldRecordOutcome).  Automatic routing consults IsAllowed for every  *)
(* model of the catalog while it filters candidates, whether or not the    *)
(* request is then sent to that model.                                     *)
(***************************************************************************)
EXTENDS Breaker, FiniteSets

CONSTANTS
    Callers,    \* concurrent requests
    MaxTotal    \* bound: outcomes counted in one window

ASSUME CallersAssumption == IsFiniteSet(Callers) /\ MaxTotal \in Nat

VARIABLES
    br,         \* the breaker's record
    inflight,   \* callers whose call was let through and has not returned
    \* History, read by no action:
    probes,     \* callers in flight that hold a slot of this probing period
    lost        \* slots of this probing period that no call will answer for

vars == <<br, inflight, probes, lost>>

Init ==
    /\ br = New
    /\ inflight = {}
    /\ probes = {}
    /\ lost = 0

\* Who holds the slot Allow has just given out, if it gave one.
GivenTo(S) ==
    IF br.state = "Closed" \/ ~Allowed(br) THEN UNCHANGED <<probes, lost>>
    ELSE LET kept == IF br.state = "Open" THEN {} ELSE probes
             gone == IF br.state = "Open" THEN 0 ELSE lost
         IN  /\ probes' = kept \cup S
             /\ lost' = IF S = {} THEN gone + 1 ELSE gone

\* chat.go: IsAllowed, then the provider call starts or 503 is returned.
IsAllowed(c) ==
    /\ c \notin inflight
    /\ br' = AfterAllow(br)
    /\ inflight' = IF Allowed(br) THEN inflight \cup {c} ELSE inflight
    /\ GivenTo({c})

\* routing.Filter: IsAllowed for a candidate that is then not called.
Filter ==
    /\ br' = AfterAllow(br)
    /\ GivenTo({})
    /\ UNCHANGED inflight

Counted == br.state = "Closed" => br.total < MaxTotal

\* The call of c returned with an answer or a provider error.
RecordOutcome(c, ok) ==
    /\ c \in inflight
    /\ Counted
    /\ br' = Record(br, ok)
    /\ inflight' = inflight \ {c}
    /\ IF br'.state = "HalfOpen"
       THEN probes' = probes \ {c} /\ UNCHANGED lost
       ELSE probes' = {} /\ lost' = 0

\* The call of c ended with context.Canceled or DeadlineExceeded.
NoOutcome(c) ==
    /\ c \in inflight
    /\ inflight' = inflight \ {c}
    /\ probes' = probes \ {c}
    /\ lost' = IF c \in probes THEN lost + 1 ELSE lost
    /\ UNCHANGED br

Tick ==
    /\ br' = Aged(br)
    /\ UNCHANGED <<inflight, probes, lost>>

Answer(c) == (\E ok \in BOOLEAN : RecordOutcome(c, ok)) \/ NoOutcome(c)

Next ==
    \/ \E c \in Callers : IsAllowed(c) \/ Answer(c)
    \/ Filter
    \/ Tick

\* Time passes, every provider call returns, and requests keep arriving.
Fairness ==
    /\ WF_vars(Tick)
    /\ \A c \in Callers : WF_vars(Answer(c))
    /\ WF_vars(\E c \in Callers : IsAllowed(c))

Spec == Init /\ [][Next]_vars

FairSpec == Spec /\ Fairness

-----------------------------------------------------------------------------
\* The state of breaker.go has its type, and the history matches it: only
\* calls in flight hold slots, and only a probing period has any.
TypeOK ==
    /\ br \in BreakerRecord
    /\ inflight \in SUBSET Callers
    /\ probes \in SUBSET inflight
    /\ lost \in Nat
    /\ br.state # "HalfOpen" => probes = {} /\ lost = 0

\* Every slot Allow has given out in a probing period is held by a call in
\* flight, was answered by a success, or is known to be lost: probesSent
\* never runs ahead of what can still report to RecordSuccess/RecordFailure.
SlotsAccounted ==
    br.state = "HalfOpen" =>
        /\ br.probesSent <= ProbeCount
        /\ br.probesSent <= Cardinality(probes) + br.probesPassed + lost
        /\ br.probesPassed < ProbeCount

\* A breaker that refuses every call in HalfOpen with nothing in flight can
\* never leave HalfOpen again (only an outcome does that): this needs a slot
\* that was given to a call nobody answers for.
Wedged ==
    /\ br.state = "HalfOpen"
    /\ ~Allowed(br)
    /\ inflight = {}

WedgedOnlyByLostSlot == Wedged => lost > 0

\* The breaker keeps the promise of BreakerPromise: nothing is let through
\* while it is open, at most ProbeCount calls in a probing period, and it
\* closes only from a probing period.
Promise ==
    INSTANCE BreakerPromise WITH
        mode   <- br.state,
        slots  <- IF br.state = "HalfOpen" THEN ProbeCount - br.probesSent ELSE 0,
        active <- inflight

KeepsPromise == Promise!Spec

\* A probing period in which no slot is lost ends: the breaker closes or
\* opens again.
ProbingEndsUnlessSlotLost ==
    (br.state = "HalfOpen") ~> (br.state # "HalfOpen" \/ lost > 0)
=============================================================================
