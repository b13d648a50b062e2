---------------------------- MODULE ChatHandler ----------------------------
(***************************************************************************)
(* Concurrent chat requests in ServeHTTP and handleStream of               *)
(* internal/ingress/chat.go, with one circuit breaker per model (Breaker)  *)
(* and the walk over the candidates (Walk, which Executor implements).     *)
(* The two handlers differ here only in that a stream never makes the      *)
(* retrieval hop, which is optional for the other one.                     *)
(*                                                                         *)
(* A request names a model or asks for "auto", and then every model within *)
(* its budget is put to its breaker before one is chosen.  The model in    *)
(* the request, req.Model, is the one whose breaker admits the request and *)
(* gets its outcome; the one that answers may be another.                  *)
(***************************************************************************)
EXTENDS Breaker, Walk, FiniteSets

CONSTANTS
    Requests,
    Configured,     \* models the router has a provider for
    MaxTotal        \* bound: outcomes counted in one window

ASSUME HandlerAssumption ==
    /\ IsFiniteSet(Models)
    /\ Configured \subseteq Models
    /\ MaxTotal \in Nat
    /\ ThresholdNum <= ThresholdDen

VARIABLES
    br,         \* the breaker of each model that can be called
    rq,         \* each request
    fails       \* history: calls each model has failed, up to MinRequests

vars == <<br, rq, fails>>

RequestRecord ==
    [pc     : {"idle", "filtering", "routed", "calling", "hopped"},
     todo   : SUBSET Models,              \* models Filter has yet to look at
     passed : SUBSET Models,              \* models that passed Filter
     model  : Models \cup {None},         \* req.Model
     chain  : SUBSET Models,              \* fallbackChain
     walk   : WalkRecord \cup {None}]

Idle ==
    [pc |-> "idle", todo |-> {}, passed |-> {}, model |-> None,
     chain |-> {}, walk |-> None]

Init ==
    /\ br = [m \in Configured |-> New]
    /\ rq = [q \in Requests |-> Idle]
    /\ fails = [m \in Configured |-> 0]

-----------------------------------------------------------------------------
\* The decision.

\* The router is asked for the primary's provider only; without one the
\* request is over (400).
Routed(q, m, chain) ==
    IF m \in Configured
    THEN [rq[q] EXCEPT !.pc = "routed", !.model = m, !.chain = chain,
                       !.passed = {}]
    ELSE Idle

\* A request for model m.  Its fallbacks are those of the catalog that fit the
\* budget, at most 3 of them, and none when m is not in the catalog.
Ask(q, m) ==
    /\ rq[q].pc = "idle"
    /\ \E chain \in SUBSET (Models \ {m}) :
          /\ Cardinality(chain) <= 3
          /\ rq' = [rq EXCEPT ![q] = Routed(q, m, chain)]
    /\ UNCHANGED <<br, fails>>

\* A request for "auto": the engine's catalog has the models with a provider
\* (availableCatalog), and the budget leaves some of them out.
AskAuto(q) ==
    /\ rq[q].pc = "idle"
    /\ \E fit \in SUBSET Configured :
          rq' = [rq EXCEPT ![q] = [Idle EXCEPT !.pc = "filtering", !.todo = fit]]
    /\ UNCHANGED <<br, fails>>

\* Filter's loop: IsAllowed, which takes a probe slot when there is one.
Filter(q, m) ==
    /\ rq[q].pc = "filtering"
    /\ m \in rq[q].todo
    /\ br' = [br EXCEPT ![m] = AfterAllow(@)]
    /\ rq' = [rq EXCEPT ![q].todo = @ \ {m},
                        ![q].passed = IF Allowed(br[m]) THEN @ \cup {m} ELSE @]
    /\ UNCHANGED fails

\* Decide: the best score, or the bandit's pick, and the next 2 after it.
Decide(q) ==
    /\ rq[q].pc = "filtering"
    /\ rq[q].todo = {}
    /\ IF rq[q].passed = {}
       THEN rq' = [rq EXCEPT ![q] = Idle]
       ELSE \E m \in rq[q].passed : \E chain \in SUBSET (rq[q].passed \ {m}) :
               /\ Cardinality(chain) = 2 \/ (Cardinality(chain) < 2 /\ chain = rq[q].passed \ {m})
               /\ rq' = [rq EXCEPT ![q] = Routed(q, m, chain)]
    /\ UNCHANGED <<br, fails>>

-----------------------------------------------------------------------------
\* The call.

\* A variant of Admit in which the call starts whatever the breaker says, as it
\* would if handleStream did not look at the answer.
AdmitUnchecked(q) ==
    LET r == rq[q] IN
    /\ r.pc = "routed"
    /\ br' = [br EXCEPT ![r.model] = AfterAllow(@)]
    /\ rq' = [rq EXCEPT ![q] =
                [r EXCEPT !.pc = "calling", !.chain = {}, !.walk = Start(r.model, r.chain)]]
    /\ UNCHANGED fails

\* circuit_open, or Execute/ExecuteStream starts with the primary's call.
Admit(q) ==
    LET r == rq[q] IN
    /\ r.pc = "routed"
    /\ br' = [br EXCEPT ![r.model] = AfterAllow(@)]
    /\ rq' = [rq EXCEPT ![q] =
                IF Allowed(br[r.model])
                THEN [r EXCEPT !.pc = "calling", !.chain = {}, !.walk = Start(r.model, r.chain)]
                ELSE Idle]
    /\ UNCHANGED fails

Step(q, w) == rq' = [rq EXCEPT ![q].walk = w]

\* The call of the current candidate returns.
CallReturns(q) ==
    LET w == rq[q].walk IN
    /\ rq[q].pc = "calling"
    /\ w.phase = "calling"
    /\ \/ /\ Step(q, Answered(w))
          /\ UNCHANGED fails
       \/ /\ Step(q, Abandoned(w))
          /\ UNCHANGED fails
       \/ /\ \E v \in Failed(w) : Step(q, v)
          /\ fails' = [fails EXCEPT ![w.at] = Older(@, MinRequests)]
    /\ UNCHANGED br

\* The next candidate is taken up, or none is left.
NextCandidate(q) ==
    LET w == rq[q].walk IN
    /\ rq[q].pc = "calling"
    /\ w.phase = "between"
    /\ IF w.left = {}
       THEN Step(q, UsedUp(w))
       ELSE \E m \in w.left :
               Step(q, IF m \in Configured THEN Taken(w, m) ELSE Skipped(w, m))
    /\ UNCHANGED <<br, fails>>

\* resolveRetrieval: the answer asks for stored content, and the provider that
\* gave it is called once more.  Never taken for a stream.
ResolveRetrieval(q) ==
    LET w == rq[q].walk IN
    /\ rq[q].pc = "calling"
    /\ w.phase = "ok"
    /\ \E phase \in {"ok", "failed", "stopped"} :
          /\ rq' = [rq EXCEPT ![q].pc = "hopped", ![q].walk.phase = phase]
          /\ fails' = IF phase = "failed" THEN [fails EXCEPT ![w.at] = Older(@, MinRequests)]
                      ELSE fails
    /\ UNCHANGED br

-----------------------------------------------------------------------------
\* The outcome.

Over(q) ==
    /\ rq[q].pc \in {"calling", "hopped"}
    /\ rq[q].walk.phase \in {"ok", "failed", "stopped"}

\* A variant of shouldRecordOutcome: every error counts as the model's.
shouldRecordAnyOutcome(q) == TRUE

shouldRecordOutcome(q) == rq[q].walk.phase # "stopped"

\* The outcome goes to the breaker of req.Model, and the request is over.  The
\* metrics, the event and the shadow call that follow leave this state alone.
RecordOutcome(q) ==
    LET m == rq[q].model IN
    /\ Over(q)
    /\ br[m].state = "Closed" => br[m].total < MaxTotal
    /\ br' = IF shouldRecordOutcome(q)
             THEN [br EXCEPT ![m] = Record(@, rq[q].walk.phase = "ok")]
             ELSE br
    /\ rq' = [rq EXCEPT ![q] = Idle]
    /\ UNCHANGED fails

Tick ==
    /\ br' = [m \in Configured |-> Aged(br[m])]
    /\ UNCHANGED <<rq, fails>>

ServeHTTP(q) ==
    \/ \E m \in Models : Ask(q, m) \/ Filter(q, m)
    \/ AskAuto(q)
    \/ Decide(q)
    \/ Admit(q)
    \/ CallReturns(q)
    \/ NextCandidate(q)
    \/ ResolveRetrieval(q)
    \/ RecordOutcome(q)

Next == Tick \/ \E q \in Requests : ServeHTTP(q)

Spec == Init /\ [][Next]_vars

-----------------------------------------------------------------------------
\* Breakers and requests have their types; a request that calls a provider
\* has a primary with a provider, and never comes back to a candidate.
TypeOK ==
    /\ br \in [Configured -> BreakerRecord]
    /\ rq \in [Requests -> RequestRecord]
    /\ fails \in [Configured -> 0 .. MinRequests]
    /\ \A q \in Requests :
          /\ rq[q].pc \in {"calling", "hopped"} <=> rq[q].walk # None
          /\ rq[q].model # None => rq[q].model \in Configured
          /\ rq[q].walk # None => rq[q].walk.left \cap {rq[q].model, rq[q].walk.at} = {}

\* chat.go:528-542: callers that give up, however many and whenever, do not
\* trip a breaker, and neither do the failures of other models: a breaker is
\* not closed only if its own model failed as often as RecordFailure's
\* threshold asks of a window.
TripNeedsOwnFailures ==
    \A m \in Configured :
        br[m].state # "Closed" =>
            fails[m] * ThresholdDen > (ThresholdDen - ThresholdNum) * MinRequests

\* For every model the handler keeps the promise of BreakerPromise towards the
\* requests that name it: automatic decisions and walks that end at
\* another model included, they get through only while the breaker is closed
\* or as one of ProbeCount probes, and each reports back at most once.
Promise(m) ==
    INSTANCE BreakerPromise WITH
        Callers <- Requests,
        mode    <- br[m].state,
        slots   <- IF br[m].state = "HalfOpen" THEN ProbeCount - br[m].probesSent ELSE 0,
        active  <- {q \in Requests : rq[q].model = m /\ rq[q].walk # None}

EachKeepsPromise ==
    /\ \A m \in Configured : Promise(m)!Init
    /\ [][\A m \in Configured : Promise(m)!Next \/ UNCHANGED Promise(m)!vars]_vars
=============================================================================
