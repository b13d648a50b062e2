---------------------------- MODULE ChainHandler ----------------------------
(***************************************************************************)
(* Requests for a chain of models: handleChain of                          *)
(* internal/ingress/chain.go with the registry of                          *)
(* internal/domain/chain/chain.go, over one circuit breaker per model      *)
(* (Breaker).                                                              *)
(*                                                                         *)
(* A sequential chain has the steps 1 .. Len(models).  A fusion chain has  *)
(* its panel in these positions, every member in a goroutine of its own,   *)
(* and its judge in the position after them.  What a step is asked is the  *)
(* caller's messages and the answers of other steps, known here by the     *)
(* positions of those steps.                                               *)
(***************************************************************************)
EXTENDS Breaker, Sequences, FiniteSets

CONSTANTS
    Models,
    Requests,
    ChainDefs,      \* the configurations to start with: sequences of Def
    Inputs,         \* the requests sent: <<chain, stream>>
    None

VARIABLES
    registry,   \* the chains of this process
    br,         \* the breaker of each model
    rq,         \* each request's handler
    st          \* the steps of each request's chain

vars == <<registry, br, rq, st>>

MaxSteps == 3

Steps == 1 .. MaxSteps

Idle == [pc |-> "idle", chain |-> None, stream |-> FALSE, status |-> None]

Unstarted == [at |-> "unstarted", asked |-> <<>>, event |-> FALSE]

Over == {"ok", "empty", "failed", "blocked"}

-----------------------------------------------------------------------------
\* BuildRegistry.

WellFormed(def) ==
    \/ /\ def.strategy \in {"", "sequential"}
       /\ def.models # <<>>
       /\ Len(def.prompts) = Len(def.models)
    \/ /\ def.strategy = "fusion"
       /\ Len(def.models) >= 2
       /\ def.judge # None

\* One definition that is not well formed keeps the process from starting.
BuildRegistry(defs) ==
    /\ \A n \in DOMAIN defs : WellFormed(defs[n])
    /\ registry = [n \in DOMAIN defs |->
                     IF defs[n].strategy = "" THEN [defs[n] EXCEPT !.strategy = "sequential"]
                     ELSE defs[n]]

Init ==
    /\ \E defs \in ChainDefs : BuildRegistry(defs)
    /\ br = [m \in Models |-> New]
    /\ rq = [q \in Requests |-> Idle]
    /\ st = [q \in Requests |-> [i \in Steps |-> Unstarted]]

Chain(q) == registry[rq[q].chain]

Fusion(q) == Chain(q).strategy = "fusion"

LastStep(q) == Len(Chain(q).models) + IF Fusion(q) THEN 1 ELSE 0

ModelOf(q, i) ==
    IF i <= Len(Chain(q).models) THEN Chain(q).models[i] ELSE Chain(q).judge

Panel(q) == 1 .. Len(Chain(q).models)

Answer(q, status) == rq' = [rq EXCEPT ![q].pc = "answered", ![q].status = status]

-----------------------------------------------------------------------------
\* handleChain.

\* The members of a panel are started together.
Ask(q) ==
    /\ rq[q].pc = "idle"
    /\ \E in \in Inputs : LET n == in[1] IN
          /\ n \in DOMAIN registry
          /\ rq' = [rq EXCEPT ![q] = [Idle EXCEPT !.pc = "running", !.chain = n, !.stream = in[2]]]
          /\ st' = [st EXCEPT ![q] =
                [i \in Steps |->
                    IF registry[n].strategy = "fusion" /\ i <= Len(registry[n].models)
                    THEN [Unstarted EXCEPT !.at = "ready"]
                    ELSE Unstarted]]
    /\ UNCHANGED <<registry, br>>

\* The position of the loop of handleSequentialChain.
Current(q) == 1 + Cardinality({i \in Steps : st[q][i].at # "unstarted"})

Launch(q, i, asked) ==
    /\ st' = [st EXCEPT ![q][i] = [at |-> "ready", asked |-> asked, event |-> FALSE]]
    /\ UNCHANGED rq

\* writeChainStepError
StepError(at) == IF at = "blocked" THEN "503" ELSE "502"

\* One turn of the loop of handleSequentialChain: it looks at the result of
\* the step before, and c.Prompts[i] and resp.Choices[0] may be out of range.
NextStep(q) ==
    LET i    == Current(q)
        prev == IF i = 1 THEN "ok" ELSE st[q][i - 1].at
    IN
    /\ rq[q].pc = "running"
    /\ ~Fusion(q)
    /\ prev \in Over
    /\ IF prev \notin {"ok", "empty"}
       THEN Answer(q, StepError(prev)) /\ UNCHANGED st
       ELSE IF i > LastStep(q)
       THEN Answer(q, "200") /\ UNCHANGED st
       ELSE IF prev = "empty" \/ i \notin DOMAIN Chain(q).prompts
       THEN Answer(q, "aborted") /\ UNCHANGED st
       ELSE Launch(q, i, IF i = 1 THEN <<>> ELSE <<i - 1>>)
    /\ UNCHANGED <<registry, br>>

\* Variants of Joined: the handler goes on with the first answer, and it never
\* hears of a member whose breaker was open.
JoinedFirst(q) == \E i \in Panel(q) : st[q][i].at \in {"ok", "empty"}

JoinedUnlessBlocked(q) == \A i \in Panel(q) : st[q][i].at \in Over \ {"blocked"}

\* wg.Wait
Joined(q) == \A i \in Panel(q) : st[q][i].at \in Over

\* buildJudgeMessages: the members without an error, in the order of c.Models.
Candidates(q) ==
    LET Succeeded(i) == st[q][i].at \in {"ok", "empty"}
    IN  SelectSeq([i \in Panel(q) |-> i], Succeeded)

\* handleFusionChain after the panel.
Judge(q) ==
    /\ rq[q].pc = "running"
    /\ Fusion(q)
    /\ st[q][LastStep(q)].at = "unstarted"
    /\ Joined(q)
    /\ IF Candidates(q) = <<>>
       THEN Answer(q, "502") /\ UNCHANGED st
       ELSE IF \E i \in Panel(q) : st[q][i].at = "empty"
       THEN Answer(q, "aborted") /\ UNCHANGED st
       ELSE Launch(q, LastStep(q), Candidates(q))
    /\ UNCHANGED <<registry, br>>

Judged(q) ==
    LET at == st[q][LastStep(q)].at IN
    /\ rq[q].pc = "running"
    /\ Fusion(q)
    /\ at \in Over
    /\ Answer(q, IF at \in {"ok", "empty"} THEN "200" ELSE StepError(at))
    /\ UNCHANGED <<registry, br, st>>

-----------------------------------------------------------------------------
\* runChainStep and streamChainStep.

\* A variant of Enter that calls a model whose breaker is open.
EnterUnchecked(q, i) ==
    /\ st[q][i].at = "ready"
    /\ br' = [br EXCEPT ![ModelOf(q, i)] = AfterAllow(@)]
    /\ st' = [st EXCEPT ![q][i].at = "calling"]
    /\ UNCHANGED <<registry, rq>>

\* IsAllowed
Enter(q, i) ==
    LET m == ModelOf(q, i) IN
    /\ st[q][i].at = "ready"
    /\ br' = [br EXCEPT ![m] = AfterAllow(@)]
    /\ st' = [st EXCEPT ![q][i].at = IF Allowed(br[m]) THEN "calling" ELSE "blocked"]
    /\ UNCHANGED <<registry, rq>>

\* Only the last step of a chain streams.
Streams(q, i) == rq[q].stream /\ i = LastStep(q)

\* The metrics, and the event with the step's own model.
Reported(q, i, at) == [st[q][i] EXCEPT !.at = at, !.event = TRUE]

\* Execute or ExecuteStream returns: RecordOutcome unless the caller is gone
\* (shouldRecordOutcome), then the report.  A stream ends with [DONE] and
\* status 200 whatever came of it.  External: the answer, which may have no
\* choice in it.
Return(q, i) ==
    LET m == ModelOf(q, i) IN
    /\ st[q][i].at = "calling"
    /\ \E at \in {"ok", "empty", "failed"} :
          /\ \/ br' = [br EXCEPT ![m] = Record(@, at # "failed")]
             \/ at = "failed" /\ UNCHANGED br
          /\ st' = [st EXCEPT ![q][i] = Reported(q, i, at)]
          /\ IF Streams(q, i) THEN Answer(q, "200") ELSE UNCHANGED rq
    /\ UNCHANGED registry

Tick ==
    /\ br' = [m \in Models |-> Aged(br[m])]
    /\ UNCHANGED <<registry, rq, st>>

Handle(q) ==
    \/ NextStep(q)
    \/ Judge(q)
    \/ Judged(q)
    \/ \E i \in Steps : Enter(q, i) \/ Return(q, i)

Next == Tick \/ \E q \in Requests : Ask(q) \/ Handle(q)

\* Goroutines run and provider calls return.
Spec == Init /\ [][Next]_vars /\ \A q \in Requests : WF_vars(Handle(q))

-----------------------------------------------------------------------------
\* Handlers and steps have their types, and a step is under way or over only in
\* a request that is being handled.
TypeOK ==
    /\ br \in [Models -> BreakerRecord]
    /\ \A q \in Requests :
          /\ rq[q].pc \in {"idle", "running", "answered"}
          /\ rq[q].pc = "idle" <=> rq[q].chain = None
          /\ rq[q].status \in {None, "200", "502", "503", "aborted"}
          /\ rq[q].pc = "answered" <=> rq[q].status # None
          /\ \A i \in Steps :
                /\ st[q][i].at \in {"unstarted", "ready", "calling"} \cup Over
                /\ st[q][i].at # "unstarted" => rq[q].pc # "idle" /\ i <= LastStep(q)

\* chain.go:84-86, "the judge synthesizes from whichever panel members
\* succeeded": the judge is called only when every member is done, and it sees
\* the answers of exactly the members that gave one, at least one of them.
JudgeHearsSurvivors ==
    \A q \in Requests :
        rq[q].pc # "idle" /\ Fusion(q) /\ st[q][LastStep(q)].at # "unstarted" =>
            LET asked == st[q][LastStep(q)].asked IN
            /\ asked # <<>>
            /\ {asked[k] : k \in DOMAIN asked} = {i \in Panel(q) : st[q][i].at = "ok"}
            /\ \A i \in Panel(q) : st[q][i].at \in Over

\* The same comment, for the breakers: towards each model the steps of all
\* chains are callers of BreakerPromise, so panels that share a model get no
\* more than ProbeCount calls through while it is being probed.
Promise(m) ==
    INSTANCE BreakerPromise WITH
        Callers <- Requests \X Steps,
        mode    <- br[m].state,
        slots   <- IF br[m].state = "HalfOpen" THEN ProbeCount - br[m].probesSent ELSE 0,
        active  <- {c \in Requests \X Steps :
                       st[c[1]][c[2]].at = "calling" /\ ModelOf(c[1], c[2]) = m}

StepsKeepPromise ==
    /\ \A m \in Models : Promise(m)!Init
    /\ [][\A m \in Models : Promise(m)!Next \/ UNCHANGED Promise(m)!vars]_vars

\* wg.Wait and the step loop: every request for a chain gets its response,
\* whatever its steps come to.
ChainsEnd ==
    \A q \in Requests : rq[q].pc = "running" ~> rq[q].pc = "answered"
=============================================================================
