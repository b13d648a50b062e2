------------------------------ MODULE Learning ------------------------------
(***************************************************************************)
(* Adaptive routing, as pkg/ixr wires it under IXR_AUTO_BANDIT=true: the   *)
(* scoring engine picks a model through the epsilon-greedy bandit, and     *)
(* outcomes come back three ways: the bus hands every CallEvent to the     *)
(* telemetry plugin, the bandit-reward plugin and the feedback index, a    *)
(* shadow call records its own outcome, and a caller may rate an answer.   *)
(*                                                                         *)
(* Rewards are in hundredths.  A cooldown is counted in units of           *)
(* cooldownBase; the ticks of the clock fall anywhere.                     *)
(***************************************************************************)
EXTENDS Routing, EventBus

CONSTANTS
    Requests,        \* [hint, useCase, model]: model is "auto" or explicit
    AllowedSets,     \* what the circuit breakers may let through, as sets
    Outcomes,        \* [ok, ms, finish, named]: what a provider call may give
    MaxCalls, MaxRatings, MaxShadows,        \* bounds of the instance
    cooldownFailureStreak, cooldownMax,      \* 3 and 60 in the program
    Window,          \* samples of the success window, 100 in the program
    MaxSize          \* size of the feedback index

VARIABLES
    arms,      \* arms[m]: the bandit's armStats
    regrets,   \* observations counted by the RegretTracker
    perf,      \* perf[m, intent]: the model performance store
    index,     \* the feedback store: call ID -> model, autoRouted, fresh
    queue,     \* the bus
    loop,      \* <<>>, or <<event, consumer whose turn it is>>
    calls,     \* calls[i]: the requests in the order they arrive
    ratings, shadows,
    heard      \* heard[m]: outcomes of m so far, and failures at their end

vars == <<arms, regrets, perf, index, queue, loop, calls, ratings, shadows,
          heard>>

Models  == {m \in Catalog : Resolves(m)}
Intents == {"", "general"} \cup Tasks
Keys    == Models \X Intents
Idle    == [phase |-> "none"]
Call    == 1 .. MaxCalls

Reported == [id : 0 .. MaxCalls, call : Call, model : Models, auto : BOOLEAN,
             useCase : Intents, ok : BOOLEAN, ms : Nat,
             finish : {"stop", "content_filter", "none"}, shadow : BOOLEAN]

ASSUME LearningAssumption ==
    /\ \A r \in Requests : r.useCase \in Intents /\ r.hint \in Hint
    /\ Outcomes \subseteq [ok : BOOLEAN, ms : Nat, finish : {"stop", "content_filter", "none"},
                           named : BOOLEAN]
    /\ MaxCalls \in Nat /\ cooldownFailureStreak \in Nat /\ cooldownMax \in Nat

Init ==
    /\ arms = [m \in Models |-> [pulls |-> 0, sum |-> 0, fails |-> 0, cool |-> 0]]
    /\ regrets = 0
    /\ perf = [k \in Keys |-> [count |-> 0, p50 |-> 0, n |-> 0, successes |-> 0,
                               ring |-> [i \in 1 .. Window |-> FALSE], head |-> 0]]
    /\ index = <<>>
    /\ queue = <<>> /\ loop = <<>>
    /\ calls = [i \in Call |-> Idle]
    /\ ratings = 0 /\ shadows = 0
    /\ heard = [m \in Models |-> [all |-> 0, bad |-> 0]]

-----------------------------------------------------------------------------
(* The bandit.                                                             *)

failureRewardThreshold == 70

CountsAsSuccessAbove(reward) == reward > failureRewardThreshold

CountsAsSuccess(reward) == reward >= failureRewardThreshold

\* cooldownBase * 2^exp, at most cooldownMax.
Backoff(fails) ==
    LET exp == IF fails - cooldownFailureStreak > 10 THEN 10
               ELSE fails - cooldownFailureStreak
    IN  IF 2 ^ exp > cooldownMax THEN cooldownMax ELSE 2 ^ exp

recordOutcome(a, reward) ==
    IF CountsAsSuccess(reward) THEN [a EXCEPT !.fails = 0, !.cool = 0]
    ELSE [a EXCEPT !.fails = a.fails + 1,
                   !.cool = IF a.fails + 1 < cooldownFailureStreak THEN a.cool
                            ELSE Backoff(a.fails + 1)]

Update(m, reward) ==
    LET a == arms[m]
    IN  /\ arms' = [arms EXCEPT ![m] =
               recordOutcome([a EXCEPT !.pulls = a.pulls + 1, !.sum = a.sum + reward], reward)]
        /\ regrets' = regrets + 1

inCooldown(m) == arms[m].cool > 0

eligibleAll(cands) == cands

eligible(cands) ==
    LET out == SelectSeq(cands, LAMBDA x : ~inCooldown(x.model))
    IN  IF out = <<>> THEN cands ELSE out

GreaterMean(m, n) == arms[m].sum * arms[n].pulls > arms[n].sum * arms[m].pulls

\* The loop over the candidates: the first of the tried arms no other beats,
\* and the first candidate when none was tried.
Greedy(cands) ==
    LET tried == {i \in DOMAIN cands : arms[cands[i].model].pulls > 0}
        best  == {i \in tried : \A j \in tried :
                     /\ ~GreaterMean(cands[j].model, cands[i].model)
                     /\ j < i => GreaterMean(cands[i].model, cands[j].model)}
    IN  cands[IF tried = {} THEN 1 ELSE CHOOSE i \in best : TRUE].model

Picks(cands, explore) ==
    LET el == eligible(cands)
    IN  IF explore THEN {el[i].model : i \in DOMAIN el} ELSE {Greedy(el)}

-----------------------------------------------------------------------------
(* A request.  Decide scores what the filter leaves and lets the bandit    *)
(* pick; an explicit catalog model gets a chain to escalate through.  The  *)
(* calls are made one after the other (a call on its way holds nothing the *)
(* other actions read); their events, ratings and shadows overlap freely.  *)

Scored(filtered, hint) ==
    [i \in DOMAIN filtered |->
        [model |-> filtered[i].id,
         score |-> Score(filtered[i], hint, perf[filtered[i].id, intentFromHint(hint)])]]

ModelsOf(cands) == [i \in DOMAIN cands |-> cands[i].model]

Called(r, primary, chain) ==
    [phase |-> "called", req |-> r, model |-> primary, chain |-> ModelsOf(chain)]

Refused == [phase |-> "refused"]

Decide(r, allowed, explore) ==
    LET cands == Ranked(Scored(Filter(availableCatalog, r.hint, allowed), r.hint))
    IN  IF cands = <<>> THEN {Refused}
        ELSE {Called(r, m, BuildFallbackChain(cands, m, 2)) : m \in Picks(cands, explore)}

Explicit(r) ==
    IF Resolves(r.model)
    THEN {Called(r, r.model, FallbackChainFor(r.model, r.hint))}
    ELSE {Refused}

Ask(i, r) ==
    /\ calls[i].phase = "none"
    /\ \A j \in 1 .. (i - 1) : calls[j].phase \in {"answered", "refused"}
    /\ \E allowed \in AllowedSets, explore \in BOOLEAN :
       \E c \in IF r.model = "auto" THEN Decide(r, allowed, explore) ELSE Explicit(r) :
           calls' = [calls EXCEPT ![i] = c]
    /\ UNCHANGED <<arms, regrets, perf, index, queue, loop, ratings, shadows, heard>>

\* The model an event names: the candidate that answered, or the last tried.
UsedModelPrimary(c, w) == c.model

UsedModel(c, w) == w

\* The provider call, by any resolvable candidate of the walk, and the event.
\* Only a named answer (not streamed, not failed) carries an ID.
Answer(i, w, o) ==
    LET c == calls[i]
    IN  /\ c.phase = "called"
        /\ w = c.model \/ \E j \in DOMAIN c.chain : c.chain[j] = w /\ Resolves(w)
        /\ calls' = [calls EXCEPT ![i] =
               [phase |-> "answered", auto |-> c.req.model = "auto", model |-> c.model,
                winner |-> w, ok |-> o.ok, useCase |-> c.req.useCase]]
        /\ queue' = Publish(queue,
               [id |-> IF o.named THEN i ELSE 0, call |-> i, model |-> UsedModel(c, w),
                auto |-> c.req.model = "auto", useCase |-> c.req.useCase,
                ok |-> o.ok, ms |-> o.ms, finish |-> o.finish, shadow |-> FALSE])
        /\ UNCHANGED <<arms, regrets, perf, index, loop, ratings, shadows,
                       heard>>

-----------------------------------------------------------------------------
(* The performance store and the rewards.                                  *)

RingIndex(e) == (e.head % Window) + 1

Upsert(m, intent, ok, ms) ==
    LET e == perf[m, intent]
        n == IF e.n < Window THEN e.n + 1 ELSE e.n
        ring == [e.ring EXCEPT ![RingIndex(e)] = ok]
    IN  perf' = [perf EXCEPT ![<<m, intent>>] =
               [count |-> e.count + 1,
                p50   |-> IF e.count = 0 THEN ms ELSE (ms + 9 * e.p50) \div 10,
                n     |-> n,
                successes |-> Cardinality({j \in 1 .. n : ring[j]}),
                ring  |-> ring, head |-> e.head + 1]]

QualityFromFinishReason(finish) ==
    CASE finish = "stop" -> 10 [] finish = "content_filter" -> 0 [] finish = "none" -> 0

Reward(ok, ms, finish) ==
    (IF ok THEN 70 ELSE 0) + (IF ms < 2000 THEN 30 ELSE 0) + QualityFromFinishReason(finish)

Heard(m, good) ==
    heard' = [heard EXCEPT ![m] = [all |-> @.all + 1, bad |-> IF good THEN 0 ELSE @.bad + 1]]

\* The bus takes the next event and calls its subscribers one after the other.
TelemetryOnEvent ==
    /\ loop = <<>> /\ queue # <<>>
    /\ LET ev == Head(queue)
       IN  /\ Upsert(ev.model, ev.useCase, ev.ok, ev.ms)
           /\ loop' = <<ev, "bandit">>
    /\ queue' = Tail(queue)
    /\ UNCHANGED <<arms, regrets, index, calls, ratings, shadows, heard>>

Trains(ev) == ev.auto /\ ~ev.shadow

BanditOnEvent ==
    /\ loop # <<>> /\ loop[2] = "bandit"
    /\ LET ev == loop[1]
           c  == calls[ev.call]
       IN  /\ IF Trains(ev) THEN Update(ev.model, Reward(ev.ok, ev.ms, ev.finish))
              ELSE UNCHANGED <<arms, regrets>>
           /\ IF c.auto /\ ~ev.shadow THEN Heard(c.winner, c.ok) ELSE UNCHANGED heard
    /\ loop' = <<loop[1], "feedback">>
    /\ UNCHANGED <<perf, index, queue, calls, ratings, shadows>>

Roomy(S) == IF Cardinality(S) >= MaxSize THEN {S \ {x} : x \in S} ELSE {S}

FeedbackOnEvent ==
    /\ loop # <<>> /\ loop[2] = "feedback"
    /\ LET ev == loop[1]
       IN  IF ev.shadow \/ ev.id = 0 THEN UNCHANGED index
           ELSE \E keep \in Roomy(DOMAIN index) :
                  index' = [i \in keep \cup {ev.id} |->
                      IF i = ev.id THEN [model |-> ev.model, auto |-> ev.auto, fresh |-> TRUE]
                      ELSE index[i]]
    /\ loop' = <<>>
    /\ UNCHANGED <<arms, regrets, perf, queue, calls, ratings, shadows, heard>>

\* The background call of runShadow: its event, then Orchestrator.Record,
\* which stores the sample under the empty intent and trains the bandit.
Shadow(i, m, o) ==
    LET c == calls[i]
    IN  /\ c.phase = "answered" /\ m # c.model /\ shadows < MaxShadows
        /\ shadows' = shadows + 1
        /\ queue' = Publish(queue,
               [id |-> IF o.named THEN i ELSE 0, call |-> i, model |-> m, auto |-> FALSE,
                useCase |-> c.useCase, ok |-> o.ok, ms |-> o.ms, finish |-> o.finish,
                shadow |-> TRUE])
        /\ Upsert(m, "", o.ok, o.ms)
        /\ Update(m, Reward(o.ok, o.ms, o.finish))
        /\ Heard(m, o.ok)
        /\ UNCHANGED <<index, loop, calls, ratings>>

\* POST /v1/feedback.  Nothing remembers that a call was rated already.
Rate(i, positive) ==
    /\ ratings < MaxRatings /\ calls[i].phase = "answered"
    /\ ratings' = ratings + 1
    /\ IF i \in DOMAIN index /\ index[i].fresh
       THEN /\ IF index[i].auto
               THEN Update(index[i].model, IF positive THEN 100 ELSE 0)
               ELSE UNCHANGED <<arms, regrets>>
            /\ IF calls[i].auto THEN Heard(calls[i].winner, positive) ELSE UNCHANGED heard
            /\ UNCHANGED index
       ELSE /\ index' = [j \in DOMAIN index \ {i} |-> index[j]]
            /\ UNCHANGED <<arms, regrets, heard>>
    /\ UNCHANGED <<perf, queue, loop, calls, shadows>>

\* The time to live of an entry ends.
Expire(i) ==
    /\ i \in DOMAIN index /\ index[i].fresh
    /\ index' = [index EXCEPT ![i].fresh = FALSE]
    /\ UNCHANGED <<arms, regrets, perf, queue, loop, calls, ratings, shadows,
                   heard>>

\* One cooldownBase of time goes by.
Tick ==
    /\ \E m \in Models : inCooldown(m)
    /\ arms' = [m \in Models |-> [arms[m] EXCEPT !.cool = IF @ > 0 THEN @ - 1 ELSE 0]]
    /\ UNCHANGED <<regrets, perf, index, queue, loop, calls, ratings, shadows,
                   heard>>

Dispatch == TelemetryOnEvent \/ BanditOnEvent \/ FeedbackOnEvent

Next ==
    \/ \E i \in Call : \E r \in Requests : Ask(i, r)
    \/ \E i \in Call, w \in Models, o \in Outcomes : Answer(i, w, o) \/ Shadow(i, w, o)
    \/ \E i \in Call : Expire(i) \/ \E p \in BOOLEAN : Rate(i, p)
    \/ Dispatch
    \/ Tick

Spec == Init /\ [][Next]_vars

-----------------------------------------------------------------------------
\* Arms, statistics and events have their types; the feedback index keeps to its
\* size (feedback Record) and a key's successes to its window (modelperf Upsert).
TypeOK ==
    /\ \A m \in Models : arms[m] \in [pulls : Nat, sum : Nat, fails : Nat, cool : 0 .. cooldownMax]
    /\ regrets \in Nat
    /\ \A k \in Keys : perf[k].n \in 0 .. Window /\ perf[k].successes \in 0 .. perf[k].n
    /\ DOMAIN index \subseteq Call /\ Cardinality(DOMAIN index) <= MaxSize
    /\ queue \in Seq(Reported) /\ Len(queue) <= BufSize
    /\ loop = <<>> \/ loop[2] \in {"bandit", "feedback"}
    /\ ratings \in 0 .. MaxRatings /\ shadows \in 0 .. MaxShadows

\* An arm cools down only for a streak: the latest outcomes of its model were
\* at least cooldownFailureStreak failures or negative ratings in a row, and the
\* cooldown is no longer than the doubling backoff of that streak (bandit.go
\* recordOutcome).  In particular a slow or filtered success, whose reward is
\* failureRewardThreshold itself, never counts as a failure.
CooldownEarned ==
    \A m \in Models :
        /\ arms[m].fails = heard[m].bad
        /\ inCooldown(m) => /\ heard[m].bad >= cooldownFailureStreak
                            /\ arms[m].cool <= 2 ^ (heard[m].bad - cooldownFailureStreak)

\* Every outcome is credited once, to the model that produced it: an arm has as
\* many pulls as there were automatic calls its model really answered, shadow
\* calls to it and ratings of its answers, whichever candidate was the primary
\* (chat.go usedModel, banditreward, feedback).  Explicit calls move no arm,
\* rated or not.
CreditsTheAnswerer == \A m \in Models : arms[m].pulls = heard[m].all

Candidates(c) == {c.model} \cup {c.chain[j] : j \in DOMAIN c.chain}

Decided(i) ==
    /\ calls[i].phase = "none" /\ calls'[i].phase = "called"
    /\ calls'[i].req.model = "auto"

\* A decision keeps to what it may use: its model and its fallbacks resolve to
\* configured providers and are within the cost cap, the model is not its own
\* fallback, and one that is cooling down is picked only when all of them are
\* (engine.go Decide, bandit.go eligible, ixr.go availableCatalog).
DecisionSound ==
    [][\A i \in Call : Decided(i) =>
          LET c == calls'[i]
          IN  /\ \A x \in Candidates(c) : Resolves(x) /\ (c.req.hint.cap > 0 =>
                        blendedCost(Card(x), c.req.hint) <= c.req.hint.cap)
              /\ \A j \in DOMAIN c.chain : c.chain[j] # c.model
              /\ inCooldown(c.model) => \A x \in Candidates(c) : inCooldown(x)]_vars
=============================================================================
