--------------------------- MODULE Learning_proofs ---------------------------
(***************************************************************************)
(* What is proved of Learning for every set of providers, requests and     *)
(* outcomes, every capacity of the bus and every size of the index.        *)
(***************************************************************************)
EXTENDS Learning, TLAPS

Arm == [pulls : Nat, sum : Nat, fails : Int, cool : Int]
Ear == [all : Nat, bad : Nat]
Rated == [model : Models, auto : BOOLEAN, fresh : BOOLEAN]

\* What is on the bus or in the index about a call is true of the call.
TrueOf(ev, cs) ==
    /\ ~ev.shadow => /\ cs[ev.call].phase = "answered"
                     /\ cs[ev.call].winner = ev.model
                     /\ cs[ev.call].auto = ev.auto
    /\ ev.id # 0 => ev.id = ev.call

CallsTyped ==
    /\ DOMAIN calls = Call
    /\ \A i \in Call :
          /\ calls[i].phase = "called" => calls[i].req.useCase \in Intents
          /\ calls[i].phase = "answered" =>
                /\ calls[i].winner \in Models /\ calls[i].auto \in BOOLEAN
                /\ calls[i].useCase \in Intents

BusTrue ==
    /\ queue \in Seq(Reported)
    /\ \A k \in DOMAIN queue : TrueOf(queue[k], calls)
    /\ loop # <<>> => loop \in Reported \X {"bandit", "feedback"} /\ TrueOf(loop[1], calls)

IndexTrue ==
    /\ index \in [DOMAIN index -> Rated] /\ DOMAIN index \subseteq Call
    /\ \A i \in DOMAIN index :
          /\ calls[i].phase = "answered"
          /\ index[i].model = calls[i].winner /\ index[i].auto = calls[i].auto

\* The fields of an arm that an outcome moves.
LEMMA PullsMove ==
    ASSUME NEW a \in Arm, NEW n \in Nat, NEW s \in Nat
    PROVE  /\ [a EXCEPT !.pulls = n, !.sum = s] \in Arm
           /\ [a EXCEPT !.pulls = n, !.sum = s].pulls = n
BY Zenon DEF Arm

\* The fields recordOutcome moves.
LEMMA FailsMove ==
    ASSUME NEW a \in Arm, NEW n \in Int, NEW c \in Int
    PROVE  /\ [a EXCEPT !.fails = n, !.cool = c] \in Arm
           /\ [a EXCEPT !.fails = n, !.cool = c].pulls = a.pulls
BY Zenon DEF Arm

\* From the streak on, the backoff is a number.
LEMMA BackoffType ==
    ASSUME NEW n \in Int, n >= cooldownFailureStreak
    PROVE  Backoff(n) \in Int
<1> DEFINE exp == IF n - cooldownFailureStreak > 10 THEN 10 ELSE n - cooldownFailureStreak
<1>1. exp \in Nat
  BY LearningAssumption
<1>2. Backoff(n) = IF 2 ^ exp > cooldownMax THEN cooldownMax ELSE 2 ^ exp
  BY DEF Backoff
<1> HIDE DEF exp
<1>3. QED BY <1>1, <1>2, LearningAssumption

\* One outcome is one pull of the arm.
LEMMA OutcomePulls ==
    ASSUME NEW a \in Arm, NEW r \in Nat
    PROVE  /\ recordOutcome([a EXCEPT !.pulls = a.pulls + 1, !.sum = a.sum + r], r) \in Arm
           /\ recordOutcome([a EXCEPT !.pulls = a.pulls + 1, !.sum = a.sum + r], r).pulls = a.pulls + 1
<1>1. a.pulls + 1 \in Nat /\ a.sum + r \in Nat
  BY DEF Arm
<1>2. PICK b : b = [a EXCEPT !.pulls = a.pulls + 1, !.sum = a.sum + r]
  BY Zenon
<1>3. b \in Arm /\ b.pulls = a.pulls + 1
  BY <1>1, <1>2, PullsMove, Zenon
<1>4. b.fails + 1 \in Int /\ b.cool \in Int
  BY <1>3 DEF Arm
<1>5. b.fails + 1 >= cooldownFailureStreak => Backoff(b.fails + 1) \in Int
  BY <1>4, BackoffType
<1>6. PICK c \in Int :
        c = IF b.fails + 1 < cooldownFailureStreak THEN b.cool ELSE Backoff(b.fails + 1)
  BY <1>4, <1>5, LearningAssumption
<1>7. recordOutcome(b, r) = IF CountsAsSuccess(r) THEN [b EXCEPT !.fails = 0, !.cool = 0]
                            ELSE [b EXCEPT !.fails = b.fails + 1, !.cool = c]
  BY <1>3, <1>6, Zenon DEF recordOutcome, Arm
<1>8. 0 \in Int
  OBVIOUS
<1>9. recordOutcome(b, r) \in Arm /\ recordOutcome(b, r).pulls = b.pulls
  <2>1. CASE CountsAsSuccess(r)
    <3>1. /\ [b EXCEPT !.fails = 0, !.cool = 0] \in Arm
          /\ [b EXCEPT !.fails = 0, !.cool = 0].pulls = b.pulls
      BY <1>3, <1>8, FailsMove, Zenon
    <3>2. recordOutcome(b, r) = [b EXCEPT !.fails = 0, !.cool = 0]
      BY <1>7, <2>1, Zenon
    <3>3. QED BY <3>1, <3>2, Zenon
  <2>2. CASE ~CountsAsSuccess(r)
    <3>1. PICK f \in Int : f = b.fails + 1
      BY <1>4, Zenon
    <3>2. /\ [b EXCEPT !.fails = f, !.cool = c] \in Arm
          /\ [b EXCEPT !.fails = f, !.cool = c].pulls = b.pulls
      BY <1>3, FailsMove, Zenon
    <3>3. recordOutcome(b, r) = [b EXCEPT !.fails = f, !.cool = c]
      BY <1>7, <2>2, <3>1, Zenon
    <3>4. QED BY <3>2, <3>3, Zenon
  <2>3. QED BY <2>1, <2>2
<1>10. QED BY <1>2, <1>3, <1>9, Zenon

\* An entry of the feedback index.
LEMMA RatedType ==
    ASSUME NEW m \in Models, NEW a \in BOOLEAN
    PROVE  /\ [model |-> m, auto |-> a, fresh |-> TRUE] \in Rated
           /\ [model |-> m, auto |-> a, fresh |-> TRUE].model = m
           /\ [model |-> m, auto |-> a, fresh |-> TRUE].auto = a
BY Zenon DEF Rated

\* A reward of a call is a number.
LEMMA RewardType ==
    ASSUME NEW ok \in BOOLEAN, NEW ms \in Nat,
           NEW finish \in {"stop", "content_filter", "none"}
    PROVE  Reward(ok, ms, finish) \in Nat
BY DEF Reward, QualityFromFinishReason

\* Time passes for an arm.
LEMMA CoolPulls ==
    ASSUME NEW a \in Arm, NEW c \in Int
    PROVE  [a EXCEPT !.cool = c] \in Arm /\ [a EXCEPT !.cool = c].pulls = a.pulls
BY Zenon DEF Arm

Tallies ==
    arms \in [Models -> Arm] /\ heard \in [Models -> Ear] /\ CreditsTheAnswerer

\* An outcome that trains the arm of the model it is heard of keeps the tallies.
LEMMA TrainedAndHeard ==
    ASSUME NEW m \in Models, NEW r \in Nat, NEW good, Tallies, Update(m, r), Heard(m, good)
    PROVE  Tallies'
<1>1. /\ arms \in [Models -> Arm] /\ heard \in [Models -> Ear]
      /\ \A x \in Models : arms[x].pulls = heard[x].all
  BY DEF Tallies, CreditsTheAnswerer
<1>2. PICK a : a = recordOutcome([arms[m] EXCEPT !.pulls = arms[m].pulls + 1,
                                                 !.sum = arms[m].sum + r], r)
  BY Zenon
<1>3. arms[m] \in Arm
  BY <1>1
<1>4. a \in Arm /\ a.pulls = arms[m].pulls + 1
  BY <1>2, <1>3, OutcomePulls, Zenon
<1>5. arms' = [arms EXCEPT ![m] = a]
  BY <1>2, Zenon DEF Update
<1>6. PICK h : h = [all |-> heard[m].all + 1, bad |-> IF good THEN 0 ELSE heard[m].bad + 1]
  BY Zenon
<1>7. heard' = [heard EXCEPT ![m] = h]
  BY <1>6, Zenon DEF Heard
<1>8. heard[m].all + 1 \in Nat /\ heard[m].bad + 1 \in Nat
  BY <1>1 DEF Ear
<1>9. h \in Ear /\ h.all = heard[m].all + 1
  BY <1>6, <1>8 DEF Ear
<1>10. /\ arms' \in [Models -> Arm] /\ arms'[m] = a
       /\ \A x \in Models : x # m => arms'[x] = arms[x]
  BY <1>1, <1>4, <1>5
<1>11. /\ heard' \in [Models -> Ear] /\ heard'[m] = h
       /\ \A x \in Models : x # m => heard'[x] = heard[x]
  BY <1>1, <1>7, <1>9
<1>12. QED BY <1>1, <1>4, <1>9, <1>10, <1>11 DEF Tallies, CreditsTheAnswerer

\* What is known of a call stays known: nothing changes a call that was answered.
LEMMA StaysTrue ==
    ASSUME NEW cs, NEW ds, NEW ev \in Reported, TrueOf(ev, cs),
           \A j \in Call : cs[j].phase = "answered" => ds[j] = cs[j]
    PROVE  TrueOf(ev, ds)
<1>1. ev.call \in Call
  BY DEF Reported
<1>2. QED BY <1>1, Zenon DEF TrueOf

\* An event published to the bus.
LEMMA PublishedTrue ==
    ASSUME NEW q \in Seq(Reported), NEW ev \in Reported, NEW cs,
           \A k \in DOMAIN q : TrueOf(q[k], cs), TrueOf(ev, cs)
    PROVE  /\ Publish(q, ev) \in Seq(Reported)
           /\ \A k \in DOMAIN Publish(q, ev) : TrueOf(Publish(q, ev)[k], cs)
<1>1. CASE HasRoom(q)
  <2>1. Publish(q, ev) = Append(q, ev)
    BY <1>1 DEF Publish
  <2>2. /\ Append(q, ev) \in Seq(Reported) /\ DOMAIN Append(q, ev) = 1 .. Len(q) + 1
        /\ \A k \in 1 .. Len(q) + 1 : Append(q, ev)[k] = IF k = Len(q) + 1 THEN ev ELSE q[k]
        /\ \A k \in 1 .. Len(q) + 1 : k = Len(q) + 1 \/ k \in DOMAIN q
    OBVIOUS
  <2>3. QED BY <2>1, <2>2
<1>2. CASE ~HasRoom(q)
  BY <1>2 DEF Publish
<1>3. QED BY <1>1, <1>2

\* The event the loop takes, and those left.
LEMMA TakenTrue ==
    ASSUME NEW q \in Seq(Reported), q # <<>>, NEW cs, \A k \in DOMAIN q : TrueOf(q[k], cs)
    PROVE  /\ Head(q) \in Reported /\ TrueOf(Head(q), cs)
           /\ Tail(q) \in Seq(Reported)
           /\ \A k \in DOMAIN Tail(q) : TrueOf(Tail(q)[k], cs)
<1>1. Head(q) \in Reported /\ Head(q) = q[1] /\ 1 \in DOMAIN q /\ Tail(q) \in Seq(Reported)
  OBVIOUS
<1>2. \A k \in DOMAIN Tail(q) : Tail(q)[k] = q[k + 1] /\ k + 1 \in DOMAIN q
  OBVIOUS
<1>3. QED BY <1>1, <1>2

\* A request is decided on or refused, not answered.
LEMMA AskedType ==
    ASSUME NEW r \in Requests, NEW allowed, NEW explore,
           NEW c \in IF r.model = "auto" THEN Decide(r, allowed, explore) ELSE Explicit(r)
    PROVE  /\ c.phase \in {"called", "refused"}
           /\ c.phase = "called" => c.req = r
<1>1. c = Refused \/ \E m, ch : c = [phase |-> "called", req |-> r, model |-> m, chain |-> ch]
  BY Zenon DEF Decide, Explicit, Called
<1>2. CASE c = Refused
  BY <1>2 DEF Refused
<1>3. ASSUME NEW m, NEW ch,
             c = [phase |-> "called", req |-> r, model |-> m, chain |-> ch]
      PROVE  c.phase = "called" /\ c.req = r
  BY <1>3
<1>4. QED BY <1>1, <1>2, <1>3

\* The bus, when a step leaves it and every answered call alone.
LEMMA BusKept ==
    ASSUME BusTrue, UNCHANGED <<queue, loop>>,
           \A j \in Call : calls[j].phase = "answered" => calls'[j] = calls[j]
    PROVE  BusTrue'
<1>1. \A k \in DOMAIN queue : queue[k] \in Reported
  BY DEF BusTrue
<1>2. \A k \in DOMAIN queue : TrueOf(queue[k], calls')
  BY <1>1, StaysTrue DEF BusTrue
<1>3. loop # <<>> => loop[1] \in Reported /\ TrueOf(loop[1], calls)
  BY DEF BusTrue
<1>4. loop # <<>> => TrueOf(loop[1], calls')
  BY <1>3, StaysTrue
<1>5. QED BY <1>2, <1>4 DEF BusTrue

\* The index, likewise.
LEMMA IndexKept ==
    ASSUME IndexTrue, UNCHANGED index,
           \A j \in Call : calls[j].phase = "answered" => calls'[j] = calls[j]
    PROVE  IndexTrue'
BY Zenon DEF IndexTrue

\* Learning gives credit where it is due (usedModel in chat.go, banditreward,
\* feedback, runShadow): however events, shadow calls, ratings, evictions and expiries
\* interleave, an arm has one pull for every outcome of its own model, and none else.
\* The bus and the index carry only what is true of a call that was answered, and
\* nothing changes such a call.
THEOREM CreditIsDue == Spec => []CreditsTheAnswerer
<1> DEFINE Inv == Tallies /\ CallsTyped /\ BusTrue /\ IndexTrue
<1>1. Init => Inv
  <2> SUFFICES ASSUME Init PROVE Inv
    OBVIOUS
  <2>1. Tallies
    BY DEF Init, Tallies, CreditsTheAnswerer, Arm, Ear
  <2>2. CallsTyped
    BY DEF Init, CallsTyped, Idle
  <2>3. BusTrue
    BY DEF Init, BusTrue
  <2>4. IndexTrue
    BY DEF Init, IndexTrue
  <2>5. QED BY <2>1, <2>2, <2>3, <2>4
<1>2. Inv /\ [Next]_vars => Inv'
  <2> SUFFICES ASSUME Tallies, CallsTyped, BusTrue, IndexTrue, [Next]_vars PROVE Inv'
    OBVIOUS
  <2> USE LearningAssumption
  <2>1. ASSUME UNCHANGED <<arms, heard>> PROVE Tallies'
    BY <2>1 DEF Tallies, CreditsTheAnswerer
  <2>2. ASSUME UNCHANGED calls
        PROVE  /\ CallsTyped'
               /\ \A j \in Call : calls[j].phase = "answered" => calls'[j] = calls[j]
    BY <2>2 DEF CallsTyped
  <2>3. ASSUME NEW i \in Call, NEW r \in Requests, Ask(i, r) PROVE Inv'
    <3>1. PICK c : /\ calls' = [calls EXCEPT ![i] = c] /\ c.phase \in {"called", "refused"}
                   /\ c.phase = "called" => c.req = r
      <4>1. PICK allowed \in AllowedSets, explore \in BOOLEAN :
              \E c \in IF r.model = "auto" THEN Decide(r, allowed, explore) ELSE Explicit(r) :
                  calls' = [calls EXCEPT ![i] = c]
        BY <2>3, Zenon DEF Ask
      <4>2. PICK c \in IF r.model = "auto" THEN Decide(r, allowed, explore) ELSE Explicit(r) :
                  calls' = [calls EXCEPT ![i] = c]
        BY <4>1, Zenon
      <4>3. c.phase \in {"called", "refused"} /\ (c.phase = "called" => c.req = r)
        BY <4>2, AskedType, Zenon
      <4>4. QED BY <4>2, <4>3, Zenon
    <3>2. calls[i].phase = "none"
      BY <2>3 DEF Ask
    <3>3. /\ DOMAIN calls' = Call /\ calls'[i] = c
          /\ \A j \in Call : j # i => calls'[j] = calls[j]
      BY <3>1 DEF CallsTyped
    <3>4. CallsTyped'
      BY <3>1, <3>3 DEF CallsTyped
    <3>5. \A j \in Call : calls[j].phase = "answered" => calls'[j] = calls[j]
      BY <3>2, <3>3
    <3>6. QED BY <2>1, <2>3, <3>4, <3>5, BusKept, IndexKept DEF Ask
  <2>4. ASSUME NEW i \in Call, NEW w \in Models, NEW o \in Outcomes, Answer(i, w, o) PROVE Inv'
    <3>1. PICK auto \in BOOLEAN : auto = (calls[i].req.model = "auto")
      OBVIOUS
    <3>2. PICK u \in Intents : u = calls[i].req.useCase /\ calls[i].phase = "called"
      BY <2>4 DEF Answer, CallsTyped
    <3>3. PICK id \in 0 .. MaxCalls : id = (IF o.named THEN i ELSE 0)
      BY DEF Call
    <3>4. PICK c : c = [phase |-> "answered", auto |-> auto, model |-> calls[i].model,
                        winner |-> w, ok |-> o.ok, useCase |-> u]
      OBVIOUS
    <3>5. PICK ev : ev = [id |-> id, call |-> i, model |-> w, auto |-> auto, useCase |-> u,
                          ok |-> o.ok, ms |-> o.ms, finish |-> o.finish, shadow |-> FALSE]
      OBVIOUS
    <3>6. calls' = [calls EXCEPT ![i] = c] /\ queue' = Publish(queue, ev)
      BY <2>4, <3>1, <3>2, <3>3, <3>4, <3>5, Zenon DEF Answer, UsedModel
    <3>7. ev \in Reported
      BY <3>5 DEF Reported
    <3>8. /\ DOMAIN calls' = Call /\ calls'[i] = c
          /\ \A j \in Call : j # i => calls'[j] = calls[j]
      BY <3>6 DEF CallsTyped
    <3>9. CallsTyped'
      BY <3>4, <3>8 DEF CallsTyped
    <3>10. \A j \in Call : calls[j].phase = "answered" => calls'[j] = calls[j]
      BY <3>2, <3>8
    <3>11. TrueOf(ev, calls')
      BY <3>3, <3>4, <3>5, <3>8 DEF TrueOf
    <3>12. BusTrue'
      <4>1. \A k \in DOMAIN queue : queue[k] \in Reported /\ TrueOf(queue[k], calls')
        BY <3>10, StaysTrue DEF BusTrue
      <4>2. loop # <<>> => loop[1] \in Reported /\ TrueOf(loop[1], calls')
        BY <3>10, StaysTrue DEF BusTrue
      <4>3. queue \in Seq(Reported)
        BY DEF BusTrue
      <4>4. /\ queue' \in Seq(Reported)
            /\ \A k \in DOMAIN queue' : TrueOf(queue'[k], calls')
        BY <3>6, <3>7, <3>11, <4>1, <4>3, PublishedTrue
      <4>5. QED BY <2>4, <4>2, <4>4 DEF Answer, BusTrue
    <3>13. QED BY <2>1, <2>4, <3>9, <3>10, <3>12, IndexKept DEF Answer
  <2>5. ASSUME NEW i \in Call, NEW m \in Models, NEW o \in Outcomes, Shadow(i, m, o) PROVE Inv'
    <3>1. PICK u \in Intents : u = calls[i].useCase
      BY <2>5 DEF Shadow, CallsTyped
    <3>2. PICK id \in 0 .. MaxCalls : id = (IF o.named THEN i ELSE 0)
      BY DEF Call
    <3>3. PICK ev : ev = [id |-> id, call |-> i, model |-> m, auto |-> FALSE, useCase |-> u,
                          ok |-> o.ok, ms |-> o.ms, finish |-> o.finish, shadow |-> TRUE]
      OBVIOUS
    <3>4. queue' = Publish(queue, ev) /\ UNCHANGED <<index, loop, calls>>
      BY <2>5, <3>1, <3>2, <3>3, Zenon DEF Shadow
    <3>5. ev \in Reported /\ TrueOf(ev, calls)
      BY <3>2, <3>3 DEF Reported, TrueOf
    <3>6. BusTrue'
      <4>1. queue \in Seq(Reported) /\ \A k \in DOMAIN queue : TrueOf(queue[k], calls)
        BY DEF BusTrue
      <4>2. /\ queue' \in Seq(Reported)
            /\ \A k \in DOMAIN queue' : TrueOf(queue'[k], calls)
        BY <3>4, <3>5, <4>1, PublishedTrue
      <4>3. QED BY <3>4, <4>2 DEF BusTrue
    <3>7. Tallies'
      <4>1. PICK reward \in Nat : reward = Reward(o.ok, o.ms, o.finish)
        BY RewardType
      <4>2. Update(m, reward) /\ Heard(m, o.ok)
        BY <2>5, <4>1 DEF Shadow
      <4>3. QED BY <4>2, TrainedAndHeard
    <3>8. QED BY <2>2, <3>4, <3>6, <3>7, IndexKept
  <2>6. ASSUME NEW i \in Call, Expire(i) PROVE Inv'
    <3>1. index' = [index EXCEPT ![i] = [index[i] EXCEPT !.fresh = FALSE]] /\ i \in DOMAIN index
      BY <2>6 DEF Expire
    <3>2. /\ [index[i] EXCEPT !.fresh = FALSE] \in Rated
          /\ [index[i] EXCEPT !.fresh = FALSE].model = index[i].model
          /\ [index[i] EXCEPT !.fresh = FALSE].auto = index[i].auto
      BY <3>1, Zenon DEF IndexTrue, Rated
    <3>3. IndexTrue'
      BY <2>6, <3>1, <3>2 DEF Expire, IndexTrue
    <3>4. QED BY <2>1, <2>2, <2>6, <3>3, BusKept DEF Expire
  <2>7. ASSUME NEW i \in Call, NEW p \in BOOLEAN, Rate(i, p) PROVE Inv'
    <3>1. UNCHANGED <<queue, loop, calls>>
      BY <2>7 DEF Rate
    <3>2. CASE i \in DOMAIN index /\ index[i].fresh
      <4>1. UNCHANGED index
        BY <2>7, <3>2 DEF Rate
      <4>2. index[i].model = calls[i].winner /\ index[i].auto = calls[i].auto
        BY <3>2 DEF IndexTrue
      <4>3. PICK m \in Models : m = calls[i].winner
        BY <3>2 DEF IndexTrue, CallsTyped
      <4>4. Tallies'
        <5>1. CASE index[i].auto
          <6>1. PICK reward \in Nat : reward = IF p THEN 100 ELSE 0
            OBVIOUS
          <6>2. Update(m, reward) /\ Heard(m, p)
            BY <2>7, <3>2, <4>2, <4>3, <5>1, <6>1, Zenon DEF Rate
          <6>3. QED BY <6>2, TrainedAndHeard
        <5>2. CASE ~index[i].auto
          <6>1. UNCHANGED <<arms, heard>>
            BY <2>7, <3>2, <4>2, <5>2, Zenon DEF Rate
          <6>2. QED BY <2>1, <6>1
        <5>3. QED BY <5>1, <5>2
      <4>5. QED BY <2>2, <3>1, <4>1, <4>4, BusKept, IndexKept
    <3>3. CASE ~(i \in DOMAIN index /\ index[i].fresh)
      <4>1. index' = [j \in DOMAIN index \ {i} |-> index[j]] /\ UNCHANGED <<arms, heard>>
        BY <2>7, <3>3, Zenon DEF Rate
      <4>2. IndexTrue'
        BY <3>1, <4>1 DEF IndexTrue
      <4>3. QED BY <2>1, <2>2, <3>1, <4>1, <4>2, BusKept
    <3>4. QED BY <3>2, <3>3
  <2>8. CASE TelemetryOnEvent
    <3>1. /\ queue # <<>> /\ loop' = <<Head(queue), "bandit">> /\ queue' = Tail(queue)
          /\ UNCHANGED <<arms, index, calls, heard>>
      BY <2>8 DEF TelemetryOnEvent
    <3>2. /\ Head(queue) \in Reported /\ TrueOf(Head(queue), calls)
          /\ Tail(queue) \in Seq(Reported)
          /\ \A k \in DOMAIN Tail(queue) : TrueOf(Tail(queue)[k], calls)
      BY <3>1, TakenTrue DEF BusTrue
    <3>3. BusTrue'
      BY <3>1, <3>2 DEF BusTrue
    <3>4. QED BY <2>1, <2>2, <3>1, <3>3, IndexKept
  <2>9. CASE BanditOnEvent
    <3>1. PICK ev \in Reported :
            /\ ev = loop[1] /\ TrueOf(ev, calls) /\ loop' = <<ev, "feedback">>
      BY <2>9 DEF BanditOnEvent, BusTrue
    <3>2. UNCHANGED <<queue, index, calls>>
      BY <2>9 DEF BanditOnEvent
    <3>3. BusTrue'
      BY <3>1, <3>2 DEF BusTrue
    <3>4. /\ ev.model \in Models /\ ev.ok \in BOOLEAN /\ ev.ms \in Nat
          /\ ev.finish \in {"stop", "content_filter", "none"}
      BY DEF Reported
    <3>5. Tallies'
      <4>1. CASE ev.auto /\ ~ev.shadow
        <5>1. PICK reward \in Nat : reward = Reward(ev.ok, ev.ms, ev.finish)
          BY <3>4, RewardType
        <5>2. PICK c : c = calls[ev.call]
          OBVIOUS
        <5>3. c.auto /\ c.winner = ev.model
          BY <3>1, <4>1, <5>2, Zenon DEF TrueOf
        <5>4. Update(ev.model, reward) /\ Heard(ev.model, c.ok)
          BY <2>9, <3>1, <4>1, <5>1, <5>2, <5>3, Zenon DEF BanditOnEvent, Trains
        <5>5. QED BY <3>4, <5>4, TrainedAndHeard
      <4>2. CASE ~(ev.auto /\ ~ev.shadow)
        <5>1. ~(calls[ev.call].auto /\ ~ev.shadow)
          BY <3>1, <4>2, Zenon DEF TrueOf
        <5>2. UNCHANGED <<arms, heard>>
          BY <2>9, <3>1, <4>2, <5>1, Zenon DEF BanditOnEvent, Trains
        <5>3. QED BY <2>1, <5>2
      <4>3. QED BY <4>1, <4>2
    <3>6. QED BY <2>2, <3>2, <3>3, <3>5, IndexKept
  <2>10. CASE FeedbackOnEvent
    <3>1. PICK ev \in Reported : ev = loop[1] /\ TrueOf(ev, calls)
      BY <2>10 DEF FeedbackOnEvent, BusTrue
    <3>2. UNCHANGED <<arms, heard, queue, calls>> /\ loop' = <<>>
      BY <2>10 DEF FeedbackOnEvent
    <3>3. BusTrue'
      BY <3>2 DEF BusTrue
    <3>4. IndexTrue'
      <4>1. CASE ev.shadow \/ ev.id = 0
        BY <2>10, <3>1, <3>2, <4>1 DEF FeedbackOnEvent, IndexTrue
      <4>2. CASE ~(ev.shadow \/ ev.id = 0)
        <5>1. PICK keep \in Roomy(DOMAIN index) :
                index' = [j \in keep \cup {ev.id} |->
                            IF j = ev.id THEN [model |-> ev.model, auto |-> ev.auto, fresh |-> TRUE]
                            ELSE index[j]]
          BY <2>10, <3>1, <4>2, Zenon DEF FeedbackOnEvent
        <5>2. keep \subseteq DOMAIN index
          BY <5>1 DEF Roomy
        <5>3. /\ ev.id = ev.call /\ ev.call \in Call /\ ev.model \in Models /\ ev.auto \in BOOLEAN
              /\ calls[ev.call].phase = "answered"
              /\ ev.model = calls[ev.call].winner /\ ev.auto = calls[ev.call].auto
          BY <3>1, <4>2 DEF TrueOf, Reported
        <5>4. PICK new : /\ new = [model |-> ev.model, auto |-> ev.auto, fresh |-> TRUE]
                         /\ new \in Rated /\ new.model = ev.model /\ new.auto = ev.auto
          BY <5>3, RatedType, Zenon
        <5>5. /\ DOMAIN index' = keep \cup {ev.id} /\ index'[ev.id] = new
              /\ \A j \in keep : j # ev.id => index'[j] = index[j]
          BY <5>1, <5>4, Zenon
        <5>6. index' \in [DOMAIN index' -> Rated] /\ DOMAIN index' \subseteq Call
          BY <5>1, <5>2, <5>3, <5>4, <5>5 DEF IndexTrue
        <5>7. \A j \in DOMAIN index' :
                 /\ calls[j].phase = "answered"
                 /\ index'[j].model = calls[j].winner /\ index'[j].auto = calls[j].auto
          BY <5>2, <5>3, <5>4, <5>5, Zenon DEF IndexTrue
        <5>8. QED BY <3>2, <5>6, <5>7 DEF IndexTrue
      <4>3. QED BY <4>1, <4>2
    <3>5. QED BY <2>1, <2>2, <3>2, <3>3, <3>4
  <2>11. CASE Tick
    <3>1. UNCHANGED <<index, queue, loop, calls, heard>>
      BY <2>11 DEF Tick
    <3>2. \A m \in Models : arms'[m] \in Arm /\ arms'[m].pulls = arms[m].pulls
      <4> SUFFICES ASSUME NEW m \in Models
                   PROVE  arms'[m] \in Arm /\ arms'[m].pulls = arms[m].pulls
        OBVIOUS
      <4>1. arms[m] \in Arm
        BY DEF Tallies
      <4>2. PICK c \in Int : c = IF arms[m].cool > 0 THEN arms[m].cool - 1 ELSE 0
        BY <4>1 DEF Arm
      <4>3. arms'[m] = [arms[m] EXCEPT !.cool = c]
        BY <2>11, <4>2, Zenon DEF Tick
      <4>4. QED BY <4>1, <4>3, CoolPulls, Zenon
    <3>3. arms' \in [Models -> Arm]
      BY <2>11, <3>2, Zenon DEF Tick
    <3>4. Tallies'
      BY <3>1, <3>2, <3>3 DEF Tallies, CreditsTheAnswerer
    <3>5. QED BY <2>2, <3>1, <3>4, BusKept, IndexKept
  <2>12. CASE UNCHANGED vars
    BY <2>1, <2>2, <2>12, BusKept, IndexKept DEF vars
  <2>13. QED
    BY <2>3, <2>4, <2>5, <2>6, <2>7, <2>8, <2>9, <2>10, <2>11, <2>12 DEF Next, Dispatch
<1>3. Inv => CreditsTheAnswerer
  BY DEF Tallies
<1>4. QED BY <1>1, <1>2, <1>3, PTL DEF Spec
=============================================================================
