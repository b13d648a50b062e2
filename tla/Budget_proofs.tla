---------------------------- MODULE Budget_proofs ----------------------------
(***************************************************************************)
(* What is proved of Budget for every set of callers, every limit and cost *)
(* and any number of calls and restarts.                                   *)
(***************************************************************************)
EXTENDS Budget, TLAPS

Names == {id.tenant : id \in Callers} \cup {NoID}
Priced == [id : Callers, cost : Nat, shadow : BOOLEAN]
Notice == [id : {TenantOnly(t) : t \in Names}, cost : {0}, shadow : {FALSE}]
Work == [todo : Seq(Scopes), cost : Nat, tenant : Names, added : BOOLEAN]

\* Only an event of a call can carry a cost, so the dispatcher works on the scopes
\* of a caller.
Shape ==
    /\ spent \in [Scopes -> Nat] /\ journal \in [Scopes -> Nat]
    /\ reserved \in [Scopes -> Nat] /\ avgCost \in [Scopes -> Nat]
    /\ calls \in [Scopes -> Nat] /\ warned \in [Scopes -> BOOLEAN]
    /\ queue \in Seq(Priced \cup Notice)
    /\ disp \in Work
    /\ file \in BOOLEAN /\ stops \in Nat

\* The incremental mean of OnEvent stays an amount.
LEMMA MeanType ==
    ASSUME NEW a \in Nat, NEW c \in Nat, NEW n \in Nat
    PROVE  a + (c - a) \div (n + 1) \in Nat
<1>1. PICK k \in Int : k = n + 1 /\ k >= 1
  OBVIOUS
<1>2. PICK q \in Int : q = (c - a) \div k
  BY <1>1
<1>3. c - a < k * (q + 1)
  BY <1>1, <1>2
<1>4. ASSUME q + a < 0 PROVE FALSE
  <2>1. q + 1 <= -a
    BY <1>4
  <2>2. k * (q + 1) <= k * (-a)
    BY <1>1, <2>1
  <2>3. k * (-a) <= -a
    BY <1>1
  <2>4. QED BY <1>1, <1>3, <2>2, <2>3
<1>5. QED BY <1>1, <1>2, <1>4

\* A sequence is one over its own elements.
LEMMA OwnElements ==
    ASSUME NEW S, NEW s \in Seq(S)
    PROVE  s \in Seq(Range(s))
BY DEF Range

\* The scopes of a caller are scopes.
LEMMA ScopeKeysType ==
    ASSUME NEW id \in Callers
    PROVE  scopeKeys(id) \in Seq(Scopes)
<1> DEFINE a == <<id.tenant, id.team, id.user>>
           b == <<id.tenant, id.user>>
           c == <<id.tenant, id.team>>
           d == <<id.tenant>>
           K == {a, b, c, d}
<1>1. scopeKeys(id) = (CASE id.user = NoID -> <<>>
                         [] id.user # NoID /\ id.team # NoID -> <<a>>
                         [] OTHER -> <<b>>)
                      \o (IF id.team = NoID THEN <<>> ELSE <<c>>) \o <<d>>
  BY DEF scopeKeys
<1>2. a \in K /\ b \in K /\ c \in K /\ d \in K
  OBVIOUS
<1> HIDE DEF a, b, c, d, K
<1>3. scopeKeys(id) \in Seq(K)
  BY <1>1, <1>2
<1>4. scopeKeys(id) \in Seq(Range(scopeKeys(id)))
  BY <1>3, OwnElements
<1>5. Range(scopeKeys(id)) \subseteq Scopes
  BY DEF Scopes
<1> HIDE DEF scopeKeys
<1>6. QED BY <1>4, <1>5

\* Publish appends an event or loses it.
LEMMA PublishType ==
    ASSUME NEW S, NEW q \in Seq(S), NEW ev \in S
    PROVE  Publish(q, ev) \in Seq(S)
BY DEF Publish

\* The dispatcher has counted a scope, and goes on to the next one.
LEMMA WorkAdded ==
    ASSUME NEW w \in Work
    PROVE  /\ [w EXCEPT !.added = TRUE] \in Work
           /\ [w EXCEPT !.added = TRUE].added = TRUE
           /\ [w EXCEPT !.added = TRUE].todo = w.todo
           /\ [w EXCEPT !.added = TRUE].cost = w.cost
BY Zenon DEF Work

\* One scope is done.
LEMMA WorkMoves ==
    ASSUME NEW w \in Work, NEW s \in Seq(Scopes)
    PROVE  /\ [w EXCEPT !.todo = s, !.added = FALSE] \in Work
           /\ [w EXCEPT !.todo = s, !.added = FALSE].added = FALSE
           /\ [w EXCEPT !.todo = s, !.added = FALSE].todo = s
BY Zenon DEF Work

\* What is left to do of an event is about scopes.
LEMMA WorkType ==
    ASSUME NEW w \in Work, w.todo # <<>>
    PROVE  /\ Head(w.todo) \in Scopes /\ Tail(w.todo) \in Seq(Scopes)
           /\ w.cost \in Nat /\ w.tenant \in Names
BY DEF Work

\* Between two events nothing is left to do.
LEMMA IdleIsWork == Idle \in Work /\ Idle.added = FALSE /\ Idle.todo = <<>> /\ Idle.cost = 0
BY DEF Idle, Work, Names

\* The head of the bus's queue.
LEMMA HeadEvent ==
    ASSUME Shape, queue # <<>>
    PROVE  /\ Head(queue) \in Priced \cup Notice /\ Tail(queue) \in Seq(Priced \cup Notice)
           /\ Head(queue).cost \in Nat
           /\ Head(queue).cost > 0 => Head(queue).id \in Callers
<1>1. Head(queue) \in Priced \cup Notice /\ Tail(queue) \in Seq(Priced \cup Notice)
  BY DEF Shape
<1>2. \A ev \in Priced : ev.cost \in Nat /\ ev.id \in Callers
  BY DEF Priced
<1>3. \A ev \in Notice : ev.cost = 0
  BY DEF Notice
<1>4. QED BY <1>1, <1>2, <1>3

\* What the plugin's maps, its journal and the bus hold keeps its shape.
THEOREM ShapeKept == Spec => []Shape
<1>1. Init => Shape
  <2> SUFFICES ASSUME Init PROVE Shape
    OBVIOUS
  <2>1. Zero \in [Scopes -> Nat]
    BY DEF Zero
  <2>2. queue \in Seq(Priced \cup Notice)
    BY DEF Init
  <2>3. QED BY <2>1, <2>2, IdleIsWork DEF Init, Shape
<1>2. Shape /\ [Next]_vars => Shape'
  <2> SUFFICES ASSUME Shape, [Next]_vars PROVE Shape'
    OBVIOUS
  <2>1. ASSUME NEW id \in Callers, Admit(id) PROVE Shape'
    <3>1. reserved' \in [Scopes -> Nat]
      <4>1. \A s \in Scopes : reserved[s] + (IF s \in Limited(id) THEN avgCost[s] ELSE 0) \in Nat
        <5>1. \A s \in Scopes : reserved[s] \in Nat /\ avgCost[s] \in Nat
          BY DEF Shape
        <5>2. QED BY <5>1
      <4>2. reserved' = [s \in Scopes |->
                           reserved[s] + IF s \in Limited(id) THEN avgCost[s] ELSE 0]
        BY <2>1 DEF Admit
      <4>3. QED BY <4>1, <4>2
    <3>2. QED BY <2>1, <3>1 DEF Admit, Shape
  <2>2. ASSUME NEW id \in Callers, Block(id) PROVE Shape'
    <3>1. Event(TenantOnly(id.tenant), 0, FALSE) \in Priced \cup Notice
      BY DEF Event, Notice, Names
    <3>2. queue' \in Seq(Priced \cup Notice)
      BY <2>2, <3>1, PublishType DEF Block, Shape
    <3>3. QED BY <2>2, <3>2 DEF Block, Shape, budgetVars
  <2>3. ASSUME NEW id \in Callers, NEW cost \in Costs \cup {0}, NEW shadow \in BOOLEAN,
               Finish(id, cost, shadow)
        PROVE  Shape'
    <3>1. Event(id, cost, FALSE) \in Priced \cup Notice
      BY AmountAssumption DEF Event, Priced
    <3>2. queue' \in Seq(Priced \cup Notice)
      BY <2>3, <3>1, PublishType DEF Finish, Shape
    <3>3. QED BY <2>3, <3>2 DEF Finish, Shape, budgetVars
  <2>4. ASSUME NEW id \in Callers, NoEvent(id) PROVE Shape'
    BY <2>4 DEF NoEvent, Shape, budgetVars
  <2>5. ASSUME NEW id \in Callers, ShadowReturns(id) PROVE Shape'
    <3>1. MaxOf(Costs) \in Nat
      BY AmountAssumption DEF MaxOf
    <3>2. Event(id, MaxOf(Costs), TRUE) \in Priced \cup Notice
      BY <3>1 DEF Event, Priced
    <3>3. queue' \in Seq(Priced \cup Notice)
      BY <2>5, <3>2, PublishType DEF ShadowReturns, Shape
    <3>4. QED BY <2>5, <3>3 DEF ShadowReturns, Shape, budgetVars
  <2>6. CASE OnEventStart
    <3>1. PICK ev \in Priced \cup Notice :
            /\ ev = Head(queue) /\ ev.cost \in Nat
            /\ ev.cost > 0 => ev.id \in Callers
      BY <2>6, HeadEvent DEF OnEventStart
    <3>2. queue' \in Seq(Priced \cup Notice)
      BY <2>6, HeadEvent DEF OnEventStart
    <3>3. reserved' \in [Scopes -> Nat]
      <4>1. \A s \in Scopes : Released(s) \in Nat
        BY DEF Released, Shape
      <4>2. QED BY <2>6, <4>1 DEF OnEventStart, Shape
    <3>4. calls' \in [Scopes -> Nat]
      <4>1. \A s \in Scopes : calls[s] + 1 \in Nat /\ calls[s] \in Nat
        BY DEF Shape
      <4>2. QED BY <2>6, <3>1, <4>1 DEF OnEventStart, Shape
    <3>5. avgCost' \in [Scopes -> Nat]
      <4>1. \A s \in Scopes : avgCost[s] + (ev.cost - avgCost[s]) \div (calls[s] + 1) \in Nat
        BY <3>1, MeanType DEF Shape
      <4> DEFINE Mean(s) == avgCost[s] + (ev.cost - avgCost[s]) \div (calls[s] + 1)
                 Averaged(S) == [s \in Scopes |-> IF s \in S THEN Mean(s) ELSE avgCost[s]]
      <4>2. avgCost' = avgCost \/ \E S \in SUBSET Scopes : avgCost' = Averaged(S)
        <5>1. CASE UNCHANGED avgCost
          BY <5>1
        <5>2. CASE ~UNCHANGED avgCost
          <6>1. PICK S : avgCost' = [s \in Scopes |->
                                        IF s \in S /\ ev.cost > 0 THEN Mean(s) ELSE avgCost[s]]
            BY <2>6, <3>1, <5>2 DEF OnEventStart
          <6>2. avgCost' = Averaged({s \in Scopes : s \in S /\ ev.cost > 0})
            BY <6>1
          <6>3. QED BY <6>2
        <5>3. QED BY <5>1, <5>2
      <4>3. avgCost \in [Scopes -> Nat] /\ \A s \in Scopes : Mean(s) \in Nat
        BY <4>1 DEF Shape
      <4> HIDE DEF Mean
      <4>4. \A S \in SUBSET Scopes : Averaged(S) \in [Scopes -> Nat]
        BY <4>3
      <4> HIDE DEF Averaged
      <4>5. QED BY <4>2, <4>3, <4>4
    <3>6. disp' \in Work
      <4>1. ASSUME ev.cost > 0
            PROVE  [todo |-> scopeKeys(ev.id), cost |-> ev.cost, tenant |-> ev.id.tenant,
                    added |-> FALSE] \in Work
        BY <3>1, <4>1, ScopeKeysType DEF Work, Names
      <4>2. QED BY <2>6, <3>1, <4>1, IdleIsWork DEF OnEventStart, Shape
    <3>7. UNCHANGED <<spent, warned, journal, file, stops>>
      BY <2>6 DEF OnEventStart
    <3>8. QED BY <3>2, <3>3, <3>4, <3>5, <3>6, <3>7 DEF Shape
  <2>7. CASE AddSpend
    <3>1. Head(disp.todo) \in Scopes /\ disp.cost \in Nat /\ disp' \in Work
      BY <2>7, WorkType, WorkAdded DEF AddSpend, Shape
    <3>2. spent' \in [Scopes -> Nat]
      BY <2>7, <3>1 DEF AddSpend, Spending, Shape
    <3>3. QED BY <2>7, <3>1, <3>2 DEF AddSpend, Shape
  <2>8. CASE JournalAndWarn
    <3>1. Head(disp.todo) \in Scopes /\ disp.cost \in Nat /\ disp.tenant \in Names
      BY <2>8, WorkType DEF JournalAndWarn, Shape
    <3>2. disp' \in Work
      BY <2>8, WorkType, WorkMoves, IdleIsWork DEF JournalAndWarn, Shape
    <3>3. journal' \in [Scopes -> Nat]
      BY <2>8, <3>1 DEF JournalAndWarn, appendJournal, Shape
    <3>4. warned' \in [Scopes -> BOOLEAN]
      BY <2>8, <3>1 DEF JournalAndWarn, NearLimit, Shape
    <3>5. queue' \in Seq(Priced \cup Notice)
      <4>1. Event(TenantOnly(disp.tenant), 0, FALSE) \in Priced \cup Notice
        BY <3>1 DEF Event, Notice
      <4>2. \/ queue' = queue
            \/ queue' = Publish(queue, Event(TenantOnly(disp.tenant), 0, FALSE))
        BY <2>8 DEF JournalAndWarn
      <4>3. queue \in Seq(Priced \cup Notice)
        BY DEF Shape
      <4>4. QED BY <4>1, <4>2, <4>3, PublishType
    <3>6. UNCHANGED <<spent, reserved, avgCost, calls, file, stops>>
      BY <2>8 DEF JournalAndWarn
    <3>7. QED BY <3>2, <3>3, <3>4, <3>5, <3>6 DEF Shape
  <2>9. CASE Signal \/ LoopExit
    BY <2>9 DEF Signal, LoopExit, Shape, budgetVars
  <2>10. CASE Restart
    <3>1. Zero \in [Scopes -> Nat] /\ <<>> \in Seq(Priced \cup Notice)
      BY DEF Zero
    <3>2. QED BY <2>10, <3>1, IdleIsWork DEF Restart, Shape
  <2>11. CASE UNCHANGED vars
    BY <2>11 DEF vars, Shape
  <2>12. QED
    BY <2>1, <2>2, <2>3, <2>4, <2>5, <2>6, <2>7, <2>8, <2>9, <2>10, <2>11 DEF Next, Dispatch
<1>3. QED BY <1>1, <1>2, PTL DEF Spec

\* plugin.go:100-102: whatever is admitted, released, priced or lost in between, the
\* reservations of a scope (Intercept, OnEvent) never exceed its limit.
THEOREM ReservationsStayWithin == Spec => []ReservationsFit
<1>1. Init => ReservationsFit
  BY AmountAssumption DEF Init, ReservationsFit, Zero
<1>2. Shape /\ ReservationsFit /\ [Next]_vars => ReservationsFit'
  <2> SUFFICES ASSUME Shape, ReservationsFit, [Next]_vars,
                      NEW s \in Scopes, s \in DOMAIN Limits
               PROVE  reserved'[s] \in 0 .. Limits[s]
    BY DEF ReservationsFit
  <2>1. /\ reserved[s] \in 0 .. Limits[s] /\ Limits[s] \in Nat
        /\ spent[s] \in Nat /\ avgCost[s] \in Nat
    BY AmountAssumption DEF ReservationsFit, Shape
  <2>2. ASSUME NEW id \in Callers, Admit(id) PROVE reserved'[s] \in 0 .. Limits[s]
    <3>1. CASE s \in Limited(id)
      <4>1. spent[s] + reserved[s] + avgCost[s] <= Limits[s]
        BY <2>1, <2>2, <3>1 DEF Admit, Over
      <4>2. reserved'[s] = reserved[s] + avgCost[s]
        BY <2>2, <3>1 DEF Admit
      <4>3. QED BY <2>1, <4>1, <4>2
    <3>2. CASE s \notin Limited(id)
      BY <2>1, <2>2, <3>2 DEF Admit
    <3>3. QED BY <3>1, <3>2
  <2>3. CASE OnEventStart
    <3>1. reserved'[s] = reserved[s] \/ reserved'[s] = Released(s)
      BY <2>3 DEF OnEventStart, Shape
    <3>2. Released(s) \in 0 .. Limits[s]
      BY <2>1 DEF Released
    <3>3. QED BY <2>1, <3>1, <3>2
  <2>4. CASE Restart
    BY <2>1, <2>4 DEF Restart, Zero
  <2>5. CASE reserved' = reserved
    BY <2>1, <2>5
  <2>6. QED
    BY <2>2, <2>3, <2>4, <2>5
       DEF Next, Dispatch, vars, budgetVars, Block, Finish, NoEvent, ShadowReturns,
           AddSpend, JournalAndWarn, Signal, LoopExit
<1>3. QED BY <1>1, <1>2, ShapeKept, PTL DEF Spec

\* The rest of a sequence holds every element but the head.
LEMMA RestOf ==
    ASSUME NEW S, NEW q \in Seq(S), q # <<>>, NEW x \in Range(q), x # Head(q)
    PROVE  x \in Range(Tail(q)) /\ Tail(q) # <<>>
<1>1. PICK j \in 1 .. Len(q) : x = q[j]
  BY DEF Range
<1>2. j # 1 /\ j - 1 \in 1 .. Len(Tail(q)) /\ Tail(q)[j - 1] = q[j]
  BY <1>1
<1>3. Tail(q) \in Seq(S) /\ DOMAIN Tail(q) = 1 .. Len(Tail(q))
  OBVIOUS
<1>4. Tail(q) # <<>>
  <2>1. Len(Tail(q)) = Len(q) - 1 /\ Len(q) \in Nat /\ Len(q) # 1 /\ Len(<<>>) = 0
    BY <1>1, <1>2
  <2>2. PICK n : n = Len(Tail(q))
    OBVIOUS
  <2>3. n # 0
    <3>1. PICK k \in Nat : k = Len(q) /\ k # 1
      BY <2>1
    <3>2. n = k - 1
      BY <2>1, <2>2, <3>1
    <3>3. QED BY <3>1, <3>2
  <2>4. QED BY <2>1, <2>2, <2>3, Zenon
<1>5. QED BY <1>1, <1>2, <1>3, <1>4 DEF Range

\* The warning at WarnAt (OnEvent): in every interleaving of calls, shadow calls and
\* restarts, a scope that was charged past 80% of its limit has been warned about
\* once the dispatcher is through with it.
THEOREM NearScopesAreWarned == Spec => []WarnedWhenNear
<1>1. Init => WarnedWhenNear
  BY DEF Init, WarnedWhenNear, Zero
<1>2. Shape /\ WarnedWhenNear /\ [Next]_vars => WarnedWhenNear'
  <2> SUFFICES ASSUME Shape, WarnedWhenNear, [Next]_vars,
                      NEW s \in Scopes, NearTheLimit(s)'
               PROVE  warned'[s] \/ calls'[s] = 0 \/ s \in Range(disp'.todo)
    BY DEF WarnedWhenNear
  <2>1. NearTheLimit(s) => warned[s] \/ calls[s] = 0 \/ s \in Range(disp.todo)
    BY DEF WarnedWhenNear
  <2>2. CASE OnEventStart
    <3>1. PICK ev : ev = Head(queue)
      OBVIOUS
    <3>2. disp.todo = <<>> /\ s \notin Range(disp.todo)
      BY <2>2, IdleIsWork DEF OnEventStart, Range
    <3>3. warned' = warned /\ NearTheLimit(s)
      BY <2>2 DEF OnEventStart, NearTheLimit
    <3>4. CASE calls'[s] = calls[s]
      BY <2>1, <3>2, <3>3, <3>4
    <3>5. CASE calls'[s] # calls[s]
      <4>1. s \in Limited(ev.id) /\ ev.cost > 0 /\ Counts(ev)
        BY <2>2, <3>1, <3>5 DEF OnEventStart, Shape
      <4>2. disp'.todo = scopeKeys(ev.id)
        BY <2>2, <3>1, <4>1 DEF OnEventStart
      <4>3. QED BY <4>1, <4>2 DEF Limited
    <3>6. QED BY <3>4, <3>5
  <2>3. CASE AddSpend
    <3>1. disp'.todo = disp.todo
      BY <2>3, WorkAdded DEF AddSpend, Shape
    <3>2. CASE s = Head(disp.todo)
      BY <2>3, <3>1, <3>2, WorkType DEF AddSpend, Shape, Range, Work
    <3>3. CASE s # Head(disp.todo)
      <4>1. spent'[s] = spent[s] /\ warned' = warned /\ calls' = calls
        BY <2>3, <3>3 DEF AddSpend, Spending, Shape
      <4>2. NearTheLimit(s)
        BY <4>1 DEF NearTheLimit
      <4>3. QED BY <2>1, <3>1, <4>1, <4>2
    <3>4. QED BY <3>2, <3>3
  <2>4. CASE JournalAndWarn
    <3>1. NearTheLimit(s) /\ calls' = calls /\ Head(disp.todo) \in Scopes
      BY <2>4, WorkType DEF JournalAndWarn, NearTheLimit, Shape
    <3>2. CASE s = Head(disp.todo)
      <4>1. NearLimit(s)
        BY <3>1 DEF NearTheLimit, NearLimit
      <4>2. warned' = [warned EXCEPT ![s] = warned[s] \/ (NearLimit(s) /\ ~warned[s])]
        BY <2>4, <3>2 DEF JournalAndWarn
      <4>3. warned \in [Scopes -> BOOLEAN]
        BY DEF Shape
      <4>4. warned'[s] = (warned[s] \/ (NearLimit(s) /\ ~warned[s]))
        BY <4>2, <4>3, Zenon
      <4>5. QED BY <4>1, <4>4, Zenon
    <3>3. CASE s # Head(disp.todo)
      <4>1. warned'[s] = warned[s]
        BY <2>4, <3>3 DEF JournalAndWarn, Shape
      <4>2. CASE s \in Range(disp.todo)
        <5>1. disp.todo \in Seq(Scopes) /\ disp.todo # <<>>
          BY <2>4 DEF JournalAndWarn, Shape, Work
        <5>2. s \in Range(Tail(disp.todo)) /\ Tail(disp.todo) # <<>>
          BY <3>3, <4>2, <5>1, RestOf
        <5>3. disp' = [disp EXCEPT !.todo = Tail(disp.todo), !.added = FALSE]
          BY <2>4, <5>2 DEF JournalAndWarn
        <5>4. disp'.todo = Tail(disp.todo)
          BY <5>1, <5>3, WorkMoves, WorkType DEF Shape
        <5>5. QED BY <5>2, <5>4
      <4>3. QED BY <2>1, <3>1, <4>1, <4>2
    <3>4. QED BY <3>2, <3>3
  <2>5. CASE Restart
    BY <2>5 DEF Restart, Zero
  <2>6. CASE UNCHANGED <<spent, warned, calls, disp>>
    BY <2>1, <2>6 DEF NearTheLimit
  <2>7. QED
    BY <2>2, <2>3, <2>4, <2>5, <2>6
       DEF Next, Dispatch, vars, budgetVars, Admit, Block, Finish, NoEvent,
           ShadowReturns, Signal, LoopExit
<1>3. QED BY <1>1, <1>2, ShapeKept, PTL DEF Spec

\* With the journal open, what a scope has spent is what its lines sum up to, plus
\* the call whose line is about to be written.
JournalFollows ==
    file => \A s \in Scopes :
        spent[s] = journal[s] + IF disp.added /\ s = Head(disp.todo) THEN disp.cost ELSE 0

\* Crash recovery (replayJournal): a stop at any point takes from the spend of a
\* scope at most the call being dispatched, if the journal is open.
THEOREM StopsLoseOneCall == Spec => RestartLosesOneCall
<1>1. Init => JournalFollows
  BY IdleIsWork DEF Init, JournalFollows, Zero
<1>2. Shape /\ JournalFollows /\ [Next]_vars => JournalFollows'
  <2> SUFFICES ASSUME Shape, JournalFollows, [Next]_vars, file', NEW s \in Scopes
               PROVE  spent'[s] = journal'[s] +
                        IF disp'.added /\ s = Head(disp'.todo) THEN disp'.cost ELSE 0
    BY DEF JournalFollows
  <2>1. file
    BY DEF Next, Dispatch, vars, budgetVars, Admit, Block, Finish, NoEvent, ShadowReturns,
           OnEventStart, AddSpend, JournalAndWarn, Signal, LoopExit, Restart
  <2>2. /\ spent[s] = journal[s] + IF disp.added /\ s = Head(disp.todo) THEN disp.cost ELSE 0
        /\ spent[s] \in Nat /\ journal[s] \in Nat
    BY <2>1 DEF JournalFollows, Shape
  <2>3. CASE OnEventStart
    <3>1. disp.added = FALSE /\ spent' = spent /\ journal' = journal
      BY <2>3, IdleIsWork DEF OnEventStart
    <3>2. disp'.added = FALSE
      BY <2>3, IdleIsWork DEF OnEventStart
    <3>3. QED BY <2>2, <3>1, <3>2
  <2>4. CASE AddSpend
    <3>1. /\ disp'.added = TRUE /\ disp'.todo = disp.todo /\ disp'.cost = disp.cost
          /\ disp.cost \in Nat /\ Head(disp.todo) \in Scopes
      BY <2>4, WorkAdded, WorkType DEF AddSpend, Shape
    <3>2. journal' = journal /\ ~disp.added /\ spent' = Spending(Head(disp.todo))
      BY <2>4 DEF AddSpend
    <3>3. spent'[s] = spent[s] + IF s = Head(disp.todo) THEN disp.cost ELSE 0
      BY <2>2, <3>1, <3>2 DEF Spending, Shape
    <3>4. QED BY <2>2, <3>1, <3>2, <3>3
  <2>5. CASE JournalAndWarn
    <3>1. disp.cost \in Nat /\ Head(disp.todo) \in Scopes /\ disp.added /\ spent' = spent
      BY <2>5, WorkType DEF JournalAndWarn, Shape
    <3>2. journal'[s] = journal[s] + IF s = Head(disp.todo) THEN disp.cost ELSE 0
      BY <2>1, <2>2, <2>5, <3>1 DEF JournalAndWarn, appendJournal, Shape
    <3>3. disp'.added = FALSE
      BY <2>5, IdleIsWork, WorkMoves, WorkType DEF JournalAndWarn, Shape
    <3>4. QED BY <2>2, <3>1, <3>2, <3>3
  <2>6. CASE Restart
    BY <2>2, <2>6, IdleIsWork DEF Restart
  <2>7. CASE UNCHANGED <<spent, journal, disp>>
    BY <2>2, <2>7
  <2>8. QED
    <3>1. \/ OnEventStart \/ AddSpend \/ JournalAndWarn \/ Restart
          \/ UNCHANGED vars \/ Signal \/ LoopExit
          \/ \E id \in Callers : Admit(id) \/ Block(id) \/ NoEvent(id) \/ ShadowReturns(id)
          \/ \E id \in Callers, cost \in Costs \cup {0}, shadow \in BOOLEAN :
                Finish(id, cost, shadow)
      BY DEF Next, Dispatch
    <3>2. ASSUME NEW id \in Callers, Admit(id) \/ Block(id) \/ NoEvent(id) \/ ShadowReturns(id)
          PROVE  UNCHANGED <<spent, journal, disp>>
      BY <3>2 DEF budgetVars, Admit, Block, NoEvent, ShadowReturns
    <3>3. ASSUME NEW id \in Callers, NEW cost \in Costs \cup {0}, NEW shadow \in BOOLEAN,
                 Finish(id, cost, shadow)
          PROVE  UNCHANGED <<spent, journal, disp>>
      BY <3>3 DEF budgetVars, Finish
    <3>4. CASE UNCHANGED vars \/ Signal \/ LoopExit
      BY <2>7, <3>4 DEF vars, budgetVars, Signal, LoopExit
    <3>5. QED BY <2>3, <2>4, <2>5, <2>6, <2>7, <3>1, <3>2, <3>3, <3>4
<1>3. Shape /\ JournalFollows /\ [Next]_vars =>
        [stops' > stops /\ file => \A s \in Scopes : spent'[s] + disp.cost >= spent[s]]_vars
  <2> SUFFICES ASSUME Shape, JournalFollows, Next, stops' > stops, file, NEW s \in Scopes
               PROVE  spent'[s] + disp.cost >= spent[s]
    OBVIOUS
  <2>1. /\ spent[s] = journal[s] + IF disp.added /\ s = Head(disp.todo) THEN disp.cost ELSE 0
        /\ spent[s] \in Nat /\ journal[s] \in Nat /\ disp.cost \in Nat
    BY DEF JournalFollows, Shape, Work
  <2>2. CASE Restart
    BY <2>1, <2>2 DEF Restart
  <2>3. CASE stops' = stops
    BY <2>3 DEF Shape
  <2>4. QED
    BY <2>2, <2>3
       DEF Next, Dispatch, Admit, Block, Finish, NoEvent, ShadowReturns, OnEventStart,
           AddSpend, JournalAndWarn, Signal, LoopExit
<1>4. QED BY <1>1, <1>2, <1>3, ShapeKept, PTL DEF Spec, RestartLosesOneCall
=============================================================================
