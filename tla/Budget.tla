------------------------------- MODULE Budget -------------------------------
(***************************************************************************)
(* Spend limits: plugins/budget/plugin.go between the interceptor          *)
(* middleware that asks it before a call, and the event bus that tells it  *)
(* afterwards what the call cost.                                          *)
(*                                                                         *)
(* Intercept runs under p.mu.  OnEvent runs on the bus's only dispatch     *)
(* goroutine and takes p.mu several times: once to release reservations    *)
(* and to update the averages of all scopes, then once per scope to add    *)
(* the cost, and it writes the journal with no lock held.  Requests, and a *)
(* crash, fall between any two of these.                                   *)
(*                                                                         *)
(* Amounts are natural numbers.  Costs are multiples of every possible     *)
(* number of calls, so the running average is exact.                       *)
(***************************************************************************)
EXTENDS EventBus, Integers, SequencesExt

CONSTANTS
    NoID,        \* the empty string of an identity's team or user
    Callers,     \* identities of requests: [tenant, team, user]
    Limits,      \* scope key -> LimitUSD; its domain is the configured scopes
    Costs,       \* what a priced call may cost
    MaxCalls,    \* bound: requests
    MaxStops     \* bound: restarts

ASSUME CostAssumption == \A c \in Costs : \A n \in 1 .. MaxCalls : c % n = 0

ASSUME AmountAssumption ==
    /\ Costs \subseteq Nat /\ \E c \in Costs : \A d \in Costs : d <= c
    /\ \A s \in DOMAIN Limits : Limits[s] \in Nat

\* Most specific first.  A key is the tuple of the joined names: the key of a
\* user without a team is the key of a team of that name, as in the code.
scopeKeys(id) ==
    (CASE id.user = NoID -> <<>>
       [] id.user # NoID /\ id.team # NoID -> <<<<id.tenant, id.team, id.user>>>>
       [] OTHER -> <<<<id.tenant, id.user>>>>)
    \o (IF id.team = NoID THEN <<>> ELSE <<<<id.tenant, id.team>>>>)
    \o <<<<id.tenant>>>>

Scopes == UNION {Range(scopeKeys(id)) : id \in Callers}

VARIABLES
    queue, loop,                               \* the bus
    spent, reserved, avgCost, calls, warned,   \* the plugin's maps
    journal,     \* scope -> sum of its lines in budget.jsonl
    file,        \* p.file is open: the journal existed when the process began
    disp,        \* what is left to do of the event being dispatched
    left,        \* requests still to come
    flight,      \* caller -> requests admitted and not finished
    shadows,     \* caller -> shadow calls under way
    owed,        \* scope -> spend inherited and cost of calls told (history)
    silent,      \* some admitted request ended untold (history)
    stops        \* restarts so far

vars == <<queue, loop, spent, reserved, avgCost, calls, warned, journal, file,
          disp, left, flight, shadows, owed, silent, stops>>

budgetVars == <<spent, reserved, avgCost, calls, warned, journal, file>>
requestVars == <<left, flight, shadows, owed, silent>>

Zero == [s \in Scopes |-> 0]
Idle == [todo |-> <<>>, cost |-> 0, tenant |-> NoID, added |-> FALSE]

MaxOf(S) == CHOOSE x \in S : \A y \in S : y <= x

\* A CallEvent, reduced to what OnEvent reads.
Event(id, cost, shadow) == [id |-> id, cost |-> cost, shadow |-> shadow]

\* The events of a blocked request and of a warning carry only the tenant.
TenantOnly(tenant) == [tenant |-> tenant, team |-> NoID, user |-> NoID]

Init ==
    /\ queue = <<>> /\ loop = "run"
    /\ spent = Zero /\ reserved = Zero /\ avgCost = Zero /\ calls = Zero
    /\ warned = [s \in Scopes |-> FALSE]
    /\ journal = Zero
    /\ file \in BOOLEAN
    /\ disp = Idle
    /\ left = MaxCalls
    /\ flight = [id \in Callers |-> 0] /\ shadows = [id \in Callers |-> 0]
    /\ owed = Zero /\ silent = FALSE
    /\ stops = 0

-----------------------------------------------------------------------------
Limited(id) == Range(scopeKeys(id)) \cap DOMAIN Limits

OverUnreserved(s) == spent[s] >= Limits[s]

Over(s) ==
    \/ spent[s] >= Limits[s]
    \/ spent[s] + reserved[s] + avgCost[s] > Limits[s]

\* Intercept returns nil: one lock, all scopes checked before any is reserved.
Admit(id) ==
    /\ left > 0 /\ left' = left - 1
    /\ ~ \E s \in Limited(id) : Over(s)
    /\ reserved' = [s \in Scopes |->
                      reserved[s] + IF s \in Limited(id) THEN avgCost[s] ELSE 0]
    /\ flight' = [flight EXCEPT ![id] = @ + 1]
    /\ UNCHANGED <<queue, loop, spent, avgCost, calls, warned, journal, file,
                   disp, shadows, owed, silent, stops>>

\* Intercept returns a BlockedError; the middleware publishes it.
Block(id) ==
    /\ left > 0 /\ left' = left - 1
    /\ \E s \in Limited(id) : Over(s)
    /\ queue' = Publish(queue, Event(TenantOnly(id.tenant), 0, FALSE))
    /\ UNCHANGED <<budgetVars, loop, disp, flight, shadows, owed, silent, stops>>

\* The handler publishes the call's event, and may start a shadow call; cost 0
\* stands for a failed call and for an unpriced model (hasCost is false).
Finish(id, cost, shadow) ==
    /\ flight[id] > 0
    /\ flight' = [flight EXCEPT ![id] = @ - 1]
    /\ queue' = Publish(queue, Event(id, cost, FALSE))
    /\ IF HasRoom(queue)
       THEN /\ owed' = [s \in Scopes |->
                          owed[s] + IF s \in Range(scopeKeys(id)) THEN cost ELSE 0]
            /\ UNCHANGED silent
       ELSE silent' = TRUE /\ UNCHANGED owed
    /\ shadows' = [shadows EXCEPT ![id] = @ + IF shadow THEN 1 ELSE 0]
    /\ UNCHANGED <<budgetVars, loop, disp, left, stops>>

\* The request ends without an event: a cache hit, an open circuit, a model
\* without a provider, a request that does not validate.
NoEvent(id) ==
    /\ flight[id] > 0
    /\ flight' = [flight EXCEPT ![id] = @ - 1]
    /\ silent' = TRUE
    /\ UNCHANGED <<budgetVars, queue, loop, disp, left, shadows, owed, stops>>

\* runShadow publishes its own priced event, after the request's.
ShadowReturns(id) ==
    /\ shadows[id] > 0
    /\ shadows' = [shadows EXCEPT ![id] = @ - 1]
    /\ queue' = Publish(queue, Event(id, MaxOf(Costs), TRUE))
    /\ UNCHANGED <<budgetVars, loop, disp, left, flight, owed, silent, stops>>

-----------------------------------------------------------------------------
Released(s) ==
    IF reserved[s] = 0 THEN 0
    ELSE IF reserved[s] < avgCost[s] THEN 0 ELSE reserved[s] - avgCost[s]

CountsAll(ev) == TRUE

\* Shadow calls never went through Intercept and are skipped entirely.
Counts(ev) == ~ev.shadow

\* OnEvent up to its first unlock.
OnEventStart ==
    LET ev == Head(queue)
        lim == Limited(ev.id)
        paid == ev.cost > 0
    IN  /\ LoopTakes(loop) /\ disp = Idle /\ queue # <<>>
        /\ queue' = Tail(queue)
        /\ IF Counts(ev)
           THEN /\ reserved' = [s \in Scopes |-> IF s \in lim THEN Released(s) ELSE reserved[s]]
                /\ calls' = [s \in Scopes |-> IF s \in lim /\ paid THEN calls[s] + 1 ELSE calls[s]]
                /\ avgCost' = [s \in Scopes |->
                                 IF s \in lim /\ paid
                                 THEN avgCost[s] + (ev.cost - avgCost[s]) \div (calls[s] + 1)
                                 ELSE avgCost[s]]
                /\ disp' = IF paid
                           THEN [todo |-> scopeKeys(ev.id), cost |-> ev.cost,
                                 tenant |-> ev.id.tenant, added |-> FALSE]
                           ELSE Idle
           ELSE UNCHANGED <<reserved, avgCost, calls, disp>>
        /\ UNCHANGED <<loop, spent, warned, journal, file, requestVars, stops>>

\* Every scope is counted, with a limit or without.
Spending(s) == [spent EXCEPT ![s] = @ + disp.cost]

\* The lock of one round of the scope loop.
AddSpend ==
    /\ disp.todo # <<>> /\ ~disp.added
    /\ spent' = Spending(Head(disp.todo))
    /\ disp' = [disp EXCEPT !.added = TRUE]
    /\ UNCHANGED <<queue, loop, reserved, avgCost, calls, warned, journal, file,
                   requestVars, stops>>

NearLimit(s) == s \in DOMAIN Limits /\ 5 * spent[s] >= 4 * Limits[s]

appendJournalLimited(s) ==
    IF file /\ s \in DOMAIN Limits THEN [journal EXCEPT ![s] = @ + disp.cost] ELSE journal

\* Nothing is written when the journal could not be opened.
appendJournal(s) == IF file THEN [journal EXCEPT ![s] = @ + disp.cost] ELSE journal

\* appendJournal and the warning: the rest of the round.
JournalAndWarn ==
    LET s == Head(disp.todo)
        warn == NearLimit(s) /\ ~warned[s]
    IN  /\ disp.todo # <<>> /\ disp.added
        /\ journal' = appendJournal(s)
        /\ warned' = [warned EXCEPT ![s] = @ \/ warn]
        /\ queue' = IF warn THEN Publish(queue, Event(TenantOnly(disp.tenant), 0, FALSE))
                    ELSE queue
        /\ disp' = IF Tail(disp.todo) = <<>> THEN Idle
                   ELSE [disp EXCEPT !.todo = Tail(@), !.added = FALSE]
        /\ UNCHANGED <<loop, spent, reserved, avgCost, calls, file, requestVars, stops>>

Signal ==
    /\ loop = "run" /\ stops < MaxStops
    /\ loop' = "drain"
    /\ UNCHANGED <<budgetVars, queue, disp, requestVars, stops>>

LoopExit ==
    /\ LoopEnds(loop, queue) /\ disp = Idle
    /\ loop' = "exit"
    /\ UNCHANGED <<budgetVars, queue, disp, requestVars, stops>>

\* The process ends, at any point, and New builds the next one: replayJournal
\* sums the lines, and opens the file for appending only if it could read it.
\* A line is one write, and is on disk whole or not at all.
Restart ==
    /\ stops < MaxStops
    /\ stops' = stops + 1
    /\ queue' = <<>> /\ loop' = "run" /\ disp' = Idle
    /\ spent' = journal /\ owed' = journal
    /\ reserved' = Zero /\ avgCost' = Zero /\ calls' = Zero
    /\ warned' = [s \in Scopes |-> FALSE]
    /\ flight' = [id \in Callers |-> 0] /\ shadows' = [id \in Callers |-> 0]
    /\ silent' = FALSE
    /\ UNCHANGED <<journal, file, left>>

Dispatch == OnEventStart \/ AddSpend \/ JournalAndWarn

Next ==
    \/ \E id \in Callers :
          \/ Admit(id) \/ Block(id) \/ NoEvent(id) \/ ShadowReturns(id)
          \/ \E cost \in Costs \cup {0}, shadow \in BOOLEAN : Finish(id, cost, shadow)
    \/ Dispatch
    \/ Signal \/ LoopExit \/ Restart

\* The dispatch goroutine runs whenever it has something to do.
Spec == Init /\ [][Next]_vars /\ WF_vars(Dispatch)

-----------------------------------------------------------------------------
\* The maps hold amounts, the dispatcher works on the scopes of one identity.
TypeOK ==
    /\ spent \in [Scopes -> Nat] /\ reserved \in [Scopes -> Nat]
    /\ avgCost \in [Scopes -> Nat] /\ calls \in [Scopes -> Nat]
    /\ warned \in [Scopes -> BOOLEAN] /\ journal \in [Scopes -> Nat]
    /\ file \in BOOLEAN /\ loop \in LoopState
    /\ Len(queue) <= BufSize
    /\ Range(disp.todo) \subseteq Scopes
    /\ flight \in [Callers -> 0 .. MaxCalls] /\ shadows \in [Callers -> 0 .. MaxCalls]

\* 80% of the limit, WarnAt's default.
NearTheLimit(s) == s \in DOMAIN Limits /\ 5 * spent[s] >= 4 * Limits[s]

SumOver(S, f(_)) == FoldSet(LAMBDA c, acc : f(c) + acc, 0, S)

\* The cost of scope s that is on its way: queued, or being dispatched.
Queued(s) ==
    SumOver({i \in DOMAIN queue : ~queue[i].shadow /\ s \in Range(scopeKeys(queue[i].id))},
            LAMBDA i : queue[i].cost)

InDispatch(s) ==
    IF s \in Range(disp.todo) /\ ~(disp.added /\ s = Head(disp.todo)) THEN disp.cost ELSE 0

\* Within the life of a process the spend of every scope, configured or not,
\* is exactly what the calls of that scope cost: every call whose event the
\* bus accepted is counted once, no matter how requests, shadow calls and the
\* dispatcher interleave.
LedgerBalances ==
    \A s \in Scopes : spent[s] + Queued(s) + InDispatch(s) = owed[s]

\* plugin.go:100-102, "so it never permanently inflates the ceiling".  What
\* holds of it at every moment: the reservations of a scope never exceed its
\* limit, and releasing more than was reserved never makes room above it.
ReservationsFit == \A s \in Scopes \cap DOMAIN Limits : reserved[s] \in 0 .. Limits[s]

\* A scope that has spent 80% of its limit has been warned about, unless the
\* spend was inherited from the journal and no call was counted since.
WarnedWhenNear ==
    \A s \in Scopes :
        NearTheLimit(s) => \/ warned[s] \/ calls[s] = 0
                           \/ s \in Range(disp.todo)

\* A stop loses from the spend of a scope at most the call being dispatched,
\* if the journal is open.
RestartLosesOneCall ==
    [][stops' > stops /\ file => \A s \in Scopes : spent'[s] + disp.cost >= spent[s]]_vars

\* As long as the loop has not exited, everything published is dispatched:
\* shadow events, warnings that OnEvent publishes itself and late calls alike.
Drains == <>[](loop = "exit" \/ (queue = <<>> /\ disp = Idle))
=============================================================================
