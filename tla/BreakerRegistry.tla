-------------------------- MODULE BreakerRegistry --------------------------
(***************************************************************************)
(* The circuit breakers several ixr replicas keep for one model, and the   *)
(* state store they share (registry.go, cbstate/redis.go).  A replica      *)
(* seeds its breaker from the store the first time it sees the model, and  *)
(* pushes the state after an outcome that seems to have changed it.        *)
(*                                                                         *)
(* RecordOutcome takes the breaker's lock three times: it reads the state, *)
(* records, and reads the state again.  Requests of the same replica       *)
(* interleave between the three.  The push runs in a goroutine of its own, *)
(* so pushes overtake each other.                                          *)
(***************************************************************************)
EXTENDS Breaker

CONSTANTS
    Replicas,
    Requests,       \* concurrent requests,
    Home,           \* and the replica that serves each
    StoreFails,     \* whether calls to the store may fail and entries expire
    MaxTotal,       \* bound: outcomes counted in one window
    None

ASSUME RegistryAssumption ==
    /\ Home \in [Requests -> Replicas]
    /\ StoreFails \in BOOLEAN
    /\ MaxTotal \in Nat
    /\ None \notin BreakerRecord \cup State
    /\ ThresholdNum <= ThresholdDen
    /\ MinRequests > 0

VARIABLES
    br,        \* the breaker of each replica, None before the first use
    pc,        \* where each request is
    before,    \* the state RecordOutcome read first
    pending,   \* the state a request's push is about to write, or None
    stored,    \* the entry in the shared store, None when absent
    \* History, read by no action:
    fails,     \* failed outcomes seen anywhere, up to MinRequests
    wait       \* time a replica seeded with Open still has to keep calls away

vars == <<br, pc, before, pending, stored, fails, wait>>

Init ==
    /\ br = [r \in Replicas |-> None]
    /\ pc = [q \in Requests |-> "idle"]
    /\ before = [q \in Requests |-> "Closed"]
    /\ pending = [q \in Requests |-> None]
    /\ stored = None
    /\ fails = 0
    /\ wait = [r \in Replicas |-> 0]

\* get, first use: the registry's lock is held over the load.  An absent
\* entry and a failed load both leave the new breaker closed.
Seed(r) ==
    /\ br[r] = None
    /\ \/ /\ stored # None
          /\ br' = [br EXCEPT ![r] = SetState(New, stored)]
          /\ wait' = [wait EXCEPT ![r] = IF stored = "Open" THEN HalfOpenAfter ELSE 0]
       \/ /\ stored = None \/ StoreFails
          /\ br' = [br EXCEPT ![r] = New]
          /\ UNCHANGED wait
    /\ UNCHANGED <<pc, before, pending, stored, fails>>

IsAllowed(q) ==
    /\ br[Home[q]] # None
    /\ pc[q] = "idle"
    /\ br' = [br EXCEPT ![Home[q]] = AfterAllow(@)]
    /\ pc' = [pc EXCEPT ![q] = IF Allowed(br[Home[q]]) THEN "calling" ELSE "idle"]
    /\ UNCHANGED <<before, pending, stored, fails, wait>>

\* routing.Filter asks for a candidate that is then not called.
Filter(r) ==
    /\ br[r] # None
    /\ br' = [br EXCEPT ![r] = AfterAllow(@)]
    /\ UNCHANGED <<pc, before, pending, stored, fails, wait>>

\* The call was cancelled: shouldRecordOutcome is false.
NoOutcome(q) ==
    /\ pc[q] = "calling"
    /\ pc' = [pc EXCEPT ![q] = "idle"]
    /\ UNCHANGED <<br, before, pending, stored, fails, wait>>

\* RecordOutcome, first lock.
ReadBefore(q) ==
    /\ pc[q] = "calling"
    /\ before' = [before EXCEPT ![q] = br[Home[q]].state]
    /\ pc' = [pc EXCEPT ![q] = "read"]
    /\ UNCHANGED <<br, pending, stored, fails, wait>>

\* RecordOutcome, second lock.
RecordResult(q, ok) ==
    /\ pc[q] = "read"
    /\ br[Home[q]].state = "Closed" => br[Home[q]].total < MaxTotal
    /\ br' = [br EXCEPT ![Home[q]] = Record(@, ok)]
    /\ pc' = [pc EXCEPT ![q] = "recorded"]
    /\ fails' = IF ok THEN fails ELSE Older(fails, MinRequests)
    /\ UNCHANGED <<before, pending, stored, wait>>

\* RecordOutcome, third lock, and the start of the push.  Bound: a request
\* slot starts its next push after its last one ended.
ReadAfter(q) ==
    /\ pc[q] = "recorded"
    /\ pending[q] = None
    /\ pending' = [pending EXCEPT ![q] =
                     IF br[Home[q]].state # before[q] THEN br[Home[q]].state ELSE None]
    /\ pc' = [pc EXCEPT ![q] = "idle"]
    /\ before' = [before EXCEPT ![q] = "Closed"]
    /\ UNCHANGED <<br, stored, fails, wait>>

\* Redis.Save, in the goroutine; it may time out without effect.
Save(q) ==
    /\ pending[q] # None
    /\ \/ stored' = pending[q]
       \/ StoreFails /\ UNCHANGED stored
    /\ pending' = [pending EXCEPT ![q] = None]
    /\ UNCHANGED <<br, pc, before, fails, wait>>

\* The entry's ttl runs out.
Expire ==
    /\ StoreFails
    /\ stored # None
    /\ stored' = None
    /\ UNCHANGED <<br, pc, before, pending, fails, wait>>

\* The process of r ends, with its requests and pushes, and starts again.
Restart(r) ==
    /\ br[r] # None
    /\ br' = [br EXCEPT ![r] = None]
    /\ pc' = [q \in Requests |-> IF Home[q] = r THEN "idle" ELSE pc[q]]
    /\ before' = [q \in Requests |-> IF Home[q] = r THEN "Closed" ELSE before[q]]
    /\ pending' = [q \in Requests |-> IF Home[q] = r THEN None ELSE pending[q]]
    /\ wait' = [wait EXCEPT ![r] = 0]
    /\ UNCHANGED <<stored, fails>>

\* No request is inside RecordOutcome and no push is under way.
AtRest == \A q \in Requests : pc[q] \in {"idle", "calling"} /\ pending[q] = None

\* One unit of time, of the order of HalfOpenAfter (30 s).  RecordOutcome's
\* three locks, and a push that stateStoreTimeout (200 ms) bounds, fit into
\* one unit: the races below need no delay longer than that.
Tick ==
    /\ AtRest
    /\ br' = [r \in Replicas |-> IF br[r] = None THEN None ELSE Aged(br[r])]
    /\ wait' = [r \in Replicas |-> IF wait[r] = 0 THEN 0 ELSE wait[r] - 1]
    /\ UNCHANGED <<pc, before, pending, stored, fails>>

RecordOutcome(q) ==
    \/ ReadBefore(q)
    \/ \E ok \in BOOLEAN : RecordResult(q, ok)
    \/ ReadAfter(q)

Next ==
    \/ \E r \in Replicas : Seed(r) \/ Filter(r) \/ Restart(r)
    \/ \E q \in Requests :
          IsAllowed(q) \/ RecordOutcome(q) \/ NoOutcome(q) \/ Save(q)
    \/ Expire
    \/ Tick

Spec == Init /\ [][Next]_vars

-----------------------------------------------------------------------------
\* Breakers, requests and the store entry have their types; a request of a
\* replica that has just restarted is idle.
TypeOK ==
    /\ br \in [Replicas -> BreakerRecord \cup {None}]
    /\ pc \in [Requests -> {"idle", "calling", "read", "recorded"}]
    /\ before \in [Requests -> State]
    /\ pending \in [Requests -> State \cup {None}]
    /\ stored \in State \cup {None}
    /\ fails \in 0 .. MinRequests
    /\ wait \in [Replicas -> 0 .. HalfOpenAfter]
    /\ \A q \in Requests : br[Home[q]] = None => pc[q] = "idle"

\* Some breaker, push or store entry says that the model is degraded.
Excluded ==
    \/ \E r \in Replicas : br[r] # None /\ br[r].state # "Closed"
    \/ \E q \in Requests : pending[q] \notin {None, "Closed"}
    \/ stored \notin {None, "Closed"}

Evidence == fails * ThresholdDen > (ThresholdDen - ThresholdNum) * MinRequests

\* However replicas share, overtake, fail and restart, none of them takes a
\* model for degraded, and the store never says so, unless as many calls
\* failed as RecordFailure's threshold asks of one window.
ExclusionHasEvidence == Excluded => Evidence

\* breaker.go:125-126, "a newly-seeded replica always waits the full
\* HalfOpenAfter window before probing": a replica that starts from a shared
\* trip lets no request of its own through until it has waited that long.
SeededOpenWaits ==
    \A q \in Requests : wait[Home[q]] > 0 => pc[q] = "idle"
=============================================================================
