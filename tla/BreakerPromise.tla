--------------------------- MODULE BreakerPromise ---------------------------
(***************************************************************************)
(* What a circuit breaker promises its callers, with no counters, windows  *)
(* or clocks: a closed breaker lets every call through, an open one lets   *)
(* none through, and between an open and a closed period lies a probing    *)
(* period in which only a fixed number of calls is let through.  The       *)
(* package comment of breaker.go states the cycle: "closed (healthy) ->    *)
(* open (excluded) -> half-open (probe) -> closed".                        *)
(***************************************************************************)
EXTENDS Naturals

CONSTANTS Callers, ProbeCount

VARIABLES
    mode,     \* "Closed", "Open" or "HalfOpen"
    slots,    \* calls this probing period may still let through
    active    \* callers whose call was let through and has not returned

vars == <<mode, slots, active>>

Init ==
    /\ mode = "Closed"
    /\ slots = 0
    /\ active = {}

\* A call is let through while the breaker is closed.
Pass(c) ==
    /\ mode = "Closed"
    /\ c \notin active
    /\ active' = active \cup {c}
    /\ UNCHANGED <<mode, slots>>

\* A probing period opens (from Open) or continues; a slot is given to a call.
Probe(c) ==
    /\ c \notin active
    /\ \/ mode = "Open" /\ slots' = ProbeCount - 1
       \/ mode = "HalfOpen" /\ slots > 0 /\ slots' = slots - 1
    /\ mode' = "HalfOpen"
    /\ active' = active \cup {c}

\* A slot is used up without a call.
Waste ==
    /\ \/ mode = "Open" /\ slots' = ProbeCount - 1
       \/ mode = "HalfOpen" /\ slots > 0 /\ slots' = slots - 1
    /\ mode' = "HalfOpen"
    /\ UNCHANGED active

\* A call returns; its outcome may trip the breaker or end a probing period.
Return(c) ==
    /\ c \in active
    /\ active' = active \ {c}
    /\ \/ UNCHANGED <<mode, slots>>
       \/ mode \in {"Closed", "HalfOpen"} /\ mode' = "Open" /\ slots' = 0
       \/ mode = "HalfOpen" /\ mode' = "Closed" /\ slots' = 0

Next ==
    \/ \E c \in Callers : Pass(c) \/ Probe(c) \/ Return(c)
    \/ Waste

Spec == Init /\ [][Next]_vars
=============================================================================
