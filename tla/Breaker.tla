------------------------------ MODULE Breaker ------------------------------
(***************************************************************************)
(* The per-model circuit breaker of internal/domain/circuitbreaker/        *)
(* breaker.go, as functions on the breaker's record.  Every method of the  *)
(* code runs under b.mu from its first line to its last, so each method is *)
(* one function here and one atomic step of the modules that use it.       *)
(*                                                                         *)
(* Time.  The code keeps the instants windowStart and openedAt and looks   *)
(* at them only through now.Sub(...) compared with a limit.  The record    *)
(* keeps the ages themselves, which stop growing just past the limit they  *)
(* are compared with: no comparison can tell the difference.               *)
(***************************************************************************)
EXTENDS Naturals

CONSTANTS
    MinRequests,     \* outcomes needed in a window before it may trip
    ThresholdNum,    \* SuccessRateThreshold = ThresholdNum / ThresholdDen
    ThresholdDen,
    WindowDuration,
    HalfOpenAfter,
    ProbeCount

ASSUME PolicyAssumption ==
    /\ MinRequests \in Nat
    /\ ThresholdNum \in Nat
    /\ ThresholdDen \in Nat \ {0}
    /\ WindowDuration \in Nat
    /\ HalfOpenAfter \in Nat
    /\ ProbeCount \in Nat \ {0}

State == {"Closed", "Open", "HalfOpen"}

BreakerRecord ==
    [state        : State,
     failures     : Nat,
     total        : Nat,
     windowAge    : 0 .. WindowDuration + 1,
     openAge      : 0 .. HalfOpenAfter,
     probesSent   : Nat,
     probesPassed : Nat]

\* openedAt is Go's zero time until the first trip: its age is the largest.
New ==
    [state        |-> "Closed",
     failures     |-> 0,
     total        |-> 0,
     windowAge    |-> 0,
     openAge      |-> HalfOpenAfter,
     probesSent   |-> 0,
     probesPassed |-> 0]

-----------------------------------------------------------------------------
\* What Allow returns, and what it leaves behind.

CoolingDown(b) == b.state = "Open" /\ b.openAge < HalfOpenAfter

\* Variants of SlotFree that a mistake in Allow would give: one probe too many,
\* and an Open case that checks the old counter before resetting it.
SlotFreeOneTooMany(b) == b.state = "Open" \/ b.probesSent <= ProbeCount

SlotFree(b) == b.state = "Open" \/ b.probesSent < ProbeCount

Allowed(b) == b.state = "Closed" \/ (~CoolingDown(b) /\ SlotFree(b))

\* The Open case resets the probe counters and falls through to HalfOpen.
TakeSlot(b) ==
    IF b.state = "Open"
    THEN [b EXCEPT !.state = "HalfOpen", !.probesSent = 1, !.probesPassed = 0]
    ELSE [b EXCEPT !.probesSent = @ + 1]

RollWindow(b) ==
    IF b.windowAge > WindowDuration
    THEN [b EXCEPT !.failures = 0, !.total = 0, !.windowAge = 0]
    ELSE b

AfterAllow(b) ==
    IF b.state = "Closed" THEN RollWindow(b)
    ELSE IF Allowed(b) THEN TakeSlot(b)
    ELSE b

-----------------------------------------------------------------------------
\* Outcomes.

\* Variants of RecordSuccess: any success closes an open breaker, and one more
\* passed probe than there are slots is asked for.
RecordSuccessFromOpen(b) ==
    IF b.state = "Closed"
    THEN [b EXCEPT !.total = @ + 1]
    ELSE [b EXCEPT !.state = "Closed", !.failures = 0, !.total = 0, !.windowAge = 0]

RecordSuccessOneMore(b) ==
    IF b.state = "Closed"
    THEN [b EXCEPT !.total = @ + 1]
    ELSE IF b.state = "HalfOpen"
    THEN IF b.probesPassed + 1 > ProbeCount
         THEN [b EXCEPT !.state = "Closed", !.failures = 0, !.total = 0, !.windowAge = 0]
         ELSE [b EXCEPT !.probesPassed = @ + 1]
    ELSE b

RecordSuccess(b) ==
    IF b.state = "Closed"
    THEN [b EXCEPT !.total = @ + 1]
    ELSE IF b.state = "HalfOpen"
    THEN IF b.probesPassed + 1 >= ProbeCount
         THEN [b EXCEPT !.state = "Closed", !.probesPassed = @ + 1,
                        !.failures = 0, !.total = 0, !.windowAge = 0]
         ELSE [b EXCEPT !.probesPassed = @ + 1]
    ELSE b

\* A variant of Degraded that trips on a window of any size.
DegradedAnyCount(failures, total) ==
    (total - failures) * ThresholdDen < ThresholdNum * total

\* (total - failures) / total < SuccessRateThreshold, without the division.
Degraded(failures, total) ==
    /\ total >= MinRequests
    /\ (total - failures) * ThresholdDen < ThresholdNum * total

Trip(b) == [b EXCEPT !.state = "Open", !.openAge = 0]

RecordFailure(b) ==
    IF b.state = "Closed"
    THEN LET c == [b EXCEPT !.failures = @ + 1, !.total = @ + 1]
         IN  IF Degraded(c.failures, c.total) THEN Trip(c) ELSE c
    ELSE IF b.state = "HalfOpen" THEN Trip(b)
    ELSE b

Record(b, ok) == IF ok THEN RecordSuccess(b) ELSE RecordFailure(b)

\* A variant of SetState that leaves openedAt at Go's zero time.
SetStateNoOpenedAt(b, s) == [b EXCEPT !.state = s]

\* setState: a breaker seeded from the shared store.
SetState(b, s) == IF s = "Open" THEN Trip(b) ELSE [b EXCEPT !.state = s]

-----------------------------------------------------------------------------
\* One unit of time passes.

Older(age, limit) == IF age < limit THEN age + 1 ELSE age

Aged(b) ==
    [b EXCEPT !.windowAge = Older(@, WindowDuration + 1),
              !.openAge   = Older(@, HalfOpenAfter)]
=============================================================================
