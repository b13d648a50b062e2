--------------------------- MODULE Breaker_proofs ---------------------------
(***************************************************************************)
(* What the methods of breaker.go keep and change, for every policy: the   *)
(* lemmas that the proofs about one breaker and about the registry share.  *)
(***************************************************************************)
EXTENDS Breaker, TLAPS

\* The fields of a breaker record of breaker.go have their types, and so have
\* the counters one step further.
LEMMA Fields ==
    ASSUME NEW b \in BreakerRecord
    PROVE  /\ b.state \in State
           /\ b.failures \in Nat /\ b.failures + 1 \in Nat
           /\ b.total \in Nat /\ b.total + 1 \in Nat
           /\ b.probesSent \in Nat /\ b.probesSent + 1 \in Nat
           /\ b.probesPassed \in Nat /\ b.probesPassed + 1 \in Nat
           /\ b.windowAge \in 0 .. WindowDuration + 1
           /\ b.openAge \in 0 .. HalfOpenAfter
BY DEF BreakerRecord

\* The values the methods of breaker.go reset fields to are of the right type.
LEMMA Zeros ==
    /\ 0 \in Nat
    /\ 1 \in Nat
    /\ 0 \in 0 .. WindowDuration + 1
    /\ 0 \in 0 .. HalfOpenAfter
    /\ "Closed" \in State /\ "Open" \in State /\ "HalfOpen" \in State
BY PolicyAssumption DEF State

\* A trip, in RecordFailure or setState, keeps the record well typed.
LEMMA TripType ==
    ASSUME NEW b \in BreakerRecord
    PROVE  Trip(b) \in BreakerRecord
BY Zeros, Zenon DEF Trip, BreakerRecord

\* Handing out a probe slot, in Allow, keeps the record well typed.
LEMMA TakeType ==
    ASSUME NEW b \in BreakerRecord
    PROVE  TakeSlot(b) \in BreakerRecord
BY Zeros, Fields, Zenon DEF TakeSlot, BreakerRecord

\* Allow keeps the record well typed.
LEMMA AfterAllowType ==
    ASSUME NEW b \in BreakerRecord
    PROVE  AfterAllow(b) \in BreakerRecord
<1>1. RollWindow(b) \in BreakerRecord
  BY Zeros, Fields, Zenon DEF RollWindow, BreakerRecord
<1>2. QED BY <1>1, TakeType DEF AfterAllow

\* RecordSuccess and RecordFailure keep the record well typed.
LEMMA RecordType ==
    ASSUME NEW b \in BreakerRecord, NEW ok \in BOOLEAN
    PROVE  Record(b, ok) \in BreakerRecord
<1>1. RecordSuccess(b) \in BreakerRecord
  BY Zeros, Fields, Zenon DEF RecordSuccess, BreakerRecord
<1>2. RecordFailure(b) \in BreakerRecord
  <2> DEFINE c == [b EXCEPT !.failures = @ + 1, !.total = @ + 1]
  <2>1. c \in BreakerRecord
    BY Fields, Zenon DEF BreakerRecord
  <2> HIDE DEF c
  <2>2. RecordFailure(b) \in {b, c, Trip(b), Trip(c)}
    BY DEF RecordFailure, c
  <2>3. QED BY <2>1, <2>2, TripType
<1>3. QED BY <1>1, <1>2 DEF Record

\* The passing of time keeps the record well typed.
LEMMA AgedType ==
    ASSUME NEW b \in BreakerRecord
    PROVE  Aged(b) \in BreakerRecord
<1>1. /\ Older(b.windowAge, WindowDuration + 1) \in 0 .. WindowDuration + 1
      /\ Older(b.openAge, HalfOpenAfter) \in 0 .. HalfOpenAfter
  BY Fields, PolicyAssumption DEF Older
<1>2. QED BY <1>1, Zenon DEF Aged, BreakerRecord

-----------------------------------------------------------------------------
\* What the methods do to the state and the probe counters: the proofs below
\* read these facts instead of the nested IFs of Breaker.

\* Allow on a closed breaker changes neither its state nor its probe counters.
LEMMA AllowClosed ==
    ASSUME NEW b \in BreakerRecord, b.state = "Closed"
    PROVE  Allowed(b) /\ AfterAllow(b).state = "Closed"
BY DEF Allowed, AfterAllow, RollWindow, BreakerRecord

\* Allow on an open or probing breaker that gives out a slot.
LEMMA AllowSlot ==
    ASSUME NEW b \in BreakerRecord, b.state # "Closed", Allowed(b)
    PROVE  /\ AfterAllow(b).state = "HalfOpen"
           /\ b.state = "Open" =>
                AfterAllow(b).probesSent = 1 /\ AfterAllow(b).probesPassed = 0
           /\ b.state = "HalfOpen" =>
                /\ b.probesSent < ProbeCount
                /\ AfterAllow(b).probesSent = b.probesSent + 1
                /\ AfterAllow(b).probesPassed = b.probesPassed
BY DEF AfterAllow, TakeSlot, Allowed, SlotFree, CoolingDown, BreakerRecord, State

\* Allow that refuses leaves the breaker as it is.
LEMMA AllowRefused ==
    ASSUME NEW b, ~Allowed(b)
    PROVE  AfterAllow(b) = b /\ b.state # "Closed"
BY DEF AfterAllow, Allowed

\* An outcome in HalfOpen: a failure reopens the breaker; a success counts as
\* passed and closes it when it is the last one needed.
LEMMA RecordHalfOpen ==
    ASSUME NEW b \in BreakerRecord, NEW ok \in BOOLEAN, b.state = "HalfOpen",
           Record(b, ok).state = "HalfOpen"
    PROVE  /\ Record(b, ok).probesSent = b.probesSent
           /\ Record(b, ok).probesPassed = b.probesPassed + 1
           /\ Record(b, ok).probesPassed < ProbeCount
BY PolicyAssumption DEF Record, RecordSuccess, RecordFailure, Trip, BreakerRecord

\* An outcome never starts a probing period, and one that arrives while the
\* breaker is open changes nothing.
LEMMA RecordOther ==
    ASSUME NEW b \in BreakerRecord, NEW ok \in BOOLEAN, b.state # "HalfOpen"
    PROVE  /\ Record(b, ok).state # "HalfOpen"
           /\ b.state = "Open" => Record(b, ok) = b
BY DEF Record, RecordSuccess, RecordFailure, Trip, BreakerRecord, State

\* The passing of time changes neither the state nor the probe counters.
LEMMA AgedKeeps ==
    ASSUME NEW b \in BreakerRecord
    PROVE  /\ Aged(b).state = b.state
           /\ Aged(b).probesSent = b.probesSent
           /\ Aged(b).probesPassed = b.probesPassed
BY DEF Aged, BreakerRecord

\* setState leaves the state it is given; an open one starts its cool-down anew.
LEMMA SetStateKeeps ==
    ASSUME NEW b \in BreakerRecord, NEW s \in State
    PROVE  /\ SetState(b, s) \in BreakerRecord
           /\ SetState(b, s).state = s
           /\ SetState(b, s).failures = b.failures
           /\ SetState(b, s).total = b.total
           /\ s = "Open" => SetState(b, s).openAge = 0
<1>1. [b EXCEPT !.state = s] \in BreakerRecord
  BY Zenon DEF BreakerRecord
<1>2. SetState(b, s) \in BreakerRecord
  BY <1>1, TripType DEF SetState
<1>3. QED BY <1>2 DEF SetState, Trip, BreakerRecord

\* A new breaker is closed, with an empty window.
LEMMA NewType == New \in BreakerRecord /\ New.state = "Closed" /\ New.failures = 0 /\ New.total = 0
<1>1. HalfOpenAfter \in 0 .. HalfOpenAfter
  BY PolicyAssumption
<1>2. New \in BreakerRecord
  BY <1>1, Zeros DEF New, BreakerRecord
<1>3. QED BY <1>2 DEF New

\* While the cool-down runs, Allow refuses and an outcome changes nothing.
LEMMA CoolingRefuses ==
    ASSUME NEW b \in BreakerRecord, b.state = "Open", b.openAge < HalfOpenAfter
    PROVE  ~Allowed(b) /\ AfterAllow(b) = b
BY DEF Allowed, CoolingDown, AfterAllow
=============================================================================
