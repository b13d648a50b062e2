----------------------- MODULE CircuitBreaker_proofs -----------------------
(***************************************************************************)
(* Proofs about CircuitBreaker, for every policy, every finite set of      *)
(* callers and every bound on the window's counters.                       *)
(***************************************************************************)
EXTENDS CircuitBreaker, Breaker_proofs, FiniteSetTheorems

\* Type correctness of the breaker and of the calls it has let through.
THEOREM TypeCorrect == Spec => []TypeOK
<1>1. Init => TypeOK
  BY NewType DEF Init, TypeOK, New
<1>2. TypeOK /\ [Next]_vars => TypeOK'
  <2> SUFFICES ASSUME TypeOK, [Next]_vars PROVE TypeOK'
    OBVIOUS
  <2> USE DEF TypeOK
  <2>1. ASSUME NEW c \in Callers, IsAllowed(c) PROVE TypeOK'
    <3>1. br' \in BreakerRecord
      BY <2>1, AfterAllowType DEF IsAllowed
    <3>2. CASE br.state = "Closed"
      BY <2>1, <3>1, <3>2, AllowClosed DEF IsAllowed, GivenTo
    <3>3. CASE br.state # "Closed" /\ Allowed(br)
      BY <2>1, <3>1, <3>3, AllowSlot DEF IsAllowed, GivenTo
    <3>4. CASE ~Allowed(br)
      BY <2>1, <3>1, <3>4, AllowRefused DEF IsAllowed, GivenTo
    <3>5. QED BY <3>2, <3>3, <3>4
  <2>2. ASSUME NEW c \in Callers, NEW ok \in BOOLEAN, RecordOutcome(c, ok)
        PROVE  TypeOK'
    <3>1. br' \in BreakerRecord
      BY <2>2, RecordType DEF RecordOutcome
    <3>2. QED BY <2>2, <3>1 DEF RecordOutcome
  <2>3. ASSUME NEW c \in Callers, NoOutcome(c) PROVE TypeOK'
    BY <2>3 DEF NoOutcome
  <2>4. CASE Filter
    <3>1. br' \in BreakerRecord
      BY <2>4, AfterAllowType DEF Filter
    <3>2. CASE br.state = "Closed"
      BY <2>4, <3>1, <3>2, AllowClosed DEF Filter, GivenTo
    <3>3. CASE br.state # "Closed" /\ Allowed(br)
      BY <2>4, <3>1, <3>3, AllowSlot DEF Filter, GivenTo
    <3>4. CASE ~Allowed(br)
      BY <2>4, <3>1, <3>4, AllowRefused DEF Filter, GivenTo
    <3>5. QED BY <3>2, <3>3, <3>4
  <2>5. CASE Tick
    BY <2>5, AgedType, AgedKeeps DEF Tick
  <2>6. CASE UNCHANGED vars
    BY <2>6 DEF vars
  <2>7. QED BY <2>1, <2>2, <2>3, <2>4, <2>5, <2>6 DEF Next, Answer
<1>3. QED BY <1>1, <1>2, PTL DEF Spec

\* Every slot Allow hands out in a probing period is in flight, answered or
\* known to be lost.
THEOREM SlotsAreAccounted == Spec => []SlotsAccounted
<1>1. Init => SlotsAccounted
  BY DEF Init, SlotsAccounted, New
<1>2. TypeOK /\ TypeOK' /\ SlotsAccounted /\ [Next]_vars => SlotsAccounted'
  <2> SUFFICES ASSUME TypeOK, TypeOK', SlotsAccounted, [Next]_vars,
                      br'.state = "HalfOpen"
               PROVE  /\ br'.probesSent <= ProbeCount
                      /\ br'.probesSent <=
                            Cardinality(probes') + br'.probesPassed + lost'
                      /\ br'.probesPassed < ProbeCount
    BY DEF SlotsAccounted
  <2>1. IsFiniteSet(probes) /\ Cardinality(probes) \in Nat
    BY CallersAssumption, FS_Subset, FS_CardinalityType DEF TypeOK
  <2>2. br \in BreakerRecord /\ lost \in Nat /\ ProbeCount \in Nat /\ ProbeCount > 0
    BY PolicyAssumption DEF TypeOK
  <2>3. ASSUME NEW S, Allowed(br), br.state # "Closed", GivenTo(S),
               br' = AfterAllow(br),
               \/ S = {}
               \/ \E c : c \notin probes /\ S = {c}
        PROVE  /\ br'.probesSent <= ProbeCount
               /\ br'.probesSent <=
                     Cardinality(probes') + br'.probesPassed + lost'
               /\ br'.probesPassed < ProbeCount
    <3>1. CASE br.state = "Open"
      <4>1. br'.probesSent = 1 /\ br'.probesPassed = 0
        BY <2>2, <2>3, <3>1, AllowSlot
      <4>2. probes' = S /\ lost' = IF S = {} THEN 1 ELSE 0
        BY <2>3, <3>1 DEF GivenTo
      <4>3. Cardinality(S) = IF S = {} THEN 0 ELSE 1
        BY <2>3, FS_EmptySet, FS_Singleton
      <4>4. QED BY <2>2, <4>1, <4>2, <4>3
    <3>2. CASE br.state = "HalfOpen"
      <4>1. /\ br.probesSent < ProbeCount
            /\ br'.probesSent = br.probesSent + 1
            /\ br'.probesPassed = br.probesPassed
        BY <2>2, <2>3, <3>2, AllowSlot
      <4>2. /\ probes' = probes \cup S
            /\ lost' = IF S = {} THEN lost + 1 ELSE lost
        BY <2>3, <3>2 DEF GivenTo
      <4>3. Cardinality(probes \cup S)
              = IF S = {} THEN Cardinality(probes) ELSE Cardinality(probes) + 1
        <5>1. CASE S = {}
          <6>1. probes \cup S = probes
            BY <5>1
          <6>2. QED BY <5>1, <6>1
        <5>2. CASE \E c : c \notin probes /\ S = {c}
          BY <2>1, <5>2, FS_AddElement
        <5>3. QED BY <2>3, <5>1, <5>2
      <4>4. QED BY <2>1, <2>2, <3>2, <4>1, <4>2, <4>3 DEF SlotsAccounted, BreakerRecord
    <3>3. QED BY <2>2, <2>3, <3>1, <3>2 DEF BreakerRecord, State
  <2>4. ASSUME NEW c \in Callers, IsAllowed(c) PROVE SlotsAccounted'
    <3>1. CASE br.state = "Closed"
      BY <2>2, <2>4, <3>1, AllowClosed DEF IsAllowed
    <3>2. CASE Allowed(br) /\ br.state # "Closed"
      BY <2>3, <2>4, <3>2 DEF IsAllowed, TypeOK, SlotsAccounted
    <3>3. CASE ~Allowed(br)
      BY <2>4, <3>3, AllowRefused DEF IsAllowed, GivenTo, SlotsAccounted
    <3>4. QED BY <3>1, <3>2, <3>3
  <2>5. CASE Filter
    <3>1. CASE br.state = "Closed"
      BY <2>2, <2>5, <3>1, AllowClosed DEF Filter
    <3>2. CASE Allowed(br) /\ br.state # "Closed"
      BY <2>3, <2>5, <3>2 DEF Filter
    <3>3. CASE ~Allowed(br)
      BY <2>5, <3>3, AllowRefused DEF Filter, GivenTo, SlotsAccounted
    <3>4. QED BY <3>1, <3>2, <3>3 DEF SlotsAccounted
  <2>6. ASSUME NEW c \in Callers, NEW ok \in BOOLEAN, RecordOutcome(c, ok)
        PROVE  SlotsAccounted'
    <3>1. br.state = "HalfOpen"
      BY <2>2, <2>6, RecordOther DEF RecordOutcome
    <3>2. /\ br'.probesSent = br.probesSent
          /\ br'.probesPassed = br.probesPassed + 1
          /\ br'.probesPassed < ProbeCount
      BY <2>2, <2>6, <3>1, RecordHalfOpen DEF RecordOutcome
    <3>3. probes' = probes \ {c} /\ lost' = lost
      BY <2>6 DEF RecordOutcome
    <3>4. /\ Cardinality(probes \ {c}) \in Nat
          /\ Cardinality(probes \ {c}) >= Cardinality(probes) - 1
      <4>1. /\ IsFiniteSet(probes \ {c})
            /\ Cardinality(probes \ {c})
                 = IF c \in probes THEN Cardinality(probes) - 1 ELSE Cardinality(probes)
        BY <2>1, FS_RemoveElement
      <4>2. Cardinality(probes \ {c}) \in Nat
        BY <4>1, FS_CardinalityType
      <4>3. QED BY <2>1, <4>1, <4>2
    <3>5. QED BY <2>1, <2>2, <3>1, <3>2, <3>3, <3>4 DEF SlotsAccounted, BreakerRecord
  <2>7. ASSUME NEW c \in Callers, NoOutcome(c) PROVE SlotsAccounted'
    <3>1. Cardinality(probes \ {c})
            = IF c \in probes THEN Cardinality(probes) - 1 ELSE Cardinality(probes)
      BY <2>1, FS_RemoveElement
    <3>2. QED BY <2>1, <2>2, <2>7, <3>1 DEF NoOutcome, SlotsAccounted, BreakerRecord
  <2>8. CASE Tick
    BY <2>2, <2>8, AgedKeeps DEF Tick, SlotsAccounted
  <2>9. CASE UNCHANGED vars
    BY <2>9 DEF vars, SlotsAccounted
  <2>10. QED
    BY <2>4, <2>5, <2>6, <2>7, <2>8, <2>9 DEF Next, Answer, SlotsAccounted
<1>3. QED BY <1>1, <1>2, TypeCorrect, PTL DEF Spec

\* A breaker that refuses every call in HalfOpen with nothing in flight has
\* lost a slot: with every call answered, Allow cannot wedge.
THEOREM WedgeNeedsLostSlot == Spec => []WedgedOnlyByLostSlot
<1>1. TypeOK /\ SlotsAccounted => WedgedOnlyByLostSlot
  <2> SUFFICES ASSUME TypeOK, SlotsAccounted, Wedged PROVE lost > 0
    BY DEF WedgedOnlyByLostSlot
  <2>1. br.probesSent >= ProbeCount
    BY PolicyAssumption
       DEF Wedged, Allowed, SlotFree, CoolingDown, TypeOK, BreakerRecord
  <2>2. probes = {} /\ Cardinality(probes) = 0
    BY FS_EmptySet DEF Wedged, TypeOK
  <2>3. QED
    BY <2>1, <2>2, PolicyAssumption DEF Wedged, SlotsAccounted, TypeOK, BreakerRecord
<1>2. QED BY <1>1, TypeCorrect, SlotsAreAccounted, PTL

\* The breaker with its windows, clocks and counters implements the abstract
\* promise: open lets nothing through, a probing period lets at most
\* ProbeCount calls through, and only a probing period leads back to Closed.
THEOREM ImplementsPromise == Spec => KeepsPromise
<1>1. Init => Promise!Init
  BY DEF Init, Promise!Init, New
<1>2. TypeOK /\ TypeOK' /\ SlotsAccounted /\ [Next]_vars => [Promise!Next]_(Promise!vars)
  <2> SUFFICES ASSUME TypeOK, TypeOK', SlotsAccounted, [Next]_vars
               PROVE  Promise!Next \/ UNCHANGED Promise!vars
    OBVIOUS
  <2> DEFINE slots == IF br.state = "HalfOpen" THEN ProbeCount - br.probesSent ELSE 0
  <2>0. br \in BreakerRecord /\ ProbeCount \in Nat
    BY PolicyAssumption DEF TypeOK
  <2>1. ASSUME Allowed(br), br.state # "Closed", br' = AfterAllow(br)
        PROVE  /\ \/ br.state = "Open" /\ slots' = ProbeCount - 1
                  \/ br.state = "HalfOpen" /\ slots > 0 /\ slots' = slots - 1
               /\ br'.state = "HalfOpen"
    BY <2>0, <2>1, AllowSlot DEF BreakerRecord, State
  <2>2. ASSUME br.state = "Closed", br' = AfterAllow(br)
        PROVE  br'.state = br.state /\ slots' = slots /\ Allowed(br)
    BY <2>0, <2>2, AllowClosed
  <2>3. ASSUME NEW c \in Callers, IsAllowed(c)
        PROVE  Promise!Next \/ UNCHANGED Promise!vars
    <3>1. CASE br.state = "Closed"
      <4>1. Promise!Pass(c)
        BY <2>2, <2>3, <3>1 DEF IsAllowed, Promise!Pass
      <4>2. QED BY <4>1 DEF Promise!Next
    <3>2. CASE Allowed(br) /\ br.state # "Closed"
      <4>1. Promise!Probe(c)
        BY <2>1, <2>3, <3>2 DEF IsAllowed, Promise!Probe
      <4>2. QED BY <4>1 DEF Promise!Next
    <3>3. CASE ~Allowed(br)
      BY <2>3, <3>3, AllowRefused DEF IsAllowed, Promise!vars
    <3>4. QED BY <3>1, <3>2, <3>3
  <2>4. ASSUME Filter PROVE Promise!Next \/ UNCHANGED Promise!vars
    <3>1. CASE br.state = "Closed"
      BY <2>2, <2>4, <3>1 DEF Filter, Promise!vars
    <3>2. CASE Allowed(br) /\ br.state # "Closed"
      <4>1. Promise!Waste
        BY <2>1, <2>4, <3>2 DEF Filter, Promise!Waste
      <4>2. QED BY <4>1 DEF Promise!Next
    <3>3. CASE ~Allowed(br)
      BY <2>4, <3>3, AllowRefused DEF Filter, Promise!vars
    <3>4. QED BY <3>1, <3>2, <3>3
  <2>5. ASSUME NEW c \in Callers, NEW ok \in BOOLEAN, RecordOutcome(c, ok)
        PROVE  Promise!Return(c)
    <3>1. br' = Record(br, ok) /\ br'.state \in State
      BY <2>5, RecordType, Fields DEF RecordOutcome, TypeOK
    <3>2. CASE br.state = "HalfOpen"
      <4>1. CASE br'.state = "HalfOpen"
        BY <2>0, <2>5, <3>1, <3>2, <4>1, RecordHalfOpen DEF RecordOutcome, Promise!Return
      <4>2. CASE br'.state # "HalfOpen"
        BY <2>5, <3>1, <3>2, <4>2 DEF RecordOutcome, Promise!Return, State
      <4>3. QED BY <4>1, <4>2
    <3>3. CASE br.state # "HalfOpen"
      <4>1. /\ br'.state # "HalfOpen"
            /\ br.state = "Open" => br'.state = "Open"
        BY <2>0, <3>1, <3>3, RecordOther
      <4>2. QED BY <2>0, <2>5, <3>1, <3>3, <4>1, Fields
                DEF RecordOutcome, Promise!Return, State
    <3>4. QED BY <3>2, <3>3
  <2>6. ASSUME NEW c \in Callers, NoOutcome(c) PROVE Promise!Return(c)
    BY <2>6 DEF NoOutcome, Promise!Return
  <2>7. CASE Tick
    BY <2>0, <2>7, AgedKeeps DEF Tick, Promise!vars
  <2>8. CASE UNCHANGED vars
    BY <2>8 DEF vars, Promise!vars
  <2>9. QED
    BY <2>3, <2>4, <2>5, <2>6, <2>7, <2>8 DEF Next, Answer, Promise!Next
<1>3. QED
  BY <1>1, <1>2, TypeCorrect, SlotsAreAccounted, PTL DEF Spec, KeepsPromise, Promise!Spec
=============================================================================
