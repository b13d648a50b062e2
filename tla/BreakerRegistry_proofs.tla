----------------------- MODULE BreakerRegistry_proofs -----------------------
(***************************************************************************)
(* Proofs about BreakerRegistry, for every policy, any number of replicas  *)
(* and requests, and a store that may fail, lose entries or be overtaken.  *)
(***************************************************************************)
EXTENDS BreakerRegistry, Breaker_proofs, Integers

\* RecordOutcome counts a failure; a call recorded as a success leaves the count.
LEMMA OlderType ==
    ASSUME NEW limit \in Nat, NEW age \in 0 .. limit
    PROVE  Older(age, limit) \in 0 .. limit /\ Older(age, limit) >= age
BY DEF Older

\* Breakers, requests, pushes and the store's entry keep their types, and a
\* replica that has not seen the model has no request under way.
THEOREM RegistryTypeCorrect == Spec => []TypeOK
<1>1. Init => TypeOK
  BY PolicyAssumption, RegistryAssumption DEF Init, TypeOK, State
<1>2. TypeOK /\ [Next]_vars => TypeOK'
  <2> SUFFICES ASSUME TypeOK, [Next]_vars PROVE TypeOK'
    OBVIOUS
  <2> USE RegistryAssumption, PolicyAssumption DEF TypeOK
  <2>1. ASSUME NEW r \in Replicas, Seed(r) PROVE TypeOK'
    <3>1. CASE /\ stored # None
               /\ br' = [br EXCEPT ![r] = SetState(New, stored)]
               /\ wait' = [wait EXCEPT ![r] = IF stored = "Open" THEN HalfOpenAfter ELSE 0]
      <4>1. SetState(New, stored) \in BreakerRecord
        BY <3>1, NewType, SetStateKeeps
      <4>2. QED BY <2>1, <3>1, <4>1 DEF Seed
    <3>2. CASE br' = [br EXCEPT ![r] = New] /\ UNCHANGED wait
      BY <2>1, <3>2, NewType DEF Seed
    <3>3. QED BY <2>1, <3>1, <3>2 DEF Seed
  <2>2. ASSUME NEW r \in Replicas, Filter(r) PROVE TypeOK'
    <3>1. AfterAllow(br[r]) \in BreakerRecord
      BY <2>2, AfterAllowType DEF Filter
    <3>2. QED BY <2>2, <3>1 DEF Filter
  <2>3. ASSUME NEW r \in Replicas, Restart(r) PROVE TypeOK'
    BY <2>3 DEF Restart, State
  <2>4. ASSUME NEW q \in Requests, IsAllowed(q) PROVE TypeOK'
    <3>1. Home[q] \in Replicas /\ AfterAllow(br[Home[q]]) \in BreakerRecord
      BY <2>4, AfterAllowType DEF IsAllowed
    <3>2. QED BY <2>4, <3>1 DEF IsAllowed
  <2>5. ASSUME NEW q \in Requests, ReadBefore(q) PROVE TypeOK'
    <3>1. br[Home[q]] \in BreakerRecord
      BY <2>5 DEF ReadBefore
    <3>2. br[Home[q]].state \in State
      BY <3>1, Fields
    <3>3. QED BY <2>5, <3>2 DEF ReadBefore
  <2>6. ASSUME NEW q \in Requests, NEW ok \in BOOLEAN, RecordResult(q, ok) PROVE TypeOK'
    <3>1. Home[q] \in Replicas /\ br[Home[q]] \in BreakerRecord
      BY <2>6 DEF RecordResult
    <3>2. Record(br[Home[q]], ok) \in BreakerRecord
      BY <3>1, RecordType
    <3>3. fails' \in 0 .. MinRequests
      BY <2>6, OlderType DEF RecordResult
    <3>4. QED BY <2>6, <3>1, <3>2, <3>3 DEF RecordResult
  <2>7. ASSUME NEW q \in Requests, ReadAfter(q) PROVE TypeOK'
    <3>1. br[Home[q]] \in BreakerRecord
      BY <2>7 DEF ReadAfter
    <3>2. br[Home[q]].state \in State
      BY <3>1, Fields
    <3>3. QED BY <2>7, <3>2 DEF ReadAfter, State
  <2>8. ASSUME NEW q \in Requests, NoOutcome(q) PROVE TypeOK'
    BY <2>8 DEF NoOutcome
  <2>9. ASSUME NEW q \in Requests, Save(q) PROVE TypeOK'
    BY <2>9 DEF Save
  <2>10. CASE Expire
    BY <2>10 DEF Expire
  <2>11. CASE Tick
    <3>1. \A r \in Replicas : br[r] # None => Aged(br[r]) \in BreakerRecord
      BY AgedType
    <3>2. br' \in [Replicas -> BreakerRecord \cup {None}]
      BY <2>11, <3>1 DEF Tick
    <3>3. wait' \in [Replicas -> 0 .. HalfOpenAfter]
      BY <2>11 DEF Tick
    <3>4. \A r \in Replicas : br'[r] = None => br[r] = None
      BY <2>11, <3>1 DEF Tick
    <3>5. QED BY <2>11, <3>2, <3>3, <3>4 DEF Tick
  <2>12. CASE UNCHANGED vars
    BY <2>12 DEF vars
  <2>13. QED
    BY <2>1, <2>2, <2>3, <2>4, <2>5, <2>6, <2>7, <2>8, <2>9, <2>10, <2>11, <2>12
       DEF Next, RecordOutcome
<1>3. QED BY <1>1, <1>2, PTL DEF Spec

-----------------------------------------------------------------------------
\* The arithmetic of RecordFailure's threshold: a count that reaches the
\* threshold's share of MinRequests still does when it grows.
LEMMA EvidenceGrows ==
    ASSUME NEW f \in Nat, NEW g \in Nat, f <= g,
           f * ThresholdDen > (ThresholdDen - ThresholdNum) * MinRequests
    PROVE  g * ThresholdDen > (ThresholdDen - ThresholdNum) * MinRequests
<1>1. f * ThresholdDen <= g * ThresholdDen
  BY PolicyAssumption
<1>2. f * ThresholdDen \in Nat /\ g * ThresholdDen \in Nat
  BY PolicyAssumption
<1>3. (ThresholdDen - ThresholdNum) * MinRequests \in Int
  BY PolicyAssumption
<1>4. QED BY <1>1, <1>2, <1>3

\* A window that RecordFailure trips on holds as many failures as the threshold
\* asks of MinRequests calls.
LEMMA TripIsEvidence ==
    ASSUME NEW f \in Nat, NEW t \in Nat, f <= t, Degraded(f, t),
           NEW g \in 0 .. MinRequests, f <= g \/ g = MinRequests
    PROVE  g * ThresholdDen > (ThresholdDen - ThresholdNum) * MinRequests
<1> DEFINE D == ThresholdDen
           N == ThresholdNum
           M == MinRequests
<1>1. D \in Nat /\ N \in Nat /\ M \in Nat /\ N <= D /\ M > 0 /\ t >= M
  BY PolicyAssumption, RegistryAssumption DEF Degraded
<1>2. (t - f) * D < N * t
  BY DEF Degraded
<1> HIDE DEF D, N, M
<1>3. f * D > (D - N) * t
  <2>1. (t - f) * D = t * D - f * D /\ (D - N) * t = D * t - N * t /\ t * D = D * t
    BY <1>1
  <2>2. t * D \in Nat /\ f * D \in Nat /\ N * t \in Nat
    BY <1>1
  <2>3. QED BY <1>2, <2>1, <2>2
<1>4. (D - N) * t >= (D - N) * M
  <2>1. D - N \in Nat
    BY <1>1
  <2>2. QED BY <1>1, <2>1
<1>5. f * D > (D - N) * M
  <2>1. f * D \in Int /\ (D - N) * t \in Int /\ (D - N) * M \in Int
    BY <1>1
  <2>2. QED BY <1>3, <1>4, <2>1
<1>6. CASE f <= g
  BY <1>5, <1>6, EvidenceGrows DEF D, N, M
<1>7. CASE g = M
  <2>1. (t - f) * D >= 0
    BY <1>1
  <2>2. N * t > 0
    BY <1>1, <1>2, <2>1
  <2>3. N > 0
    BY <1>1, <2>2
  <2>4. N * M > 0
    BY <1>1, <2>3
  <2>5. (D - N) * M = D * M - N * M /\ D * M = M * D
    BY <1>1
  <2>6. M * D > (D - N) * M
    BY <1>1, <2>4, <2>5
  <2>7. QED BY <1>7, <2>6 DEF D, N, M
<1>8. QED BY <1>6, <1>7 DEF M

\* What an outcome does to the window: RecordSuccess adds no failure,
\* RecordFailure at most one, and only a degraded window trips a closed breaker.
LEMMA RecordWindow ==
    ASSUME NEW b \in BreakerRecord, NEW ok \in BOOLEAN, b.failures <= b.total
    PROVE  /\ Record(b, ok).failures <= Record(b, ok).total
           /\ Record(b, ok).state = "Closed" =>
                \/ Record(b, ok).failures = 0
                \/ /\ b.state = "Closed"
                   /\ Record(b, ok).failures = IF ok THEN b.failures ELSE b.failures + 1
           /\ b.state = "Closed" /\ Record(b, ok).state # "Closed" =>
                /\ ~ok
                /\ Record(b, ok).failures = b.failures + 1
                /\ Degraded(Record(b, ok).failures, Record(b, ok).total)
<1>1. CASE ok
  BY <1>1 DEF Record, RecordSuccess, BreakerRecord, State
<1>2. CASE ~ok
  BY <1>2 DEF Record, RecordFailure, Trip, BreakerRecord, State
<1>3. QED BY <1>1, <1>2

\* Allow never leaves a failure in the window that was not there, and never
\* takes a closed breaker out of Closed or another one into it.
LEMMA AllowWindow ==
    ASSUME NEW b \in BreakerRecord, b.failures <= b.total
    PROVE  /\ AfterAllow(b).failures <= AfterAllow(b).total
           /\ AfterAllow(b).failures <= b.failures
           /\ AfterAllow(b).state = "Closed" <=> b.state = "Closed"
<1>1. CASE b.state = "Closed"
  BY <1>1 DEF AfterAllow, RollWindow, BreakerRecord, State
<1>2. CASE b.state # "Closed" /\ Allowed(b)
  BY <1>2 DEF AfterAllow, TakeSlot, BreakerRecord, State
<1>3. CASE ~Allowed(b)
  BY <1>3, AllowRefused, Fields
<1>4. QED BY <1>1, <1>2, <1>3

\* The strengthening of ExclusionHasEvidence: a closed breaker has counted no
\* failure that was not seen, so the window that trips it is evidence.
FailuresSeen ==
    \A r \in Replicas : br[r] # None =>
        /\ br[r].failures <= br[r].total
        /\ br[r].state = "Closed" => br[r].failures <= fails \/ fails = MinRequests

\* Whatever pushes overtake each other, fail, expire or seed a replica, a model
\* is taken for degraded, in a replica or in the store, only after as many calls
\* failed as RecordFailure's threshold asks of a window.
THEOREM ExclusionIsEarned == Spec => []ExclusionHasEvidence
<1>1. Init => FailuresSeen /\ ExclusionHasEvidence
  BY DEF Init, FailuresSeen, ExclusionHasEvidence, Excluded
<1>2. TypeOK /\ FailuresSeen /\ ExclusionHasEvidence /\ [Next]_vars
        => FailuresSeen' /\ ExclusionHasEvidence'
  <2> SUFFICES ASSUME TypeOK, FailuresSeen, ExclusionHasEvidence, [Next]_vars
               PROVE  FailuresSeen' /\ ExclusionHasEvidence'
    OBVIOUS
  <2> USE RegistryAssumption, PolicyAssumption DEF TypeOK
  <2>0. fails \in 0 .. MinRequests /\ MinRequests \in Nat
    OBVIOUS
  \* A step that records nothing and takes no breaker out of Closed.
  <2>1. ASSUME fails' = fails, FailuresSeen', Excluded' => Excluded
        PROVE  FailuresSeen' /\ ExclusionHasEvidence'
    BY <2>1 DEF ExclusionHasEvidence, Evidence
  <2>2. ASSUME NEW r \in Replicas, br[r] # None,
               br' = [br EXCEPT ![r] = AfterAllow(@)],
               UNCHANGED <<pending, stored, fails>>
        PROVE  FailuresSeen' /\ ExclusionHasEvidence'
    <3> DEFINE c == AfterAllow(br[r])
    <3>1. br[r] \in BreakerRecord /\ br[r].failures <= br[r].total
      BY <2>2 DEF FailuresSeen
    <3>2. /\ c \in BreakerRecord /\ c.failures <= c.total /\ c.failures <= br[r].failures
          /\ c.state = "Closed" <=> br[r].state = "Closed"
      BY <3>1, AfterAllowType, AllowWindow
    <3>3. c.failures \in Nat /\ br[r].failures \in Nat
      BY <3>1, <3>2, Fields
    <3> HIDE DEF c
    <3>4. br' = [br EXCEPT ![r] = c]
      BY <2>2 DEF c
    <3>5. FailuresSeen'
      BY <2>0, <2>2, <3>2, <3>3, <3>4 DEF FailuresSeen
    <3>6. Excluded' => Excluded
      BY <2>2, <3>2, <3>4 DEF Excluded
    <3>7. QED BY <2>1, <2>2, <3>5, <3>6
  <2>3. ASSUME NEW r \in Replicas, Seed(r) PROVE FailuresSeen' /\ ExclusionHasEvidence'
    <3>1. PICK c \in BreakerRecord :
             /\ br' = [br EXCEPT ![r] = c]
             /\ c.failures = 0 /\ c.total = 0
             /\ c.state # "Closed" => stored # None /\ c.state = stored
      <4>1. CASE stored # None /\ br' = [br EXCEPT ![r] = SetState(New, stored)]
        <5>1. /\ SetState(New, stored) \in BreakerRecord
              /\ SetState(New, stored).state = stored
              /\ SetState(New, stored).failures = 0 /\ SetState(New, stored).total = 0
          BY <4>1, NewType, SetStateKeeps
        <5>2. QED BY <4>1, <5>1
      <4>2. CASE br' = [br EXCEPT ![r] = New]
        BY <4>2, NewType
      <4>3. QED BY <2>3, <4>1, <4>2 DEF Seed
    <3>2. FailuresSeen'
      BY <2>0, <2>3, <3>1 DEF FailuresSeen, Seed
    <3>3. Excluded' => Excluded
      BY <2>3, <3>1 DEF Excluded, Seed
    <3>4. QED BY <2>1, <2>3, <3>2, <3>3 DEF Seed
  <2>4. ASSUME NEW r \in Replicas, Filter(r) PROVE FailuresSeen' /\ ExclusionHasEvidence'
    BY <2>2, <2>4 DEF Filter
  <2>5. ASSUME NEW r \in Replicas, Restart(r) PROVE FailuresSeen' /\ ExclusionHasEvidence'
    <3>1. FailuresSeen'
      BY <2>5 DEF FailuresSeen, Restart
    <3>2. Excluded' => Excluded
      BY <2>5 DEF Excluded, Restart
    <3>3. QED BY <2>1, <2>5, <3>1, <3>2 DEF Restart
  <2>6. ASSUME NEW q \in Requests, IsAllowed(q) PROVE FailuresSeen' /\ ExclusionHasEvidence'
    BY <2>2, <2>6 DEF IsAllowed
  <2>7. ASSUME NEW q \in Requests, ReadBefore(q) \/ NoOutcome(q)
        PROVE  FailuresSeen' /\ ExclusionHasEvidence'
    BY <2>1, <2>7 DEF ReadBefore, NoOutcome, FailuresSeen, Excluded
  <2>8. ASSUME NEW q \in Requests, NEW ok \in BOOLEAN, RecordResult(q, ok)
        PROVE  FailuresSeen' /\ ExclusionHasEvidence'
    <3> DEFINE r == Home[q]
               c == Record(br[r], ok)
    <3>1. /\ r \in Replicas /\ br[r] \in BreakerRecord /\ br[r] # None
          /\ br[r].failures <= br[r].total
          /\ br[r].state = "Closed" => br[r].failures <= fails \/ fails = MinRequests
      BY <2>8 DEF FailuresSeen, RecordResult
    <3>2. c \in BreakerRecord
      BY <3>1, RecordType
    <3>3. /\ c.failures <= c.total
          /\ c.state = "Closed" =>
               \/ c.failures = 0
               \/ br[r].state = "Closed" /\ c.failures = IF ok THEN br[r].failures ELSE br[r].failures + 1
          /\ br[r].state = "Closed" /\ c.state # "Closed" =>
               ~ok /\ c.failures = br[r].failures + 1 /\ Degraded(c.failures, c.total)
      BY <3>1, RecordWindow
    <3>4. /\ c.failures \in Nat /\ c.total \in Nat /\ br[r].failures \in Nat
      BY <3>1, <3>2, Fields
    <3>5. /\ br' = [br EXCEPT ![r] = c] /\ UNCHANGED <<pending, stored>>
          /\ fails' = IF ok THEN fails ELSE Older(fails, MinRequests)
      BY <2>8 DEF RecordResult
    <3> HIDE DEF r, c
    <3>6. fails' \in 0 .. MinRequests /\ fails' >= fails
      BY <2>0, <3>5, OlderType
    <3>7. ~ok => fails' = fails + 1 \/ fails' = MinRequests
      BY <2>0, <3>5 DEF Older
    <3>8. FailuresSeen'
      <4> SUFFICES ASSUME NEW s \in Replicas, br'[s] # None
                   PROVE  /\ br'[s].failures <= br'[s].total
                          /\ br'[s].state = "Closed" =>
                               br'[s].failures <= fails' \/ fails' = MinRequests
        BY DEF FailuresSeen
      <4>1. CASE s = r
        <5>1. br'[s] = c
          BY <3>1, <3>5, <4>1
        <5>2. c.state = "Closed" => c.failures <= fails' \/ fails' = MinRequests
          BY <2>0, <3>1, <3>3, <3>4, <3>5, <3>6, <3>7
        <5>3. QED BY <3>3, <5>1, <5>2
      <4>2. CASE s # r
        <5>1. br'[s] = br[s] /\ br[s] \in BreakerRecord
          BY <3>5, <4>2
        <5>2. br[s].failures \in Nat
          BY <5>1, Fields
        <5>3. QED BY <2>0, <3>6, <5>1, <5>2 DEF FailuresSeen
      <4>3. QED BY <4>1, <4>2
    <3>9. Evidence => Evidence'
      <4>1. fails \in Nat /\ fails' \in Nat /\ fails <= fails'
        BY <2>0, <3>6
      <4>2. QED BY <4>1, EvidenceGrows DEF Evidence
    <3>10. CASE br[r].state = "Closed" /\ c.state # "Closed"
      <4>1. c.failures <= fails' \/ fails' = MinRequests
        BY <2>0, <3>1, <3>3, <3>4, <3>6, <3>7, <3>10
      <4>2. Evidence'
        BY <3>3, <3>4, <3>6, <3>10, <4>1, TripIsEvidence DEF Evidence
      <4>3. QED BY <3>8, <4>2 DEF ExclusionHasEvidence
    <3>11. CASE br[r].state # "Closed" \/ c.state = "Closed"
      <4>1. Excluded' => Excluded
        BY <3>1, <3>5, <3>11 DEF Excluded
      <4>2. QED BY <3>8, <3>9, <4>1 DEF ExclusionHasEvidence
    <3>12. QED BY <3>10, <3>11
  <2>9. ASSUME NEW q \in Requests, ReadAfter(q) PROVE FailuresSeen' /\ ExclusionHasEvidence'
    <3>1. br[Home[q]] # None /\ Home[q] \in Replicas
      BY <2>9 DEF ReadAfter
    <3>2. Excluded' => Excluded
      BY <2>9, <3>1 DEF Excluded, ReadAfter
    <3>3. FailuresSeen'
      BY <2>9 DEF FailuresSeen, ReadAfter
    <3>4. QED BY <2>1, <2>9, <3>2, <3>3 DEF ReadAfter
  <2>10. ASSUME NEW q \in Requests, Save(q) PROVE FailuresSeen' /\ ExclusionHasEvidence'
    BY <2>1, <2>10 DEF Save, FailuresSeen, Excluded
  <2>11. CASE Expire
    BY <2>1, <2>11 DEF Expire, FailuresSeen, Excluded
  <2>12. CASE Tick
    <3>1. \A r \in Replicas : br[r] # None =>
             /\ Aged(br[r]).state = br[r].state
             /\ Aged(br[r]).failures = br[r].failures
             /\ Aged(br[r]).total = br[r].total
      BY DEF Aged, BreakerRecord
    <3>2. FailuresSeen'
      BY <2>12, <3>1 DEF Tick, FailuresSeen
    <3>3. Excluded' => Excluded
      BY <2>12, <3>1 DEF Tick, Excluded
    <3>4. QED BY <2>1, <2>12, <3>2, <3>3 DEF Tick
  <2>13. CASE UNCHANGED vars
    BY <2>1, <2>13 DEF vars, FailuresSeen, Excluded
  <2>14. QED
    BY <2>3, <2>4, <2>5, <2>6, <2>7, <2>8, <2>9, <2>10, <2>11, <2>12, <2>13
       DEF Next, RecordOutcome
<1>3. QED BY <1>1, <1>2, RegistryTypeCorrect, PTL DEF Spec

-----------------------------------------------------------------------------
\* The strengthening of SeededOpenWaits: while a seeded replica has to wait, its
\* breaker is open and the rest of its cool-down is the rest of the wait.
WaitIsCoolDown ==
    \A r \in Replicas : wait[r] > 0 =>
        br[r] # None /\ br[r].state = "Open" /\ br[r].openAge + wait[r] = HalfOpenAfter

\* A replica seeded with a shared trip lets no request of its own through before
\* a full HalfOpenAfter has passed in it (setState and Allow).
THEOREM SeededReplicaWaits == Spec => []SeededOpenWaits
<1>1. Init => WaitIsCoolDown /\ SeededOpenWaits
  BY DEF Init, WaitIsCoolDown, SeededOpenWaits
<1>2. TypeOK /\ TypeOK' /\ WaitIsCoolDown /\ SeededOpenWaits /\ [Next]_vars
        => WaitIsCoolDown' /\ SeededOpenWaits'
  <2> SUFFICES ASSUME TypeOK, TypeOK', WaitIsCoolDown, SeededOpenWaits, [Next]_vars
               PROVE  WaitIsCoolDown' /\ SeededOpenWaits'
    OBVIOUS
  <2> USE RegistryAssumption, PolicyAssumption DEF TypeOK
  \* Allow refuses while the wait lasts, and leaves the breaker as it is.
  <2>1. ASSUME NEW r \in Replicas, br[r] # None, wait[r] > 0
        PROVE  ~Allowed(br[r]) /\ AfterAllow(br[r]) = br[r]
    <3>1. br[r] \in BreakerRecord
      BY <2>1
    <3>2. br[r].openAge \in 0 .. HalfOpenAfter
      BY <3>1, Fields
    <3>3. br[r].state = "Open" /\ br[r].openAge < HalfOpenAfter
      BY <2>1, <3>2 DEF WaitIsCoolDown
    <3>4. QED BY <3>1, <3>3, CoolingRefuses
  <2>2. ASSUME NEW r \in Replicas, Seed(r) PROVE WaitIsCoolDown' /\ SeededOpenWaits'
    <3>1. \A q \in Requests : Home[q] = r => pc[q] = "idle"
      BY <2>2 DEF Seed
    <3>2. SeededOpenWaits'
      BY <2>2, <3>1 DEF Seed, SeededOpenWaits
    <3>3. ASSUME wait'[r] > 0
          PROVE  br'[r] # None /\ br'[r].state = "Open" /\ br'[r].openAge + wait'[r] = HalfOpenAfter
      <4>1. wait[r] = 0
        BY <2>2 DEF Seed, WaitIsCoolDown
      <4>2. /\ stored = "Open" /\ br'[r] = SetState(New, stored)
            /\ wait'[r] = HalfOpenAfter
        BY <2>2, <3>3, <4>1 DEF Seed
      <4>3. /\ SetState(New, stored) \in BreakerRecord
            /\ SetState(New, stored).state = "Open" /\ SetState(New, stored).openAge = 0
        BY <4>2, NewType, SetStateKeeps DEF State
      <4>4. QED BY <4>2, <4>3
    <3>4. \A s \in Replicas : s # r => br'[s] = br[s] /\ wait'[s] = wait[s]
      BY <2>2 DEF Seed
    <3>5. WaitIsCoolDown'
      BY <3>3, <3>4 DEF WaitIsCoolDown
    <3>6. QED BY <3>2, <3>5
  <2>3. ASSUME NEW r \in Replicas, Filter(r) PROVE WaitIsCoolDown' /\ SeededOpenWaits'
    <3>1. \A s \in Replicas : wait[s] > 0 => br'[s] = br[s]
      BY <2>1, <2>3 DEF Filter
    <3>2. QED BY <2>3, <3>1 DEF Filter, WaitIsCoolDown, SeededOpenWaits
  <2>4. ASSUME NEW r \in Replicas, Restart(r) PROVE WaitIsCoolDown' /\ SeededOpenWaits'
    BY <2>4 DEF Restart, WaitIsCoolDown, SeededOpenWaits
  <2>5. ASSUME NEW q \in Requests, IsAllowed(q) PROVE WaitIsCoolDown' /\ SeededOpenWaits'
    <3>1. Home[q] \in Replicas /\ br[Home[q]] # None
      BY <2>5 DEF IsAllowed
    <3>2. \A s \in Replicas : wait[s] > 0 => br'[s] = br[s]
      BY <2>1, <2>5, <3>1 DEF IsAllowed
    <3>3. WaitIsCoolDown'
      BY <2>5, <3>2 DEF IsAllowed, WaitIsCoolDown
    <3>4. wait[Home[q]] > 0 => pc'[q] = "idle"
      BY <2>1, <2>5, <3>1 DEF IsAllowed
    <3>5. SeededOpenWaits'
      BY <2>5, <3>4 DEF IsAllowed, SeededOpenWaits
    <3>6. QED BY <3>3, <3>5
  <2>6. ASSUME NEW q \in Requests, NEW ok \in BOOLEAN, RecordResult(q, ok)
        PROVE  WaitIsCoolDown' /\ SeededOpenWaits'
    <3>1. Home[q] \in Replicas /\ ~(wait[Home[q]] > 0)
      BY <2>6 DEF RecordResult, SeededOpenWaits
    <3>2. \A s \in Replicas : wait[s] > 0 => br'[s] = br[s]
      BY <2>6, <3>1 DEF RecordResult
    <3>3. QED BY <2>6, <3>1, <3>2 DEF RecordResult, WaitIsCoolDown, SeededOpenWaits
  <2>7. ASSUME NEW q \in Requests, ReadBefore(q) \/ ReadAfter(q) \/ NoOutcome(q) \/ Save(q)
        PROVE  WaitIsCoolDown' /\ SeededOpenWaits'
    BY <2>7 DEF ReadBefore, ReadAfter, NoOutcome, Save, WaitIsCoolDown, SeededOpenWaits
  <2>8. CASE Expire
    BY <2>8 DEF Expire, WaitIsCoolDown, SeededOpenWaits
  <2>9. CASE Tick
    <3>1. SeededOpenWaits'
      BY <2>9 DEF Tick, SeededOpenWaits
    <3>2. ASSUME NEW r \in Replicas, wait'[r] > 0
          PROVE  br'[r] # None /\ br'[r].state = "Open" /\ br'[r].openAge + wait'[r] = HalfOpenAfter
      <4>1. wait[r] \in Nat /\ wait[r] > 0 /\ wait'[r] = wait[r] - 1
        BY <2>9, <3>2 DEF Tick
      <4>2. br[r] \in BreakerRecord /\ br[r].state = "Open" /\ br[r].openAge + wait[r] = HalfOpenAfter
        BY <4>1 DEF WaitIsCoolDown
      <4>3. br'[r] = Aged(br[r]) /\ br'[r] # None
        BY <2>9, <4>2, AgedType DEF Tick
      <4>4. Aged(br[r]).state = br[r].state
        BY <4>2, AgedKeeps
      <4>5. Aged(br[r]).openAge = Older(br[r].openAge, HalfOpenAfter)
        BY <4>2 DEF Aged, BreakerRecord
      <4>6. br[r].openAge \in Nat
        BY <4>2, Fields
      <4>7. Older(br[r].openAge, HalfOpenAfter) = br[r].openAge + 1
        BY <4>1, <4>2, <4>6 DEF Older
      <4>8. QED BY <4>1, <4>2, <4>3, <4>4, <4>5, <4>6, <4>7
    <3>3. WaitIsCoolDown'
      BY <3>2 DEF WaitIsCoolDown
    <3>4. QED BY <3>1, <3>3
  <2>10. CASE UNCHANGED vars
    BY <2>10 DEF vars, WaitIsCoolDown, SeededOpenWaits
  <2>11. QED
    BY <2>2, <2>3, <2>4, <2>5, <2>6, <2>7, <2>8, <2>9, <2>10 DEF Next, RecordOutcome
<1>3. QED BY <1>1, <1>2, RegistryTypeCorrect, PTL DEF Spec
=============================================================================
