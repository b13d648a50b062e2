------------------------ MODULE ResponseCache_proofs ------------------------
(***************************************************************************)
(* What is proved of ResponseCache for every set of requests, keys, scores *)
(* and restarts.                                                           *)
(***************************************************************************)
EXTENDS ResponseCache, TLAPS

Stages == {"new", "asking", "missed", "waiting", "calling", "storing", "writing",
           "done", "failed", "gone"}

Leading(r) == st[r] \in {"calling", "storing", "writing"}

\* OneCallPerKey alone is not inductive: the closure of singleflight holds the key
\* until the response is stored, not only while the provider is called.
OneLeaderPerKey ==
    /\ st \in [Requests -> Stages]
    /\ \A r, p \in Requests : Leading(r) /\ Leading(p) /\ Key(r) = Key(p) => r = p

\* Coalescing (singleflight in cache_middleware.go): however lookups, failures,
\* stores, expiries and restarts interleave, no two requests with one key are at the
\* provider at the same time.
THEOREM MissesCoalesce == Spec => []OneCallPerKey
<1>1. Init => OneLeaderPerKey
  BY DEF Init, OneLeaderPerKey, Leading, Stages
<1>2. OneLeaderPerKey /\ [Next]_vars => OneLeaderPerKey'
  <2> SUFFICES ASSUME OneLeaderPerKey, [Next]_vars PROVE OneLeaderPerKey'
    OBVIOUS
  \* A step that makes no request a leader.
  <2>1. ASSUME st' \in [Requests -> Stages],
               \A p \in Requests : Leading(p)' => Leading(p)
        PROVE  OneLeaderPerKey'
    BY <2>1 DEF OneLeaderPerKey, Key
  \* A step that moves only r.
  <2>2. ASSUME NEW r \in Requests, NEW s \in Stages, st' = [st EXCEPT ![r] = s]
        PROVE  /\ st' \in [Requests -> Stages] /\ st'[r] = s
               /\ \A p \in Requests : p # r => st'[p] = st[p]
    BY <2>2 DEF OneLeaderPerKey
  <2>3. ASSUME NEW r \in Requests, NEW s \in Stages, st' = [st EXCEPT ![r] = s],
               s \notin {"calling", "storing", "writing"} \/ Leading(r)
        PROVE  OneLeaderPerKey'
    <3>1. \A p \in Requests : Leading(p)' => Leading(p)
      BY <2>2, <2>3 DEF Leading
    <3>2. QED BY <2>1, <2>2, <2>3, <3>1
  <2>4. ASSUME NEW r \in Requests, NEW o \in {"done", "failed"}, Finish(r, o)
        PROVE  OneLeaderPerKey'
    <3>1. /\ st' \in [Requests -> Stages]
          /\ \A p \in Requests : st'[p] = o \/ st'[p] = st[p]
      BY <2>4 DEF Finish, OneLeaderPerKey, Stages
    <3>2. QED BY <2>1, <2>4, <3>1 DEF Leading
  <2>5. ASSUME NEW r \in Requests, Lookup(r) PROVE OneLeaderPerKey'
    <3>1. PICK s \in {"done", "asking", "missed"} : st' = [st EXCEPT ![r] = s]
      BY <2>5 DEF Lookup, Hit
    <3>2. QED BY <2>3, <3>1 DEF Stages
  <2>6. ASSUME NEW r \in Requests, NEW embedded \in BOOLEAN, AskQuality(r, embedded)
        PROVE  OneLeaderPerKey'
    <3>1. PICK s \in {"done", "missed"} : st' = [st EXCEPT ![r] = s]
      BY <2>6 DEF AskQuality, Hit
    <3>2. QED BY <2>3, <3>1 DEF Stages
  <2>7. ASSUME NEW r \in Requests, Do(r) PROVE OneLeaderPerKey'
    <3>1. CASE InFlight(r)
      <4>1. st' = [st EXCEPT ![r] = "waiting"]
        BY <2>7, <3>1 DEF Do
      <4>2. "waiting" \in Stages /\ "waiting" \notin {"calling", "storing", "writing"}
        BY DEF Stages
      <4>3. QED BY <2>3, <2>7, <4>1, <4>2
    <3>2. CASE ~InFlight(r)
      <4>1. st' = [st EXCEPT ![r] = "calling"]
        BY <2>7, <3>2 DEF Do
      <4>2. \A p \in Requests : Leading(p) => Key(p) # Key(r)
        BY <3>2 DEF InFlight, Leading
      <4>3. /\ st' \in [Requests -> Stages]
            /\ \A p \in Requests : p # r => st'[p] = st[p]
        BY <2>2, <4>1 DEF Stages
      <4>4. QED BY <4>2, <4>3 DEF OneLeaderPerKey, Leading, Key
    <3>3. QED BY <3>1, <3>2
  <2>8. ASSUME NEW r \in Requests, NEW victim, Succeeds(r, victim) PROVE OneLeaderPerKey'
    BY <2>3, <2>8 DEF Succeeds, Leading, Stages
  <2>9. ASSUME NEW r \in Requests, StoreFast(r) PROVE OneLeaderPerKey'
    BY <2>3, <2>9 DEF StoreFast, Leading, Stages
  <2>10. ASSUME NEW r \in Requests, StoreLine(r) PROVE OneLeaderPerKey'
    BY <2>4, <2>10 DEF StoreLine
  <2>11. ASSUME NEW r \in Requests, Fails(r) PROVE OneLeaderPerKey'
    BY <2>4, <2>11 DEF Fails
  <2>12. ASSUME NEW torn \in BOOLEAN, Restart(torn) PROVE OneLeaderPerKey'
    <3>1. /\ st' \in [Requests -> Stages]
          /\ \A p \in Requests : ~Leading(p)'
      BY <2>12 DEF Restart, OneLeaderPerKey, Leading, Stages
    <3>2. QED BY <2>1, <3>1
  <2>13. CASE st' = st
    BY <2>1, <2>13 DEF OneLeaderPerKey, Leading
  <2>14. QED
    BY <2>5, <2>6, <2>7, <2>8, <2>9, <2>10, <2>11, <2>12, <2>13
       DEF Next, Step, Expire, QualityStored, vars
<1>3. OneLeaderPerKey => OneCallPerKey
  BY DEF OneLeaderPerKey, OneCallPerKey, Leading
<1>4. QED BY <1>1, <1>2, <1>3, PTL DEF Spec
=============================================================================
