-------------------------- MODULE FrontDoor_proofs --------------------------
(***************************************************************************)
(* Proofs about FrontDoor, for any number of requests, tenants and file    *)
(* contents and every size of the semaphore.                               *)
(***************************************************************************)
EXTENDS FrontDoor, FiniteSetTheorems, TLAPS

Places == {"new", "401", "authed", "503", "check", "check2", "locked", "running",
           "429", "cut", "aborted", "done"}
Request == [at : Places, tenant : Tenants \cup {None}, est : Nat]
Window == [entries : Seq(Nat), expired : Nat]
Reload == [cfg : Nat, next : {"auth", "limits"}]

\* The shape of the state that the proofs below rest on: every index points into
\* what the file has contained so far.
Shape ==
    /\ req \in [Requests -> Request]
    /\ \A r \in Requests : req[r].at \notin {"new", "401"} => req[r].tenant \in Tenants
    /\ sem \in Int
    /\ window \in [Tenants -> Window]
    /\ \A t \in Tenants : window[t].expired <= Len(window[t].entries)
    /\ file \in DOMAIN Configs /\ auth \in 1 .. file /\ limits \in 1 .. file
    /\ loads \in Seq(Reload)
    /\ \A i \in DOMAIN loads : loads[i].cfg \in 1 .. file
    /\ timer \in BOOLEAN /\ overlapped \in BOOLEAN

\* authenticate yields a tenant of the configuration, of a token or of a
\* certificate, or none.
LEMMA AuthenticateType ==
    ASSUME NEW c \in Credentials, NEW i \in DOMAIN Configs
    PROVE  authenticate(c, Configs[i]) \in Tenants \cup {None}
BY FrontDoorAssumption DEF authenticate, JWTTenant

\* The middleware's steps of a request leave the others alone.
LEMMA GoMoves ==
    ASSUME NEW r \in Requests, NEW at \in Places, req \in [Requests -> Request], Go(r, at)
    PROVE  /\ req' \in [Requests -> Request]
           /\ req'[r].at = at /\ req'[r].tenant = req[r].tenant /\ req'[r].est = req[r].est
           /\ \A p \in Requests : p # r => req'[p] = req[p]
<1>1. req' = [req EXCEPT ![r] = [req[r] EXCEPT !.at = at]]
  BY DEF Go
<1>2. [req[r] EXCEPT !.at = at] \in Request
  BY DEF Request
<1>3. QED BY <1>1, <1>2 DEF Request

\* purge keeps the entries after the expired ones.
LEMMA PurgeLen ==
    ASSUME NEW w \in Window, w.expired <= Len(w.entries)
    PROVE  purge(w) \in Seq(Nat) /\ Len(purge(w)) = Len(w.entries) - w.expired
BY DEF purge, Window

\* An entry that passes the cutoff stays in the window until the next purge.
LEMMA AgedWindow ==
    ASSUME NEW w \in Window
    PROVE  /\ [w EXCEPT !.expired = w.expired + 1] \in Window
           /\ [w EXCEPT !.expired = w.expired + 1].entries = w.entries
           /\ [w EXCEPT !.expired = w.expired + 1].expired = w.expired + 1
           /\ w.expired \in Nat /\ w.entries \in Seq(Nat)
BY DEF Window

\* A reload callback keeps the content it was started with.
LEMMA ReloadMoves ==
    ASSUME NEW l \in Reload
    PROVE  /\ [l EXCEPT !.next = "limits"] \in Reload
           /\ [l EXCEPT !.next = "limits"].cfg = l.cfg
           /\ [l EXCEPT !.next = "limits"].next = "limits"
BY DEF Reload

\* A reload callback that has done its work is removed; the others stay.
LEMMA RemoveType ==
    ASSUME NEW S, NEW s \in Seq(S), NEW i \in 1 .. Len(s)
    PROVE  /\ RemoveAt(s, i) \in Seq(S) /\ Len(RemoveAt(s, i)) = Len(s) - 1
           /\ \A j \in 1 .. Len(s) - 1 : \E k \in 1 .. Len(s) : RemoveAt(s, i)[j] = s[k]
<1> DEFINE front == SubSeq(s, 1, i - 1)
           back == SubSeq(s, i + 1, Len(s))
<1>1. /\ front \in Seq(S) /\ Len(front) = i - 1
      /\ \A j \in 1 .. i - 1 : front[j] = s[j]
  OBVIOUS
<1>2. /\ back \in Seq(S) /\ Len(back) = Len(s) - i
      /\ \A j \in 1 .. Len(s) - i : back[j] = s[i + j]
  OBVIOUS
<1>3. RemoveAt(s, i) = front \o back
  BY DEF RemoveAt
<1> HIDE DEF front, back
<1>4. front \o back \in Seq(S) /\ Len(front \o back) = Len(s) - 1
  BY <1>1, <1>2
<1>5. ASSUME NEW j \in 1 .. Len(s) - 1
      PROVE  \E k \in 1 .. Len(s) : (front \o back)[j] = s[k]
  <2>1. CASE j < i
    BY <1>1, <1>2, <2>1
  <2>2. CASE ~(j < i)
    <3>1. (front \o back)[j] = back[j - (i - 1)]
      BY <1>1, <1>2, <2>2
    <3>2. j - (i - 1) \in 1 .. Len(s) - i /\ i + (j - (i - 1)) = j + 1 /\ j + 1 \in 1 .. Len(s)
      BY <2>2
    <3>3. QED BY <1>2, <3>1, <3>2
  <2>3. QED BY <2>1, <2>2
<1>6. QED BY <1>3, <1>4, <1>5

\* Requests, windows and reloads keep their shape, whatever runs beside what.
THEOREM ShapeKept == Spec => []Shape
<1>1. Init => Shape
  <2> SUFFICES ASSUME Init PROVE Shape
    OBVIOUS
  <2>1. /\ req \in [Requests -> Request]
        /\ \A r \in Requests : req[r].at = "new"
    BY DEF Init, Request, Places
  <2>2. /\ window \in [Tenants -> Window]
        /\ \A t \in Tenants : window[t].expired <= Len(window[t].entries)
    BY DEF Init, Window
  <2>3. file \in DOMAIN Configs /\ auth \in 1 .. file /\ limits \in 1 .. file
    BY FrontDoorAssumption DEF Init
  <2>4. loads \in Seq(Reload) /\ DOMAIN loads = {}
    BY DEF Init
  <2>5. timer \in BOOLEAN /\ overlapped \in BOOLEAN
    BY Zenon DEF Init
  <2>6. sem \in Int
    BY DEF Init
  <2>7. QED BY <2>1, <2>2, <2>3, <2>4, <2>5, <2>6 DEF Shape
<1>2. Shape /\ [Next]_vars => Shape'
  <2> SUFFICES ASSUME Shape, [Next]_vars PROVE Shape'
    OBVIOUS
  <2> USE DEF Shape
  <2>1. ASSUME NEW r \in Requests, NEW c \in Credentials, NEW est \in Estimates,
               Authenticate(r, c, est)
        PROVE  Shape'
    <3> DEFINE t == authenticate(c, Configs[auth])
               n == [at |-> IF t = None THEN "401" ELSE "authed", tenant |-> t, est |-> est]
    <3>1. auth \in DOMAIN Configs /\ est \in Nat
      BY FrontDoorAssumption
    <3>2. t \in Tenants \cup {None}
      BY <3>1, AuthenticateType
    <3>3. req' = [req EXCEPT ![r] = n] /\ UNCHANGED <<sem, window, config>>
      BY <2>1 DEF Authenticate
    <3> HIDE DEF t
    <3>4. n \in Request /\ (n.at # "401" => n.tenant \in Tenants)
      BY <3>1, <3>2 DEF Request, Places
    <3> HIDE DEF n
    <3>5. req' \in [Requests -> Request]
      BY <3>3, <3>4
    <3>6. \A p \in Requests : req'[p].at \notin {"new", "401"} => req'[p].tenant \in Tenants
      BY <3>3, <3>4
    <3>7. QED BY <3>3, <3>5, <3>6 DEF config
  <2>2. ASSUME NEW r \in Requests, NEW at \in Places, Go(r, at), req[r].at \notin {"new", "401"}
        PROVE  /\ req' \in [Requests -> Request]
               /\ \A p \in Requests : req'[p].at \notin {"new", "401"} => req'[p].tenant \in Tenants
    BY <2>2, GoMoves
  <2>3. ASSUME NEW r \in Requests, Admit(r) PROVE Shape'
    BY <2>2, <2>3 DEF Admit, config, Places
  <2>4. ASSUME NEW r \in Requests, CheckMaxReq(r) PROVE Shape'
    BY <2>2, <2>4 DEF CheckMaxReq, config, Places
  <2>5. ASSUME NEW r \in Requests, CheckMaxTok(r) PROVE Shape'
    BY <2>2, <2>5 DEF CheckMaxTok, config, Places
  <2>6. ASSUME NEW t \in Tenants, NEW es \in Seq(Nat),
               window' = [window EXCEPT ![t] = [entries |-> es, expired |-> 0]]
        PROVE  /\ window' \in [Tenants -> Window]
               /\ \A u \in Tenants : window'[u].expired <= Len(window'[u].entries)
    <3>1. [entries |-> es, expired |-> 0] \in Window
      BY DEF Window
    <3>2. Len(es) >= 0
      OBVIOUS
    <3>3. QED BY <2>6, <3>1, <3>2
  <2>7. ASSUME NEW r \in Requests, CheckLocked(r) PROVE Shape'
    <3>1. req[r].tenant \in Tenants
      BY <2>7 DEF CheckLocked
    <3>2. purge(window[req[r].tenant]) \in Seq(Nat)
      BY <3>1, PurgeLen
    <3>3. /\ window' \in [Tenants -> Window]
          /\ \A u \in Tenants : window'[u].expired <= Len(window'[u].entries)
      BY <2>6, <2>7, <3>1, <3>2 DEF CheckLocked
    <3>4. PICK at \in Places : Go(r, at)
      BY <2>7 DEF CheckLocked, Places
    <3>5. QED BY <2>2, <2>7, <3>3, <3>4 DEF CheckLocked, Release, config
  <2>8. ASSUME NEW r \in Requests, NEW used \in Used, Finish(r, used) PROVE Shape'
    <3>1. req[r].tenant \in Tenants
      BY <2>8 DEF Finish
    <3>2. Append(purge(window[req[r].tenant]), used) \in Seq(Nat)
      BY <3>1, PurgeLen, FrontDoorAssumption
    <3>3. window' = [window EXCEPT ![req[r].tenant] =
                       [entries |-> Append(purge(window[req[r].tenant]), used), expired |-> 0]]
      BY <2>8 DEF Finish
    <3>4. /\ window' \in [Tenants -> Window]
          /\ \A u \in Tenants : window'[u].expired <= Len(window'[u].entries)
      BY <2>6, <3>1, <3>2, <3>3
    <3>5. QED BY <2>2, <2>8, <3>4 DEF Finish, Release, config, Places
  <2>9. ASSUME NEW r \in Requests, Panics(r) PROVE Shape'
    <3>1. Go(r, "aborted") /\ "aborted" \in Places /\ req[r].at = "running"
      BY <2>9 DEF Panics, Places
    <3>2. QED BY <2>2, <2>9, <3>1 DEF Panics, Release, config
  <2>10. ASSUME NEW t \in Tenants, Age(t) PROVE Shape'
    <3> DEFINE w == [window[t] EXCEPT !.expired = window[t].expired + 1]
    <3>1. window' = [window EXCEPT ![t] = w]
      BY <2>10 DEF Age
    <3>2. w \in Window /\ w.entries = window[t].entries /\ w.expired = window[t].expired + 1
      BY AgedWindow
    <3>3. window[t].expired + 1 <= Len(window[t].entries)
      BY <2>10, AgedWindow DEF Age
    <3> HIDE DEF w
    <3>4. /\ window' \in [Tenants -> Window]
          /\ \A u \in Tenants : window'[u].expired <= Len(window'[u].entries)
      BY <3>1, <3>2, <3>3
    <3>5. QED BY <2>10, <3>4 DEF Age, config
  <2>11. CASE Edit
    <3>1. file' \in DOMAIN Configs /\ auth' \in 1 .. file' /\ limits' \in 1 .. file'
      BY <2>11, FrontDoorAssumption DEF Edit
    <3>2. loads' = loads /\ \A i \in DOMAIN loads : loads[i].cfg \in 1 .. file'
      BY <2>11, FrontDoorAssumption DEF Edit
    <3>3. QED BY <2>11, <3>1, <3>2 DEF Edit
  <2>12. CASE Load
    <3> DEFINE l == [cfg |-> file, next |-> "auth"]
    <3>1. file \in Nat /\ file \in 1 .. file
      BY FrontDoorAssumption
    <3>2. l \in Reload /\ l.cfg = file
      BY <3>1 DEF Reload
    <3> HIDE DEF l
    <3>3. loads' = loads \/ loads' = Append(loads, l)
      BY <2>12 DEF Load, l
    <3>4. loads' \in Seq(Reload) /\ \A i \in DOMAIN loads' : loads'[i].cfg \in 1 .. file
      <4>1. CASE loads' = loads
        BY <4>1
      <4>2. CASE loads' = Append(loads, l)
        <5>1. loads' \in Seq(Reload) /\ Len(loads') = Len(loads) + 1
          BY <3>2, <4>2
        <5>2. \A i \in 1 .. Len(loads) + 1 : loads'[i] = IF i <= Len(loads) THEN loads[i] ELSE l
          BY <3>2, <4>2
        <5>3. QED BY <3>1, <3>2, <5>1, <5>2
      <4>3. QED BY <3>3, <4>1, <4>2
    <3>5. QED BY <2>12, <3>4 DEF Load
  <2>13. ASSUME NEW i \in DOMAIN loads, ReloadAuth(i) PROVE Shape'
    <3> DEFINE l == [loads[i] EXCEPT !.next = "limits"]
    <3>1. l \in Reload /\ l.cfg = loads[i].cfg
      BY ReloadMoves
    <3> HIDE DEF l
    <3>2. loads' = [loads EXCEPT ![i] = l]
      BY <2>13 DEF ReloadAuth, l
    <3>3. loads' \in Seq(Reload) /\ \A j \in DOMAIN loads' : loads'[j].cfg \in 1 .. file
      BY <3>1, <3>2
    <3>4. QED BY <2>13, <3>3 DEF ReloadAuth
  <2>14. ASSUME NEW i \in DOMAIN loads, ReloadLimits(i) PROVE Shape'
    <3>1. loads' \in Seq(Reload) /\ \A j \in DOMAIN loads' : loads'[j].cfg \in 1 .. file
      <4>1. loads' = RemoveAt(loads, i) /\ i \in 1 .. Len(loads)
        BY <2>14 DEF ReloadLimits
      <4>2. /\ loads' \in Seq(Reload) /\ Len(loads') = Len(loads) - 1
            /\ \A j \in 1 .. Len(loads) - 1 : \E k \in 1 .. Len(loads) : loads'[j] = loads[k]
        BY <4>1, RemoveType
      <4>3. DOMAIN loads' = 1 .. Len(loads) - 1 /\ DOMAIN loads = 1 .. Len(loads)
        BY <4>2
      <4>4. QED BY <4>2, <4>3
    <3>2. QED BY <2>14, <3>1 DEF ReloadLimits
  <2>15. CASE UNCHANGED vars
    BY <2>15 DEF vars
  <2>16. QED
    BY <2>1, <2>3, <2>4, <2>5, <2>7, <2>8, <2>9, <2>10, <2>11, <2>12, <2>13, <2>14, <2>15
       DEF Next
<1>3. QED BY <1>1, <1>2, PTL DEF Spec

-----------------------------------------------------------------------------
\* The places of a request that holds a slot of the semaphore.
Inside == {"check", "check2", "locked", "running"}

\* A request that moves enters the set of those in flight, leaves it or neither.
LEMMA FlightMoves ==
    ASSUME NEW r \in Requests, req' \in [Requests -> Request],
           \A p \in Requests : p # r => req'[p] = req[p]
    PROVE  InFlight' = IF req'[r].at \in Inside THEN InFlight \cup {r} ELSE InFlight \ {r}
BY DEF InFlight, Inside

\* The semaphore of the admission middleware counts exactly the requests behind
\* it and never exceeds maxInFlight, whichever way they end.
THEOREM SlotsAreGivenBack == Spec => []SlotsAccounted
<1>1. Init => SlotsAccounted
  <2> SUFFICES ASSUME Init PROVE SlotsAccounted
    OBVIOUS
  <2>1. InFlight = {}
    BY DEF Init, InFlight
  <2>2. QED BY <2>1, FS_EmptySet, FrontDoorAssumption DEF Init, SlotsAccounted
<1>2. Shape /\ Shape' /\ SlotsAccounted /\ [Next]_vars => SlotsAccounted'
  <2> SUFFICES ASSUME Shape, Shape', SlotsAccounted, [Next]_vars PROVE SlotsAccounted'
    OBVIOUS
  <2>1. IsFiniteSet(InFlight) /\ Cardinality(InFlight) \in Nat
    <3>1. InFlight \subseteq Requests
      BY DEF InFlight
    <3>2. QED BY <3>1, FS_Subset, FS_CardinalityType, FrontDoorAssumption
  <2>2. MaxInFlight \in Nat
    BY FrontDoorAssumption
  <2>3. ASSUME NEW r \in Requests, NEW at \in Places, Go(r, at)
        PROVE  InFlight' = IF at \in Inside THEN InFlight \cup {r} ELSE InFlight \ {r}
    BY <2>3, GoMoves, FlightMoves DEF Shape
  \* Steps that leave the semaphore and the set alone.
  <2>4. ASSUME InFlight' = InFlight, sem' = sem PROVE SlotsAccounted'
    BY <2>4 DEF SlotsAccounted
  \* The ways out: the deferred release.
  <2>5. ASSUME NEW r \in Requests, NEW at \in Places, Go(r, at), at \notin Inside,
               req[r].at \in Inside, Release
        PROVE  SlotsAccounted'
    <3>1. r \in InFlight /\ InFlight' = InFlight \ {r}
      BY <2>3, <2>5 DEF InFlight, Inside
    <3>2. Cardinality(InFlight \ {r}) = Cardinality(InFlight) - 1
      BY <2>1, <3>1, FS_RemoveElement
    <3>3. QED BY <2>1, <2>2, <2>5, <3>1, <3>2 DEF SlotsAccounted, Release
  \* Steps from one place behind the semaphore to another.
  <2>6. ASSUME NEW r \in Requests, NEW at \in Inside, Go(r, at), req[r].at \in Inside, sem' = sem
        PROVE  SlotsAccounted'
    <3>1. r \in InFlight
      BY <2>6 DEF InFlight, Inside
    <3>2. at \in Places
      BY DEF Inside, Places
    <3>3. InFlight' = InFlight
      BY <2>3, <2>6, <3>1, <3>2
    <3>4. QED BY <2>4, <2>6, <3>3
  <2>7. ASSUME NEW r \in Requests, NEW c \in Credentials, NEW est \in Estimates,
               Authenticate(r, c, est)
        PROVE  SlotsAccounted'
    <3>1. /\ \A p \in Requests : p # r => req'[p] = req[p]
          /\ req'[r].at \in {"401", "authed"} /\ req[r].at = "new" /\ sem' = sem
      BY <2>7 DEF Authenticate, Shape
    <3>2. InFlight' = InFlight \ {r} /\ r \notin InFlight
      BY <3>1, FlightMoves DEF Shape, Inside, InFlight
    <3>3. QED BY <2>4, <3>1, <3>2
  <2>8. ASSUME NEW r \in Requests, Admit(r) PROVE SlotsAccounted'
    <3>1. r \notin InFlight
      BY <2>8 DEF Admit, InFlight
    <3>2. CASE sem < MaxInFlight
      <4>1. sem' = sem + 1 /\ InFlight' = InFlight \cup {r}
        BY <2>3, <2>8, <3>2 DEF Admit, Inside, Places
      <4>2. Cardinality(InFlight \cup {r}) = Cardinality(InFlight) + 1
        BY <2>1, <3>1, FS_AddElement
      <4>3. QED BY <2>1, <2>2, <3>2, <4>1, <4>2 DEF SlotsAccounted
    <3>3. CASE ~(sem < MaxInFlight)
      <4>1. sem' = sem /\ InFlight' = InFlight \ {r}
        BY <2>3, <2>8, <3>3 DEF Admit, Inside, Places
      <4>2. QED BY <2>4, <3>1, <4>1
    <3>4. QED BY <3>2, <3>3
  <2>9. ASSUME NEW r \in Requests, CheckMaxReq(r) \/ CheckMaxTok(r) PROVE SlotsAccounted'
    BY <2>6, <2>9 DEF CheckMaxReq, CheckMaxTok, Inside
  <2>10. ASSUME NEW r \in Requests, CheckLocked(r) PROVE SlotsAccounted'
    <3>1. \/ Go(r, "running") /\ sem' = sem
          \/ \E at \in {"cut", "429"} : Go(r, at) /\ Release
      BY <2>10 DEF CheckLocked
    <3>2. req[r].at = "locked"
      BY <2>10 DEF CheckLocked
    <3>3. CASE Go(r, "running") /\ sem' = sem
      BY <2>6, <3>2, <3>3 DEF Inside
    <3>4. ASSUME NEW at \in {"cut", "429"}, Go(r, at), Release PROVE SlotsAccounted'
      BY <2>5, <3>2, <3>4 DEF Inside, Places
    <3>5. QED BY <3>1, <3>3, <3>4
  <2>11. ASSUME NEW r \in Requests, Panics(r) \/ \E used \in Used : Finish(r, used)
         PROVE  SlotsAccounted'
    <3>1. PICK at \in {"aborted", "done"} : Go(r, at)
      BY <2>11 DEF Panics, Finish
    <3>2. QED BY <2>5, <2>11, <3>1 DEF Panics, Finish, Inside, Places
  <2>12. CASE req' = req /\ sem' = sem
    BY <2>4, <2>12 DEF InFlight
  <2>13. QED
    BY <2>7, <2>8, <2>9, <2>10, <2>11, <2>12
       DEF Next, Age, Edit, Load, ReloadAuth, ReloadLimits, vars
<1>3. QED BY <1>1, <1>2, ShapeKept, PTL DEF Spec

-----------------------------------------------------------------------------
\* Every content of the file so far has a request limit, of at most B.
Limited(B) == \A j \in 1 .. file : Configs[j].maxReq \in 1 .. B

\* The strengthening of WindowBounded: it speaks of any bound on the limits, so
\* that an edit of the file only has to know the old one, and it knows that Check
\* has no way around the lock while there is a request limit.
BoundedBy(B) ==
    /\ \A r \in Requests : req[r].at # "check2"
    /\ \A t \in Tenants : Len(Fresh(t)) + Cardinality(Running(t)) <= B + MaxInFlight - 1

AlwaysBounded == \A B \in Nat : Limited(B) => BoundedBy(B)

\* The running calls of a tenant, a subset of those in flight, are finitely many.
LEMMA SubsetFinite ==
    ASSUME NEW R, NEW F, R \subseteq F, F \subseteq Requests
    PROVE  /\ IsFiniteSet(R) /\ Cardinality(R) \in Nat
           /\ Cardinality(F) \in Nat /\ Cardinality(R) <= Cardinality(F)
<1>1. IsFiniteSet(F)
  BY FS_Subset, FrontDoorAssumption
<1>2. QED BY <1>1, FS_Subset, FS_CardinalityType

\* Check and Record are apart, and still the recent and the running calls of a
\* tenant together stay below the largest request limit plus maxInFlight.
THEOREM WindowStaysBounded == Spec => []WindowBounded
<1>1. Init => AlwaysBounded
  <2> SUFFICES ASSUME Init, NEW B \in Nat, Limited(B) PROVE BoundedBy(B)
    BY DEF AlwaysBounded
  <2>1. \A t \in Tenants : Len(Fresh(t)) = 0 /\ Running(t) = {}
    BY DEF Init, Fresh, purge, Running
  <2>2. Cardinality({}) = 0
    BY FS_EmptySet
  <2>3. B + MaxInFlight - 1 >= 0
    BY FrontDoorAssumption
  <2>4. \A r \in Requests : req[r].at # "check2"
    BY DEF Init
  <2>5. ASSUME NEW t \in Tenants
        PROVE  Len(Fresh(t)) + Cardinality(Running(t)) <= B + MaxInFlight - 1
    BY <2>1, <2>2, <2>3
  <2>6. QED BY <2>4, <2>5 DEF BoundedBy
<1>2. Shape /\ Shape' /\ SlotsAccounted' /\ AlwaysBounded /\ [Next]_vars => AlwaysBounded'
  <2> SUFFICES ASSUME Shape, Shape', SlotsAccounted', AlwaysBounded, [Next]_vars,
                      NEW B \in Nat, Limited(B)'
               PROVE  BoundedBy(B)'
    BY DEF AlwaysBounded
  <2>1. Limited(B)
    <3>1. file' = file \/ file' = file + 1
      BY DEF Next, vars, config, Authenticate, Admit, CheckMaxReq, CheckMaxTok,
             CheckLocked, Panics, Finish, Age, Edit, Load, ReloadAuth, ReloadLimits
    <3>2. file \in Nat
      BY FrontDoorAssumption DEF Shape
    <3>3. QED BY <3>1, <3>2 DEF Limited
  <2>2. BoundedBy(B)
    BY <2>1 DEF AlwaysBounded
  <2>3. Configs[limits].maxReq \in 1 .. B
    BY <2>1 DEF Limited, Shape
  <2>4. MaxInFlight \in Nat
    BY FrontDoorAssumption
  <2>fresh. \A t \in Tenants :
              /\ Len(Fresh(t)) = Len(window[t].entries) - window[t].expired
              /\ Len(Fresh(t)) \in Nat
    BY PurgeLen DEF Shape, Fresh
  <2>later. \A t \in Tenants :
              /\ Len(Fresh(t))' = Len(window'[t].entries) - window'[t].expired
              /\ Len(Fresh(t))' \in Nat
    BY PurgeLen DEF Shape, Fresh
  <2>runs. \A t \in Tenants :
             /\ Running(t) \subseteq Requests
             /\ IsFiniteSet(Running(t)) /\ Cardinality(Running(t)) \in Nat
    BY SubsetFinite DEF Running
  \* A tenant whose window does not grow and that starts no call.
  <2>5. ASSUME NEW t \in Tenants, Len(Fresh(t))' <= Len(Fresh(t)), Running(t)' \subseteq Running(t)
        PROVE  (Len(Fresh(t)) + Cardinality(Running(t)) <= B + MaxInFlight - 1)'
    <3>1. Cardinality(Running(t)') <= Cardinality(Running(t)) /\ Cardinality(Running(t)') \in Nat
      BY <2>5, <2>runs, SubsetFinite
    <3>2. Len(Fresh(t)) + Cardinality(Running(t)) <= B + MaxInFlight - 1
      BY <2>2 DEF BoundedBy
    <3>3. QED BY <2>4, <2>5, <2>fresh, <2>later, <2>runs, <3>1, <3>2
  <2>6. ASSUME NEW r \in Requests, NEW at \in Places \ {"running", "check2"}, Go(r, at)
        PROVE  /\ \A t \in Tenants : Running(t)' \subseteq Running(t)
               /\ \A p \in Requests : req'[p].at # "check2"
    <3>1. req'[r].at = at /\ \A p \in Requests : p # r => req'[p] = req[p]
      BY <2>6, GoMoves DEF Shape
    <3>2. QED BY <2>2, <2>6, <3>1 DEF Running, BoundedBy
  <2>7. ASSUME window' = window PROVE \A t \in Tenants : Len(Fresh(t))' <= Len(Fresh(t))
    BY <2>7, <2>fresh, <2>later
  <2>8. ASSUME NEW r \in Requests, NEW c \in Credentials, NEW est \in Estimates,
               Authenticate(r, c, est)
        PROVE  BoundedBy(B)'
    <3>1. /\ \A p \in Requests : p # r => req'[p] = req[p]
          /\ req'[r].at \in {"401", "authed"} /\ window' = window
      BY <2>8 DEF Authenticate, Shape
    <3>2. \A t \in Tenants : Running(t)' \subseteq Running(t)
      BY <3>1 DEF Running
    <3>3. QED BY <2>2, <2>5, <2>7, <3>1, <3>2 DEF BoundedBy
  <2>9. ASSUME NEW r \in Requests, NEW at \in Places \ {"running", "check2"}, Go(r, at),
               window' = window
        PROVE  BoundedBy(B)'
    BY <2>5, <2>6, <2>7, <2>9 DEF BoundedBy
  <2>10. ASSUME NEW r \in Requests, Admit(r) \/ Panics(r) PROVE BoundedBy(B)'
    <3>1. PICK at \in {"check", "503", "aborted"} : Go(r, at) /\ window' = window
      BY <2>10 DEF Admit, Panics
    <3>2. QED BY <2>9, <3>1 DEF Places
  <2>11. ASSUME NEW r \in Requests, CheckMaxReq(r) PROVE BoundedBy(B)'
    <3>1. Go(r, "locked") /\ window' = window
      BY <2>3, <2>11 DEF CheckMaxReq
    <3>2. QED BY <2>9, <3>1 DEF Places
  <2>12. ASSUME NEW r \in Requests, CheckMaxTok(r) PROVE BoundedBy(B)'
    BY <2>2, <2>12 DEF CheckMaxTok, BoundedBy
  <2>13. ASSUME NEW r \in Requests, CheckLocked(r) PROVE BoundedBy(B)'
    <3>1. PICK u \in Tenants : u = req[r].tenant /\ req[r].at = "locked"
      BY <2>13 DEF CheckLocked, Shape
    <3>2. PICK w \in Seq(Nat) : w = purge(window[u]) /\ w = Fresh(u)
      BY PurgeLen DEF Shape, Fresh
    <3>3. window' = [window EXCEPT ![u] = [entries |-> w, expired |-> 0]]
      BY <2>13, <3>1, <3>2 DEF CheckLocked
    <3>4. \/ /\ ~OverReq(w, Configs[limits])
             /\ Go(r, "running")
          \/ \E at \in {"cut", "429"} : Go(r, at)
      BY <2>13, <3>1, <3>2 DEF CheckLocked
    <3>5. \A t \in Tenants : Len(Fresh(t))' <= Len(Fresh(t))
      <4>1. Len(Fresh(u))' = Len(w)
        <5>1. window'[u].entries = w /\ window'[u].expired = 0 /\ Len(w) \in Nat
          BY <3>3 DEF Shape
        <5>2. QED BY <2>later, <5>1
      <4>2. \A t \in Tenants : t # u => window'[t] = window[t]
        BY <3>3 DEF Shape
      <4>3. QED BY <2>fresh, <2>later, <3>2, <4>1, <4>2
    <3>6. ASSUME NEW at \in {"cut", "429"}, Go(r, at) PROVE BoundedBy(B)'
      <4>1. at \in Places \ {"running", "check2"}
        BY DEF Places
      <4>2. QED BY <2>5, <2>6, <3>5, <3>6, <4>1 DEF BoundedBy
    <3>7. CASE ~OverReq(w, Configs[limits]) /\ Go(r, "running")
      <4>1. /\ req'[r].at = "running" /\ req'[r].tenant = u
            /\ \A p \in Requests : p # r => req'[p] = req[p]
        BY <3>1, <3>7, GoMoves DEF Shape, Places
      <4>2. \A t \in Tenants : t # u => Running(t)' \subseteq Running(t)
        BY <4>1 DEF Running
      <4>3. Len(Fresh(u))' = Len(w) /\ Len(w) \in Nat
        <5>1. window'[u].entries = w /\ window'[u].expired = 0 /\ Len(w) \in Nat
          BY <3>3 DEF Shape
        <5>2. QED BY <2>later, <5>1
      <4>4. Len(w) <= B - 1
        BY <2>3, <3>7, <4>3 DEF OverReq
      <4>5. Cardinality(Running(u))' <= MaxInFlight /\ Cardinality(Running(u))' \in Nat
        <5>1. Running(u)' \subseteq InFlight' /\ InFlight' \subseteq Requests
          BY DEF Running, InFlight
        <5>2. Cardinality(InFlight') <= MaxInFlight
          BY DEF SlotsAccounted
        <5>3. /\ Cardinality(Running(u)') \in Nat /\ Cardinality(InFlight') \in Nat
              /\ Cardinality(Running(u)') <= Cardinality(InFlight')
          BY <5>1, SubsetFinite
        <5>4. QED BY <2>4, <5>2, <5>3
      <4>6. (Len(Fresh(u)) + Cardinality(Running(u)) <= B + MaxInFlight - 1)'
        BY <2>4, <4>3, <4>4, <4>5
      <4>7. \A p \in Requests : req'[p].at # "check2"
        BY <2>2, <4>1 DEF BoundedBy
      <4>8. QED BY <2>5, <3>5, <4>2, <4>6, <4>7 DEF BoundedBy
    <3>8. QED BY <3>4, <3>6, <3>7
  <2>14. ASSUME NEW r \in Requests, NEW used \in Used, Finish(r, used) PROVE BoundedBy(B)'
    <3>1. PICK u \in Tenants : u = req[r].tenant /\ req[r].at = "running"
      BY <2>14 DEF Finish, Shape
    <3>2. PICK w \in Seq(Nat) : w = purge(window[u]) /\ w = Fresh(u)
      BY PurgeLen DEF Shape, Fresh
    <3>3. window' = [window EXCEPT ![u] = [entries |-> Append(w, used), expired |-> 0]]
      BY <2>14, <3>1, <3>2 DEF Finish
    <3>4. /\ req'[r].at = "done"
          /\ \A p \in Requests : p # r => req'[p] = req[p]
      BY <2>14, GoMoves DEF Finish, Shape, Places
    <3>5. r \in Running(u) /\ Running(u)' = Running(u) \ {r}
      BY <3>1, <3>4 DEF Running
    <3>6. \A t \in Tenants : t # u => Running(t)' = Running(t)
      BY <3>1, <3>4 DEF Running
    <3>7. Append(w, used) \in Seq(Nat) /\ Len(Append(w, used)) = Len(w) + 1 /\ Len(w) \in Nat
      BY FrontDoorAssumption
    <3>8. Len(Fresh(u))' = Len(Fresh(u)) + 1
      <4>1. window'[u].entries = Append(w, used) /\ window'[u].expired = 0
        BY <3>3 DEF Shape
      <4>2. QED BY <2>later, <3>2, <3>7, <4>1
    <3>9. /\ Cardinality(Running(u))' = Cardinality(Running(u)) - 1
          /\ Cardinality(Running(u)) \in Nat
      <4>1. IsFiniteSet(Running(u)) /\ Cardinality(Running(u)) \in Nat
        BY <2>runs
      <4>2. r \in Running(u) /\ Running(u)' = Running(u) \ {r}
        BY <3>5
      <4>3. Cardinality(Running(u) \ {r}) = Cardinality(Running(u)) - 1
        BY <4>1, <4>2, FS_RemoveElement
      <4>4. QED BY <4>1, <4>2, <4>3
    <3>10. (Len(Fresh(u)) + Cardinality(Running(u)) <= B + MaxInFlight - 1)'
      BY <2>2, <2>4, <3>1, <3>2, <3>7, <3>8, <3>9 DEF BoundedBy
    <3>11. \A t \in Tenants : t # u => Len(Fresh(t))' <= Len(Fresh(t))
      <4>1. \A t \in Tenants : t # u => window'[t] = window[t]
        BY <3>3 DEF Shape
      <4>2. QED BY <2>fresh, <2>later, <4>1
    <3>12. \A p \in Requests : req'[p].at # "check2"
      BY <2>2, <3>4 DEF BoundedBy
    <3>13. QED BY <2>5, <3>6, <3>10, <3>11, <3>12 DEF BoundedBy
  <2>15. ASSUME NEW u \in Tenants, Age(u) PROVE BoundedBy(B)'
    <3>1. /\ window'[u].entries = window[u].entries
          /\ window'[u].expired = window[u].expired + 1 /\ window[u].expired \in Nat
      <4>1. window[u] \in Window
        BY DEF Shape
      <4>2. window'[u] = [window[u] EXCEPT !.expired = window[u].expired + 1]
        BY <2>15 DEF Age, Shape
      <4>3. QED BY <4>1, <4>2, AgedWindow
    <3>4. Len(Fresh(u))' <= Len(Fresh(u))
      <4>1. Len(window[u].entries) \in Nat
        BY AgedWindow DEF Shape
      <4>2. QED BY <2>fresh, <2>later, <3>1, <4>1
    <3>5. \A t \in Tenants : t # u => window'[t] = window[t]
      BY <2>15 DEF Age, Shape
    <3>6. \A t \in Tenants : Len(Fresh(t))' <= Len(Fresh(t))
      BY <2>fresh, <2>later, <3>4, <3>5
    <3>7. req' = req
      BY <2>15 DEF Age
    <3>8. \A t \in Tenants : Running(t)' \subseteq Running(t)
      BY <3>7 DEF Running
    <3>9. QED BY <2>2, <2>5, <3>6, <3>7, <3>8 DEF BoundedBy
  <2>16. CASE req' = req /\ window' = window
    <3>1. \A t \in Tenants : Running(t)' \subseteq Running(t)
      BY <2>16 DEF Running
    <3>2. QED BY <2>2, <2>5, <2>7, <2>16, <3>1 DEF BoundedBy
  <2>17. QED
    BY <2>8, <2>10, <2>11, <2>12, <2>13, <2>14, <2>15, <2>16
       DEF Next, Edit, Load, ReloadAuth, ReloadLimits, vars
<1>3. Shape /\ AlwaysBounded => WindowBounded
  <2> SUFFICES ASSUME Shape, AlwaysBounded, NEW i \in 1 .. file,
                      \A j \in 1 .. file : Configs[j].maxReq \in 1 .. Configs[i].maxReq
               PROVE  \A t \in Tenants :
                        Len(Fresh(t)) + Cardinality(Running(t)) <= Configs[i].maxReq + MaxInFlight - 1
    BY DEF WindowBounded
  <2>1. Configs[i].maxReq \in Nat
    BY FrontDoorAssumption DEF Shape
  <2>2. BoundedBy(Configs[i].maxReq)
    BY <2>1 DEF AlwaysBounded, Limited
  <2>3. QED BY <2>2 DEF BoundedBy
<1>4. QED BY <1>1, <1>2, <1>3, ShapeKept, SlotsAreGivenBack, PTL DEF Spec

\* While callbacks do not overlap there is at most one.  Without one the two halves
\* of the configuration agree; a callback past the auth config has installed its own
\* content there; with the timer idle, the last one to run has a valid file's content.
Orderly ==
    ~overlapped =>
        /\ Len(loads) <= 1
        /\ loads = <<>> => auth = limits /\ (~timer /\ Configs[file].valid => auth = file)
        /\ loads # <<>> => /\ loads[1].next = "limits" => auth = loads[1].cfg
                           /\ ~timer /\ Configs[file].valid => loads[1].cfg = file

\* Hot reload (watchFile, onChange): for every history of the file, when the watcher
\* is idle the auth config and the limits in force belong to one content, the file's
\* own if it is valid, unless two callbacks ran at the same time.
THEOREM ReloadsConverge == Spec => []ReloadConverges
<1>1. Init => Orderly
  BY DEF Init, Orderly
<1>2. Shape /\ Orderly /\ [Next]_vars => Orderly'
  <2> SUFFICES ASSUME Shape, Orderly, [Next]_vars, ~overlapped'
               PROVE  Orderly'
    BY DEF Orderly
  <2>0. /\ loads \in Seq(Reload) /\ Len(loads) \in Nat /\ DOMAIN loads = 1 .. Len(loads)
        /\ Len(loads) = 0 <=> loads = <<>>
    BY DEF Shape
  <2>1. CASE UNCHANGED config
    BY <2>1 DEF Orderly, config
  <2>2. CASE Edit
    BY <2>2 DEF Orderly, Edit
  <2>3. CASE Load
    <3>1. CASE Configs[file].valid
      <4>1. ~overlapped /\ loads = <<>>
        BY <2>3, <3>1 DEF Load, Shape
      <4>2. loads' = <<[cfg |-> file, next |-> "auth"]>>
        BY <2>3, <3>1, <4>1 DEF Load
      <4>3. Len(loads') = 1 /\ loads' # <<>>
        BY <4>2
      <4>4. loads'[1].cfg = file /\ loads'[1].next = "auth"
        BY <4>2
      <4>5. file' = file
        BY <2>3 DEF Load
      <4>6. QED BY <4>3, <4>4, <4>5 DEF Orderly
    <3>2. CASE ~Configs[file].valid
      <4>1. ~overlapped /\ loads' = loads
        BY <2>3, <3>2 DEF Load, Shape
      <4>2. QED BY <2>3, <3>2, <4>1 DEF Load, Orderly
    <3>3. QED BY <3>1, <3>2
  <2>4. ASSUME NEW i \in DOMAIN loads, ReloadAuth(i) PROVE Orderly'
    <3>0. ~overlapped /\ Len(loads) <= 1
      BY <2>4, Zenon DEF ReloadAuth, Orderly
    <3>1. i = 1 /\ Len(loads) = 1 /\ loads # <<>>
      BY <2>0, <3>0
    <3>2. PICK l \in Reload : l = loads[1]
      BY <2>0, <3>1
    <3>3. /\ loads' = [loads EXCEPT ![1] = [l EXCEPT !.next = "limits"]]
          /\ auth' = l.cfg
      BY <2>4, <3>1, <3>2 DEF ReloadAuth
    <3>4. /\ Len(loads') = 1 /\ loads' # <<>>
          /\ loads'[1] = [l EXCEPT !.next = "limits"]
      BY <2>0, <3>1, <3>3
    <3>5. loads'[1].cfg = l.cfg
      BY <3>4, ReloadMoves
    <3>6. ~timer /\ Configs[file].valid => l.cfg = file
      BY <3>0, <3>1, <3>2, Zenon DEF Orderly
    <3>7. QED BY <2>4, <3>3, <3>4, <3>5, <3>6 DEF ReloadAuth, Orderly
  <2>5. ASSUME NEW i \in DOMAIN loads, ReloadLimits(i) PROVE Orderly'
    <3>0. ~overlapped /\ Len(loads) <= 1
      BY <2>5, Zenon DEF ReloadLimits, Orderly
    <3>1. i = 1 /\ Len(loads) = 1 /\ loads # <<>>
      BY <2>0, <3>0
    <3>2. loads' = <<>>
      <4>1. RemoveAt(loads, 1) \in Seq(Reload) /\ Len(RemoveAt(loads, 1)) = 0
        BY <2>0, <3>1, RemoveType
      <4>2. QED BY <2>5, <3>1, <4>1 DEF ReloadLimits
    <3>3. /\ limits' = loads[1].cfg /\ auth = loads[1].cfg
          /\ ~timer /\ Configs[file].valid => loads[1].cfg = file
      BY <2>5, <3>0, <3>1, Zenon DEF ReloadLimits, Orderly
    <3>4. QED BY <2>5, <3>2, <3>3 DEF ReloadLimits, Orderly
  <2>6. QED
    BY <2>1, <2>2, <2>3, <2>4, <2>5
       DEF Next, vars, config, Authenticate, Admit, CheckMaxReq, CheckMaxTok,
           CheckLocked, Panics, Finish, Age
<1>3. Orderly => ReloadConverges
  BY DEF Orderly, ReloadConverges
<1>4. QED BY <1>1, <1>2, <1>3, ShapeKept, PTL DEF Spec

\* Authentication (AuthMiddleware.authenticate): whatever content of the file is in
\* force and whatever a request presents, it is accepted exactly when one of the
\* credentials it presents is known.
THEOREM KnownAreAccepted == Spec => []AcceptedIffKnown
<1>1. Shape => AcceptedIffKnown
  <2> SUFFICES ASSUME Shape, NEW c \in Presentable
               PROVE  authenticate(c, Configs[auth]) # None <=>
                        \/ c.cert # None
                        \/ c.bearer \in DOMAIN Configs[auth].keys
                        \/ /\ c.xkey \in DOMAIN Configs[auth].keys
                           /\ c.bearer = None \/ c.bearer \in DOMAIN Tokens
                        \/ /\ Configs[auth].jwt /\ c.bearer \in DOMAIN Tokens
                           /\ Tokens[c.bearer] # None
    BY DEF AcceptedIffKnown
  <2>1. PICK cfg : cfg = Configs[auth]
    OBVIOUS
  <2>2. auth \in DOMAIN Configs
    BY FrontDoorAssumption DEF Shape
  <2>3. /\ \A k \in DOMAIN cfg.keys : cfg.keys[k] # None
        /\ DOMAIN cfg.keys \cap (DOMAIN Tokens \cup {None}) = {}
        /\ None \notin DOMAIN Tokens
    BY <2>1, <2>2, FrontDoorAssumption, KeysAssumption
  <2>4. authenticate(c, cfg) # None <=>
            \/ c.cert # None
            \/ c.bearer \in DOMAIN cfg.keys
            \/ c.xkey \in DOMAIN cfg.keys /\ (c.bearer = None \/ c.bearer \in DOMAIN Tokens)
            \/ cfg.jwt /\ c.bearer \in DOMAIN Tokens /\ Tokens[c.bearer] # None
    BY <2>3 DEF authenticate, IsKey, JWTTenant
  <2>5. QED BY <2>1, <2>4
<1>2. QED BY <1>1, ShapeKept, PTL
=============================================================================
