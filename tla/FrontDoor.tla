----------------------------- MODULE FrontDoor -----------------------------
(***************************************************************************)
(* What a chat request passes before anything else: authentication         *)
(* (internal/ingress/auth.go), admission control, the sliding-window rate  *)
(* limit (internal/domain/policy/ratelimit.go and its middleware), while   *)
(* the config watcher (internal/adapters/config/loader.go) replaces the    *)
(* auth config and the limits.                                             *)
(*                                                                         *)
(* A request carries a certificate, a bearer value and an X-API-Key, each  *)
(* possibly None.  The window is kept per tenant; its entries pass the      *)
(* cutoff from the front.  The limiter reads maxReq and maxTok once        *)
(* without its lock.                                                       *)
(***************************************************************************)
EXTENDS Integers, FiniteSets, SequencesExt, FiniteSetsExt

CONSTANTS
    None,
    Tenants, Tokens,   \* Tokens: JWT -> its tenant, or None when it does not verify
    Configs,           \* the contents the config file has over time
    Requests,          \* request slots, each used once
    Credentials,       \* what requests present
    Estimates, Used,   \* tokens estimated from Content-Length, and used
    MaxInFlight

ASSUME FrontDoorAssumption ==
    /\ MaxInFlight \in Nat \ {0}
    /\ Estimates \cup Used \subseteq Nat
    /\ IsFiniteSet(Requests)
    /\ Configs # <<>> /\ Configs \in Seq(Range(Configs))
    /\ \A i \in DOMAIN Configs :
          /\ Configs[i].maxReq \in Nat
          /\ \A k \in DOMAIN Configs[i].keys : Configs[i].keys[k] \in Tenants
    /\ \A v \in DOMAIN Tokens : Tokens[v] \in Tenants \cup {None}
    /\ \A c \in Credentials : c.cert \in Tenants \cup {None}

\* A key is not empty and has no dots; a token has them.
ASSUME KeysAssumption ==
    /\ None \notin Tenants \cup DOMAIN Tokens
    /\ \A i \in DOMAIN Configs : DOMAIN Configs[i].keys \cap (DOMAIN Tokens \cup {None}) = {}

VARIABLES
    req,               \* request -> [at, tenant, est]
    sem,               \* slots taken in the admission semaphore
    window,            \* tenant -> tokens of its calls, oldest first, and how many expired
    auth, limits,      \* indices in Configs of the auth config and limits in force
    file, timer,       \* index of the file's content; the debounce timer is armed
    loads,             \* callbacks under way: [cfg, next]
    overlapped         \* two callbacks ran at the same time (history)

vars == <<req, sem, window, auth, limits, file, timer, loads, overlapped>>
config == <<auth, limits, file, timer, loads, overlapped>>

Init ==
    /\ req = [r \in Requests |-> [at |-> "new", tenant |-> None, est |-> 0]]
    /\ sem = 0
    /\ window = [t \in Tenants |-> [entries |-> <<>>, expired |-> 0]]
    /\ auth = 1 /\ limits = 1 /\ file = 1
    /\ timer = FALSE /\ loads = <<>> /\ overlapped = FALSE

-----------------------------------------------------------------------------
IsKey(v) == v # None /\ v \notin DOMAIN Tokens
JWTTenant(v) == IF v \in DOMAIN Tokens THEN Tokens[v] ELSE None

\* The tenant of a request, or None when it is refused: a certificate, else an API
\* key (X-API-Key only without a key in the bearer), else a token when JWT is set up.
authenticate(c, cfg) ==
    LET rawKey == IF IsKey(c.bearer) THEN c.bearer ELSE c.xkey
    IN CASE c.cert # None -> c.cert
         [] c.cert = None /\ rawKey # None /\ rawKey \in DOMAIN cfg.keys -> cfg.keys[rawKey]
         [] OTHER -> IF cfg.jwt THEN JWTTenant(c.bearer) ELSE None

Go(r, at) == req' = [req EXCEPT ![r].at = at]

\* Handler takes one snapshot of config and key index.
Authenticate(r, c, est) ==
    /\ req[r].at = "new"
    /\ LET t == authenticate(c, Configs[auth])
       IN req' = [req EXCEPT ![r] =
                    [at |-> IF t = None THEN "401" ELSE "authed", tenant |-> t, est |-> est]]
    /\ UNCHANGED <<sem, window, config>>

\* The semaphore never blocks: at capacity the request is turned away.
Admit(r) ==
    /\ req[r].at = "authed"
    /\ IF sem < MaxInFlight THEN sem' = sem + 1 /\ Go(r, "check")
                            ELSE UNCHANGED sem /\ Go(r, "503")
    /\ UNCHANGED <<window, config>>

purge(w) == SubSeq(w.entries, w.expired + 1, Len(w.entries))
sumTokens(w) == FoldLeft(LAMBDA n, tok : n + tok, 0, w)

\* The two reads before the lock; a reload may come between them.
CheckMaxReq(r) ==
    /\ req[r].at = "check"
    /\ Go(r, IF Configs[limits].maxReq = 0 THEN "check2" ELSE "locked")
    /\ UNCHANGED <<sem, window, config>>

CheckMaxTok(r) ==
    /\ req[r].at = "check2"
    /\ Go(r, IF Configs[limits].maxTok = 0 THEN "running" ELSE "locked")
    /\ UNCHANGED <<sem, window, config>>

Release == sem' = sem - 1

OverReqLate(w, l) == l.maxReq > 0 /\ Len(w) > l.maxReq
OverReq(w, l) == l.maxReq > 0 /\ Len(w) >= l.maxReq
OverTok(w, l, est) == l.maxTok > 0 /\ sumTokens(w) + est > l.maxTok

\* Under the lock.  The token limit reads the oldest entry even of an empty window;
\* the index panic unwinds through the deferred unlock and release.
CheckLocked(r) ==
    LET l == Configs[limits]
        w == purge(window[req[r].tenant])
        refused == OverReq(w, l) \/ OverTok(w, l, req[r].est)
    IN /\ req[r].at = "locked"
       /\ window' = [window EXCEPT ![req[r].tenant] = [entries |-> w, expired |-> 0]]
       /\ \/ ~refused /\ Go(r, "running") /\ UNCHANGED sem
          \/ refused /\ Release /\ Go(r, IF w = <<>> THEN "cut" ELSE "429")
       /\ UNCHANGED config

\* The handler answers: Record, then the slot is given back.
Finish(r, used) ==
    /\ req[r].at = "running"
    /\ window' = [window EXCEPT ![req[r].tenant] =
                    [entries |-> Append(purge(@), used), expired |-> 0]]
    /\ Release
    /\ Go(r, "done")
    /\ UNCHANGED config

PanicsUnreleased(r) ==
    /\ req[r].at = "running"
    /\ Go(r, "aborted")
    /\ UNCHANGED <<sem, window, config>>

\* A panic further in: nothing is recorded, the deferred release still runs.
Panics(r) ==
    /\ req[r].at = "running"
    /\ Release
    /\ Go(r, "aborted")
    /\ UNCHANGED <<window, config>>

\* The oldest entry within the window passes the cutoff.
Age(t) ==
    /\ window[t].expired < Len(window[t].entries)
    /\ window' = [window EXCEPT ![t].expired = @ + 1]
    /\ UNCHANGED <<req, sem, config>>

-----------------------------------------------------------------------------
\* A write to the file: the event stops the timer if it is armed and arms it anew.
Edit ==
    /\ file < Len(Configs)
    /\ file' = file + 1
    /\ timer' = TRUE
    /\ UNCHANGED <<req, sem, window, auth, limits, loads, overlapped>>

\* The timer fires: Load in a goroutine of its own.  A file that does not parse or
\* validate changes nothing.
Load ==
    /\ timer
    /\ timer' = FALSE
    /\ loads' = IF Configs[file].valid THEN Append(loads, [cfg |-> file, next |-> "auth"])
                ELSE loads
    /\ overlapped' = (overlapped \/ (loads # <<>> /\ Configs[file].valid))
    /\ UNCHANGED <<req, sem, window, auth, limits, file>>

\* onChange: the auth config first, then the limits.
ReloadAuth(i) ==
    /\ i \in DOMAIN loads /\ loads[i].next = "auth"
    /\ auth' = loads[i].cfg
    /\ loads' = [loads EXCEPT ![i].next = "limits"]
    /\ UNCHANGED <<req, sem, window, limits, file, timer, overlapped>>

ReloadLimitsSet(i) ==
    /\ i \in DOMAIN loads /\ loads[i].next = "limits"
    /\ limits' = IF Configs[loads[i].cfg].maxReq > 0 THEN loads[i].cfg ELSE limits
    /\ loads' = RemoveAt(loads, i)
    /\ UNCHANGED <<req, sem, window, auth, file, timer, overlapped>>

ReloadLimits(i) ==
    /\ i \in DOMAIN loads /\ loads[i].next = "limits"
    /\ limits' = loads[i].cfg
    /\ loads' = RemoveAt(loads, i)
    /\ UNCHANGED <<req, sem, window, auth, file, timer, overlapped>>

Next ==
    \/ \E r \in Requests :
          \/ \E c \in Credentials, est \in Estimates : Authenticate(r, c, est)
          \/ Admit(r) \/ CheckMaxReq(r) \/ CheckMaxTok(r) \/ CheckLocked(r) \/ Panics(r)
          \/ \E used \in Used : Finish(r, used)
    \/ \E t \in Tenants : Age(t)
    \/ Edit \/ Load
    \/ \E i \in DOMAIN loads : ReloadAuth(i) \/ ReloadLimits(i)

Spec == Init /\ [][Next]_vars

-----------------------------------------------------------------------------
InFlight == {r \in Requests : req[r].at \in {"check", "check2", "locked", "running"}}
Fresh(t) == purge(window[t])
Running(t) == {r \in Requests : req[r].at = "running" /\ req[r].tenant = t}

\* The watcher, the semaphore, the windows and the requests have their types; a
\* request has a verdict of the authentication before it is anywhere else.
TypeOK ==
    /\ \A r \in Requests :
          /\ req[r].at \in {"new", "401", "authed", "503", "check", "check2", "locked",
                            "running", "429", "cut", "aborted", "done"}
          /\ req[r].tenant \in Tenants \cup {None} /\ req[r].est \in Estimates \cup {0}
          /\ req[r].at \notin {"new", "401"} => req[r].tenant \in Tenants
    /\ sem \in Nat
    /\ \A t \in Tenants :
          window[t].entries \in Seq(Used) /\ window[t].expired \in 0 .. Len(window[t].entries)
    /\ {auth, limits, file} \subseteq DOMAIN Configs
    /\ timer \in BOOLEAN /\ overlapped \in BOOLEAN
    /\ Range(loads) \subseteq [cfg : DOMAIN Configs, next : {"auth", "limits"}]

\* Admission control: the semaphore counts exactly the requests past it, refused and
\* panicking ones included, so at most maxInFlight run and no slot is ever lost.
SlotsAccounted == sem = Cardinality(InFlight) /\ sem <= MaxInFlight

\* The rate limit under concurrency.  Check and Record are apart, so a tenant can
\* exceed maxReq, but only by the calls that run beside each other: recent calls and
\* running ones together stay below the largest maxReq so far + maxInFlight, across
\* reloads, until the file has had a content without a request limit.
WindowBounded ==
    \A i \in 1 .. file :
        (\A j \in 1 .. file : Configs[j].maxReq \in 1 .. Configs[i].maxReq) =>
            \A t \in Tenants :
                Len(Fresh(t)) + Cardinality(Running(t)) <= Configs[i].maxReq + MaxInFlight - 1

\* Hot reload: once the timer is idle and no callback runs, the auth config and the
\* limits are those of one and the same file content, the current one if it is
\* valid, unless two callbacks ran at the same time.
ReloadConverges ==
    ~timer /\ loads = <<>> /\ ~overlapped =>
        auth = limits /\ (Configs[file].valid => auth = file)

Keys == UNION {DOMAIN Configs[i].keys : i \in DOMAIN Configs} \cup {"unknown"}
Presentable == [cert : Tenants \cup {None}, bearer : Keys \cup DOMAIN Tokens \cup {None},
                xkey : Keys \cup {None}]

\* A request is accepted exactly when it presents a certificate, a key of the config
\* or, with JWT set up, a token that verifies; a key in the bearer hides X-API-Key.
AcceptedIffKnown ==
    LET cfg == Configs[auth] IN
    \A c \in Presentable :
        authenticate(c, cfg) # None <=>
            \/ c.cert # None
            \/ c.bearer \in DOMAIN cfg.keys
            \/ c.xkey \in DOMAIN cfg.keys /\ (c.bearer = None \/ c.bearer \in DOMAIN Tokens)
            \/ cfg.jwt /\ c.bearer \in DOMAIN Tokens /\ Tokens[c.bearer] # None
=============================================================================
