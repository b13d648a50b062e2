-------------------------------- MODULE Walk --------------------------------
(***************************************************************************)
(* What Execute and ExecuteStream promise the handler that calls them,     *)
(* without attempts, backoff, windows or the order of the fallbacks: the   *)
(* primary model is called first, every other candidate at most once       *)
(* after it, and the walk ends with the answer of the last one called,     *)
(* with the caller gone, or with every candidate used up.  Executor is     *)
(* checked against it; ChatHandler uses it in Executor's place.            *)
(***************************************************************************)
CONSTANTS Models, None

WalkRecord ==
    [at    : Models,                 \* the candidate last taken up
     left  : SUBSET Models,          \* candidates that may still be taken up
     phase : {"calling", "between", "ok", "failed", "stopped"}]

Start(primary, chain) == [at |-> primary, left |-> chain, phase |-> "calling"]

\* The call has an answer.
Answered(w) == [w EXCEPT !.phase = "ok"]

\* The call ended because the caller is gone.
Abandoned(w) == [w EXCEPT !.phase = "stopped"]

\* The call failed; an escalation drops some of the candidates left.
Failed(w) == {[w EXCEPT !.phase = "between", !.left = kept] : kept \in SUBSET w.left}

\* Candidate m is taken up and called, or has no provider.
Taken(w, m) == [w EXCEPT !.at = m, !.left = @ \ {m}, !.phase = "calling"]

Skipped(w, m) == [w EXCEPT !.at = m, !.left = @ \ {m}]

UsedUp(w) == [w EXCEPT !.phase = "failed"]

Steps(w) ==
    CASE w.phase = "calling" -> {Answered(w), Abandoned(w)} \cup Failed(w)
      [] w.phase = "between" /\ w.left = {} -> {UsedUp(w)}
      [] w.phase = "between" /\ w.left # {} ->
            {Taken(w, m) : m \in w.left} \cup {Skipped(w, m) : m \in w.left}
      [] OTHER -> {}
=============================================================================
