------------------------ MODULE MC_BreakerRegistry ------------------------
(***************************************************************************)
(* An instance of BreakerRegistry for TLC: a replica with two concurrent   *)
(* requests, next to one with a single request.                            *)
(***************************************************************************)
EXTENDS BreakerRegistry, TLC

CONSTANTS r1, r2, q1, q2, q3

TwoAndOne == q1 :> r1 @@ q2 :> r1 @@ q3 :> r2

\* The two requests of r1 are interchangeable.
Symmetry == Permutations({q1, q2})
=============================================================================
