--------------------------- MODULE MC_ChatHandler ---------------------------
(***************************************************************************)
(* Instances of ChatHandler for TLC: two concurrent requests, two models   *)
(* with a provider and one without.                                        *)
(***************************************************************************)
EXTENDS ChatHandler, TLC

CONSTANTS m1, m2, m3, q1, q2

\* Requests are interchangeable, and so are the models with a provider.
Symmetry == Permutations({q1, q2}) \cup Permutations({m1, m2})
=============================================================================
