------------------------- MODULE MC_CircuitBreaker -------------------------
(* Values for model checking CircuitBreaker: three concurrent requests, a   *)
(* breaker that trips when fewer than 1 in 2 of at least two outcomes are   *)
(* successes, and two probes.                                               *)
EXTENDS CircuitBreaker
=============================================================================
