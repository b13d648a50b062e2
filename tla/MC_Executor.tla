---------------------------- MODULE MC_Executor ----------------------------
(***************************************************************************)
(* Instances of Executor for TLC: four models, two of them with the same   *)
(* context window, and chains of up to three fallbacks.                    *)
(***************************************************************************)
EXTENDS Executor

CONSTANTS small, mid1, mid2, large

Windows ==
    [m \in Models |-> CASE m = small -> 1
                        [] m = mid1  -> 2
                        [] m = mid2  -> 2
                        [] m = large -> 3]
=============================================================================
