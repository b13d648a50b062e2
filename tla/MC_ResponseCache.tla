-------------------------- MODULE MC_ResponseCache --------------------------
EXTENDS ResponseCache

MC_Requests == {"r1", "r2", "r3"}
\* Two identical requests, and another text for another model that only the
\* quality embedder finds alike.
MC_Model == [r1 |-> "m1", r2 |-> "m1", r3 |-> "m2"]
MC_Text == [r1 |-> "a", r2 |-> "a", r3 |-> "b"]
Alike(n) == [p \in {"a", "b"} \X {"a", "b"} |-> IF p[1] = p[2] THEN 10 ELSE n]
MC_FastScore == Alike(4)
MC_QualityScore == Alike(9)
=============================================================================
