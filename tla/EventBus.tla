------------------------------ MODULE EventBus ------------------------------
(***************************************************************************)
(* The in-process event bus of internal/adapters/bus/memory.go: a buffered *)
(* channel that Publish never waits for, and one dispatch loop.            *)
(***************************************************************************)
EXTENDS Naturals, Sequences

CONSTANT BufSize     \* capacity of the channel, 1024 in the program

ASSUME BufSizeAssumption == BufSize \in Nat \ {0}

HasRoom(q) == Len(q) < BufSize

\* select with a default branch: an event that finds the buffer full is lost.
Publish(q, ev) == IF HasRoom(q) THEN Append(q, ev) ELSE q

\* Life of the loop: "run" until the context is cancelled, then "drain" what
\* is queued, then "exit"; a later event stays in the channel for ever.
LoopState == {"run", "drain", "exit"}
LoopTakesNoDrain(loop) == loop = "run"

LoopTakes(loop) == loop \in {"run", "drain"}
LoopEnds(loop, q) == loop = "drain" /\ q = <<>>
=============================================================================
