--------------------------- MODULE StreamAdapters ---------------------------
(***************************************************************************)
(* The provider adapters' Stream loops, one wire event at a time, and the  *)
(* reading of the chunks they emit.                                        *)
(*                                                                         *)
(* A wire event is a record: "text" (piece n of the reply), "call" (tool   *)
(* call n begins), "args" (the next fragment of call n's arguments),       *)
(* "calls" (n whole calls, Gemini's form), "finish", "stop" (the format's  *)
(* terminal event), "bad" (a payload that does not decode, in place of     *)
(* text piece n), "error" (an in-band error event), "other" (a keep-alive) *)
(* and the ends of the body: "eof" (clean), "cut" (a read error, or a line *)
(* longer than the scanner's buffer) and "torn" (the body ends right after *)
(* the 12-byte prelude of an event-stream frame).                          *)
(***************************************************************************)
EXTENDS Integers, SequencesExt

\* Accumulated tool calls, in the order they first appeared: pairs of an
\* index and the number of argument fragments joined.
Known(acc, n) == \E i \in DOMAIN acc : acc[i][1] = n

\* Mutant: the order is that of the indexes, not of the first appearance.
StartLast(acc, n) == IF Known(acc, n) THEN acc ELSE <<<<n, 0>>>> \o acc

\* toolCallAccumulator.add for an unseen index, streamToolCallAccumulator.start
Start(acc, n) == IF Known(acc, n) THEN acc ELSE Append(acc, <<n, 0>>)

\* appendArgs, and add for a seen index
AppendArgs(acc, n) ==
    [i \in DOMAIN acc |-> IF acc[i][1] = n THEN <<n, acc[i][2] + 1>> ELSE acc[i]]

Chunk(text, calls, finish) == [text |-> text, calls |-> calls, finish |-> finish]

\* What one turn of a Stream loop does: the accumulator it leaves, the
\* chunks it hands to onChunk and how the call returns ("" while it loops).
Step(acc, chunks, ret) == [acc |-> acc, chunks |-> chunks, ret |-> ret]
Skip(acc) == Step(acc, <<>>, "")

Ending(acc, ev) == Step(acc, <<>>, IF ev.kind = "cut" THEN "err" ELSE "ok")

\* normalizeStopReason, normalizeBedrockStopReason, mapFinishReason
normalizeStopReason(reason) ==
    CASE reason = "end_turn" -> "stop" [] reason = "tool_use" -> "tool_calls" [] OTHER -> reason

\* Only the finish chunk carries the reassembled calls.
DeltaCalls(acc, reason) == IF reason = "" THEN <<>> ELSE acc

Delta(acc, text, reason) ==
    Step(acc, <<Chunk(text, DeltaCalls(acc, reason), normalizeStopReason(reason))>>, "")

\* OpenAI and compatible providers: every line that decodes becomes a
\* chunk, one with an in-band error too.
OpenAIStream(acc, ev) ==
    CASE ev.kind = "text"   -> Delta(acc, <<ev.n>>, "")
      [] ev.kind = "call"   -> Delta(Start(acc, ev.n), <<>>, "")
      [] ev.kind = "args"   -> Delta(AppendArgs(acc, ev.n), <<>>, "")
      [] ev.kind = "finish" -> Delta(acc, <<>>, ev.reason)
      [] ev.kind = "error"  -> Delta(acc, <<>>, "")
      [] ev.kind \in {"stop", "eof", "cut"} -> Ending(acc, ev)
      [] OTHER              -> Skip(acc)

\* Anthropic: tool calls gather silently; error events have no case.
AnthropicStream(acc, ev) ==
    CASE ev.kind = "text"   -> Delta(acc, <<ev.n>>, "")
      [] ev.kind = "call"   -> Skip(Start(acc, ev.n))
      [] ev.kind = "args"   -> Skip(AppendArgs(acc, ev.n))
      [] ev.kind = "finish" -> Delta(acc, <<>>, ev.reason)
      [] ev.kind \in {"stop", "eof", "cut"} -> Ending(acc, ev)
      [] OTHER              -> Skip(acc)

Undecodable(acc) == Step(acc, <<>>, "err")

\* Bedrock: tool events are ignored, exceptions and frames that do not
\* decode end the stream with an error.  A body that ends after a frame's
\* prelude reads as io.EOF, wrapped but still io.EOF to errors.Is.
BedrockStream(acc, ev) ==
    CASE ev.kind = "text"   -> Delta(acc, <<ev.n>>, "")
      [] ev.kind = "finish" -> Delta(acc, <<>>, ev.reason)
      [] ev.kind \in {"bad", "error"} -> Undecodable(acc)
      [] ev.kind \in {"stop", "eof", "torn", "cut"} -> Ending(acc, ev)
      [] OTHER              -> Skip(acc)

\* Gemini: every chunk is whole and maps to a finish reason, "" to "stop".
GeminiStream(acc, ev) ==
    CASE ev.kind = "text"   -> Step(acc, <<Chunk(<<ev.n>>, <<>>, "stop")>>, "")
      [] ev.kind = "calls"  ->
             LET calls == [i \in 1..ev.n |-> <<Len(acc) + i, 1>>]
             IN  Step(acc \o calls, <<Chunk(<<>>, calls, "tool_calls")>>, "")
      [] ev.kind = "finish" -> Step(acc, <<Chunk(<<>>, <<>>, normalizeStopReason(ev.reason))>>, "")
      [] ev.kind \in {"eof", "cut"} -> Ending(acc, ev)
      [] OTHER              -> Skip(acc)

StreamStep(format, acc, ev) ==
    CASE format = "anthropic" -> AnthropicStream(acc, ev)
      [] format = "gemini"    -> GeminiStream(acc, ev)
      [] format = "bedrock"   -> BedrockStream(acc, ev)
      [] OTHER                -> OpenAIStream(acc, ev)

\* What the whole reply is through Chat: fromWireResponse, splitContent,
\* parseResponse, fromGenWireResponse.  Bedrock reads neither tool calls
\* nor normalises the stop reason.
ChatReply(format, said, reason) ==
    [text   |-> said.text,
     calls  |-> IF format = "bedrock" THEN <<>> ELSE said.calls,
     finish |-> IF format = "bedrock" THEN reason
                ELSE IF format = "gemini" /\ said.calls # <<>> THEN "tool_calls"
                ELSE normalizeStopReason(reason)]

-----------------------------------------------------------------------------
(* Readings of the chunks written to the client.                           *)
ChunkText(chunks) == FlattenSeq([i \in DOMAIN chunks |-> chunks[i].text])
ChunkCalls(chunks) == FlattenSeq([i \in DOMAIN chunks |-> chunks[i].calls])
WithCalls(chunks) == SelectSeq(chunks, LAMBDA c : c.calls # <<>>)
Finishes(chunks) == SelectSeq(chunks, LAMBDA c : c.finish # "")

\* parseSSEAssistantTurn takes the last non-empty set of calls it meets.
CapturedCalls(chunks) ==
    IF WithCalls(chunks) = <<>> THEN <<>> ELSE Last(WithCalls(chunks)).calls

\* Its found flag: nothing is stored for a stream that carried nothing.
CapturedAny(chunks) == ChunkText(chunks) # <<>> \/ WithCalls(chunks) # <<>>
=============================================================================
