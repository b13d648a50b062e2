---------------------------- MODULE RequestPath ----------------------------
(***************************************************************************)
(* The path of a session's requests through the body of the proxy, from    *)
(* the interceptors to the provider's wire and back:                       *)
(*                                                                         *)
(*   compressor and brevity -> memory -> session history -> the adapter's  *)
(*   request builder -> Chat, with one retrieval hop, or Stream -> the     *)
(*   client -> the session's stored turn.                                  *)
(*                                                                         *)
(* Admission, budgets, caching, routing and fallback have modules of their *)
(* own; here a request has reached its provider.  Other requests share the *)
(* retrieval store.                                                        *)
(***************************************************************************)
EXTENDS Translate, StreamAdapters

CONSTANTS
    Targets,      \* pairs <<wire format, stream>>
    First,        \* the pairs <<messages, target>> a session may open with
    FollowUps(_), \* those it may go on with, given the history
    Answers,      \* what a non-streaming provider may say: seqs of calls
    Facts,        \* whether the user has memories
    MaxChars,     \* the compressor's threshold
    StoreSize,    \* the retrieval store's maxSize
    MaxOthers,    \* bound: Puts of other requests
    MaxTurns,     \* bound: requests of the session
    MaxText, MaxCalls, MaxArgs  \* bounds on a streamed reply

VARIABLES
    phase,     \* "idle", "shaped", "sent", "hop", "stream"
    target,    \* the current request's format and stream flag
    asked,     \* the caller's messages
    msgs,      \* the messages as rewritten so far
    history,   \* the session's stored turns
    histLen,   \* how many of msgs the session prepended
    wire,      \* the provider's request
    entries,   \* the retrieval store, oldest first
    minted,    \* ids handed out
    aged,      \* the ids up to this one have outlived their ttl
    marked,    \* the ids in this request's markers and what they stand for
    hopped,    \* what the retrieval hop handed the model
    said,      \* what the upstream of a stream has sent
    acc,       \* the adapter's tool-call accumulator
    sse,       \* the chunks the client received, those that say nothing left out
    outcome,   \* of the last request: "", "ok", "err", "gone"
    turns, others

request == <<target, asked, msgs, histLen, wire>>
store == <<entries, minted, aged, marked, hopped, others>>
streamed == <<said, acc, sse>>
vars == <<phase, request, history, store, streamed, outcome, turns>>

Silence == [text |-> <<>>, calls |-> <<>>, reason |-> "", end |-> "", lost |-> FALSE]

Init ==
    /\ phase = "idle" /\ target = <<"openai", FALSE>> /\ asked = <<>> /\ msgs = <<>>
    /\ history = <<>> /\ histLen = 0 /\ wire = NoWire
    /\ entries = <<>> /\ minted = 0 /\ aged = 0 /\ marked = <<>> /\ hopped = <<>>
    /\ said = Silence /\ acc = <<>> /\ sse = <<>>
    /\ outcome = "" /\ turns = 0 /\ others = 0

-----------------------------------------------------------------------------
(* The retrieval store.                                                    *)
evictOldestLocked(es) == Tail(es)

\* Mutant: an id is the number of entries, as a counter restarted by
\* evictions would give.
newIDByCount(es, n) == Len(es) + 1

\* randomID: an id nobody was given before
newID(es, n) == n + 1

Put(es, id, text) ==
    Append(SelectSeq(IF Len(es) >= StoreSize THEN evictOldestLocked(es) ELSE es,
                     LAMBDA e : e.id # id),
           [id |-> id, text |-> text])

Found(id) == {i \in DOMAIN entries : entries[i].id = id /\ id > aged}

\* A request of somebody else truncates a message.
OtherPuts ==
    /\ others < MaxOthers /\ phase \in {"shaped", "sent"} /\ marked # <<>>
    /\ others' = others + 1
    /\ entries' = Put(entries, newID(entries, minted), <<<<"other", 1>>>>)
    /\ minted' = minted + 1
    /\ UNCHANGED <<phase, request, history, aged, marked, hopped, streamed, outcome, turns>>

\* The ttl of every entry runs out.
EntriesExpire ==
    /\ phase \in {"shaped", "sent"} /\ aged < minted /\ marked # <<>>
    /\ aged' = minted
    /\ UNCHANGED <<phase, request, history, entries, minted, marked, hopped, others, streamed,
                   outcome, turns>>

-----------------------------------------------------------------------------
(* The interceptors.                                                       *)
\* lastUserMessageIndex, 0 for none
liveTurn(ms) == SelectLastInSeq(ms, LAMBDA m : m.role = "user")

eligible(ms, i) ==
    i # liveTurn(ms) /\ ms[i].parts = <<>> /\ ms[i].role # "system" /\ ms[i].text # <<>>

\* The lines of the collapsed text that fit below the threshold.
Fitting(text) ==
    LET c == Collapsed(text)
        fits == {n \in 0..Len(c) : Size(SubSeq(c, 1, n)) <= MaxChars}
    IN  SubSeq(c, 1, CHOOSE n \in fits : \A k \in fits : k <= n)

\* One message of the loop of compressor.Intercept; a retrieval marker is
\* the line <<"cut", id>>, id 0 without one.
Shaped(s, i) ==
    IF ~eligible(s.msgs, i) THEN s
    ELSE LET text == s.msgs[i].text
             id   == newID(s.entries, s.minted)
         IN  IF omittedChars(text, MaxChars) = 0
             THEN [s EXCEPT !.msgs[i].text = Collapsed(text)]
             ELSE IF ~s.reversible
             THEN [s EXCEPT !.msgs[i].text = Append(Fitting(text), <<"cut", 0>>)]
             ELSE [s EXCEPT !.msgs[i].text = Append(Fitting(text), <<"cut", id>>),
                            !.entries = Put(@, id, text),
                            !.minted = @ + 1,
                            !.marked = Append(@, <<id, text>>)]

Instruction == <<"brief", 1>>

\* brevity.Intercept
Brief(ms) ==
    LET i == SelectInSeq(ms, LAMBDA m : m.role = "system")
    IN  IF i = 0 THEN <<Message("system", <<Instruction>>)>> \o ms
        ELSE [ms EXCEPT ![i].text = Append(@, Instruction)]

\* A request arrives and passes the interceptors.
Receive ==
    /\ phase = "idle" /\ turns < MaxTurns
    /\ \E r \in IF turns = 0 THEN First ELSE FollowUps(history) :
           LET s == FoldLeft(Shaped,
                        [msgs |-> r[1], entries |-> entries, minted |-> minted,
                         marked |-> <<>>, reversible |-> ~r[2][2]],
                        [i \in DOMAIN r[1] |-> i])
           IN  /\ asked' = r[1] /\ target' = r[2] /\ msgs' = Brief(s.msgs)
               /\ entries' = s.entries /\ minted' = s.minted /\ marked' = s.marked
    /\ phase' = "shaped" /\ turns' = turns + 1 /\ hopped' = <<>>
    /\ histLen' = 0 /\ wire' = NoWire /\ outcome' = ""
    /\ said' = Silence /\ acc' = <<>> /\ sse' = <<>>
    /\ UNCHANGED <<history, aged, others>>

-----------------------------------------------------------------------------
(* Memory, session history and the wire.                                   *)
MemoryMessage == Message("system", <<<<"fact", 1>>>>)

\* MemoryMiddleware and SessionMiddleware prepend, the adapter translates.
\* A panic of the builder unwinds the request.
Send ==
    /\ phase = "shaped"
    /\ \E facts \in Facts :
           msgs' = history \o (IF facts THEN <<MemoryMessage>> ELSE <<>>) \o msgs
    /\ histLen' = Len(history)
    /\ wire' = toWireRequest(target[1], msgs', histLen')
    /\ phase' = IF wire'.panic THEN "idle" ELSE IF target[2] THEN "stream" ELSE "sent"
    /\ outcome' = IF wire'.panic THEN "gone" ELSE ""
    /\ UNCHANGED <<target, asked, history, store, streamed, turns>>

\* The new turn's user message; an empty one when the caller only sent
\* tool results.
lastUserMessage(ms, n) ==
    LET i == SelectLastInSeq(ms, LAMBDA m : m.role = "user")
    IN  IF i > n THEN ms[i] ELSE Message("user", <<>>)

\* The session keeps the turn and the request is over.
Persist(reply) == history' = history \o <<lastUserMessage(msgs, histLen), reply>>

Said(n) == <<"said", n>>

Reply(calls) == [Message("assistant", <<Said(1)>>) EXCEPT !.calls = calls]

Deliver(calls) ==
    /\ Persist(Reply(calls))
    /\ phase' = "idle" /\ outcome' = "ok"

RetrievalCall(calls) == SelectInSeq(calls, LAMBDA c : c \in {"ret", "bad"})

\* The model names a retrieval only if it was offered one.
Sayable == {a \in Answers : marked # <<>> \/ RetrievalCall(a) = 0}

Notice == <<<<"gone", 0>>>>

\* The provider answers; resolveRetrieval takes up the first retrieval call
\* unless its arguments are malformed.  An expired entry leaves the store.
Answer ==
    /\ phase = "sent"
    /\ \E calls \in Sayable :
           LET r == RetrievalCall(calls)
           IN  IF r # 0 /\ calls[r] = "ret"
               THEN \E m \in ToSet(marked) :
                    LET text == IF Found(m[1]) = {} THEN Notice
                                ELSE entries[CHOOSE i \in Found(m[1]) : TRUE].text
                    IN  /\ hopped' = <<m[1], text>>
                        /\ entries' = SelectSeq(entries, LAMBDA e : e.id # m[1] \/ e.id > aged)
                        /\ wire' = toWireRequest(target[1],
                                      msgs \o <<Reply(calls),
                                               [Message("tool", text) EXCEPT !.id = "ret"]>>,
                                      histLen)
                        /\ phase' = "hop"
                        /\ UNCHANGED <<history, outcome>>
               ELSE Deliver(calls) /\ UNCHANGED <<wire, hopped, entries>>
    /\ UNCHANGED <<target, asked, msgs, histLen, minted, aged, marked, others, streamed, turns>>

\* The answer to the hop is returned as it is.
HopAnswer ==
    /\ phase = "hop"
    /\ \E calls \in Sayable : Deliver(calls)
    /\ UNCHANGED <<request, store, streamed, turns>>

\* A failed Chat ends in 502, and no turn is kept.
ChatFails ==
    /\ phase \in {"sent", "hop"}
    /\ phase' = "idle" /\ outcome' = "err"
    /\ UNCHANGED <<request, history, store, streamed, turns>>

-----------------------------------------------------------------------------
(* Streaming.                                                              *)
Event(kind, n, reason) == [kind |-> kind, n |-> n, reason |-> reason]

\* What the upstream may send next (external).
Sendable ==
    LET open == said.reason = ""
        n == Len(said.text) + 1
        c == Len(said.calls)
        whole == target[1] = "gemini"
    IN  {Event(k, n, "") : k \in IF open /\ n <= MaxText THEN {"text", "bad"} ELSE {}}
        \cup {Event("call", c + 1, "") : k \in {i \in {1} : open /\ ~whole /\ c < MaxCalls}}
        \cup {Event("args", k, "") : k \in {i \in DOMAIN said.calls :
                                             open /\ ~whole /\ said.calls[i][2] < MaxArgs}}
        \cup {Event("calls", k, "") : k \in {i \in 1..(MaxCalls - c) : open /\ whole}}
        \cup {Event("finish", 0, IF c > 0 THEN "tool_use" ELSE "end_turn") : k \in {i \in {1} : open}}
        \cup {Event("stop", 0, "") : k \in {i \in {1} : ~open /\ ~whole}}
        \cup {Event(k, 0, "") : k \in IF said.end = "" THEN {"error", "eof", "cut"} ELSE {"eof", "cut"}}
        \cup {Event("torn", 0, "") : k \in {i \in {1} : target[1] = "bedrock"}}

\* What it has sent so far; the reference the properties compare with.
Heard(s, ev) ==
    CASE ev.kind = "text"   -> [s EXCEPT !.text = Append(@, ev.n)]
      [] ev.kind = "bad"    -> [s EXCEPT !.text = Append(@, ev.n), !.lost = TRUE]
      [] ev.kind = "call"   -> [s EXCEPT !.calls = Append(@, <<ev.n, 0>>)]
      [] ev.kind = "args"   -> [s EXCEPT !.calls[ev.n][2] = @ + 1]
      [] ev.kind = "calls"  -> [s EXCEPT !.calls = @ \o [i \in 1..ev.n |-> <<Len(@) + i, 1>>]]
      [] ev.kind = "finish" -> [s EXCEPT !.reason = ev.reason]
      [] OTHER              -> [s EXCEPT !.end = ev.kind]

CallIds == <<"s1", "s2", "s3">>

\* The turn the session rebuilds from the bytes the client was sent.
parseSSEAssistantTurn(chunks) ==
    LET calls == CapturedCalls(chunks)
        text == ChunkText(chunks)
    IN  [Message("assistant", [i \in DOMAIN text |-> Said(text[i])])
            EXCEPT !.calls = [i \in DOMAIN calls |-> CallIds[calls[i][1]]]]

\* Mutant: the whole write is captured, delivered or not.
CapturedWhole(sent, chunks) == sent \o chunks

\* sseCaptureWriter.Write keeps only what reached the client; what a broken
\* write leaves behind does not decode.
Captured(sent, chunks) == sent

\* handleStream returns, [DONE] is written whatever the result, and the
\* session keeps what was captured.
StreamReturns(result, chunks) ==
    /\ phase' = "idle" /\ outcome' = result
    /\ IF CapturedAny(chunks) THEN Persist(parseSSEAssistantTurn(chunks)) ELSE UNCHANGED history

\* One turn of the Stream loop; onChunk fails when the client is gone.
StreamEvent ==
    /\ phase = "stream"
    /\ \E ev \in Sendable :
           LET s == StreamStep(target[1], acc, ev)
           IN  /\ said' = Heard(said, ev)
               /\ acc' = s.acc
               /\ \/ /\ sse' = sse \o SelectSeq(s.chunks, LAMBDA c : c # Chunk(<<>>, <<>>, ""))
                     /\ IF s.ret = "" THEN UNCHANGED <<phase, outcome, history>>
                        ELSE StreamReturns(s.ret, sse')
                  \/ /\ s.chunks # <<>>
                     /\ sse' = sse
                     /\ StreamReturns("gone", Captured(sse, s.chunks))
    /\ UNCHANGED <<request, store, turns>>

Next == Receive \/ OtherPuts \/ EntriesExpire \/ Send \/ Answer \/ HopAnswer \/ ChatFails \/ StreamEvent

Spec == Init /\ [][Next]_vars

-----------------------------------------------------------------------------
\* The request is in one phase, the retrieval store keeps to its size at every
\* Put (memoryBackend), and the stored history is made of pairs.
TypeOK ==
    /\ phase \in {"idle", "shaped", "sent", "hop", "stream"}
    /\ target \in Targets \cup {<<"openai", FALSE>>}
    /\ Len(entries) <= StoreSize /\ minted <= MaxOthers + MaxTurns * 4
    /\ histLen <= Len(msgs) /\ Len(history) % 2 = 0
    /\ outcome \in {"", "ok", "err", "gone"} /\ turns <= MaxTurns

OnTheWire == phase \in {"sent", "hop", "stream"}

\* Whatever the format, the provider is sent every text of the caller, of
\* the history and of the memory exactly once: the system texts joined in
\* their field, the others in the order of the list.  Gemini's builder
\* merges neighbours and may move a text in front of an image's caption,
\* but loses none (toWireRequest, toGenWireRequest, buildBody).
NothingLost ==
    phase \in {"sent", "stream"} =>
        LET lifts  == target[1] # "openai"
            system == ListTexts(msgs, LAMBDA m : m.role = "system")
            rest   == ListTexts(msgs, LAMBDA m : ~lifts \/ m.role # "system")
        IN  /\ lifts => SelectSeq(wire.system, LAMBDA t : ~Blank(t)) = system
            /\ IF target[1] = "gemini" THEN ToBag(WireTexts(wire)) = ToBag(rest)
               ELSE WireTexts(wire) = rest

IsUse(i, id) == i \in DOMAIN wire.msgs /\ \E b \in ToSet(wire.msgs[i].blocks) : b.kind = "use" /\ b.id = id
IsResult(i, id) == i \in DOMAIN wire.msgs /\ \E b \in ToSet(wire.msgs[i].blocks) : b.kind = "result" /\ b.id = id
HistoryCalls == UNION {ToSet(history[i].calls) : i \in DOMAIN history}

\* In the formats that pair them, a tool result stands in the message right
\* after the one with its call, and a call without its result is one the
\* session recalled without the tool messages around it, or one the
\* retrieval hop left beside the call it resolved (toWireRequest's and
\* toGenWireRequest's coalescing, lastUserMessage, resolveRetrieval).
ToolTurnsPaired ==
    OnTheWire /\ target[1] \in {"anthropic", "gemini"} =>
        \A i \in DOMAIN wire.msgs : \A b \in ToSet(wire.msgs[i].blocks) :
            /\ b.kind = "result" => IsUse(i - 1, b.id)
            /\ b.kind = "use" => \/ IsResult(i + 1, b.id) \/ b.id \in HistoryCalls
                                \/ (phase = "hop" /\ b.id # "ret")

\* A message the compressor did not truncate still says what it said: with
\* count markers and schema rows undone it is the original without its
\* comments, trailing blanks and repeated blank lines, or the same array
\* (compress, compressJSON, stripComments, collapse*).
CompressionRecoverable ==
    phase = "shaped" =>
        LET shift == Len(msgs) - Len(asked)
        IN  \A i \in DOMAIN asked :
                eligible(asked, i) /\ omittedChars(asked[i].text, MaxChars) = 0
                    => Recovered(msgs[i + shift].text) = Substance(asked[i].text)

\* What the retrieval hop hands the model is the text behind that very
\* marker; it is missing only when the entry expired or at least maxSize
\* younger entries were stored (Store.Put, Store.Get, resolveRetrieval).
RetrievalIsExact ==
    phase = "hop" =>
        \E m \in ToSet(marked) :
            /\ m[1] = hopped[1]
            /\ \/ hopped[2] = m[2]
               \/ hopped[2] = Notice /\ (minted - m[1] >= StoreSize \/ m[1] <= aged)

Streamed == target[2] /\ phase = "idle" /\ ~wire.panic

\* A stream the upstream finished gives the client what Chat would have
\* given it: the same text and, where the format carries them, the same
\* tool calls with all their fragments in order (the Stream loops and the
\* fromWireResponse functions).  Lines that do not decode are lost.
StreamAgreesWithChat ==
    Streamed /\ outcome = "ok" /\ said.reason # "" /\ ~said.lost =>
        LET reply == ChatReply(target[1], said, said.reason)
        IN  /\ ChunkText(sse) = reply.text
            /\ ChunkCalls(sse) = reply.calls
            /\ target[1] \notin {"bedrock", "gemini"} => Last(Finishes(sse)).finish = reply.finish

\* The turn the session keeps of a stream is what the client was sent, also
\* when the stream broke off; Gemini calls sent in several chunks excepted,
\* of which only the last set is kept (parseSSEAssistantTurn).
StoredTurnIsWhatClientSaw ==
    Streamed /\ CapturedAny(sse) /\ (target[1] = "gemini" => Len(WithCalls(sse)) <= 1) =>
        LET turn == Last(history)
        IN  /\ turn.text = [i \in DOMAIN ChunkText(sse) |-> Said(ChunkText(sse)[i])]
            /\ turn.calls = [i \in DOMAIN ChunkCalls(sse) |-> CallIds[ChunkCalls(sse)[i][1]]]
=============================================================================
