------------------------------ MODULE Translate ------------------------------
(***************************************************************************)
(* The provider adapters' request builders: one canonical message list,    *)
(* five wire requests.                                                     *)
(*                                                                         *)
(* A message has a role, a text (a sequence of lines, see Compressor;      *)
(* <<>> is ""), the parts of a multimodal message (pairs <<"text", t>> or  *)
(* <<"image", <<>>>>), the ids of its tool calls and the id it answers.    *)
(* A wire request has the texts of its system field, its messages, each a  *)
(* role and a sequence of blocks, and the index of the message that        *)
(* carries the history's cache_control mark (0 for none); "panic" says     *)
(* that building it indexed an empty part list.  A block's texts are a     *)
(* sequence because Gemini's builder merges texts into one part.           *)
(***************************************************************************)
EXTENDS Compressor

\* minCacheableTokens, in the units of Size
CONSTANT MinCacheable

Message(role, text) == [role |-> role, text |-> text, parts |-> <<>>, calls |-> <<>>, id |-> ""]

Block(kind, texts, id) == [kind |-> kind, texts |-> texts, id |-> id]

NoWire == [system |-> <<>>, msgs |-> <<>>, pending |-> <<>>, mark |-> 0, panic |-> FALSE]

TextBlock(text) == Block("text", <<text>>, "")
Uses(m) == [i \in DOMAIN m.calls |-> Block("use", <<>>, m.calls[i])]

\* TrimSpace(text) = ""
Blank(text) == \A i \in DOMAIN text : text[i][1] = ""

PartBlock(p) == IF p[1] = "image" THEN Block("image", <<>>, "") ELSE TextBlock(p[2])

\* toWireContentBlocks, toContentBlocks and toWireContent
toWireContentBlocks(m) ==
    IF m.parts = <<>> THEN <<TextBlock(m.text)>>
    ELSE [i \in DOMAIN m.parts |-> PartBlock(m.parts[i])]

AddMessage(w, role, blocks) ==
    [w EXCEPT !.msgs = Append(@, [role |-> role, blocks |-> blocks])]

\* Mutant: the last system message wins.
AddSystemLast(w, text) == [w EXCEPT !.system = <<text>>]

\* System messages are lifted out of the list and joined.
AddSystem(w, text) == [w EXCEPT !.system = Append(@, text)]

\* Mutant: every result is flushed as a message of its own.
AddResultAlone(w, role, block) == AddMessage(w, role, <<block>>)

\* Results wait until the next message that is none, or the end.
AddResult(w, role, block) == [w EXCEPT !.pending = Append(@, block)]

flush(w, role) ==
    IF w.pending = <<>> THEN w ELSE [AddMessage(w, role, w.pending) EXCEPT !.pending = <<>>]

-----------------------------------------------------------------------------
(* Anthropic: results coalesced into one user message, system lifted.      *)
AnthropicMessage(w, m) ==
    IF m.role = "tool" THEN AddResult(w, "user", Block("result", <<m.text>>, m.id))
    ELSE LET v == flush(w, "user")
         IN  IF m.role = "system" THEN AddSystem(v, m.text)
             ELSE IF m.role = "assistant" /\ m.calls # <<>>
                  THEN AddMessage(v, m.role,
                           (IF m.text = <<>> THEN <<>> ELSE <<TextBlock(m.text)>>) \o Uses(m))
                  ELSE AddMessage(v, m.role, toWireContentBlocks(m))

BlocksSize(blocks) ==
    FoldLeft(LAMBDA n, b : n + Size(FlattenSeq(b.texts)), 0, blocks)

markHistoryCacheBreakpoint(w, historyLen) ==
    IF /\ historyLen > 0 /\ historyLen <= Len(w.msgs)
       /\ MinCacheable <=
            FoldLeft(LAMBDA n, m : n + BlocksSize(m.blocks), 0, SubSeq(w.msgs, 1, historyLen))
       /\ w.msgs[historyLen].blocks # <<>>
    THEN [w EXCEPT !.mark = historyLen] ELSE w

Anthropic(messages, historyLen) ==
    markHistoryCacheBreakpoint(
        flush(FoldLeft(AnthropicMessage, NoWire, messages), "user"), historyLen)

-----------------------------------------------------------------------------
(* Gemini: neighbours of one role are merged, since roles must alternate.  *)
GenRole(role) == IF role = "assistant" THEN "model" ELSE role

\* The text goes into the FIRST part of the last content, whatever it is.
appendOrMerge(w, role, text) ==
    IF Blank(text) THEN w
    ELSE IF w.msgs # <<>> /\ Last(w.msgs).role = GenRole(role)
         THEN IF Last(w.msgs).blocks = <<>> THEN [w EXCEPT !.panic = TRUE]
              ELSE [w EXCEPT !.msgs[Len(w.msgs)].blocks[1].texts = Append(@, text)]
         ELSE AddMessage(w, GenRole(role), <<TextBlock(text)>>)

toGenParts(m) ==
    LET kept == SelectSeq(m.parts, LAMBDA p : p[1] = "image" \/ ~Blank(p[2]))
    IN  [i \in DOMAIN kept |-> PartBlock(kept[i])]

\* The function a result answers is looked up by the call's id, among the
\* calls of this very request.
AllBlocks(w) == FlattenSeq([i \in DOMAIN w.msgs |-> w.msgs[i].blocks])
CalledBefore(w) == {b.id : b \in {c \in ToSet(AllBlocks(w)) : c.kind = "use"}}

GenMessage(w, m) ==
    IF w.panic THEN w
    ELSE IF m.role = "tool"
    THEN AddResult(w, "function",
             Block("result", <<m.text>>, IF m.id \in CalledBefore(w) THEN m.id ELSE ""))
    ELSE LET v == flush(w, "function")
         IN  IF m.role = "system" THEN IF Blank(m.text) THEN v ELSE AddSystem(v, m.text)
             ELSE IF m.role = "assistant" /\ m.calls # <<>>
                  THEN AddMessage(v, "model",
                           (IF Blank(m.text) THEN <<>> ELSE <<TextBlock(m.text)>>) \o Uses(m))
             ELSE IF m.role = "user" /\ m.parts # <<>> THEN AddMessage(v, "user", toGenParts(m))
             ELSE appendOrMerge(v, m.role, m.text)

Gemini(messages) == flush(FoldLeft(GenMessage, NoWire, messages), "function")

-----------------------------------------------------------------------------
(* Bedrock keeps every role but system, and drops tool calls and ids; the  *)
(* OpenAI formats keep the list as it is.                                  *)
BedrockMessage(w, m) ==
    IF m.role = "system" THEN AddSystem(w, m.text)
    ELSE AddMessage(w, m.role, toWireContentBlocks(m))

Bedrock(messages) == FoldLeft(BedrockMessage, NoWire, messages)

OpenAIMessage(w, m) ==
    AddMessage(w, m.role,
        IF m.role = "tool" THEN <<Block("result", <<m.text>>, m.id)>>
        ELSE toWireContentBlocks(m) \o Uses(m))

OpenAI(messages) == FoldLeft(OpenAIMessage, NoWire, messages)

toWireRequest(format, messages, historyLen) ==
    CASE format = "anthropic" -> Anthropic(messages, historyLen)
      [] format = "gemini"    -> Gemini(messages)
      [] format = "bedrock"   -> Bedrock(messages)
      [] OTHER                -> OpenAI(messages)

-----------------------------------------------------------------------------
(* Readings of a wire request and of a message list, for the properties.   *)
WireTexts(w) ==
    LET bs == AllBlocks(w)
    IN  SelectSeq(FlattenSeq([i \in DOMAIN bs |-> bs[i].texts]), LAMBDA t : ~Blank(t))

TextsOf(m) ==
    IF m.parts = <<>> THEN <<m.text>>
    ELSE [i \in DOMAIN m.parts |-> IF m.parts[i][1] = "text" THEN m.parts[i][2] ELSE <<>>]

ListTexts(messages, Keeps(_)) ==
    LET kept == SelectSeq(messages, Keeps)
    IN  SelectSeq(FlattenSeq([i \in DOMAIN kept |-> TextsOf(kept[i])]), LAMBDA t : ~Blank(t))
=============================================================================
