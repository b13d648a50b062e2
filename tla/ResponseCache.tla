--------------------------- MODULE ResponseCache ---------------------------
(***************************************************************************)
(* The response cache: internal/ingress/cache_middleware.go over the exact *)
(* cache, the fast semantic tier with its journal and the quality tier of  *)
(* internal/domain/cache.                                                  *)
(*                                                                         *)
(* A response is named by the request whose upstream call produced it; its *)
(* copies expire together, responses in any order.  Requests that stream   *)
(* or do not decode pass the cache by and are left out.  A vector stands   *)
(* for its text: the two embedders appear only through their scores.       *)
(***************************************************************************)
EXTENDS Naturals, FiniteSets, SequencesExt

CONSTANTS
    Requests,        \* request slots, each used once
    Model, Text,     \* request -> model, text of its new turn
    FastScore, QualityScore,     \* cosine similarity of two texts under each embedder
    Threshold, MaxSize, HasQuality,
    MaxStops         \* bound: restarts

ASSUME CacheAssumption == Threshold \in Nat \ {0} /\ MaxSize \in Nat \ {0}

VARIABLES
    exact,           \* responses in the exact cache, one per key
    fast, quality,   \* the semantic tiers, oldest first
    journal,         \* semantic.jsonl
    expired,         \* responses past their ttl
    st,              \* request -> "new", "asking", "missed", "waiting", "calling",
                     \*            "storing", "writing", "done", "failed", "gone"
    answer,          \* request -> [by: who produced its response, tier: where it was found]
    embedding,       \* responses whose quality embedding is under way
    good,            \* requests whose own upstream call succeeded (history)
    glued,           \* responses whose line was written behind half a line (history)
    stops

vars == <<exact, fast, quality, journal, expired, st, answer, embedding, good, glued, stops>>
stores == <<exact, fast, quality, journal, expired, embedding, good, glued, stops>>

\* A journal line that does not decode: half a line at the end, or one inside.
Torn == "torn"
Junk == "junk"

Init ==
    /\ exact = {} /\ fast = <<>> /\ quality = <<>> /\ journal = <<>>
    /\ expired = {}
    /\ st = [r \in Requests |-> "new"]
    /\ answer = [r \in Requests |-> [by |-> r, tier |-> "own"]]
    /\ embedding = {} /\ good = {} /\ glued = {}
    /\ stops = 0

-----------------------------------------------------------------------------
\* Key hashes model and messages, and nothing else of the request.
Key(r) == <<Model[r], Text[r]>>

\* Get: the live entry of the key.
Get(r) == {p \in exact : Key(p) = Key(r) /\ p \notin expired}

\* Set on a full cache first evicts an expired entry, or any entry, even when the
\* key is already there.
Victims == IF Cardinality(exact) < MaxSize THEN {{}}
           ELSE IF exact \cap expired # {} THEN {{p} : p \in exact \cap expired}
           ELSE {{p} : p \in exact}

Put(r, victim) == {p \in exact \ victim : Key(p) # Key(r)} \cup {r}

BetterAny(best, p, score) == score > best.score
Better(best, p, score) == score >= Threshold /\ score > best.score

\* The live entry with the highest score of at least the threshold, the oldest of
\* those that tie.
Find(tier, r, Score) ==
    LET step(best, p) ==
            LET score == Score[Text[r], Text[p]]
            IN IF p \notin expired /\ Better(best, p, score)
               THEN [found |-> {p}, score |-> score] ELSE best
    IN FoldLeft(step, [found |-> {}, score |-> 0], tier).found

\* evict: the first expired entry, or the oldest.
evict(tier) ==
    LET dead == {i \in DOMAIN tier : tier[i] \in expired}
        i == IF dead = {} THEN 1 ELSE CHOOSE d \in dead : \A e \in dead : d <= e
    IN RemoveAt(tier, i)

Store(tier, r) == Append(IF Len(tier) >= MaxSize THEN evict(tier) ELSE tier, r)

-----------------------------------------------------------------------------
Hit(r, p, tier) ==
    /\ st' = [st EXCEPT ![r] = "done"]
    /\ answer' = [answer EXCEPT ![r] = [by |-> p, tier |-> tier]]

\* Lookup, up to the quality tier.  An expired exact entry is deleted by Get.
Lookup(r) ==
    /\ st[r] = "new"
    /\ exact' = exact \ {p \in expired : Key(p) = Key(r)}
    /\ LET similar == IF Get(r) = {} THEN Find(fast, r, FastScore) ELSE {}
       IN \/ \E p \in Get(r) : Hit(r, p, "exact")
          \/ \E p \in similar : Hit(r, p, "fast")
          \/ /\ Get(r) = {} /\ similar = {}
             /\ st' = [st EXCEPT ![r] = IF HasQuality THEN "asking" ELSE "missed"]
             /\ UNCHANGED answer
    /\ UNCHANGED <<fast, quality, journal, expired, embedding, good, glued, stops>>

\* The quality embedding answers, or fails or times out.
AskQuality(r, embedded) ==
    /\ st[r] = "asking"
    /\ LET hits == IF embedded THEN Find(quality, r, QualityScore) ELSE {}
       IN \/ \E p \in hits : Hit(r, p, "quality")
          \/ hits = {} /\ st' = [st EXCEPT ![r] = "missed"] /\ UNCHANGED answer
    /\ UNCHANGED stores

InFlight(r) == \E p \in Requests : Key(p) = Key(r) /\ st[p] \in {"calling", "storing", "writing"}

DoAlone(r) ==
    /\ st[r] = "missed"
    /\ st' = [st EXCEPT ![r] = "calling"]
    /\ UNCHANGED <<stores, answer>>

\* singleflight: the first miss of a key calls, those that find it under way wait.
Do(r) ==
    /\ st[r] = "missed"
    /\ st' = [st EXCEPT ![r] = IF InFlight(r) THEN "waiting" ELSE "calling"]
    /\ UNCHANGED <<stores, answer>>

FinishLeader(r, outcome) == st' = [st EXCEPT ![r] = outcome] /\ UNCHANGED answer

\* The closure returns: everyone waiting on the key gets the leader's response.
Finish(r, outcome) ==
    LET waiters == {p \in Requests : st[p] = "waiting" /\ Key(p) = Key(r)}
    IN /\ st' = [p \in Requests |-> IF p = r \/ p \in waiters THEN outcome ELSE st[p]]
       /\ answer' = [p \in Requests |-> 
                        IF p \in waiters THEN [by |-> r, tier |-> "shared"] ELSE answer[p]]

Fails(r) ==
    /\ st[r] = "calling"
    /\ Finish(r, "failed")
    /\ UNCHANGED stores

Succeeds(r, victim) ==
    /\ st[r] = "calling"
    /\ victim \in Victims
    /\ exact' = Put(r, victim)
    /\ good' = good \cup {r}
    /\ st' = [st EXCEPT ![r] = "storing"]
    /\ UNCHANGED <<fast, quality, journal, expired, answer, embedding, glued, stops>>

StoreFast(r) ==
    /\ st[r] = "storing"
    /\ fast' = Store(fast, r)
    /\ st' = [st EXCEPT ![r] = "writing"]
    /\ UNCHANGED <<exact, quality, journal, expired, answer, embedding, good, glued, stops>>

\* A line behind half a line does not decode.
Line(r) ==
    IF journal # <<>> /\ Last(journal) = Torn
    THEN journal' = Append(Front(journal), Junk) /\ glued' = glued \cup {r}
    ELSE journal' = Append(journal, r) /\ UNCHANGED glued

StoreLine(r) ==
    /\ st[r] = "writing"
    /\ Line(r)
    /\ embedding' = IF HasQuality THEN embedding \cup {r} ELSE embedding
    /\ Finish(r, "done")
    /\ UNCHANGED <<exact, fast, quality, expired, good, stops>>

\* The detached goroutine of Store.
QualityStored(r, embedded) ==
    /\ r \in embedding
    /\ embedding' = embedding \ {r}
    /\ quality' = IF embedded THEN Store(quality, r) ELSE quality
    /\ UNCHANGED <<exact, fast, journal, expired, st, answer, good, glued, stops>>

Expire(r) ==
    /\ r \in good \ expired
    /\ expired' = expired \cup {r}
    /\ UNCHANGED <<exact, fast, quality, journal, st, answer, embedding, good, glued, stops>>

Decodes(l) == l \notin {Torn, Junk}
LiveLine(l) == Decodes(l) /\ l \notin expired

compactExpired(j) == SelectSeq(j, LAMBDA l : l \notin expired)

\* replayJournal compacts the file when it dropped a line and kept one.
compact(j) == LET live == SelectSeq(j, LiveLine) IN IF live = <<>> THEN j ELSE live

\* The process ends, perhaps inside the write of a line, and starts again with the
\* live lines of the journal.
Restart(torn) ==
    /\ stops < MaxStops
    /\ stops' = stops + 1
    /\ torn => \E r \in Requests : st[r] = "writing"
    /\ LET j == IF torn THEN Append(journal, Torn) ELSE journal
       IN /\ fast' = FoldLeft(Store, <<>>, SelectSeq(j, LiveLine))
          /\ journal' = compact(j)
    /\ exact' = {} /\ quality' = <<>> /\ embedding' = {}
    /\ st' = [r \in Requests |-> IF st[r] \in {"new", "done", "failed"} THEN st[r] ELSE "gone"]
    /\ UNCHANGED <<expired, answer, good, glued>>

Step(r) ==
    \/ Lookup(r) \/ Do(r) \/ Fails(r) \/ StoreFast(r) \/ StoreLine(r)
    \/ \E victim \in SUBSET exact : Succeeds(r, victim)
    \/ \E embedded \in BOOLEAN : AskQuality(r, embedded)

Next ==
    \/ \E r \in Requests : Step(r) \/ Expire(r)
    \/ \E r \in Requests, embedded \in BOOLEAN : QualityStored(r, embedded)
    \/ \E torn \in BOOLEAN : Restart(torn)

\* A request that was taken runs on: embedder and provider calls have timeouts.
Spec == Init /\ [][Next]_vars /\ \A r \in Requests : WF_vars(Step(r) /\ st[r] # "new")

-----------------------------------------------------------------------------
\* Type correctness; neither the exact cache nor a semantic tier outgrows maxSize.
TypeOK ==
    /\ exact \subseteq Requests /\ Cardinality(exact) <= MaxSize
    /\ \A tier \in {fast, quality} : Range(tier) \subseteq Requests /\ Len(tier) <= MaxSize
    /\ Range(journal) \subseteq Requests \cup {Torn, Junk}
    /\ expired \cup embedding \cup good \cup glued \subseteq Requests
    /\ st \in [Requests -> {"new", "asking", "missed", "waiting", "calling", "storing",
                            "writing", "done", "failed", "gone"}]
    /\ answer \in [Requests -> [by : Requests,
                               tier : {"own", "exact", "fast", "quality", "shared"}]]
    /\ stops \in 0 .. MaxStops

\* Coalescing: at no time do two requests with one key call the provider.
OneCallPerKey ==
    \A r, p \in Requests : r # p /\ Key(r) = Key(p) => ~(st[r] = "calling" /\ st[p] = "calling")

\* A caller is answered with what was produced for the same key, or on a semantic
\* hit for a text that the embedder of that tier scores at least the threshold:
\* exact and semantic hits and coalesced misses, in any order with stores, evictions
\* and restarts.
AnswersFit ==
    \A r \in Requests : st[r] = "done" =>
        CASE answer[r].tier = "fast" -> FastScore[Text[r], Text[answer[r].by]] >= Threshold
          [] answer[r].tier = "quality" -> QualityScore[Text[r], Text[answer[r].by]] >= Threshold
          [] OTHER -> Key(answer[r].by) = Key(r)

\* Durability of the fast tier: a live entry in memory is in the journal, or its
\* line is being written, or the line was glued to half a line a crash had left; and
\* half a line stays at the end of the file only while the file has no live line.
JournalCovers ==
    /\ \A r \in Range(fast) \ expired :
          r \in Range(journal) \/ st[r] = "writing" \/ r \in glued
    /\ Torn \in Range(journal) => \A i \in DOMAIN journal : ~LiveLine(journal[i])

\* No waiter is left behind: a request that missed is answered, or fails with its
\* leader, or dies with the process.
EveryoneAnswered ==
    \A r \in Requests : st[r] \in {"asking", "missed", "waiting"} ~> st[r] \in {"done", "failed", "gone"}
=============================================================================
