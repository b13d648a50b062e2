------------------------------ MODULE Routing ------------------------------
(***************************************************************************)
(* How a model:"auto" request, or an explicit one that may escalate, gets  *)
(* its candidates: the catalog and its scores (internal/domain/routing),   *)
(* and the prefix router that maps a model to a provider (pkg/ixr).        *)
(*                                                                         *)
(* Prices are in US cents per million tokens, latencies in milliseconds,   *)
(* failure rates in thousandths, capabilities and shares in hundredths.    *)
(* Scores are integers; a quotient is rounded down.                        *)
(***************************************************************************)
EXTENDS Integers, Sequences, FiniteSets, TLC

CONSTANTS
    Configured,      \* providers buildRegistry found credentials for
    MinSamples       \* samples before live statistics count, 10 in the code

Tasks == {"reasoning", "coding", "math", "multilingual"}

card(id, in, out, ms, fail, r, c, m, u) ==
    [id |-> id, in |-> in, out |-> out, ms |-> ms, fail |-> fail,
     skill |-> [t \in Tasks |-> CASE t = "reasoning" -> r [] t = "coding" -> c
                                  [] t = "math" -> m [] OTHER -> u]]

catalog == <<
    card("claude-opus-4.7",      500, 2500, 1800, 20,  98, 90,  99, 88),
    card("claude-sonnet-4-6",    300, 1500, 1100, 20,  92, 91,  90, 85),
    card("gpt-5.2",              150, 1400,   600, 25, 94, 93,  95, 86),
    card("gpt-5.3-codex",        175, 1400,     3, 30, 84, 98,  88, 78),
    card("gemini-3.1-pro",       200, 1200, 30300, 22, 96, 88, 100, 94),
    card("deepseek-v3-0324",      27,  110,  4000, 35, 84, 78,  88, 76),
    card("llama-4-scout",         11,   34,   330, 40, 76, 70,  78, 74),
    card("gemma-3-27b",            7,    7,   720, 45, 68, 62,  70, 72),
    card("gpt-oss-120b",          35,   75,   250, 30, 85, 80,  85, 75),
    card("llama-3.1-8b-instant",   5,    8,   150, 35, 55, 50,  55, 55),
    card("mistral-small-latest",  15,   60,   900, 30, 75, 72,  74, 78)>>

Catalog == {catalog[i].id : i \in DOMAIN catalog}
Card(m) == catalog[CHOOSE i \in DOMAIN catalog : catalog[i].id = m]

-----------------------------------------------------------------------------
(* The prefix router.  The patterns are tried in order, and the first one  *)
(* that matches decides, whether or not its provider is configured.  A     *)
(* pattern stands for every prefix its case lists ("gpt-" also for "o1").  *)

rules == <<
    <<"ollama/", "ollama">>, <<"llamacpp/", "llamacpp">>, <<"local/", "local">>,
    <<"amazon.", "bedrock">>, <<"gpt-oss", "cerebras">>, <<"gpt-", "openai">>,
    <<"claude-", "anthropic">>, <<"gemma", "gemma">>, <<"gemini", "gemini">>,
    <<"openai/", "github">>, <<"*/*", "openrouter">>, <<"mistral-", "mistral">>,
    <<"gemma-3-12b-it", "sambanova">>, <<"meta-llama", "sambanova">>,
    <<"deepseek-v3.2", "sambanova">>, <<"qwen3", "cerebras">>,
    <<"llama-4-maverick", "cerebras">>, <<"glm-", "zhipu">>,
    <<"*llama*", "llama">>, <<"deepseek", "deepseek">>>>

\* The patterns a catalog model's name matches.
Matches(m) ==
    CASE m \in {"claude-opus-4.7", "claude-sonnet-4-6"} -> {"claude-"}
      [] m \in {"gpt-5.2", "gpt-5.3-codex"} -> {"gpt-"}
      [] m = "gpt-oss-120b" -> {"gpt-oss", "gpt-"}
      [] m = "gemini-3.1-pro" -> {"gemini"}
      [] m = "gemma-3-27b" -> {"gemma"}
      [] m \in {"llama-4-scout", "llama-3.1-8b-instant"} -> {"*llama*"}
      [] m = "deepseek-v3-0324" -> {"deepseek"}
      [] m = "mistral-small-latest" -> {"mistral-"}

Resolves(m) ==
    \E i \in DOMAIN rules :
        /\ rules[i][1] \in Matches(m)
        /\ \A j \in 1 .. (i - 1) : rules[j][1] \notin Matches(m)
        /\ rules[i][2] \in Configured

availableCatalog == SelectSeq(catalog, LAMBDA c : Resolves(c.id))

-----------------------------------------------------------------------------
(* Scores.                                                                 *)

Hint == [task : Tasks \cup {"none"}, chars : Nat, cap : Nat, urgent : BOOLEAN]

estimateInputShare(chars) ==
    IF chars = 0 THEN 45 ELSE 25 + (50 * chars) \div (chars + 8000)

blendedCost(c, hint) ==
    LET share == estimateInputShare(hint.chars)
    IN  (share * c.in + (100 - share) * c.out) \div 100

\* taskHintFromHeaders sets at most one weight, to 1.
capabilityMatch(c, hint) == IF hint.task = "none" THEN 75 ELSE c.skill[hint.task]

intentFromHint(hint) == IF hint.task = "none" THEN "general" ELSE hint.task

Affordable(c, hint) == hint.cap > 0 => blendedCost(c, hint) <= hint.cap

\* Filter: the models within the cost cap that their breaker lets through.
Filter(models, hint, allowed) ==
    SelectSeq(models, LAMBDA c : Affordable(c, hint) /\ c.id \in allowed)

Live(stats) == stats.count >= MinSamples

\* Score with the weights .3, .3 and .4 that GetPolicy returns for an intent
\* without a policy: NewMemory(nil) seeds none.  In units of 10^-5.
Score(c, hint, stats) ==
    LET ms   == IF Live(stats) THEN stats.p50 ELSE c.ms
        fail == IF Live(stats) THEN 1000 - (1000 * stats.successes) \div stats.n
                ELSE c.fail
    IN  1000 * capabilityMatch(c, hint) - 300 * blendedCost(c, hint)
          - 30 * ms - 40 * fail

\* Best first, as a sequence of [model, score].
Ranked(cands) == SortSeq(cands, LAMBDA x, y : x.score > y.score)

normalizeMinMax(v, S) ==
    LET lo == CHOOSE x \in S : \A y \in S : x <= y
        hi == CHOOSE x \in S : \A y \in S : x >= y
    IN  IF lo = hi THEN 0 ELSE (10000 * (v - lo)) \div (hi - lo)

\* scoreAll: the utility of every affordable catalog model, min-max
\* normalised over the whole catalog, in units of 10^-6.
scoreAll(hint) ==
    LET costs == {blendedCost(catalog[i], hint) : i \in DOMAIN catalog}
        lats  == {catalog[i].ms : i \in DOMAIN catalog}
        utility(c) == 10000 * capabilityMatch(c, hint)
                        - 18 * normalizeMinMax(blendedCost(c, hint), costs)
                        - (IF hint.urgent THEN 18 ELSE 12) * normalizeMinMax(c.ms, lats)
                        - 100 * c.fail
        kept == SelectSeq(catalog, LAMBDA c : Affordable(c, hint))
    IN  Ranked([i \in DOMAIN kept |->
                   [model |-> kept[i].id, score |-> utility(kept[i])]])

BuildFallbackChain(cands, primary, n) ==
    LET rest == SelectSeq(cands, LAMBDA x : x.model # primary)
    IN  SubSeq(rest, 1, IF Len(rest) < n THEN Len(rest) ELSE n)

FallbackChainFor(primary, hint) == BuildFallbackChain(scoreAll(hint), primary, 3)
=============================================================================
