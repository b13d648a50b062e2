---------------------------- MODULE MC_Learning ----------------------------
(* Two configured providers, hence two models for "auto": gpt-oss-120b and *)
(* mistral-small-latest.                                                   *)
EXTENDS Learning

MCConfigured == {"cerebras", "mistral"}

plain  == [task |-> "none", chars |-> 0, cap |-> 0, urgent |-> FALSE]
capped == [task |-> "coding", chars |-> 8000, cap |-> 50, urgent |-> TRUE]

MCRequests == {
    [hint |-> plain,  useCase |-> "general", model |-> "auto"],
    [hint |-> capped, useCase |-> "",        model |-> "auto"],
    [hint |-> plain,  useCase |-> "",        model |-> "gpt-oss-120b"]}

MCAllowedSets == {Models, {}}

MCOutcomes == {
    [ok |-> TRUE,  ms |-> 500,  finish |-> "stop",           named |-> TRUE],
    [ok |-> TRUE,  ms |-> 4000, finish |-> "content_filter", named |-> TRUE],
    [ok |-> FALSE, ms |-> 500,  finish |-> "none",           named |-> FALSE]}
=============================================================================
