-------------------------- MODULE MC_ChainHandler --------------------------
(***************************************************************************)
(* An instance of ChainHandler for TLC: two concurrent requests over two   *)
(* models; a configuration with a sequential and a fusion chain, and one   *)
(* that BuildRegistry refuses.                                             *)
(***************************************************************************)
EXTENDS ChainHandler

CONSTANTS m1, m2, q1, q2

Refine == [strategy |-> "", models |-> <<m1, m2>>, prompts |-> <<"", "p">>, judge |-> None]

Fuse == [strategy |-> "fusion", models |-> <<m1, m2>>, prompts |-> <<>>, judge |-> m1]

MCChainDefs ==
    {<<Refine, Fuse>>, <<[Refine EXCEPT !.prompts = <<"p">>]>>}

MCInputs == {<<1, TRUE>>, <<1, FALSE>>, <<2, FALSE>>}
=============================================================================
