----------------------------- MODULE MCReceiver -----------------------------
(***************************************************************************)
(* Receiver with clients that send each kind of frame, a hf and a custom   *)
(* provider, and two policies of which the program may enable either.      *)
(***************************************************************************)
EXTENDS Receiver, TLC

CONSTANTS c1, c2, s1, p1, p2

MCConns     == {c1}
MCTwoConns  == {c1, c2}
MCServers   == {s1}
MCPolicies  == {p1, p2}
MCSymmetry  == Permutations(MCTwoConns)

MCRef(registry, repo, credential) ==
    [registry |-> registry, repo |-> repo, revision |-> "", quant |-> "",
     file |-> "", credential |-> credential]

MCFrames ==
    {[kind |-> "describe"], [kind |-> "unknown"]} \cup
    {[kind |-> "resolve", ref |-> r] :
        r \in {MCRef("hf", "plain", ""), MCRef("hf", "plain", "mine"),
               MCRef("hf", "odd", "mine"), MCRef("custom", "plain", "mine"),
               MCRef("unserved", "plain", ""), MCRef("hf", "blank", "")}}

\* The reference that takes a handler through all of its steps.
MCLongFrames == {[kind |-> "resolve", ref |-> MCRef("hf", "plain", "mine")]}

\* One that the hf provider does not see.
MCCustomFrames == {[kind |-> "resolve", ref |-> MCRef("custom", "plain", "mine")]}

MCProviders == <<"hf", "custom">>

MCCustomAnswers ==
    {PlainSpec("https", {}), PlainSpec("https", {<<"credential", "other">>})}
=============================================================================
