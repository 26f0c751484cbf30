------------------------------- MODULE MCHost -------------------------------
(***************************************************************************)
(* Host on a small instance: more clients than slots, and two goroutines   *)
(* that race to call Serve.                                                *)
(***************************************************************************)
EXTENDS Host, TLC

CONSTANTS c1, c2, c3, s1, s2

MCConns   == {c1, c2, c3}
MCServers == {s1, s2}
MCSymmetry == Permutations(MCConns) \cup Permutations(MCServers)
=============================================================================
