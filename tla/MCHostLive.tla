----------------------------- MODULE MCHostLive -----------------------------
(***************************************************************************)
(* Host under its fairness assumptions.  No symmetry: the properties are   *)
(* about liveness.                                                         *)
(***************************************************************************)
EXTENDS Host

CONSTANTS c1, c2, s1, s2

MCConns   == {c1, c2}
MCServers == {s1, s2}
=============================================================================
