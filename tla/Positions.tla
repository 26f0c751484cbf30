----------------------------- MODULE Positions ------------------------------
(***************************************************************************)
(* Positions of a list, in order: what a loop that appends the entries it  *)
(* keeps makes of them, and what a loop that appends whole lists makes.    *)
(***************************************************************************)
EXTENDS Naturals, Sequences, FiniteSets

Before(positions, i) == {j \in positions : j < i}

\* The n-th of a set of positions.
Nth(positions, n) == CHOOSE i \in positions : Cardinality(Before(positions, i)) = n - 1

\* The lists of t one after the other: what there is after each of them.
Joined(t) == LET out[n \in 0..Len(t)] == IF n = 0 THEN <<>> ELSE out[n - 1] \o t[n] IN out
=============================================================================
