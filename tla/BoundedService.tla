--------------------------- MODULE BoundedService ---------------------------
(***************************************************************************)
(* What a host promises to the program that runs it, without its accept    *)
(* loop, its goroutines or the order of their defers: it serves once,      *)
(* admits a bounded number of connections at a time, stops admitting       *)
(* before it announces that, and returns with nothing left in flight.      *)
(* Module Host implements it.                                              *)
(***************************************************************************)
EXTENDS Integers, FiniteSets

CONSTANTS Conns, MaxSlots

VARIABLES
    phase,      \* "new", "serving", "stopping", "draining", "returned"
    inflight    \* the admitted connections that are still open

svcVars == <<phase, inflight>>

SvcInit == phase = "new" /\ inflight = {}

Begin ==
    /\ phase = "new"
    /\ phase' = "serving"
    /\ UNCHANGED inflight

AdmitConn(c) ==
    /\ phase = "serving"
    /\ c \notin inflight
    /\ Cardinality(inflight) < MaxSlots
    /\ inflight' = inflight \cup {c}
    /\ UNCHANGED phase

\* A call may finish in every phase in which one can be in flight.
FinishConn(c) ==
    /\ c \in inflight
    /\ inflight' = inflight \ {c}
    /\ UNCHANGED phase

\* Admission ends for good: there is no way back to "serving".
StopAdmitting ==
    /\ phase = "serving"
    /\ phase' = "stopping"
    /\ UNCHANGED inflight

\* The program is told, while calls may still be in flight.
Announce ==
    /\ phase = "stopping"
    /\ phase' = "draining"
    /\ UNCHANGED inflight

Return ==
    /\ phase = "draining"
    /\ inflight = {}
    /\ phase' = "returned"
    /\ UNCHANGED inflight

SvcNext ==
    \/ Begin
    \/ \E c \in Conns : AdmitConn(c) \/ FinishConn(c)
    \/ StopAdmitting
    \/ Announce
    \/ Return

SvcSpec == SvcInit /\ [][SvcNext]_svcVars
=============================================================================
