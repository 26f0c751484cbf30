-------------------------------- MODULE Host --------------------------------
(***************************************************************************)
(* The framed-IPC host of go/service/service.go: Listen, Serve, Close, the *)
(* accept loop with its bounded slots, and one worker goroutine per        *)
(* admitted connection.                                                    *)
(*                                                                         *)
(* A worker is modelled step by step up to the order of its defers, since  *)
(* the host's guarantees are about that order.  What ExchangeFrame does    *)
(* inside a worker is the subject of module Receiver; here it is one step  *)
(* that may take arbitrarily long and may fail.                            *)
(***************************************************************************)
EXTENDS Integers, FiniteSets

CONSTANTS
    Conns,      \* clients' connections; a finished one may connect again
    Servers,    \* goroutines that call Serve
    MaxSlots,   \* capacity of h.slots, 32 in the code
    None        \* no connection

ASSUME HostAssumption ==
    /\ IsFiniteSet(Conns)
    /\ MaxSlots \in Nat \ {0}
    /\ None \notin Conns

VARIABLES
    serving,    \* h.serving
    cancelled,  \* h.ctx.Err() != nil
    once,       \* progress of the function h.once runs: "new", "running", "done"
    listener,   \* "open" or "closed"
    ctxDone,    \* the Serve callers whose own context is cancelled
    serve,      \* where each Serve call is
    held,       \* the connection each Serve call accepted and has not admitted
    result,     \* what each Serve call returns
    faulted,    \* Accept has failed on a listener nobody closed
    stopped,    \* h.OnStopped has been called
    slots,      \* len(h.slots)
    workers,    \* the counter of h.workers
    conn,       \* where each connection is, and the worker that serves it
    expired,    \* connections whose call's own five seconds have passed
    failed      \* connections whose worker has e != nil

closeVars  == <<cancelled, once, listener>>
serveVars  == <<serving, ctxDone, serve, held, result, faulted, stopped>>
slotVars   == <<slots, workers>>
connVars   == <<conn, expired, failed>>
hostVars   == <<closeVars, serveVars, slotVars, connVars>>

(***************************************************************************)
(* Control states.  A connection is Open while the client can still see it *)
(* being served, holds a slot until the slot's defer ran, and its worker   *)
(* is Working until workers.Done.                                          *)
(***************************************************************************)
ServeStates == {"idle", "accepting", "admitting", "failed", "closing",
                "stopping", "draining", "returned"}

Outside  == {"idle", "rejected", "done"}
Open     == {"receiving", "exchanging", "replying", "finishing", "reporting",
             "closing"}
Holding  == Open \cup {"closed"}
Working  == Holding \cup {"released"}
ConnStates == Outside \cup {"backlog", "accepted"} \cup Working

\* This Serve call passed the h.serving check and has not returned.
Accepted(s) == serve[s] \notin {"idle", "returned"}

\* Mutant: WithCancel(h.ctx), a call without its five seconds.
CallDoneNoTimeout(c) == cancelled

\* The call's context: WithTimeout(h.ctx, 5s).
CallDone(c) == cancelled \/ c \in expired

-----------------------------------------------------------------------------

HostInit ==
    /\ serving = FALSE
    /\ cancelled = FALSE
    /\ once = "new"
    /\ listener = "open"
    /\ ctxDone = {}
    /\ serve = [s \in Servers |-> "idle"]
    /\ held = [s \in Servers |-> None]
    /\ result = [s \in Servers |-> "none"]
    /\ faulted = FALSE
    /\ stopped = FALSE
    /\ slots = 0
    /\ workers = 0
    /\ conn = [c \in Conns |-> "idle"]
    /\ expired = {}
    /\ failed = {}

-----------------------------------------------------------------------------
(***************************************************************************)
(* Close.  sync.Once runs its function for the first caller only; it       *)
(* cancels h.ctx and then closes the listener.                             *)
(***************************************************************************)
\* Mutant: the listener is closed first, and h.ctx not yet cancelled.
BeginCloseListenerFirst ==
    /\ once = "new"
    /\ once' = "running"
    /\ listener' = "closed"
    /\ UNCHANGED cancelled

BeginClose ==
    /\ once = "new"
    /\ once' = "running"
    /\ cancelled' = TRUE
    /\ UNCHANGED listener

\* Mutant: h.ctx is cancelled and the listener forgotten.
EndCloseForgetsListener ==
    /\ once = "running"
    /\ once' = "done"
    /\ UNCHANGED <<listener, cancelled, serveVars, slotVars, connVars>>

EndClose ==
    /\ once = "running"
    /\ once' = "done"
    /\ listener' = "closed"
    /\ UNCHANGED <<cancelled, serveVars, slotVars, connVars>>

\* Mutant: an atomic flag in place of sync.Once, which does not wait.
CloseReturnedEarly == once # "new"

\* once.Do returns to every caller only when the function has ended.
CloseReturned == once = "done"

\* Close called by the program that owns the host, at any time.
UserClose == BeginClose /\ UNCHANGED <<serveVars, slotVars, connVars>>

\* The AfterFunc of Serve: its context ended before Serve's stop().
ContextClose(s) ==
    /\ s \in ctxDone
    /\ Accepted(s)
    /\ BeginClose
    /\ UNCHANGED <<serveVars, slotVars, connVars>>

-----------------------------------------------------------------------------
(***************************************************************************)
(* Serve.  Only the first call passes; every other call returns an error.  *)
(***************************************************************************)
\* Mutant: h.serving is set and never looked at.
ServeTwice(s) ==
    /\ serve[s] = "idle"
    /\ serve' = [serve EXCEPT ![s] = "accepting"]
    /\ serving' = TRUE
    /\ UNCHANGED <<ctxDone, held, result, faulted, stopped, closeVars,
                   slotVars, connVars>>

Serve(s) ==
    /\ serve[s] = "idle"
    /\ IF serving
       THEN /\ serve' = [serve EXCEPT ![s] = "returned"]
            /\ result' = [result EXCEPT ![s] = "refused"]
       ELSE /\ serve' = [serve EXCEPT ![s] = "accepting"]
            /\ UNCHANGED result
    /\ serving' = TRUE
    /\ UNCHANGED <<ctxDone, held, faulted, stopped, closeVars, slotVars, connVars>>

\* The context passed to Serve ends; it may be over before the call.
CancelContext(s) ==
    /\ s \notin ctxDone
    /\ ctxDone' = ctxDone \cup {s}
    /\ UNCHANGED <<serving, serve, held, result, faulted, stopped, closeVars,
                   slotVars, connVars>>

\* Accept may hand out a connection that was queued when the listener closed.
Accept(s, c) ==
    /\ serve[s] = "accepting"
    /\ conn[c] = "backlog"
    /\ serve' = [serve EXCEPT ![s] = "admitting"]
    /\ held' = [held EXCEPT ![s] = c]
    /\ conn' = [conn EXCEPT ![c] = "accepted"]
    /\ UNCHANGED <<serving, ctxDone, result, faulted, stopped, closeVars,
                   slotVars, expired, failed>>

AcceptClosed(s) ==
    /\ serve[s] = "accepting"
    /\ listener = "closed"
    /\ serve' = [serve EXCEPT ![s] = "failed"]
    /\ UNCHANGED <<serving, ctxDone, held, result, faulted, stopped, closeVars,
                   slotVars, connVars>>

\* The transport fails under an open listener.
AcceptFault(s) ==
    /\ serve[s] = "accepting"
    /\ listener = "open"
    /\ serve' = [serve EXCEPT ![s] = "failed"]
    /\ faulted' = TRUE
    /\ UNCHANGED <<serving, ctxDone, held, result, stopped, closeVars,
                   slotVars, connVars>>

\* Accept failed: a shutdown that was asked for is not an error.
AcceptError(s) ==
    /\ serve[s] = "failed"
    /\ serve' = [serve EXCEPT ![s] = "closing"]
    /\ result' = [result EXCEPT ![s] =
                    IF s \in ctxDone \/ cancelled THEN "nil" ELSE "error"]
    /\ UNCHANGED <<serving, ctxDone, held, faulted, stopped, closeVars,
                   slotVars, connVars>>

\* Mutant: one slot too many.
SlotFreeOffByOne == slots <= MaxSlots

\* The send on h.slots does not block.
SlotFree == slots < MaxSlots

\* A free slot: take it, count the worker, start it.
Admit(s) ==
    /\ serve[s] = "admitting"
    /\ SlotFree
    /\ slots' = slots + 1
    /\ workers' = workers + 1
    /\ conn' = [conn EXCEPT ![held[s]] = "receiving"]
    /\ serve' = [serve EXCEPT ![s] = "accepting"]
    /\ held' = [held EXCEPT ![s] = None]
    /\ UNCHANGED <<serving, ctxDone, result, faulted, stopped, closeVars,
                   expired, failed>>

\* No free slot: the connection is closed unanswered.
Refuse(s) ==
    /\ serve[s] = "admitting"
    /\ ~SlotFree
    /\ conn' = [conn EXCEPT ![held[s]] = "rejected"]
    /\ serve' = [serve EXCEPT ![s] = "accepting"]
    /\ held' = [held EXCEPT ![s] = None]
    /\ UNCHANGED <<serving, ctxDone, result, faulted, stopped, closeVars,
                   slotVars, expired, failed>>

\* The deferred h.Close: it runs the closing itself, or waits for who does.
ServeClose(s) ==
    /\ serve[s] = "closing"
    /\ BeginClose
    /\ UNCHANGED <<serveVars, slotVars, connVars>>

ServeClosed(s) ==
    /\ serve[s] = "closing"
    /\ CloseReturned
    /\ serve' = [serve EXCEPT ![s] = "stopping"]
    /\ UNCHANGED <<serving, ctxDone, held, result, faulted, stopped, closeVars,
                   slotVars, connVars>>

\* The deferred call of h.OnStopped.
ServeStopped(s) ==
    /\ serve[s] = "stopping"
    /\ stopped' = TRUE
    /\ serve' = [serve EXCEPT ![s] = "draining"]
    /\ UNCHANGED <<serving, ctxDone, held, result, faulted, closeVars,
                   slotVars, connVars>>

\* Mutant: waiting for the slots instead of the workers.
DrainedSlots == slots = 0

\* workers.Wait returns.
Drained == workers = 0

\* The deferred workers.Wait, then stop() and the return.
ServeReturn(s) ==
    /\ serve[s] = "draining"
    /\ Drained
    /\ serve' = [serve EXCEPT ![s] = "returned"]
    /\ UNCHANGED <<serving, ctxDone, held, result, faulted, stopped, closeVars,
                   slotVars, connVars>>

-----------------------------------------------------------------------------
(***************************************************************************)
(* Clients and the transport.                                              *)
(***************************************************************************)
Connect(c) ==
    /\ listener = "open"
    /\ conn[c] \in Outside
    /\ conn' = [conn EXCEPT ![c] = "backlog"]
    /\ UNCHANGED <<closeVars, serveVars, slotVars, expired, failed>>

\* A closed listener drops what it had queued.
DropBacklog(c) ==
    /\ listener = "closed"
    /\ conn[c] = "backlog"
    /\ conn' = [conn EXCEPT ![c] = "rejected"]
    /\ UNCHANGED <<closeVars, serveVars, slotVars, expired, failed>>

\* The five seconds of an admitted call pass.
Expire(c) ==
    /\ conn[c] \in Open
    /\ c \notin expired
    /\ expired' = expired \cup {c}
    /\ UNCHANGED <<closeVars, serveVars, slotVars, conn, failed>>

-----------------------------------------------------------------------------
(***************************************************************************)
(* The worker of connection c.  Each step moves conn[c] on; a failing step *)
(* goes straight to the error report.                                      *)
(***************************************************************************)
WorkerStep(c, from, to) ==
    /\ conn[c] = from
    /\ conn' = [conn EXCEPT ![c] = to]
    /\ UNCHANGED <<closeVars, serveVars>>

WorkerOk(c, from, to) ==
    /\ WorkerStep(c, from, to)
    /\ UNCHANGED <<slotVars, expired, failed>>

WorkerFail(c, from) ==
    /\ WorkerStep(c, from, "finishing")
    /\ failed' = failed \cup {c}
    /\ UNCHANGED <<slotVars, expired>>

\* listen.ReceiveFramed
Receive(c)     == WorkerOk(c, "receiving", "exchanging")
ReceiveFail(c) == WorkerFail(c, "receiving")

\* dispatcher.ExchangeFrame: a frame that is no request fails, the rest reply.
Exchange(c)     == WorkerOk(c, "exchanging", "replying")
ExchangeFail(c) == WorkerFail(c, "exchanging")

\* call.Reply
Reply(c)     == WorkerOk(c, "replying", "finishing")
ReplyFail(c) == WorkerFail(c, "replying")

\* The condition on OnError is read here and the callback runs a step later.
Finish(c) ==
    WorkerOk(c, "finishing",
             IF c \in failed /\ ~cancelled THEN "reporting" ELSE "closing")

\* h.OnError(e) runs to its end.
Report(c) == WorkerOk(c, "reporting", "closing")

\* The defers: call.Close, cancel and conn.Close; the slot; workers.Done.
CloseConn(c) == WorkerOk(c, "closing", "closed")

\* Mutant: the worker of a failed call keeps its slot.
ReleaseSlotUnlessFailed(c) ==
    /\ WorkerStep(c, "closed", "released")
    /\ slots' = IF c \in failed THEN slots ELSE slots - 1
    /\ UNCHANGED <<workers, expired, failed>>

ReleaseSlot(c) ==
    /\ WorkerStep(c, "closed", "released")
    /\ slots' = slots - 1
    /\ UNCHANGED <<workers, expired, failed>>

\* The goroutine ends and its locals, callCtx and e, go with it.
WorkerDone(c) ==
    /\ WorkerStep(c, "released", "done")
    /\ workers' = workers - 1
    /\ expired' = expired \ {c}
    /\ failed' = failed \ {c}
    /\ UNCHANGED slots

-----------------------------------------------------------------------------

ServeStep(s) ==
    \/ Serve(s)
    \/ CancelContext(s)
    \/ ContextClose(s)
    \/ \E c \in Conns : Accept(s, c)
    \/ AcceptClosed(s)
    \/ AcceptFault(s)
    \/ AcceptError(s)
    \/ Admit(s)
    \/ Refuse(s)
    \/ ServeClose(s)
    \/ ServeClosed(s)
    \/ ServeStopped(s)
    \/ ServeReturn(s)

\* The steps of a connection other than those of its exchange.
ConnStep(c) ==
    \/ Connect(c)
    \/ DropBacklog(c)
    \/ Expire(c)
    \/ Receive(c)
    \/ ReceiveFail(c)
    \/ Reply(c)
    \/ ReplyFail(c)
    \/ Finish(c)
    \/ Report(c)
    \/ CloseConn(c)
    \/ ReleaseSlot(c)
    \/ WorkerDone(c)

\* Everything but the exchange: what a composition with Receiver keeps as is.
HostStep ==
    \/ UserClose
    \/ EndClose
    \/ \E s \in Servers : ServeStep(s)
    \/ \E c \in Conns : ConnStep(c)

\* The host has stopped for good; only clients that never connected remain.
Terminated ==
    /\ once = "done"
    /\ \A s \in Servers : serve[s] = "returned"
    /\ \A c \in Conns : conn[c] \in Outside
    /\ UNCHANGED hostVars

HostNext ==
    \/ HostStep
    \/ \E c \in Conns : Exchange(c) \/ ExchangeFail(c)
    \/ Terminated

(***************************************************************************)
(* Fairness.  Goroutines are scheduled, so every step the host takes by    *)
(* itself is weakly fair.  The timer fires.  The transport and the handler *)
(* are only obliged to come back once the call's context is done: that is  *)
(* what ReceiveFramed, FramedCall and CONTRACT.md ("Providers must honor   *)
(* their context") promise.  Nothing obliges a client to connect, anybody  *)
(* to call Serve or Close, or Accept to find a connection.                 *)
(***************************************************************************)
LoopFairness(s) ==
    /\ WF_hostVars(ContextClose(s))
    /\ WF_hostVars(AcceptClosed(s) \/ AcceptError(s) \/ Admit(s) \/ Refuse(s))
    /\ WF_hostVars(ServeClose(s) \/ ServeClosed(s) \/ ServeStopped(s) \/ ServeReturn(s))

\* One of the three calls a worker waits in comes back.
Returns(c) ==
    \/ Receive(c) \/ ReceiveFail(c)
    \/ Exchange(c) \/ ExchangeFail(c)
    \/ Reply(c) \/ ReplyFail(c)

WorkerFairness(c) ==
    /\ WF_hostVars(Expire(c))
    /\ WF_hostVars(CallDone(c) /\ Returns(c))
    /\ WF_hostVars(Finish(c) \/ Report(c) \/ CloseConn(c) \/ ReleaseSlot(c) \/ WorkerDone(c))

HostFairness ==
    /\ WF_hostVars(EndClose)
    /\ \A s \in Servers : LoopFairness(s)
    /\ \A c \in Conns : WorkerFairness(c)

HostSpec     == HostInit /\ [][HostNext]_hostVars
FairHostSpec == HostSpec /\ HostFairness

-----------------------------------------------------------------------------
(***************************************************************************)
(* Properties.                                                             *)
(***************************************************************************)
HostTypeOK ==
    /\ serving \in BOOLEAN
    /\ cancelled \in BOOLEAN
    /\ once \in {"new", "running", "done"}
    /\ listener \in {"open", "closed"}
    /\ ctxDone \subseteq Servers
    /\ serve \in [Servers -> ServeStates]
    /\ held \in [Servers -> Conns \cup {None}]
    /\ result \in [Servers -> {"none", "nil", "error", "refused"}]
    /\ faulted \in BOOLEAN
    /\ stopped \in BOOLEAN
    /\ slots \in 0..MaxSlots
    /\ workers \in Nat
    /\ conn \in [Conns -> ConnStates]
    /\ expired \subseteq Conns
    /\ failed \subseteq Conns

Holders == {c \in Conns : conn[c] \in Holding}
Workers == {c \in Conns : conn[c] \in Working}
OpenConns == {c \in Conns : conn[c] \in Open}

\* CONTRACT.md, Bounds: the host "admits at most 32 concurrent connections".
\* No interleaving of admissions and the workers' defers has more admitted
\* connections still open than there are slots.
Bounded == Cardinality(OpenConns) <= MaxSlots

\* A connection is turned away only while every slot belongs to a worker that
\* has not finished: no path through a worker, failing or not, leaks a slot.
RefusedOnlyWhenFull ==
    [][\A c \in Conns : conn[c] = "accepted" /\ conn'[c] = "rejected"
                        => Cardinality(Holders) = MaxSlots]_hostVars

\* Serve waits for its workers: once the call that served has returned, no
\* worker is left, so neither OnError nor the registry is called again.
NothingAfterReturn ==
    \A s \in Servers :
        serve[s] = "returned" /\ result[s] # "refused"
            => /\ Workers = {}
               /\ \A c \in Conns : conn[c] # "accepted"

\* Serve returns an error only if the transport failed by itself.  Close
\* cancels h.ctx before it closes the listener, so the accept loop that the
\* closing wakes never mistakes a requested shutdown for a failure.
CleanStop == \A s \in Servers : result[s] = "error" => faulted

\* "Called when admission stops, before calls drain": when OnStopped runs the
\* listener is closed, the host's context is over and no accept loop is left.
AdmissionStopped ==
    stopped => /\ cancelled
               /\ listener = "closed"
               /\ \A s \in Servers : serve[s] \notin {"accepting", "admitting"}

\* A cancelled context or a Close ends the Serve call that is running, however
\* busy its workers are.
ShutdownCompletes ==
    \A s \in Servers :
        Accepted(s) /\ (s \in ctxDone \/ cancelled) ~> serve[s] = "returned"

\* "The host bounds each accepted connection to five seconds": an accepted
\* connection is over in the end, with no help from its client.
CallsEnd == \A c \in Conns : conn[c] = "accepted" ~> conn[c] \in Outside

-----------------------------------------------------------------------------
(***************************************************************************)
(* Host implements BoundedService.  The phase is that of the one Serve     *)
(* call that passed the h.serving check; a connection is in flight from    *)
(* its admission until conn.Close.                                         *)
(***************************************************************************)
Passed(states) ==
    \E s \in Servers : serve[s] \in states /\ result[s] # "refused"

Phase ==
    CASE Passed({"accepting", "admitting"})         -> "serving"
      [] Passed({"failed", "closing", "stopping"})  -> "stopping"
      [] Passed({"draining"})                       -> "draining"
      [] Passed({"returned"})                       -> "returned"
      [] OTHER                                      -> "new"

Service == INSTANCE BoundedService WITH phase <- Phase, inflight <- OpenConns

\* The host with all its interleavings keeps the promise BoundedService states.
ImplementsBoundedService == Service!SvcSpec
=============================================================================
