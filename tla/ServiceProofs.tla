--------------------------- MODULE ServiceProofs ----------------------------
(***************************************************************************)
(* Proofs about the host and about its composition with the handler, for   *)
(* every set of clients, Serve callers, frames, policies and providers and *)
(* every number of slots.                                                  *)
(***************************************************************************)
EXTENDS Receiver, FiniteSetTheorems, TLAPS

-----------------------------------------------------------------------------
(***************************************************************************)
(* The host.                                                               *)
(***************************************************************************)
(***************************************************************************)
(* The inductive invariant.                                                *)
(***************************************************************************)
\* The Serve call that passed the h.serving check, running or returned.
Entered(s) == serve[s] # "idle" /\ result[s] # "refused"

\* h.slots and h.workers count exactly the workers that hold them.
Accounting ==
    /\ slots = Cardinality(Holders)
    /\ workers = Cardinality(Workers)

\* sync.Once: what is closed and cancelled is what its function has done.
CloseProgress ==
    /\ cancelled <=> once # "new"
    /\ listener = "closed" <=> once = "done"

\* h.serving lets one call through, and the others never leave "idle" but to
\* be refused.
OneLoop ==
    /\ \A s \in Servers : serve[s] # "idle" => serving
    /\ \A s \in Servers : result[s] = "refused" => serve[s] = "returned"
    /\ \A s, t \in Servers : Entered(s) /\ Entered(t) => s = t

\* An accepted connection is in the hands of the loop, and of nobody else.
HeldByLoop ==
    /\ \A s \in Servers : serve[s] = "admitting"
                            => held[s] \in Conns /\ conn[held[s]] = "accepted"
    /\ \A c \in Conns : conn[c] = "accepted"
                            => \E s \in Servers : serve[s] = "admitting" /\ held[s] = c

\* What Serve has done by the time it is in each of its deferred calls.
ServeProgress ==
    /\ \A s \in Servers : serve[s] = "failed" => cancelled \/ faulted
    /\ \A s \in Servers : Entered(s) /\ serve[s] \in {"stopping", "draining", "returned"}
                            => once = "done"
    /\ stopped => \E s \in Servers : Entered(s) /\ serve[s] \in {"draining", "returned"}

\* A worker exists only while its Serve call has not returned.
WorkersServed ==
    \A c \in Conns : conn[c] \in Working
        => \E s \in Servers : Entered(s) /\ serve[s] # "returned"

HostInv ==
    /\ HostTypeOK
    /\ Accounting
    /\ CloseProgress
    /\ OneLoop
    /\ HeldByLoop
    /\ ServeProgress
    /\ WorkersServed
    /\ CleanStop

-----------------------------------------------------------------------------
(***************************************************************************)
(* Counting the connections in a set of control states when one of them    *)
(* moves.                                                                  *)
(***************************************************************************)
In(f, S) == {c \in Conns : f[c] \in S}

\* A connection that enters the counted states adds one.
LEMMA CountEnter ==
    ASSUME NEW f, NEW g, NEW S, NEW c \in Conns,
           f[c] \notin S, g[c] \in S, \A d \in Conns : d # c => g[d] = f[d]
    PROVE  Cardinality(In(g, S)) = Cardinality(In(f, S)) + 1
<1>1. IsFiniteSet(In(f, S))
  BY HostAssumption, FS_Subset DEF In
<1>2. In(g, S) = In(f, S) \cup {c} /\ c \notin In(f, S)
  BY DEF In
<1> QED  BY <1>1, <1>2, FS_AddElement

\* A connection that leaves them takes one away, and there was one to take.
LEMMA CountLeave ==
    ASSUME NEW f, NEW g, NEW S, NEW c \in Conns,
           f[c] \in S, g[c] \notin S, \A d \in Conns : d # c => g[d] = f[d]
    PROVE  /\ Cardinality(In(g, S)) = Cardinality(In(f, S)) - 1
           /\ Cardinality(In(g, S)) \in Nat
<1>1. IsFiniteSet(In(f, S)) /\ IsFiniteSet(In(g, S))
  BY HostAssumption, FS_Subset DEF In
<1>2. In(g, S) = In(f, S) \ {c} /\ c \in In(f, S)
  BY DEF In
<1>3. Cardinality(In(g, S)) = Cardinality(In(f, S)) - 1
  BY <1>1, <1>2, FS_RemoveElement
<1> QED  BY <1>1, <1>3, FS_CardinalityType

\* Holders and Workers are such counts, before and after a step.
LEMMA CountedSets ==
    /\ Holders = In(conn, Holding) /\ Holders' = In(conn', Holding)
    /\ Workers = In(conn, Working) /\ Workers' = In(conn', Working)
BY DEF In, Holders, Workers

\* Nobody is counted exactly when the count is zero.
LEMMA NoWorkers == Accounting /\ workers = 0 => Workers = {}
<1>1. IsFiniteSet(Workers)
  BY HostAssumption, FS_Subset DEF Workers
<1> QED  BY <1>1, FS_EmptySet DEF Accounting

-----------------------------------------------------------------------------
(***************************************************************************)
(* Initially.                                                              *)
(***************************************************************************)
LEMMA InitInv == HostInit => HostInv
<1> SUFFICES ASSUME HostInit PROVE HostInv
  OBVIOUS
<1> USE DEF HostInit
<1>1. HostTypeOK
  <2>1. serving \in BOOLEAN /\ cancelled \in BOOLEAN /\ faulted \in BOOLEAN /\ stopped \in BOOLEAN
    OBVIOUS
  <2>2. slots \in 0..MaxSlots /\ workers \in Nat
    BY HostAssumption
  <2>3. serve \in [Servers -> ServeStates] /\ conn \in [Conns -> ConnStates]
    BY DEF ServeStates, ConnStates, Outside
  <2>4. held \in [Servers -> Conns \cup {None}] /\ result \in [Servers -> {"none", "nil", "error", "refused"}]
    OBVIOUS
  <2> QED  BY <2>1, <2>2, <2>3, <2>4 DEF HostTypeOK
<1>2. Accounting
  <2>1. Holders = {} /\ Workers = {}
    BY DEF Holders, Workers, Holding, Working, Open
  <2> QED  BY <2>1, FS_EmptySet DEF Accounting
<1>3. CloseProgress /\ OneLoop /\ HeldByLoop /\ ServeProgress /\ CleanStop
  BY DEF CloseProgress, OneLoop, Entered, HeldByLoop, ServeProgress, CleanStop
<1>4. WorkersServed
  BY DEF WorkersServed, Working, Holding, Open
<1> QED  BY <1>1, <1>2, <1>3, <1>4 DEF HostInv

-----------------------------------------------------------------------------
(***************************************************************************)
(* Steps that leave Serve and Close alone.                                 *)
(***************************************************************************)
\* What only speaks of Serve and Close survives every step of a worker, a
\* client or the timer.
LEMMA ServePartKept ==
    ASSUME HostInv, UNCHANGED <<closeVars, serveVars>>
    PROVE  (CloseProgress /\ OneLoop /\ ServeProgress /\ CleanStop)'
BY DEF HostInv, closeVars, serveVars, CloseProgress, OneLoop, ServeProgress,
       CleanStop, Entered

\* A connection that is moved by anyone but the loop.
LEMMA ConnMoveKeeps ==
    ASSUME HostInv, UNCHANGED <<closeVars, serveVars>>,
           NEW c \in Conns, NEW to \in ConnStates \ {"accepted"},
           conn[c] # "accepted", conn' = [conn EXCEPT ![c] = to],
           to \in Working => conn[c] \in Working
    PROVE  /\ conn' \in [Conns -> ConnStates]
           /\ (HeldByLoop /\ WorkersServed)'
<1>1. conn \in [Conns -> ConnStates]
  BY DEF HostInv, HostTypeOK
<1>2. conn' \in [Conns -> ConnStates]
  BY <1>1
<1>3. HeldByLoop'
  BY <1>1 DEF HostInv, HeldByLoop, serveVars
<1>4. WorkersServed'
  BY <1>1 DEF HostInv, WorkersServed, serveVars, Entered
<1> QED  BY <1>2, <1>3, <1>4

\* A worker that moves on and keeps its slot, or a client that holds none.
LEMMA QuietMoveInv ==
    ASSUME HostInv, UNCHANGED <<closeVars, serveVars, slotVars>>,
           NEW c \in Conns, NEW to \in ConnStates \ {"accepted"},
           conn[c] # "accepted", conn' = [conn EXCEPT ![c] = to],
           conn[c] \in Holding <=> to \in Holding,
           conn[c] \in Working <=> to \in Working,
           expired' \subseteq Conns, failed' \subseteq Conns
    PROVE  HostInv'
<1>1. /\ conn' \in [Conns -> ConnStates] /\ (HeldByLoop /\ WorkersServed)'
      /\ (CloseProgress /\ OneLoop /\ ServeProgress /\ CleanStop)'
  BY ConnMoveKeeps, ServePartKept
<1>2. conn \in [Conns -> ConnStates]
  BY DEF HostInv, HostTypeOK
<1>3. HostTypeOK'
  BY <1>1 DEF HostInv, HostTypeOK, closeVars, serveVars, slotVars
<1>4. /\ \A d \in Conns : d # c => conn'[d] = conn[d]
      /\ conn[c] \in Holding <=> conn'[c] \in Holding
      /\ conn[c] \in Working <=> conn'[c] \in Working
  BY <1>2
<1>5. Holders' = Holders /\ Workers' = Workers
  BY <1>4 DEF Holders, Workers
<1>6. Accounting'
  BY <1>5 DEF HostInv, Accounting, slotVars
<1> QED  BY <1>1, <1>3, <1>6 DEF HostInv

\* Every step of a worker up to conn.Close, except the counted ones.
LEMMA WorkerMoveInv ==
    ASSUME HostInv, NEW c \in Conns, NEW from, NEW to,
           \/ from \in Open /\ to \in Holding /\ WorkerOk(c, from, to)
           \/ from \in Open /\ WorkerFail(c, from)
    PROVE  HostInv'
<1>1. UNCHANGED <<closeVars, serveVars, slotVars>>
  BY DEF WorkerOk, WorkerFail, WorkerStep
<1>2. PICK v \in Holding : conn' = [conn EXCEPT ![c] = v]
  BY DEF WorkerOk, WorkerFail, WorkerStep, Holding, Open
<1>3. expired' \subseteq Conns /\ failed' \subseteq Conns
  BY DEF WorkerOk, WorkerFail, HostInv, HostTypeOK
<1>4. conn[c] \in Open
  BY DEF WorkerOk, WorkerFail, WorkerStep
<1>5. /\ v \in ConnStates \ {"accepted"} /\ v \in Working
      /\ conn[c] # "accepted" /\ conn[c] \in Holding /\ conn[c] \in Working
  BY <1>4 DEF ConnStates, Working, Holding, Open
<1> QED  BY <1>1, <1>2, <1>3, <1>5, QuietMoveInv

\* The defer that gives the slot back: one holder less, the worker remains.
LEMMA ReleaseSlotInv ==
    ASSUME HostInv, NEW c \in Conns, ReleaseSlot(c)
    PROVE  HostInv'
<1> USE DEF ReleaseSlot, WorkerStep
<1>1. conn \in [Conns -> ConnStates] /\ slots \in 0..MaxSlots
  BY DEF HostInv, HostTypeOK
<1>2. /\ "released" \in ConnStates \ {"accepted"} /\ "released" \in Working
      /\ "released" \notin Holding /\ "closed" \in Holding /\ "closed" \in Working
  BY DEF ConnStates, Working, Holding, Open
<1>3. /\ conn' \in [Conns -> ConnStates] /\ (HeldByLoop /\ WorkersServed)'
      /\ (CloseProgress /\ OneLoop /\ ServeProgress /\ CleanStop)'
  BY <1>2, ConnMoveKeeps, ServePartKept
<1>4. /\ conn[c] \in Holding /\ conn'[c] \notin Holding
      /\ \A d \in Conns : d # c => conn'[d] = conn[d]
  BY <1>1, <1>2
<1>5. /\ Cardinality(Holders') = Cardinality(Holders) - 1
      /\ Cardinality(Holders') \in Nat
  BY <1>4, CountLeave, CountedSets
<1>6. Workers' = Workers
  BY <1>1, <1>2 DEF Workers
<1>7. Accounting'
  BY <1>5, <1>6 DEF HostInv, Accounting
<1>8. slots' \in 0..MaxSlots
  BY <1>1, <1>5, HostAssumption DEF HostInv, Accounting
<1>9. HostTypeOK'
  BY <1>3, <1>8 DEF HostInv, HostTypeOK, closeVars, serveVars
<1> QED  BY <1>3, <1>7, <1>9 DEF HostInv

\* workers.Done: one worker less, and it held no slot any more.
LEMMA WorkerDoneInv ==
    ASSUME HostInv, NEW c \in Conns, WorkerDone(c)
    PROVE  HostInv'
<1> USE DEF WorkerDone, WorkerStep
<1>1. conn \in [Conns -> ConnStates]
  BY DEF HostInv, HostTypeOK
<1>2. /\ "done" \in ConnStates \ {"accepted"} /\ "done" \notin Working
      /\ "done" \notin Holding /\ "released" \in Working /\ "released" \notin Holding
  BY DEF ConnStates, Outside, Working, Holding, Open
<1>3. /\ conn' \in [Conns -> ConnStates] /\ (HeldByLoop /\ WorkersServed)'
      /\ (CloseProgress /\ OneLoop /\ ServeProgress /\ CleanStop)'
  BY <1>2, ConnMoveKeeps, ServePartKept
<1>4. /\ conn[c] \in Working /\ conn'[c] \notin Working
      /\ \A d \in Conns : d # c => conn'[d] = conn[d]
  BY <1>1, <1>2
<1>5. /\ Cardinality(Workers') = Cardinality(Workers) - 1
      /\ Cardinality(Workers') \in Nat
  BY <1>4, CountLeave, CountedSets
<1>6. Holders' = Holders
  BY <1>1, <1>2 DEF Holders
<1>7. Accounting' /\ workers' \in Nat
  BY <1>5, <1>6 DEF HostInv, Accounting
<1>8. HostTypeOK'
  BY <1>3, <1>7 DEF HostInv, HostTypeOK, closeVars, serveVars
<1> QED  BY <1>3, <1>7, <1>8 DEF HostInv

\* Every step of a connection and its worker, the exchange included.
LEMMA ConnStepInv ==
    ASSUME HostInv, NEW c \in Conns, ConnStep(c) \/ Exchange(c) \/ ExchangeFail(c)
    PROVE  HostInv'
<1>1. conn \in [Conns -> ConnStates] /\ expired \subseteq Conns /\ failed \subseteq Conns
  BY DEF HostInv, HostTypeOK
<1>2. CASE Connect(c)
  <2>1. /\ "backlog" \in ConnStates \ {"accepted"} /\ conn[c] # "accepted"
        /\ "backlog" \notin Working /\ "backlog" \notin Holding
        /\ conn[c] \notin Working /\ conn[c] \notin Holding
    BY <1>2 DEF Connect, ConnStates, Outside, Working, Holding, Open
  <2> QED  BY <1>1, <1>2, <2>1, QuietMoveInv DEF Connect
<1>3. CASE DropBacklog(c)
  <2>1. /\ "rejected" \in ConnStates \ {"accepted"} /\ conn[c] # "accepted"
        /\ "rejected" \notin Working /\ "rejected" \notin Holding
        /\ conn[c] \notin Working /\ conn[c] \notin Holding
    BY <1>3 DEF DropBacklog, ConnStates, Outside, Working, Holding, Open
  <2> QED  BY <1>1, <1>3, <2>1, QuietMoveInv DEF DropBacklog
<1>4. CASE Expire(c)
  BY <1>4 DEF Expire, HostInv, HostTypeOK, Accounting, Holders, Workers,
      CloseProgress, OneLoop, HeldByLoop, ServeProgress, WorkersServed,
      CleanStop, Entered, closeVars, serveVars, slotVars
<1>5. CASE Receive(c) \/ ReceiveFail(c)
  <2>1. "receiving" \in Open /\ "exchanging" \in Holding
    BY DEF Open, Holding
  <2> QED  BY <1>5, <2>1, WorkerMoveInv DEF Receive, ReceiveFail
<1>6. CASE Exchange(c) \/ ExchangeFail(c)
  <2>1. "exchanging" \in Open /\ "replying" \in Holding
    BY DEF Open, Holding
  <2> QED  BY <1>6, <2>1, WorkerMoveInv DEF Exchange, ExchangeFail
<1>7. CASE Reply(c) \/ ReplyFail(c)
  <2>1. "replying" \in Open /\ "finishing" \in Holding
    BY DEF Open, Holding
  <2> QED  BY <1>7, <2>1, WorkerMoveInv DEF Reply, ReplyFail
<1>8. CASE Finish(c)
  <2>1. "finishing" \in Open /\ "reporting" \in Holding /\ "closing" \in Holding
    BY DEF Open, Holding
  <2>2. WorkerOk(c, "finishing", "reporting") \/ WorkerOk(c, "finishing", "closing")
    BY <1>8 DEF Finish
  <2> QED  BY <2>1, <2>2, WorkerMoveInv
<1>9. CASE Report(c)
  <2>1. "reporting" \in Open /\ "closing" \in Holding
    BY DEF Open, Holding
  <2> QED  BY <1>9, <2>1, WorkerMoveInv DEF Report
<1>10. CASE CloseConn(c)
  <2>1. "closing" \in Open /\ "closed" \in Holding
    BY DEF Open, Holding
  <2> QED  BY <1>10, <2>1, WorkerMoveInv DEF CloseConn
<1>11. CASE ReleaseSlot(c)
  BY <1>11, ReleaseSlotInv
<1>12. CASE WorkerDone(c)
  BY <1>12, WorkerDoneInv
<1> QED
  BY <1>2, <1>3, <1>4, <1>5, <1>6, <1>7, <1>8, <1>9, <1>10, <1>11, <1>12
  DEF ConnStep

-----------------------------------------------------------------------------
(***************************************************************************)
(* Steps of Close and Serve.                                               *)
(***************************************************************************)
\* Beginning to close, by whoever comes first.
LEMMA BeginCloseInv ==
    ASSUME HostInv, BeginClose, UNCHANGED <<serveVars, slotVars, connVars>>
    PROVE  HostInv'
<1> USE DEF BeginClose, serveVars, slotVars, connVars
<1>1. HostTypeOK'
  BY DEF HostInv, HostTypeOK
<1>2. Accounting' /\ HeldByLoop' /\ WorkersServed' /\ OneLoop' /\ CleanStop'
  BY DEF HostInv, Accounting, Holders, Workers, HeldByLoop, WorkersServed,
         OneLoop, CleanStop, Entered
<1>3. CloseProgress'
  BY DEF HostInv, CloseProgress
<1>4. ServeProgress'
  BY DEF HostInv, ServeProgress, Entered
<1> QED  BY <1>1, <1>2, <1>3, <1>4 DEF HostInv

LEMMA EndCloseInv ==
    ASSUME HostInv, EndClose
    PROVE  HostInv'
<1> USE DEF EndClose, serveVars, slotVars, connVars
<1>1. HostTypeOK'
  BY DEF HostInv, HostTypeOK
<1>2. Accounting' /\ HeldByLoop' /\ WorkersServed' /\ OneLoop' /\ CleanStop'
  BY DEF HostInv, Accounting, Holders, Workers, HeldByLoop, WorkersServed,
         OneLoop, CleanStop, Entered
<1>3. CloseProgress'
  BY DEF HostInv, CloseProgress
<1>4. ServeProgress'
  BY DEF HostInv, ServeProgress, Entered
<1> QED  BY <1>1, <1>2, <1>3, <1>4 DEF HostInv

\* The loop's own moves, those that touch no connection.
LoopMove(s) ==
    \/ CancelContext(s) \/ AcceptClosed(s) \/ AcceptFault(s) \/ AcceptError(s)
    \/ ServeClosed(s) \/ ServeStopped(s)

LEMMA LoopMoveInv ==
    ASSUME HostInv, NEW s \in Servers, LoopMove(s)
    PROVE  HostInv'
<1> USE DEF LoopMove, CancelContext, AcceptClosed, AcceptFault, AcceptError,
            ServeClosed, ServeStopped, CloseReturned, closeVars, slotVars, connVars
<1>1. HostTypeOK'
  BY DEF HostInv, HostTypeOK, ServeStates
<1>2. Accounting' /\ CloseProgress'
  BY DEF HostInv, Accounting, Holders, Workers, CloseProgress
<1>3. OneLoop'
  BY DEF HostInv, HostTypeOK, OneLoop, Entered
<1>4. HeldByLoop'
  BY DEF HostInv, HostTypeOK, HeldByLoop
<1>5. ServeProgress'
  BY DEF HostInv, HostTypeOK, CloseProgress, OneLoop, ServeProgress, Entered
<1>6. WorkersServed'
  BY DEF HostInv, HostTypeOK, OneLoop, WorkersServed, Entered
<1>7. CleanStop'
  BY DEF HostInv, HostTypeOK, ServeProgress, CleanStop
<1> QED  BY <1>1, <1>2, <1>3, <1>4, <1>5, <1>6, <1>7 DEF HostInv

\* A call of Serve: the first one enters, every other one is refused.
LEMMA ServeInv ==
    ASSUME HostInv, NEW s \in Servers, Serve(s)
    PROVE  HostInv'
<1> USE DEF Serve, closeVars, slotVars, connVars
<1>1. HostTypeOK'
  BY DEF HostInv, HostTypeOK, ServeStates
<1>2. Accounting' /\ CloseProgress'
  BY DEF HostInv, Accounting, Holders, Workers, CloseProgress
<1>3. OneLoop'
  BY DEF HostInv, HostTypeOK, OneLoop, Entered
<1>4. HeldByLoop'
  BY DEF HostInv, HostTypeOK, HeldByLoop
<1>5. ServeProgress'
  BY DEF HostInv, HostTypeOK, OneLoop, ServeProgress, Entered
<1>6. WorkersServed'
  BY DEF HostInv, HostTypeOK, WorkersServed, Entered
<1>7. CleanStop'
  BY DEF HostInv, HostTypeOK, CleanStop
<1> QED  BY <1>1, <1>2, <1>3, <1>4, <1>5, <1>6, <1>7 DEF HostInv

LEMMA AcceptInv ==
    ASSUME HostInv, NEW s \in Servers, NEW c \in Conns, Accept(s, c)
    PROVE  HostInv'
<1> USE DEF Accept, closeVars, slotVars
<1>1. HostTypeOK'
  BY DEF HostInv, HostTypeOK, ServeStates, ConnStates
<1>2. Holders' = Holders /\ Workers' = Workers
  BY DEF HostInv, HostTypeOK, Holders, Workers, Working, Holding, Open
<1>3. Accounting' /\ CloseProgress'
  BY <1>2 DEF HostInv, Accounting, CloseProgress
<1>4. OneLoop'
  BY DEF HostInv, HostTypeOK, OneLoop, Entered
<1>5. HeldByLoop'
  BY DEF HostInv, HostTypeOK, OneLoop, HeldByLoop, Entered
<1>6. ServeProgress'
  BY DEF HostInv, HostTypeOK, OneLoop, ServeProgress, Entered
<1>7. WorkersServed'
  BY <1>2 DEF HostInv, HostTypeOK, WorkersServed, OneLoop, Workers, Entered
<1>8. CleanStop'
  BY DEF HostInv, HostTypeOK, CleanStop
<1> QED  BY <1>1, <1>3, <1>4, <1>5, <1>6, <1>7, <1>8 DEF HostInv

\* What admitting and refusing share: the held connection is let go.
LEMMA LetGo ==
    ASSUME HostInv, NEW s \in Servers, serve[s] = "admitting",
           NEW to \in ConnStates \ {"accepted"},
           conn' = [conn EXCEPT ![held[s]] = to],
           serve' = [serve EXCEPT ![s] = "accepting"],
           held' = [held EXCEPT ![s] = None],
           UNCHANGED <<closeVars, serving, ctxDone, result, faulted, stopped>>
    PROVE  /\ held[s] \in Conns /\ conn[held[s]] = "accepted"
           /\ conn' \in [Conns -> ConnStates]
           /\ serve' \in [Servers -> ServeStates]
           /\ held' \in [Servers -> Conns \cup {None}]
           /\ (CloseProgress /\ OneLoop /\ HeldByLoop)'
           /\ (ServeProgress /\ WorkersServed /\ CleanStop)'
<1>1. held[s] \in Conns /\ conn[held[s]] = "accepted"
  BY DEF HostInv, HeldByLoop
<1>2. /\ conn' \in [Conns -> ConnStates]
      /\ serve' \in [Servers -> ServeStates]
      /\ held' \in [Servers -> Conns \cup {None}]
  BY <1>1 DEF HostInv, HostTypeOK, ServeStates
<1>3. CloseProgress'
  BY DEF HostInv, CloseProgress, closeVars
<1>4. OneLoop'
  BY DEF HostInv, HostTypeOK, OneLoop, Entered
<1>5. HeldByLoop'
  BY <1>1 DEF HostInv, HostTypeOK, OneLoop, HeldByLoop, Entered
<1>6. ServeProgress'
  BY DEF HostInv, HostTypeOK, OneLoop, ServeProgress, Entered, closeVars
<1>7. WorkersServed'
  BY <1>1 DEF HostInv, HostTypeOK, OneLoop, WorkersServed, Entered
<1>8. CleanStop'
  BY DEF HostInv, HostTypeOK, CleanStop
<1> QED  BY <1>1, <1>2, <1>3, <1>4, <1>5, <1>6, <1>7, <1>8

LEMMA AdmitInv ==
    ASSUME HostInv, NEW s \in Servers, Admit(s)
    PROVE  HostInv'
<1> USE DEF Admit, SlotFree
<1>1. /\ "receiving" \in ConnStates \ {"accepted"}
      /\ "receiving" \in Holding /\ "receiving" \in Working
      /\ "accepted" \notin Holding /\ "accepted" \notin Working
  BY DEF ConnStates, Working, Holding, Open
<1>2. /\ held[s] \in Conns /\ conn[held[s]] = "accepted"
      /\ conn' \in [Conns -> ConnStates]
      /\ serve' \in [Servers -> ServeStates]
      /\ held' \in [Servers -> Conns \cup {None}]
      /\ (CloseProgress /\ OneLoop /\ HeldByLoop)'
      /\ (ServeProgress /\ WorkersServed /\ CleanStop)'
  BY <1>1, LetGo
<1>3. conn \in [Conns -> ConnStates] /\ slots \in 0..MaxSlots /\ workers \in Nat
  BY DEF HostInv, HostTypeOK
<1>4. PICK c \in Conns :
        /\ conn[c] \notin Holding /\ conn'[c] \in Holding
        /\ conn[c] \notin Working /\ conn'[c] \in Working
        /\ \A d \in Conns : d # c => conn'[d] = conn[d]
  BY <1>1, <1>2, <1>3
<1>5. Cardinality(Holders') = Cardinality(Holders) + 1
  BY <1>4, CountEnter, CountedSets, ZenonT(60)
<1>6. Cardinality(Workers') = Cardinality(Workers) + 1
  BY <1>4, CountEnter, CountedSets, ZenonT(60)
<1>7. Accounting'
  BY <1>5, <1>6 DEF HostInv, Accounting
<1>8. slots' \in 0..MaxSlots /\ workers' \in Nat
  BY <1>3, HostAssumption
<1>9. HostTypeOK'
  BY <1>2, <1>8 DEF HostInv, HostTypeOK, closeVars
<1> QED  BY <1>2, <1>7, <1>9 DEF HostInv

LEMMA RefuseInv ==
    ASSUME HostInv, NEW s \in Servers, Refuse(s)
    PROVE  HostInv'
<1> USE DEF Refuse
<1>1. /\ "rejected" \in ConnStates \ {"accepted"}
      /\ "rejected" \notin Holding /\ "rejected" \notin Working
      /\ "accepted" \notin Holding /\ "accepted" \notin Working
  BY DEF ConnStates, Outside, Working, Holding, Open
<1>2. /\ held[s] \in Conns /\ conn[held[s]] = "accepted"
      /\ conn' \in [Conns -> ConnStates]
      /\ serve' \in [Servers -> ServeStates]
      /\ held' \in [Servers -> Conns \cup {None}]
      /\ (CloseProgress /\ OneLoop /\ HeldByLoop)'
      /\ (ServeProgress /\ WorkersServed /\ CleanStop)'
  BY <1>1, LetGo
<1>3. conn \in [Conns -> ConnStates]
  BY DEF HostInv, HostTypeOK
<1>4. Holders' = Holders /\ Workers' = Workers
  BY <1>1, <1>2, <1>3 DEF Holders, Workers
<1>5. Accounting'
  BY <1>4 DEF HostInv, Accounting, slotVars
<1>6. HostTypeOK'
  BY <1>2 DEF HostInv, HostTypeOK, closeVars, slotVars
<1> QED  BY <1>2, <1>5, <1>6 DEF HostInv

\* workers.Wait: the call that served leaves no worker behind.
LEMMA ServeReturnInv ==
    ASSUME HostInv, NEW s \in Servers, ServeReturn(s)
    PROVE  HostInv'
<1> USE DEF ServeReturn, Drained, closeVars, slotVars, connVars
<1>1. HostTypeOK'
  BY DEF HostInv, HostTypeOK, ServeStates
<1>2. Accounting' /\ CloseProgress'
  BY DEF HostInv, Accounting, Holders, Workers, CloseProgress
<1>3. OneLoop'
  BY DEF HostInv, HostTypeOK, OneLoop, Entered
<1>4. HeldByLoop'
  BY DEF HostInv, HostTypeOK, HeldByLoop
<1>5. ServeProgress'
  BY DEF HostInv, HostTypeOK, OneLoop, ServeProgress, Entered
<1>6. WorkersServed'
  BY NoWorkers DEF HostInv, WorkersServed, Workers
<1>7. CleanStop'
  BY DEF HostInv, HostTypeOK, CleanStop
<1> QED  BY <1>1, <1>2, <1>3, <1>4, <1>5, <1>6, <1>7 DEF HostInv

-----------------------------------------------------------------------------
(***************************************************************************)
(* The invariant is inductive.                                             *)
(***************************************************************************)
LEMMA NextInv == HostInv /\ [HostNext]_hostVars => HostInv'
<1> SUFFICES ASSUME HostInv, [HostNext]_hostVars PROVE HostInv'
  OBVIOUS
<1>1. CASE UNCHANGED hostVars
  BY <1>1 DEF HostInv, HostTypeOK, Accounting, Holders, Workers, CloseProgress,
      OneLoop, HeldByLoop, ServeProgress, WorkersServed, CleanStop, Entered,
      hostVars, closeVars, serveVars, slotVars, connVars
<1>2. CASE UserClose
  BY <1>2, BeginCloseInv DEF UserClose
<1>3. CASE EndClose
  BY <1>3, EndCloseInv
<1>4. CASE \E s \in Servers : ServeStep(s)
  <2>1. PICK s \in Servers : ServeStep(s)
    BY <1>4
  <2>2. CASE Serve(s)
    BY <2>2, ServeInv
  <2>3. CASE ContextClose(s) \/ ServeClose(s)
    BY <2>3, BeginCloseInv DEF ContextClose, ServeClose
  <2>4. CASE \E c \in Conns : Accept(s, c)
    BY <2>4, AcceptInv
  <2>5. CASE LoopMove(s)
    BY <2>5, LoopMoveInv
  <2>6. CASE Admit(s)
    BY <2>6, AdmitInv
  <2>7. CASE Refuse(s)
    BY <2>7, RefuseInv
  <2>8. CASE ServeReturn(s)
    BY <2>8, ServeReturnInv
  <2> QED  BY <2>1, <2>2, <2>3, <2>4, <2>5, <2>6, <2>7, <2>8 DEF ServeStep, LoopMove
<1>5. CASE \E c \in Conns : ConnStep(c) \/ Exchange(c) \/ ExchangeFail(c)
  BY <1>5, ConnStepInv
<1>6. CASE Terminated
  BY <1>1, <1>6 DEF Terminated
<1> QED  BY <1>1, <1>2, <1>3, <1>4, <1>5, <1>6 DEF HostNext, HostStep

\* Listen, Serve, Close and the workers keep the whole inductive invariant.
THEOREM HostInvariant == HostSpec => []HostInv
<1> QED  BY InitInv, NextInv, PTL DEF HostSpec

-----------------------------------------------------------------------------
(***************************************************************************)
(* What follows from it.                                                   *)
(***************************************************************************)
\* Every variable of the host keeps its type; in particular h.slots is never
\* drained below zero nor filled past its capacity.
THEOREM TypeCorrect == HostSpec => []HostTypeOK
<1>1. HostInv => HostTypeOK
  BY DEF HostInv
<1> QED  BY <1>1, HostInvariant, PTL

\* At most MaxSlots admitted connections are open, whatever MaxSlots is and
\* however many clients there are (service.go:135-145).
THEOREM AdmissionBounded == HostSpec => []Bounded
<1>1. HostInv => Bounded
  <2> SUFFICES ASSUME HostInv PROVE Bounded
    OBVIOUS
  <2>1. OpenConns \subseteq Holders /\ IsFiniteSet(Holders)
    BY HostAssumption, FS_Subset DEF OpenConns, Holders, Holding
  <2>2. /\ Cardinality(OpenConns) <= Cardinality(Holders)
        /\ Cardinality(OpenConns) \in Nat /\ Cardinality(Holders) \in Nat
    BY <2>1, FS_Subset, FS_CardinalityType
  <2>3. Cardinality(Holders) <= MaxSlots /\ MaxSlots \in Nat
    BY HostAssumption DEF HostInv, HostTypeOK, Accounting
  <2> QED  BY <2>2, <2>3 DEF Bounded
<1> QED  BY <1>1, HostInvariant, PTL

\* The Serve call that served returns with no worker and no accepted
\* connection left (service.go:120).
THEOREM ReturnsDrained == HostSpec => []NothingAfterReturn
<1>1. HostInv => NothingAfterReturn
  BY DEF HostInv, OneLoop, HeldByLoop, WorkersServed, NothingAfterReturn,
         Workers, Entered
<1> QED  BY <1>1, HostInvariant, PTL

\* Serve returns an error only for a fault of the transport: Close cancels
\* h.ctx before it closes the listener (service.go:107,129-134).
THEOREM StopIsClean == HostSpec => []CleanStop
<1>1. HostInv => CleanStop
  BY DEF HostInv
<1> QED  BY <1>1, HostInvariant, PTL

\* When OnStopped runs, admission is over (service.go:121-126).
THEOREM StoppedAfterAdmission == HostSpec => []AdmissionStopped
<1>1. HostInv => AdmissionStopped
  BY DEF HostInv, CloseProgress, OneLoop, ServeProgress, AdmissionStopped, Entered
<1> QED  BY <1>1, HostInvariant, PTL

\* Only the loop lets go of an accepted connection, and it turns it away only
\* when h.slots is full (service.go:135-140).
LEMMA RefusedByLoop ==
    ASSUME HostInv, HostNext, NEW c \in Conns, conn[c] = "accepted", conn'[c] = "rejected"
    PROVE  Cardinality(Holders) = MaxSlots
<1>1. conn \in [Conns -> ConnStates]
  BY DEF HostInv, HostTypeOK
<1>2. CASE UserClose \/ EndClose \/ Terminated
  BY <1>2 DEF UserClose, EndClose, Terminated, hostVars, connVars
<1>3. CASE \E d \in Conns : ConnStep(d) \/ Exchange(d) \/ ExchangeFail(d)
  BY <1>1, <1>3 DEF ConnStep, Exchange, ExchangeFail, Connect, DropBacklog, Expire,
      Receive, ReceiveFail, Reply, ReplyFail, Finish, Report, CloseConn,
      ReleaseSlot, WorkerDone, WorkerOk, WorkerFail, WorkerStep, Outside
<1>4. CASE \E s \in Servers : ServeStep(s)
  <2>1. PICK s \in Servers : ServeStep(s)
    BY <1>4
  <2>2. CASE Refuse(s)
    BY <2>2, HostAssumption DEF Refuse, SlotFree, HostInv, HostTypeOK, Accounting
  <2>3. CASE Admit(s)
    BY <1>1, <2>3 DEF Admit
  <2>4. CASE \E d \in Conns : Accept(s, d)
    BY <1>1, <2>4 DEF Accept
  <2>5. CASE ~(Refuse(s) \/ Admit(s) \/ \E d \in Conns : Accept(s, d))
    BY <2>1, <2>5 DEF ServeStep, Serve, CancelContext, ContextClose, AcceptClosed,
        AcceptFault, AcceptError, ServeClose, ServeClosed, ServeStopped,
        ServeReturn, connVars
  <2> QED  BY <2>2, <2>3, <2>4, <2>5
<1> QED  BY <1>2, <1>3, <1>4 DEF HostNext, HostStep

\* A connection is turned away only while every slot belongs to a worker that
\* has not given it back, however its call ended.
THEOREM RefusalMeansFull == HostSpec => RefusedOnlyWhenFull
<1>1. HostInv /\ [HostNext]_hostVars
        => [\A c \in Conns : conn[c] = "accepted" /\ conn'[c] = "rejected"
                            => Cardinality(Holders) = MaxSlots]_hostVars
  BY RefusedByLoop
<1> QED  BY <1>1, HostInvariant, PTL DEF HostSpec, RefusedOnlyWhenFull

-----------------------------------------------------------------------------
(***************************************************************************)
(* Host implements BoundedService.  The proof follows the one Serve call   *)
(* that entered: its control state determines the phase.                   *)
(***************************************************************************)

\* The phase as a function of the Serve calls' states f and results r.
PhaseFrom(f, r) ==
    LET Among(states) == \E s \in Servers : f[s] \in states /\ r[s] # "refused"
    IN  CASE Among({"accepting", "admitting"})         -> "serving"
          [] Among({"failed", "closing", "stopping"})  -> "stopping"
          [] Among({"draining"})                       -> "draining"
          [] Among({"returned"})                       -> "returned"
          [] OTHER                                  -> "new"

\* What the state of the call that entered says of the phase.
AbsPhase(x) ==
    CASE x \in {"accepting", "admitting"}         -> "serving"
      [] x \in {"failed", "closing", "stopping"}  -> "stopping"
      [] x = "draining"                           -> "draining"
      [] x = "returned"                           -> "returned"
      [] OTHER                                    -> "new"

\* The phase depends on the Serve calls alone, before a step and after it.
LEMMA PhaseIs == Phase = PhaseFrom(serve, result) /\ Phase' = PhaseFrom(serve', result')
BY DEF Phase, PhaseFrom, Passed

\* One call has entered: the phase is its own.
LEMMA PhaseOfOne ==
    ASSUME NEW f, NEW r, NEW s \in Servers, f[s] \in ServeStates, f[s] # "idle",
           r[s] # "refused",
           \A t \in Servers : f[t] # "idle" /\ r[t] # "refused" => t = s
    PROVE  PhaseFrom(f, r) = AbsPhase(f[s])
BY DEF PhaseFrom, AbsPhase, ServeStates

\* None has: the service is new.
LEMMA PhaseOfNone ==
    ASSUME NEW f, NEW r, \A t \in Servers : f[t] # "idle" => r[t] = "refused"
    PROVE  PhaseFrom(f, r) = "new"
BY DEF PhaseFrom

-----------------------------------------------------------------------------
(***************************************************************************)
(* The call that entered moves from one state to another.                  *)
(***************************************************************************)
LEMMA LoopPhase ==
    ASSUME HostInv, NEW s \in Servers, Accepted(s), NEW x \in ServeStates \ {"idle"},
           serve' = [serve EXCEPT ![s] = x],
           result'[s] # "refused", \A t \in Servers : t # s => result'[t] = result[t]
    PROVE  Phase = AbsPhase(serve[s]) /\ Phase' = AbsPhase(x)
<1>1. serve \in [Servers -> ServeStates] /\ serve[s] # "idle" /\ serve[s] # "returned"
  BY DEF HostInv, HostTypeOK, Accepted
<1>2. result[s] # "refused"
  BY <1>1 DEF HostInv, OneLoop
<1>3. \A t \in Servers : serve[t] # "idle" /\ result[t] # "refused" => t = s
  BY <1>1, <1>2 DEF HostInv, OneLoop, Entered
<1>4. Phase = AbsPhase(serve[s])
  BY <1>1, <1>2, <1>3, PhaseIs, PhaseOfOne
<1>5. serve'[s] = x /\ \A t \in Servers : t # s => serve'[t] = serve[t]
  BY <1>1
<1>6. \A t \in Servers : serve'[t] # "idle" /\ result'[t] # "refused" => t = s
  BY <1>3, <1>5
<1>7. Phase' = AbsPhase(x)
  <2>1. serve'[s] \in ServeStates /\ serve'[s] # "idle"
    BY <1>5
  <2>2. PhaseFrom(serve', result') = AbsPhase(serve'[s])
    BY <1>6, <2>1, PhaseOfOne
  <2> QED  BY <1>5, <2>2, PhaseIs
<1> QED  BY <1>4, <1>7

\* The set of open connections, when none enters or leaves it.
LEMMA OpenKept ==
    ASSUME \A d \in Conns : conn[d] \in Open <=> conn'[d] \in Open
    PROVE  OpenConns' = OpenConns
BY DEF OpenConns

\* Nothing that BoundedService sees has changed.
LEMMA PhaseKept ==
    ASSUME UNCHANGED <<serve, result>>
    PROVE  Phase' = Phase
BY PhaseIs

\* The instance counts as the standard module does.
LEMMA SameCardinality == \A S : Service!Cardinality(S) = Cardinality(S)
BY DEF Service!Cardinality, Cardinality, Service!IsFiniteSet, IsFiniteSet

-----------------------------------------------------------------------------
(***************************************************************************)
(* Steps of the loop.                                                      *)
(***************************************************************************)
\* Entering begins the service; a call that is refused changes nothing.
LEMMA ServeRefines ==
    ASSUME HostInv, NEW s \in Servers, Serve(s)
    PROVE  Service!Begin \/ UNCHANGED <<Phase, OpenConns>>
<1>1. OpenConns' = OpenConns
  BY DEF Serve, connVars, OpenConns
<1>2. serve \in [Servers -> ServeStates] /\ result \in [Servers -> {"none", "nil", "error", "refused"}]
  BY DEF HostInv, HostTypeOK
<1>3. CASE serving
  <2>1. serve'[s] = "returned" /\ result'[s] = "refused" /\ serve[s] = "idle"
    BY <1>2, <1>3 DEF Serve
  <2>2. \A t \in Servers : t # s => serve'[t] = serve[t] /\ result'[t] = result[t]
    BY <1>2, <1>3 DEF Serve
  <2>3. \A states : "idle" \notin states =>
          ((\E t \in Servers : serve'[t] \in states /\ result'[t] # "refused")
            <=> (\E t \in Servers : serve[t] \in states /\ result[t] # "refused"))
    BY <2>1, <2>2
  <2>4. Phase' = Phase
    BY <2>3 DEF Phase, Passed
  <2> QED  BY <1>1, <2>4
<1>4. CASE ~serving
  <2>1. \A t \in Servers : serve[t] = "idle"
    BY <1>4 DEF HostInv, OneLoop
  <2>2. Phase = "new"
    BY <2>1, PhaseIs, PhaseOfNone
  <2>3. /\ serve'[s] = "accepting" /\ result'[s] # "refused"
        /\ \A t \in Servers : t # s => serve'[t] = "idle"
    BY <1>2, <1>4, <2>1 DEF Serve, HostInv, OneLoop
  <2>4. Phase' = AbsPhase("accepting")
    BY <2>3, PhaseIs, PhaseOfOne DEF ServeStates
  <2>5. Phase' = "serving"
    BY <2>4 DEF AbsPhase
  <2> QED  BY <1>1, <2>2, <2>5 DEF Service!Begin
<1> QED  BY <1>3, <1>4

\* A held connection that gets a slot is admitted, and there was room for it.
LEMMA AdmitRefines ==
    ASSUME HostInv, NEW s \in Servers, Admit(s)
    PROVE  \E c \in Conns : Service!AdmitConn(c)
<1> USE DEF Admit
<1>1. held[s] \in Conns /\ conn[held[s]] = "accepted" /\ conn \in [Conns -> ConnStates]
  BY DEF HostInv, HeldByLoop, HostTypeOK
<1>2. Phase = "serving" /\ Phase' = "serving"
  <2>1. Phase = AbsPhase("admitting") /\ Phase' = AbsPhase("accepting")
    <3>1. Accepted(s) /\ result'[s] # "refused" /\ result' = result
      BY DEF Accepted, HostInv, OneLoop
    <3> QED  BY <3>1, LoopPhase DEF ServeStates
  <2> QED  BY <2>1 DEF AbsPhase
<1>3. OpenConns' = OpenConns \cup {held[s]} /\ held[s] \notin OpenConns
  BY <1>1 DEF OpenConns, Open
<1>4. Cardinality(OpenConns) < MaxSlots
  <2>1. OpenConns \subseteq Holders /\ IsFiniteSet(Holders)
    BY HostAssumption, FS_Subset DEF OpenConns, Holders, Holding
  <2>2. Cardinality(OpenConns) <= Cardinality(Holders) /\ IsFiniteSet(OpenConns)
    BY <2>1, FS_Subset
  <2>3. Cardinality(OpenConns) \in Nat /\ Cardinality(Holders) \in Nat
    BY <2>1, <2>2, FS_CardinalityType
  <2> QED  BY <2>2, <2>3, HostAssumption DEF SlotFree, HostInv, Accounting
<1> QED  BY <1>1, <1>2, <1>3, <1>4, SameCardinality DEF Service!AdmitConn

\* The loop's steps that leave the connections open as they were.
LEMMA LoopRefines ==
    ASSUME HostInv, NEW s \in Servers,
           \/ \E c \in Conns : Accept(s, c)
           \/ AcceptClosed(s) \/ AcceptFault(s) \/ AcceptError(s) \/ Refuse(s)
           \/ ServeClosed(s) \/ ServeStopped(s) \/ ServeReturn(s)
    PROVE  \/ Service!StopAdmitting \/ Service!Announce \/ Service!Return
           \/ UNCHANGED <<Phase, OpenConns>>
<1> USE DEF Accepted
<1>0. /\ conn \in [Conns -> ConnStates]
      /\ result \in [Servers -> {"none", "nil", "error", "refused"}]
      /\ serve[s] # "returned" => result[s] # "refused"
  BY DEF HostInv, HostTypeOK, OneLoop
<1>1. CASE \E c \in Conns : Accept(s, c)
  <2>1. OpenConns' = OpenConns
    BY <1>0, <1>1, OpenKept DEF Accept, Open
  <2>2. Phase = AbsPhase("accepting") /\ Phase' = AbsPhase("admitting")
    BY <1>0, <1>1, LoopPhase DEF Accept, ServeStates
  <2> QED  BY <2>1, <2>2 DEF AbsPhase
<1>2. CASE AcceptClosed(s) \/ AcceptFault(s)
  <2>1. OpenConns' = OpenConns
    BY <1>2 DEF AcceptClosed, AcceptFault, OpenConns, connVars
  <2>2. Phase = AbsPhase("accepting") /\ Phase' = AbsPhase("failed")
    BY <1>0, <1>2, LoopPhase DEF AcceptClosed, AcceptFault, ServeStates
  <2> QED  BY <2>1, <2>2 DEF AbsPhase, Service!StopAdmitting
<1>3. CASE AcceptError(s)
  <2>1. OpenConns' = OpenConns
    BY <1>3 DEF AcceptError, OpenConns, connVars
  <2>2. result'[s] # "refused" /\ \A t \in Servers : t # s => result'[t] = result[t]
    BY <1>0, <1>3 DEF AcceptError
  <2>3. Phase = AbsPhase("failed") /\ Phase' = AbsPhase("closing")
    BY <1>3, <2>2, LoopPhase DEF AcceptError, ServeStates
  <2> QED  BY <2>1, <2>3 DEF AbsPhase
<1>4. CASE Refuse(s)
  <2>1. OpenConns' = OpenConns
    <3>1. held[s] \in Conns /\ conn[held[s]] = "accepted"
      BY <1>4 DEF Refuse, HostInv, HeldByLoop
    <3> QED  BY <1>0, <1>4, <3>1, OpenKept DEF Refuse, Open
  <2>2. Phase = AbsPhase("admitting") /\ Phase' = AbsPhase("accepting")
    BY <1>0, <1>4, LoopPhase DEF Refuse, ServeStates
  <2> QED  BY <2>1, <2>2 DEF AbsPhase
<1>5. CASE ServeClosed(s)
  <2>1. OpenConns' = OpenConns
    BY <1>5 DEF ServeClosed, OpenConns, connVars
  <2>2. Phase = AbsPhase("closing") /\ Phase' = AbsPhase("stopping")
    BY <1>0, <1>5, LoopPhase DEF ServeClosed, ServeStates
  <2> QED  BY <2>1, <2>2 DEF AbsPhase
<1>6. CASE ServeStopped(s)
  <2>1. OpenConns' = OpenConns
    BY <1>6 DEF ServeStopped, OpenConns, connVars
  <2>2. Phase = AbsPhase("stopping") /\ Phase' = AbsPhase("draining")
    BY <1>0, <1>6, LoopPhase DEF ServeStopped, ServeStates
  <2> QED  BY <2>1, <2>2 DEF AbsPhase, Service!Announce
<1>7. CASE ServeReturn(s)
  <2>1. OpenConns' = OpenConns
    BY <1>7 DEF ServeReturn, OpenConns, connVars
  <2>2. Phase = AbsPhase("draining") /\ Phase' = AbsPhase("returned")
    BY <1>0, <1>7, LoopPhase DEF ServeReturn, ServeStates
  <2>3. Workers = {}
    BY <1>7, NoWorkers DEF ServeReturn, Drained, HostInv
  <2>4. OpenConns = {}
    BY <2>3 DEF OpenConns, Workers, Working, Holding
  <2> QED  BY <2>1, <2>2, <2>4 DEF AbsPhase, Service!Return
<1> QED  BY <1>1, <1>2, <1>3, <1>4, <1>5, <1>6, <1>7

-----------------------------------------------------------------------------
(***************************************************************************)
(* Steps of a connection.                                                  *)
(***************************************************************************)
LEMMA ConnRefines ==
    ASSUME HostInv, NEW c \in Conns, ConnStep(c) \/ Exchange(c) \/ ExchangeFail(c)
    PROVE  Service!FinishConn(c) \/ UNCHANGED <<Phase, OpenConns>>
<1> USE DEF WorkerOk, WorkerFail, WorkerStep
<1>0. conn \in [Conns -> ConnStates]
  BY DEF HostInv, HostTypeOK
<1>1. UNCHANGED <<serve, result>>
  BY DEF ConnStep, Exchange, ExchangeFail, Connect, DropBacklog, Expire, Receive,
      ReceiveFail, Reply, ReplyFail, Finish, Report, CloseConn, ReleaseSlot,
      WorkerDone, serveVars
<1>2. CASE CloseConn(c)
  <2>1. OpenConns' = OpenConns \ {c} /\ c \in OpenConns
    BY <1>0, <1>2 DEF CloseConn, OpenConns, Open
  <2> QED  BY <1>1, <2>1, PhaseKept DEF Service!FinishConn
<1>3. CASE ~CloseConn(c)
  <2>1. \A d \in Conns : conn[d] \in Open <=> conn'[d] \in Open
    BY <1>0, <1>3 DEF ConnStep, Exchange, ExchangeFail, Connect, DropBacklog, Expire,
        Receive, ReceiveFail, Reply, ReplyFail, Finish, Report, ReleaseSlot,
        WorkerDone, Outside, Open
  <2> QED  BY <1>1, <2>1, OpenKept, PhaseKept
<1> QED  BY <1>2, <1>3

\* Every step of the host is a step of the service or leaves it alone.
LEMMA StepRefines ==
    HostInv /\ [HostNext]_hostVars => [Service!SvcNext]_(Service!svcVars)
<1> SUFFICES ASSUME HostInv, [HostNext]_hostVars
             PROVE  Service!SvcNext \/ UNCHANGED <<Phase, OpenConns>>
  BY DEF Service!svcVars
<1>1. CASE UNCHANGED hostVars \/ UserClose \/ EndClose \/ Terminated
  <2>1. UNCHANGED <<serve, result, conn>>
    BY <1>1 DEF UserClose, EndClose, Terminated, hostVars, serveVars, connVars
  <2> QED  BY <2>1, PhaseKept, OpenKept
<1>2. CASE \E s \in Servers : ServeStep(s)
  <2>1. PICK s \in Servers : ServeStep(s)
    BY <1>2
  <2>2. CASE Serve(s)
    BY <2>2, ServeRefines DEF Service!SvcNext
  <2>3. CASE Admit(s)
    BY <2>3, AdmitRefines DEF Service!SvcNext
  <2>4. CASE CancelContext(s) \/ ContextClose(s) \/ ServeClose(s)
    <3>1. UNCHANGED <<serve, result, conn>>
      BY <2>4 DEF CancelContext, ContextClose, ServeClose, serveVars, connVars
    <3> QED  BY <3>1, PhaseKept, OpenKept
  <2>5. CASE ~(Serve(s) \/ Admit(s) \/ CancelContext(s) \/ ContextClose(s) \/ ServeClose(s))
    BY <2>1, <2>5, LoopRefines DEF ServeStep, Service!SvcNext
  <2> QED  BY <2>2, <2>3, <2>4, <2>5
<1>3. CASE \E c \in Conns : ConnStep(c) \/ Exchange(c) \/ ExchangeFail(c)
  BY <1>3, ConnRefines DEF Service!SvcNext
<1> QED  BY <1>1, <1>2, <1>3 DEF HostNext, HostStep

\* The host with its accept loop, workers and defers keeps the promise of
\* BoundedService: it serves once, never has more connections in flight than
\* slots, stops admitting before it says so, and returns with none left.
THEOREM HostImplementsService == HostSpec => ImplementsBoundedService
<1>1. HostInit => Service!SvcInit
  <2> SUFFICES ASSUME HostInit PROVE Phase = "new" /\ OpenConns = {}
    BY DEF Service!SvcInit
  <2>1. Phase = "new"
    BY PhaseIs, PhaseOfNone DEF HostInit
  <2>2. OpenConns = {}
    BY DEF HostInit, OpenConns, Open
  <2> QED  BY <2>1, <2>2
<1> QED  BY <1>1, StepRefines, HostInvariant, PTL
         DEF HostSpec, ImplementsBoundedService, Service!SvcSpec

-----------------------------------------------------------------------------
(***************************************************************************)
(* The composition.  The host's inductive invariant carries over, because  *)
(* every step of the composition is a step of the host or leaves it alone; *)
(* the handler's invariant rests on it: that a handler is at work means    *)
(* that its worker is, hence that Serve was called, hence that the         *)
(* configuration can no longer change.                                     *)
(***************************************************************************)
(***************************************************************************)
(* The handler's inductive invariant.                                      *)
(***************************************************************************)
Locals ==
    [at : Places, frame : Frames \cup {NoFrame}, policy : Policies \cup {None},
     apply : BOOLEAN, granted : Policies \cup {None}, bound : BOOLEAN,
     contacted : BOOLEAN]

CallType ==
    /\ policy \in Policies \cup {None}
    /\ apply \in BOOLEAN
    /\ peer \in [Conns -> {"owner", "changed", "stranger", "gone"}]
    /\ call \in [Conns -> Locals]

\* A handler runs inside its worker's exchange.
InExchange(l, c) == l.at # "none" => conn[c] = "exchanging"

\* What has been established by the time a handler is at each place; a call
\* that has reached a registry keeps it until the reply is taken.
Contacted(l) == l.contacted => l.at \in {"waiting", "returned"}

Frozen(l) == l.at \in Judged \/ l.contacted => l.policy = policy /\ l.apply = apply

Granted(l) ==
    l.at \in {"bind", "lookup", "applying", "asking", "waiting"} \/ l.contacted
        => l.policy = None \/ l.granted = l.policy

SameAccount(l, c) ==
    l.at \in Judged \cup {"configure"} \/ l.contacted => peer[c] # "stranger"

NamesCredential(l) == l.frame.ref.registry = "hf" /\ l.frame.ref.credential # ""

Bound(l) ==
    /\ l.bound => l.apply /\ l.at \in {"lookup", "applying", "asking", "waiting", "returned"}
    /\ (l.at \in {"asking", "waiting"} \/ l.contacted) /\ NamesCredential(l) => l.bound

\* The locals l are good for connection c.
CallOK(l, c) ==
    /\ InExchange(l, c)
    /\ Contacted(l)
    /\ Frozen(l)
    /\ Granted(l)
    /\ SameAccount(l, c)
    /\ Bound(l)

CallInv == CallType /\ \A c \in Conns : CallOK(call[c], c)

-----------------------------------------------------------------------------
(***************************************************************************)
(* The composition is a host.                                              *)
(***************************************************************************)
LEMMA StepIsHostStep == [ReceiverNext]_vars => [HostNext]_hostVars
<1> SUFFICES ASSUME [ReceiverNext]_vars PROVE [HostNext]_hostVars
  OBVIOUS
<1>1. CASE UNCHANGED vars
  BY <1>1 DEF vars
<1>2. CASE HostStep \/ Terminated
  BY <1>2 DEF HostNext
<1>3. CASE (\E p \in Policies : EnablePolicy(p)) \/ EnableCredentials
  BY <1>3 DEF EnablePolicy, EnableCredentials
<1>4. CASE \E c \in Conns : HandlerStep(c)
  <2>1. PICK c \in Conns : HandlerStep(c)
    BY <1>4
  <2>2. CASE Returned(c) \/ Malformed(c)
    BY <2>2 DEF Returned, Malformed, HostNext
  <2>3. CASE ~(Returned(c) \/ Malformed(c))
    BY <2>1, <2>3 DEF HandlerStep, Dispatch, Authorize, ReadConfig, Consult,
        PolicyAnswers, Bind, StartLookup, ApplyCredential, AskRegistry,
        ProviderAnswers, Panics, PeerExits, PeerChanges, HandlerVars
  <2> QED  BY <2>2, <2>3
<1> QED  BY <1>1, <1>2, <1>3, <1>4 DEF ReceiverNext

\* Everything proved of the host alone holds of the host with its handlers.
THEOREM CompositionIsHost == ReceiverSpec => HostSpec
<1>1. ReceiverInit => HostInit
  BY DEF ReceiverInit
<1> QED  BY <1>1, StepIsHostStep, PTL DEF ReceiverSpec, HostSpec

-----------------------------------------------------------------------------
(***************************************************************************)
(* The handler's invariant is inductive, given the host's.                 *)
(***************************************************************************)
\* A handler that is not at work needs nothing.
LEMMA NoCallOK ==
    /\ NoCall \in Locals
    /\ \A c \in Conns : CallOK(NoCall, c) /\ CallOK(NoCall, c)'
<1>1. NoCall \in Locals
  BY DEF NoCall, Locals, Places
<1>2. ASSUME NEW c \in Conns PROVE CallOK(NoCall, c) /\ CallOK(NoCall, c)'
  BY DEF NoCall, CallOK, InExchange, Contacted, Frozen, Granted, SameAccount,
         Bound, Judged
<1> QED  BY <1>1, <1>2

LEMMA InitCallInv == ReceiverInit => CallInv
<1> SUFFICES ASSUME ReceiverInit PROVE CallInv
  OBVIOUS
<1>1. call \in [Conns -> Locals] /\ \A c \in Conns : CallOK(call[c], c)
  BY NoCallOK DEF ReceiverInit
<1>2. apply \in BOOLEAN
  BY DEF ReceiverInit
<1>3. /\ policy \in Policies \cup {None}
      /\ peer \in [Conns -> {"owner", "changed", "stranger", "gone"}]
  BY DEF ReceiverInit
<1> QED  BY <1>1, <1>2, <1>3 DEF CallInv, CallType

\* Only the handler itself ends the exchange of its connection.
LEMMA ExchangeKept ==
    ASSUME HostInv, HostStep \/ Terminated, NEW c \in Conns, conn[c] = "exchanging"
    PROVE  conn'[c] = "exchanging"
<1>1. conn \in [Conns -> ConnStates]
  BY DEF HostInv, HostTypeOK
<1>2. CASE UserClose \/ EndClose \/ Terminated
  BY <1>2 DEF UserClose, EndClose, Terminated, hostVars, connVars
<1>3. CASE \E s \in Servers : ServeStep(s)
  <2>1. PICK s \in Servers : ServeStep(s)
    BY <1>3
  <2>2. CASE Admit(s) \/ Refuse(s)
    <3>1. held[s] \in Conns /\ conn[held[s]] = "accepted"
      BY <2>2 DEF HostInv, HeldByLoop, Admit, Refuse
    <3> QED  BY <1>1, <2>2, <3>1 DEF Admit, Refuse
  <2>3. CASE \E d \in Conns : Accept(s, d)
    BY <1>1, <2>3 DEF Accept
  <2>4. CASE ~(Admit(s) \/ Refuse(s) \/ \E d \in Conns : Accept(s, d))
    BY <2>1, <2>4 DEF ServeStep, Serve, CancelContext, ContextClose, AcceptClosed,
        AcceptFault, AcceptError, ServeClose, ServeClosed, ServeStopped,
        ServeReturn, connVars
  <2> QED  BY <2>2, <2>3, <2>4
<1>4. CASE \E d \in Conns : ConnStep(d)
  BY <1>1, <1>4 DEF ConnStep, Connect, DropBacklog, Expire, Receive, ReceiveFail,
      Reply, ReplyFail, Finish, Report, CloseConn, ReleaseSlot, WorkerDone,
      WorkerOk, WorkerFail, WorkerStep, Outside
<1> QED  BY <1>2, <1>3, <1>4 DEF HostStep

\* A step of the host alone.
LEMMA HostStepCallInv ==
    ASSUME HostInv, CallInv, HostStep \/ Terminated, UNCHANGED receiverVars
    PROVE  CallInv'
<1> USE DEF receiverVars
<1>1. CallType'
  BY DEF CallInv, CallType
<1>2. ASSUME NEW c \in Conns PROVE CallOK(call[c], c)'
  BY ExchangeKept DEF CallInv, CallOK, InExchange, Contacted, Frozen, Granted,
      SameAccount, Bound, NamesCredential
<1> QED  BY <1>1, <1>2 DEF CallInv

\* While the host is configurable no handler is at work.
LEMMA NoHandlerBeforeServe ==
    ASSUME HostInv, CallInv, ~serving, NEW c \in Conns
    PROVE  call[c].at = "none" /\ ~call[c].contacted
<1>1. conn[c] # "exchanging"
  BY DEF HostInv, OneLoop, WorkersServed, Entered, Working, Holding, Open
<1>2. call[c].at = "none"
  BY <1>1 DEF CallInv, CallOK, InExchange
<1> QED  BY <1>2 DEF CallInv, CallOK, Contacted

\* A step of EnablePolicy or EnableCredentials.
LEMMA ConfigCallInv ==
    ASSUME HostInv, CallInv, (\E p \in Policies : EnablePolicy(p)) \/ EnableCredentials
    PROVE  CallInv'
<1> USE DEF EnablePolicy, EnableCredentials, Configurable
<1>1. UNCHANGED <<conn, peer, call>> /\ ~serving
  BY DEF hostVars, connVars
<1>2. CallType'
  BY <1>1 DEF CallInv, CallType
<1>3. ASSUME NEW c \in Conns PROVE CallOK(call[c], c)'
  <2>1. call[c].at = "none" /\ ~call[c].contacted
    BY <1>1, NoHandlerBeforeServe
  <2>2. Frozen(call[c])'
    BY <1>1, <2>1 DEF Frozen, Judged
  <2> QED  BY <1>1, <2>2 DEF CallInv, CallOK, InExchange, Contacted, Granted,
              SameAccount, Bound, NamesCredential
<1> QED  BY <1>2, <1>3 DEF CallInv

-----------------------------------------------------------------------------
(***************************************************************************)
(* The handler's own steps: it is enough that its new locals are good.     *)
(***************************************************************************)
LEMMA LocalStep ==
    ASSUME CallInv, NEW c \in Conns, NEW l \in Locals, CallOK(l, c),
           call' = [call EXCEPT ![c] = l], UNCHANGED <<conn, policy, apply, peer>>
    PROVE  CallInv'
<1>1. CallType'
  BY DEF CallInv, CallType
<1>2. ASSUME NEW d \in Conns PROVE CallOK(call[d], d)'
  <2>1. call'[d] = IF d = c THEN l ELSE call[d]
    BY DEF CallInv, CallType
  <2>2. CallOK(call'[d], d)
    BY <2>1 DEF CallInv
  <2> QED  BY <2>2 DEF CallOK, InExchange, Contacted, Frozen, Granted,
              SameAccount, Bound, NamesCredential
<1> QED  BY <1>1, <1>2 DEF CallInv

\* A handler returns with the locals it has.
LEMMA ReturnStep ==
    ASSUME CallInv, NEW c \in Conns, conn[c] = "exchanging",
           NEW v, Return(c, v), UNCHANGED <<conn, policy, apply, peer>>
    PROVE  CallInv'
<1> DEFINE l == [call[c] EXCEPT !.at = "returned"]
<1>1. call[c] \in Locals /\ CallOK(call[c], c)
  BY DEF CallInv, CallType
<1>2. l \in Locals
  BY <1>1 DEF Locals, Places
<1>3. CallOK(l, c)
  BY <1>1 DEF CallOK, InExchange, Contacted, Frozen, Granted, SameAccount, Bound,
      NamesCredential, Locals, Judged
<1>4. call' = [call EXCEPT ![c] = l]
  BY DEF Return, CallInv, CallType
<1> QED  BY <1>2, <1>3, <1>4, LocalStep

\* A handler starts or ends, with locals that say nothing yet.
LEMMA FreshStep ==
    ASSUME CallInv, NEW c \in Conns, NEW CONSTANT l \in Locals, CallOK(l, c)',
           NEW who \in {"owner", "changed", "stranger", "gone"},
           call' = [call EXCEPT ![c] = l], peer' = [peer EXCEPT ![c] = who],
           UNCHANGED <<policy, apply>>,
           \A d \in Conns : d # c => conn'[d] = conn[d]
    PROVE  CallInv'
<1>1. CallType'
  BY DEF CallInv, CallType
<1>2. ASSUME NEW d \in Conns PROVE CallOK(call[d], d)'
  <2>1. CASE d = c
    <3>1. call'[d] = l
      BY <2>1 DEF CallInv, CallType
    <3> QED  BY <2>1, <3>1 DEF CallOK, InExchange, Contacted, Frozen, Granted,
                SameAccount, Bound, NamesCredential
  <2>2. CASE d # c
    <3>1. call'[d] = call[d] /\ peer'[d] = peer[d] /\ conn'[d] = conn[d]
      BY <2>2 DEF CallInv, CallType
    <3>2. CallOK(call[d], d)
      BY DEF CallInv
    <3>3. (InExchange(call[d], d) /\ Contacted(call[d]) /\ SameAccount(call[d], d))'
      BY <3>1, <3>2 DEF CallOK, InExchange, Contacted, SameAccount
    <3>4. (Frozen(call[d]) /\ Granted(call[d]) /\ Bound(call[d]))'
      BY <3>1, <3>2 DEF CallOK, Frozen, Granted, Bound, NamesCredential
    <3> QED  BY <3>3, <3>4 DEF CallOK
  <2> QED  BY <2>1, <2>2
<1> QED  BY <1>1, <1>2 DEF CallInv

LEMMA DispatchCallInv ==
    ASSUME CallInv, NEW c \in Conns, NEW frame \in Frames,
           NEW who \in {"owner", "stranger", "gone"}, Dispatch(c, frame, who)
    PROVE  CallInv'
<1> DEFINE l == [NoCall EXCEPT !.frame = frame,
                   !.at = IF frame.kind = "resolve" THEN "authorize" ELSE "returned"]
<1>1. l \in Locals
  BY DEF NoCall, Locals, Places
<1>2. conn'[c] = "exchanging" /\ UNCHANGED conn
  BY DEF Dispatch, At, hostVars, connVars
<1>3. CallOK(l, c)'
  BY <1>2 DEF CallOK, InExchange, Contacted, Frozen, Granted, SameAccount, Bound,
      NoCall, Judged
<1> HIDE DEF l
<1>4. call' = [call EXCEPT ![c] = l]
  BY DEF Dispatch, l
<1> QED  BY <1>1, <1>2, <1>3, <1>4, FreshStep DEF Dispatch

LEMMA ReturnedCallInv ==
    ASSUME CallInv, NEW c \in Conns, Returned(c)
    PROVE  CallInv'
<1>1. \A d \in Conns : d # c => conn'[d] = conn[d]
  <2>1. CASE Exchange(c)
    BY <2>1 DEF Exchange, WorkerOk, WorkerStep
  <2>2. CASE ExchangeFail(c)
    BY <2>2 DEF ExchangeFail, WorkerFail, WorkerStep
  <2> QED  BY <2>1, <2>2 DEF Returned
<1> QED  BY <1>1, NoCallOK, FreshStep DEF Returned

\* A frame that is no request ends the exchange of a handler not at work.
LEMMA MalformedCallInv ==
    ASSUME HostInv, CallInv, NEW c \in Conns, Malformed(c)
    PROVE  CallInv'
<1> USE DEF receiverVars
<1>1. call[c].at = "none" /\ \A d \in Conns : d # c => conn'[d] = conn[d]
  BY DEF Malformed, At, ExchangeFail, WorkerFail, WorkerStep
<1>2. UNCHANGED <<policy, apply, peer, call>>
  BY DEF Malformed
<1>3. CallType'
  BY <1>2 DEF CallInv, CallType
<1>4. ASSUME NEW d \in Conns PROVE CallOK(call[d], d)'
  BY <1>1, <1>2 DEF CallInv, CallOK, InExchange, Contacted, Frozen, Granted,
      SameAccount, Bound, NamesCredential
<1> QED  BY <1>3, <1>4 DEF CallInv

\* A peer that goes or changes was no stranger before or is none after.
LEMMA PeerCallInv ==
    ASSUME CallInv, NEW c \in Conns, PeerExits(c) \/ PeerChanges(c)
    PROVE  CallInv'
<1>1. UNCHANGED <<conn, policy, apply, call>>
  BY DEF PeerExits, PeerChanges, hostVars, connVars
<1>2. CallType'
  BY <1>1 DEF CallInv, CallType, PeerExits, PeerChanges
<1>3. \A d \in Conns : peer[d] # "stranger" => peer'[d] # "stranger"
  BY DEF CallInv, CallType, PeerExits, PeerChanges
<1>4. ASSUME NEW d \in Conns PROVE CallOK(call[d], d)'
  BY <1>1, <1>3 DEF CallInv, CallOK, InExchange, Contacted, Frozen, Granted,
      SameAccount, Bound, NamesCredential
<1> QED  BY <1>2, <1>4 DEF CallInv

-----------------------------------------------------------------------------
(***************************************************************************)
(* The steps between the dispatcher and the reply.  Each one returns, or   *)
(* goes on with new locals that are good.                                  *)
(***************************************************************************)
LEMMA LocalsOf ==
    ASSUME CallInv, NEW c \in Conns
    PROVE  call[c] \in Locals /\ CallOK(call[c], c)
BY DEF CallInv, CallType

\* What goes on with good locals keeps the invariant.
LEMMA ContinueStep ==
    ASSUME CallInv, NEW c \in Conns, NEW l \in Locals, CallOK(l, c), Continue(c, l),
           UNCHANGED HandlerVars
    PROVE  CallInv'
<1>1. UNCHANGED <<conn, policy, apply, peer>>
  BY DEF HandlerVars, hostVars, connVars
<1> QED  BY <1>1, LocalStep DEF Continue

\* A handler that returns, as a step of its own.
LEMMA ReturnCallInv ==
    ASSUME CallInv, NEW c \in Conns, NEW where, At(c, where), NEW v, Return(c, v),
           UNCHANGED HandlerVars
    PROVE  CallInv'
<1>1. UNCHANGED <<conn, policy, apply, peer>> /\ conn[c] = "exchanging"
  BY DEF HandlerVars, hostVars, connVars, At
<1> QED  BY <1>1, ReturnStep

LEMMA AuthorizeCallInv ==
    ASSUME CallInv, NEW c \in Conns, Authorize(c)
    PROVE  CallInv'
<1> DEFINE l == [call[c] EXCEPT !.at = "configure"]
<1>1. CASE ~authorized(c)
  BY <1>1, ReturnCallInv DEF Authorize
<1>2. CASE authorized(c)
  <2>1. l \in Locals
    BY LocalsOf DEF Locals, Places
  <2>2. CallOK(l, c)
    BY <1>2, LocalsOf DEF Authorize, At, authorized, Locals, CallOK, InExchange, Contacted,
        Frozen, Granted, SameAccount, Bound, NamesCredential, Judged
  <2> QED  BY <1>2, <2>1, <2>2, ContinueStep DEF Authorize, Goto
<1> QED  BY <1>1, <1>2

LEMMA ReadConfigCallInv ==
    ASSUME CallInv, NEW c \in Conns, ReadConfig(c)
    PROVE  CallInv'
<1> DEFINE l == [call[c] EXCEPT !.policy = policy, !.apply = apply,
                                !.at = IF policy = None THEN "bind" ELSE "consult"]
<1>1. l \in Locals
  BY LocalsOf DEF CallInv, CallType, Locals, Places
<1>2. CallOK(l, c)
  BY LocalsOf DEF ReadConfig, At, Locals, CallOK, InExchange, Contacted,
      Frozen, Granted, SameAccount, Bound, NamesCredential, Judged
<1> QED  BY <1>1, <1>2, ContinueStep DEF ReadConfig

LEMMA ConsultCallInv ==
    ASSUME CallInv, NEW c \in Conns, Consult(c)
    PROVE  CallInv'
<1> DEFINE l == [call[c] EXCEPT !.at = "deciding"]
<1>1. CASE peer[c] = "gone"
  BY <1>1, ReturnCallInv DEF Consult
<1>2. CASE peer[c] # "gone"
  <2>1. l \in Locals
    BY LocalsOf DEF Locals, Places
  <2>2. CallOK(l, c)
    BY LocalsOf DEF Consult, At, Locals, CallOK, InExchange, Contacted,
        Frozen, Granted, SameAccount, Bound, NamesCredential, Judged
  <2> QED  BY <1>2, <2>1, <2>2, ContinueStep DEF Consult, Goto
<1> QED  BY <1>1, <1>2

\* The one way from a policy to a registry is its own grant.
LEMMA PolicyCallInv ==
    ASSUME CallInv, NEW c \in Conns, NEW v \in {"grant", "deny", "unavailable"},
           PolicyAnswers(c, v)
    PROVE  CallInv'
<1> DEFINE l == [call[c] EXCEPT !.at = "bind",
                   !.granted = IF v = "grant" THEN call[c].policy ELSE None]
<1>1. CASE PolicyReads(c, v) # "grant"
  BY <1>1, ReturnCallInv DEF PolicyAnswers
<1>2. CASE PolicyReads(c, v) = "grant"
  <2>1. l \in Locals
    BY LocalsOf DEF Locals, Places
  <2>2. v = "grant"
    BY <1>2 DEF PolicyReads
  <2>3. CallOK(l, c)
    BY <2>2, LocalsOf DEF PolicyAnswers, At, Locals, CallOK, InExchange, Contacted,
        Frozen, Granted, SameAccount, Bound, NamesCredential, Judged
  <2> QED  BY <1>2, <2>1, <2>3, ContinueStep DEF PolicyAnswers
<1> QED  BY <1>1, <1>2

LEMMA BindCallInv ==
    ASSUME CallInv, NEW c \in Conns, Bind(c)
    PROVE  CallInv'
<1> DEFINE Binds == Ref(c).credential # "" /\ call[c].apply
           b == [call[c] EXCEPT !.bound = TRUE, !.at = "lookup"]
           l == [call[c] EXCEPT !.at = "lookup"]
<1>1. CASE Binds /\ ~subject(c)
  BY <1>1, ReturnCallInv DEF Bind
<1>2. CASE Binds /\ subject(c)
  <2>1. b \in Locals
    BY LocalsOf DEF Locals, Places
  <2>2. CallOK(b, c)
    BY <1>2, LocalsOf, ZenonT(60) DEF Bind, At, Locals, CallOK, InExchange, Contacted,
        Frozen, Granted, SameAccount, Bound, NamesCredential, Judged
  <2> QED  BY <1>2, <2>1, <2>2, ContinueStep DEF Bind
<1>3. CASE ~Binds
  <2>1. l \in Locals
    BY LocalsOf DEF Locals, Places
  <2>2. CallOK(l, c)
    BY LocalsOf DEF Bind, At, Locals, CallOK, InExchange, Contacted,
        Frozen, Granted, SameAccount, Bound, NamesCredential, Judged
  <2> QED  BY <1>3, <2>1, <2>2, ContinueStep DEF Bind, Goto
<1> QED  BY <1>1, <1>2, <1>3

LEMMA StartLookupCallInv ==
    ASSUME CallInv, NEW c \in Conns, StartLookup(c)
    PROVE  CallInv'
<1> DEFINE where == IF Ref(c).registry = "hf" /\ Ref(c).credential # ""
                    THEN "applying" ELSE "asking"
           l == [call[c] EXCEPT !.at = where]
<1>1. CASE ~(validRef(Ref(c)) /\ ~Unserved(Ref(c)))
  BY <1>1, ReturnCallInv DEF StartLookup
<1>2. CASE validRef(Ref(c)) /\ ~Unserved(Ref(c))
  <2>1. l \in Locals
    BY LocalsOf DEF Locals, Places
  <2>2. CallOK(l, c)
    BY LocalsOf DEF StartLookup, Ref, At, Locals, CallOK, InExchange, Contacted,
        Frozen, Granted, SameAccount, Bound, NamesCredential, Judged
  <2> QED  BY <1>2, <2>1, <2>2, ContinueStep DEF StartLookup, Goto
<1> QED  BY <1>1, <1>2

\* Headers come from a bound applier only.
LEMMA ApplyCallInv ==
    ASSUME CallInv, NEW c \in Conns, NEW v, ApplyCredential(c, v)
    PROVE  CallInv'
<1> DEFINE l == [call[c] EXCEPT !.at = "asking"]
<1>1. CASE ApplyReads(c, v) # "headers"
  BY <1>1, ReturnCallInv DEF ApplyCredential
<1>2. CASE ApplyReads(c, v) = "headers"
  <2>1. l \in Locals
    BY LocalsOf DEF Locals, Places
  <2>2. call[c].bound
    BY <1>2 DEF ApplyReads
  <2>3. CallOK(l, c)
    BY <2>2, LocalsOf, ZenonT(60) DEF ApplyCredential, At, Locals, CallOK, InExchange, Contacted,
        Frozen, Granted, SameAccount, Bound, NamesCredential, Judged
  <2> QED  BY <1>2, <2>1, <2>3, ContinueStep DEF ApplyCredential, Goto
<1> QED  BY <1>1, <1>2

LEMMA AskCallInv ==
    ASSUME CallInv, NEW c \in Conns, AskRegistry(c)
    PROVE  CallInv'
<1> DEFINE l == [call[c] EXCEPT !.at = "waiting", !.contacted = TRUE]
<1>1. l \in Locals
  BY LocalsOf DEF Locals, Places
<1>2. CallOK(l, c)
  BY LocalsOf, ZenonT(60) DEF AskRegistry, At, Locals, CallOK, InExchange, Contacted,
      Frozen, Granted, SameAccount, Bound, NamesCredential, Judged
<1> QED  BY <1>1, <1>2, ContinueStep DEF AskRegistry

LEMMA HandlerCallInv ==
    ASSUME HostInv, CallInv, NEW c \in Conns, HandlerStep(c)
    PROVE  CallInv'
<1>1. CASE \E frame \in Frames, who \in {"owner", "stranger", "gone"} : Dispatch(c, frame, who)
  BY <1>1, DispatchCallInv
<1>2. CASE Authorize(c)
  BY <1>2, AuthorizeCallInv
<1>3. CASE ReadConfig(c)
  BY <1>3, ReadConfigCallInv
<1>4. CASE Consult(c)
  BY <1>4, ConsultCallInv
<1>5. CASE \E v \in {"grant", "deny", "unavailable"} : PolicyAnswers(c, v)
  BY <1>5, PolicyCallInv
<1>6. CASE Bind(c)
  BY <1>6, BindCallInv
<1>7. CASE StartLookup(c)
  BY <1>7, StartLookupCallInv
<1>8. CASE \E v \in {"headers", "credential_refused", "credential_retryable"} :
              ApplyCredential(c, v)
  BY <1>8, ApplyCallInv
<1>9. CASE AskRegistry(c)
  BY <1>9, AskCallInv
<1>10. CASE \E a \in ProviderAnswersOf(Ref(c)) : ProviderAnswers(c, a)
  BY <1>10, ReturnCallInv DEF ProviderAnswers
<1>11. CASE Panics(c)
  BY <1>11, ReturnCallInv DEF Panics
<1>12. CASE Returned(c)
  BY <1>12, ReturnedCallInv
<1>13. CASE Malformed(c)
  BY <1>13, MalformedCallInv
<1>14. CASE PeerExits(c) \/ PeerChanges(c)
  BY <1>14, PeerCallInv
<1> QED  BY <1>1, <1>2, <1>3, <1>4, <1>5, <1>6, <1>7, <1>8, <1>9, <1>10, <1>11, <1>12,
            <1>13, <1>14 DEF HandlerStep

LEMMA NextCallInv == HostInv /\ CallInv /\ [ReceiverNext]_vars => CallInv'
<1> SUFFICES ASSUME HostInv, CallInv, [ReceiverNext]_vars PROVE CallInv'
  OBVIOUS
<1>1. CASE UNCHANGED vars
  <2>1. UNCHANGED <<conn, policy, apply, peer, call>>
    BY <1>1 DEF vars, hostVars, connVars, receiverVars
  <2> QED  BY <2>1 DEF CallInv, CallType, CallOK, InExchange, Contacted, Frozen,
              Granted, SameAccount, Bound, NamesCredential
<1>2. CASE (HostStep \/ Terminated) /\ UNCHANGED receiverVars
  BY <1>2, HostStepCallInv
<1>3. CASE (\E p \in Policies : EnablePolicy(p)) \/ EnableCredentials
  BY <1>3, ConfigCallInv
<1>4. CASE \E c \in Conns : HandlerStep(c)
  BY <1>4, HandlerCallInv
<1> QED  BY <1>1, <1>2, <1>3, <1>4 DEF ReceiverNext

\* The strengthening all the theorems below are read off: host and handlers
\* together.
THEOREM ReceiverInvariant == ReceiverSpec => [](HostInv /\ CallInv)
<1>1. ReceiverInit => CallInv
  BY InitCallInv
<1>2. ReceiverSpec => []HostInv
  BY CompositionIsHost, HostInvariant, PTL
<1> QED  BY <1>1, <1>2, NextCallInv, PTL DEF ReceiverSpec

-----------------------------------------------------------------------------
(***************************************************************************)
(* What the runs check, for every value of the constants.                  *)
(***************************************************************************)
\* The states are of their types: configuration, peers and handlers' locals.
THEOREM ReceiverTypeCorrect == ReceiverSpec => []ReceiverTypeOK
<1>1. HostInv /\ CallInv => ReceiverTypeOK
  BY DEF HostInv, CallInv, CallType, Locals, ReceiverTypeOK
<1> QED  BY <1>1, ReceiverInvariant, PTL

\* No call is judged by another policy or applier than the one in force.
THEOREM ConfigurationFrozen == ReceiverSpec => []ConfigFrozen
<1>1. CallInv => ConfigFrozen
  BY DEF CallInv, CallOK, Frozen, ConfigFrozen
<1> QED  BY <1>1, ReceiverInvariant, PTL

\* A registry is asked only for the host's own account, and only with the
\* grant of the policy in force.
THEOREM RegistryAskedOnlyIfGranted == ReceiverSpec => []AskedOnlyIfGranted
<1>1. CallInv => AskedOnlyIfGranted
  BY DEF CallInv, CallOK, Frozen, Granted, SameAccount, AskedOnlyIfGranted
<1> QED  BY <1>1, ReceiverInvariant, PTL

\* No hf request leaves for a Ref with a credential unless an applier bound
\* to its caller supplied the headers.
THEOREM CredentialsBound == ReceiverSpec => []CredentialBound
<1>1. CallInv => CredentialBound
  BY DEF CallInv, CallOK, Frozen, Bound, NamesCredential, Ref, CredentialBound
<1> QED  BY <1>1, ReceiverInvariant, PTL

\* Once Serve has returned no handler is at work, though other calls of Serve
\* may have been refused meanwhile.
THEOREM HandlersDrained == ReceiverSpec => []NoHandlerAfterReturn
<1>1. HostInv /\ CallInv => NoHandlerAfterReturn
  <2> SUFFICES ASSUME HostInv, CallInv, NEW s \in Servers, serve[s] = "returned",
                      result[s] # "refused", NEW c \in Conns
               PROVE  call[c].at = "none"
    BY DEF NoHandlerAfterReturn
  <2>1. Workers = {}
    BY DEF HostInv, OneLoop, WorkersServed, Workers, Entered
  <2>2. conn[c] # "exchanging"
    BY <2>1 DEF Workers, Working, Holding, Open
  <2> QED  BY <2>2 DEF CallInv, CallOK, InExchange
<1> QED  BY <1>1, ReceiverInvariant, PTL
=============================================================================
