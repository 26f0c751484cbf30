------------------------------ MODULE ModelGet ------------------------------
(***************************************************************************)
(* The modelget command (go/cmd/modelget/main.go): get submits a job and   *)
(* watches its record, resume adopts what was interrupted, list and where  *)
(* only look.  Each command is a process that may be interrupted (Ctrl-C)  *)
(* or killed between any two steps.                                        *)
(*                                                                         *)
(* The job store, its leases, the supervisor (jobd) and the transfers are  *)
(* other repositories; they are modelled from how main.go uses them and    *)
(* what it says of them, and marked external.                              *)
(***************************************************************************)
EXTENDS Integers, FiniteSets

CONSTANTS Shells,       \* where commands are run, one at a time each
          Resumers,     \* the shells in which nothing but resume is run
          Jobs,         \* bound: the jobs that can be submitted
          MaxFaults     \* bound: kills, interrupts, sleeps and stops of the supervisor

ASSUME ShellsAssumption == Resumers \subseteq Shells /\ MaxFaults \in Nat

VARIABLES jobs,         \* the store: one record per job
          supervisor,   \* is jobd running?
          proc,         \* the command in each shell
          changed,      \* per shell: a change its subscription has not been read for
          faults

getVars == <<jobs, supervisor, proc, changed, faults>>

Jobd == "jobd"
Nobody == "nobody"
NoJob == "no job"
ASSUME NamesAssumption == {Jobd, Nobody} \cap Shells = {} /\ NoJob \notin Jobs

Verified == {"transferred", "complete"}
Finished == Verified \cup {"failed"}

Errors == {"outcome unknown", "permanent", "other"}

\* Mutant: a failure of no known class exits with -1.
statusNegative(err) == CASE err = "outcome unknown" -> 4 [] err = "permanent" -> 3 [] err = "other" -> -1

\* status: the class of a failure as the exit status of the process.
status(err) == CASE err = "outcome unknown" -> 4 [] err = "permanent" -> 3 [] err = "other" -> 1

Claimable(r) == r.state = "unfinished" /\ ~r.live
Unfinished == {j \in Jobs : jobs[j].state = "unfinished"}

\* Mutant: resume looks only for jobs that somebody had begun.
AdoptableBegun == {j \in Jobs : Claimable(jobs[j]) /\ jobs[j].owner # Nobody}

\* What resume asks of the store: r.Adopt over every claimable job.
Adoptable == {j \in Jobs : Claimable(jobs[j])}

NoRun == [at |-> "exited", cmd |-> "none", job |-> NoJob, background |-> FALSE, err |-> "other",
          interrupted |-> FALSE, todo |-> {}, held |-> {}, finished |-> 0, says |-> "", exit |-> 0]

GetInit == /\ jobs = [j \in Jobs |-> [state |-> "none", owner |-> Nobody, live |-> FALSE]]
           /\ supervisor \in BOOLEAN
           /\ proc = [p \in Shells |-> NoRun]
           /\ changed = [p \in Shells |-> FALSE]
           /\ faults = 0

-----------------------------------------------------------------------------
(***************************************************************************)
(* The store and those who work it (external).                             *)
(***************************************************************************)
\* A change of a record wakes every subscription.
Save(j, r) == jobs' = [jobs EXCEPT ![j] = r] /\ changed' = [p \in Shells |-> TRUE]

SupervisorClaims(j) ==
  /\ supervisor /\ Claimable(jobs[j])
  /\ Save(j, [jobs[j] EXCEPT !.owner = Jobd, !.live = TRUE])
  /\ UNCHANGED <<supervisor, proc, faults>>

\* The owner of a live lease brings the transfer to an end.
Works(j) == jobs[j].live /\ jobs[j].owner \in Shells \cup (IF supervisor THEN {Jobd} ELSE {})
Transfer(j) ==
  /\ Works(j)
  /\ \E end \in {"transferred", "failed"} : Save(j, [jobs[j] EXCEPT !.state = end, !.live = FALSE])
  /\ UNCHANGED <<supervisor, proc, faults>>

Complete(j) ==
  /\ jobs[j].state = "transferred"
  /\ Save(j, [jobs[j] EXCEPT !.state = "complete"])
  /\ UNCHANGED <<supervisor, proc, faults>>

\* A lease lapses by itself when its owner is gone, or when its owner slept.
Lapse(j) ==
  /\ jobs[j].live /\ jobs[j].state = "unfinished"
  /\ IF Works(j) THEN faults < MaxFaults /\ faults' = faults + 1 ELSE UNCHANGED faults
  /\ jobs' = [jobs EXCEPT ![j].live = FALSE]
  /\ UNCHANGED <<supervisor, proc, changed>>

StartSupervisor == ~supervisor /\ supervisor' = TRUE /\ UNCHANGED <<jobs, proc, changed, faults>>
StopSupervisor ==
  /\ supervisor /\ faults < MaxFaults
  /\ supervisor' = FALSE /\ faults' = faults + 1
  /\ UNCHANGED <<jobs, proc, changed>>

-----------------------------------------------------------------------------
(***************************************************************************)
(* Processes.  A transfer that runs in a process ends with it; its lease   *)
(* is left to lapse.                                                       *)
(***************************************************************************)
Gone(p) == [j \in Jobs |-> IF jobs[j].owner = p THEN [jobs[j] EXCEPT !.owner = Nobody] ELSE jobs[j]]

Goto(p, r) == proc' = [proc EXCEPT ![p] = r] /\ UNCHANGED <<jobs, supervisor, changed, faults>>

Exit(p, code, says) ==
  /\ proc' = [proc EXCEPT ![p] = [@ EXCEPT !.at = "exited", !.exit = code, !.says = says, !.todo = {}]]
  /\ jobs' = Gone(p)
  /\ UNCHANGED <<supervisor, changed, faults>>

Fatal(p, err) == Exit(p, status(err), "error")

Kill(p) ==
  /\ proc[p].at # "exited" /\ faults < MaxFaults
  /\ faults' = faults + 1 /\ jobs' = Gone(p) /\ proc' = [proc EXCEPT ![p] = NoRun]
  /\ UNCHANGED <<supervisor, changed>>

Interrupt(p) ==
  /\ proc[p].at # "exited" /\ ~proc[p].interrupted /\ faults < MaxFaults
  /\ proc' = [proc EXCEPT ![p].interrupted = TRUE] /\ faults' = faults + 1
  /\ UNCHANGED <<jobs, supervisor, changed>>

At(p, where) == proc[p].at = where

\* The command line: refused with 2, help with 0 (module Args), or a command.
Start(p, cmd, background) ==
  /\ At(p, "exited") /\ (p \in Resumers => cmd = "resume")
  /\ Goto(p, [NoRun EXCEPT !.cmd = cmd, !.background = background,
                           !.at = CASE cmd \in {"get", "where"} -> "resolve" [] OTHER -> cmd])

\* reg.Resolve in get and where.
ResolveFails(p) == At(p, "resolve") /\ \E err \in Errors : Fatal(p, err)
Resolved(p) ==
  /\ At(p, "resolve")
  /\ IF proc[p].cmd = "where" THEN Exit(p, 0, "found") ELSE Goto(p, [proc[p] EXCEPT !.at = "submit"])

SubmitFails(p) == At(p, "submit") /\ \E err \in Errors : Fatal(p, err)

\* svc.Submit: with a supervisor the job waits for it, without one the transfer
\* runs in this process.  With --background the process ends there, whether or
\* not its transfer has begun.
Submit(p, j) ==
  /\ At(p, "submit") /\ jobs[j].state = "none"
  /\ \E begun \in {~proc[p].background, ~supervisor} :
       Save(j, [state |-> "unfinished", live |-> begun /\ ~supervisor,
                owner |-> IF supervisor \/ proc[p].background THEN Nobody ELSE p])
  /\ proc' = [proc EXCEPT ![p] = IF @.background
                THEN [@ EXCEPT !.at = "exited", !.exit = 0, !.says = "left in the store"]
                ELSE [@ EXCEPT !.at = "subscribe", !.job = j]]
  /\ UNCHANGED <<supervisor, faults>>

\* Mutant: watch waits for a change before it reads for the first time.
SubscribeWaits(p) ==
  /\ At(p, "subscribe")
  /\ proc' = [proc EXCEPT ![p].at = "select"] /\ changed' = [changed EXCEPT ![p] = FALSE]
  /\ UNCHANGED <<jobs, supervisor, faults>>

\* watch: subscribe, then read the records and wait for a change, in turn.
Subscribe(p) ==
  /\ At(p, "subscribe")
  /\ proc' = [proc EXCEPT ![p].at = "watch"] /\ changed' = [changed EXCEPT ![p] = FALSE]
  /\ UNCHANGED <<jobs, supervisor, faults>>

\* Mutant: every terminal record is a failure.
AfterTerminal(state) ==
  CASE state \in {"complete", "failed"} -> "ending" [] state = "transferred" -> "report" [] OTHER -> "select"

\* What watch does when it sees the job's record.
After(state) ==
  CASE state \in Verified -> "report" [] state = "failed" -> "ending" [] OTHER -> "select"

WatchRead(p) ==
  /\ At(p, "watch")
  /\ Goto(p, [proc[p] EXCEPT !.at = After(jobs[proc[p].job].state), !.err = "permanent"])

WatchChanged(p) ==
  /\ At(p, "select") /\ changed[p]
  /\ changed' = [changed EXCEPT ![p] = FALSE] /\ proc' = [proc EXCEPT ![p].at = "watch"]
  /\ UNCHANGED <<jobs, supervisor, faults>>

WatchInterrupted(p) ==
  /\ At(p, "select") /\ proc[p].interrupted
  /\ Goto(p, [proc[p] EXCEPT !.at = "ending", !.err = "other"])

\* cmdGet after watch has failed: the context is looked at again.
Ending(p) ==
  /\ At(p, "ending")
  /\ IF proc[p].interrupted THEN Exit(p, 130, "progress is saved") ELSE Fatal(p, proc[p].err)

Report(p) == At(p, "report") /\ Exit(p, 0, "verified")
ReportFails(p) == At(p, "report") /\ Fatal(p, "other")

\* The store cannot be opened or listed.
OpenFails(p) == proc[p].at \in {"list", "resume"} /\ \E err \in Errors : Fatal(p, err)

List(p) ==
  /\ At(p, "list")
  /\ Exit(p, 0, IF \E j \in Jobs : jobs[j].state # "none" THEN "records" ELSE "nothing here yet")

-----------------------------------------------------------------------------
(***************************************************************************)
(* resume: Adopt works through the orphans of one listing, then the store  *)
(* is listed again.                                                        *)
(***************************************************************************)
AdoptList(p) ==
  /\ At(p, "resume")
  /\ Goto(p, [proc[p] EXCEPT !.at = "adopt", !.todo = Adoptable, !.held = Unfinished \ Adoptable])

AdoptClaims(p, j) ==
  /\ At(p, "adopt") /\ proc[p].job = NoJob /\ j \in proc[p].todo /\ Claimable(jobs[j])
  /\ Save(j, [jobs[j] EXCEPT !.owner = p, !.live = TRUE])
  /\ proc' = [proc EXCEPT ![p].job = j]
  /\ UNCHANGED <<supervisor, faults>>

AdoptSkips(p, j) ==
  /\ At(p, "adopt") /\ proc[p].job = NoJob /\ j \in proc[p].todo /\ ~Claimable(jobs[j])
  /\ Goto(p, [proc[p] EXCEPT !.todo = @ \ {j}])

Mine(p, j) == jobs[j].owner = p
AdoptEnds(p) ==
  LET j == proc[p].job
  IN /\ At(p, "adopt") /\ j # NoJob /\ ~(Mine(p, j) /\ jobs[j].live)
     /\ Goto(p, [proc[p] EXCEPT !.job = NoJob, !.todo = @ \ {j},
                   !.finished = IF Mine(p, j) /\ jobs[j].state \in Verified /\ @ = 0 THEN 1 ELSE @])

\* Adopt gives up: a transfer failed, or the context ended.
AdoptFails(p) ==
  /\ At(p, "adopt")
  /\ proc[p].interrupted \/ (proc[p].job # NoJob /\ jobs[proc[p].job].state = "failed")
  /\ \E err \in Errors : Fatal(p, err)

Adopted(p) ==
  /\ At(p, "adopt") /\ proc[p].todo = {}
  /\ IF proc[p].finished > 0 THEN Exit(p, 0, "finished") ELSE Goto(p, [proc[p] EXCEPT !.at = "listing"])

Listing(p) ==
  /\ At(p, "listing")
  /\ Goto(p, [proc[p] EXCEPT !.at = "exited", !.exit = 0, !.held = @ \cap Unfinished,
                !.says = IF \E j \in Unfinished : ~Claimable(jobs[j]) THEN "still held"
                         ELSE "nothing to resume"])
ListingFails(p) == At(p, "listing") /\ Fatal(p, "other")

-----------------------------------------------------------------------------
Starts(p) == \E cmd \in {"get", "where", "list", "resume"}, b \in BOOLEAN :
               (cmd = "get" \/ ~b) /\ Start(p, cmd, b)
Watches(p) == Subscribe(p) \/ WatchRead(p) \/ WatchChanged(p) \/ WatchInterrupted(p)
              \/ Ending(p) \/ Report(p) \/ ReportFails(p)
Adopts(p) == AdoptList(p) \/ (\E j \in Jobs : AdoptClaims(p, j) \/ AdoptSkips(p, j))
             \/ AdoptEnds(p) \/ AdoptFails(p) \/ Adopted(p) \/ Listing(p) \/ ListingFails(p)
Runs(p) == Starts(p) \/ ResolveFails(p) \/ Resolved(p) \/ SubmitFails(p)
           \/ (\E j \in Jobs : Submit(p, j)) \/ Watches(p) \/ OpenFails(p) \/ List(p) \/ Adopts(p)
           \/ Kill(p) \/ Interrupt(p)
Stores(j) == SupervisorClaims(j) \/ Transfer(j) \/ Complete(j) \/ Lapse(j)

GetNext == \/ \E p \in Shells : Runs(p)
           \/ \E j \in Jobs : Stores(j)
           \/ StartSupervisor \/ StopSupervisor

\* A process that can go on does; a transfer with a live owner ends; a lease
\* nobody renews lapses; somebody runs resume again and again, and the store can
\* be opened now and then.
GetFairness ==
  /\ \A p \in Shells : WF_getVars(Watches(p) \/ Adopts(p))
  /\ \A p \in Resumers : WF_getVars(Start(p, "resume", FALSE)) /\ SF_getVars(AdoptList(p))
  /\ \A j \in Jobs : WF_getVars(Transfer(j)) /\ WF_getVars(Lapse(j) /\ ~Works(j))

GetSpec == GetInit /\ [][GetNext]_getVars
GetFairSpec == GetSpec /\ GetFairness

-----------------------------------------------------------------------------
Places == {"exited", "resolve", "submit", "subscribe", "watch", "select", "ending", "report",
           "list", "resume", "adopt", "listing"}

JobTypes == [state : {"none", "unfinished"} \cup Finished,
             owner : Shells \cup {Jobd, Nobody}, live : BOOLEAN]
RunTypes == [at : Places, cmd : {"none", "get", "where", "list", "resume"},
             job : Jobs \cup {NoJob}, background : BOOLEAN, err : Errors,
             interrupted : BOOLEAN, todo : SUBSET Jobs, held : SUBSET Jobs, finished : {0, 1},
             says : {"", "error", "found", "left in the store", "progress is saved",
                     "verified", "records", "nothing here yet", "finished",
                     "still held", "nothing to resume"},
             exit : {0, 1, 2, 3, 4, 130}]

GetTypeOK ==
  /\ jobs \in [Jobs -> JobTypes]
  /\ supervisor \in BOOLEAN
  /\ changed \in [Shells -> BOOLEAN]
  /\ faults \in 0..MaxFaults
  /\ proc \in [Shells -> RunTypes]

Watched(p) == At(p, "exited") /\ proc[p].cmd = "get" /\ proc[p].job # NoJob

\* The exit status of a get that watched its job tells a script how it ended: 0
\* only for bytes that arrived and were verified, 3 only for a job the store has
\* given up on, 130 only after an interrupt; 2 and 4 never.  The job may have
\* been taken over, dropped by a sleeping owner and finished elsewhere meanwhile.
StatusTellsTheEnding ==
  \A p \in Shells : Watched(p) =>
     /\ proc[p].exit \in {0, 1, 3, 130}
     /\ proc[p].exit = 0 => jobs[proc[p].job].state \in Verified
     /\ proc[p].exit = 3 => jobs[proc[p].job].state = "failed"
     /\ proc[p].exit = 130 => proc[p].interrupted

\* ""Nothing to resume" is the wrong answer when a job is unfinished but its
\* previous owner's lease has not lapsed yet" (cmdResume), and "It now says so,
\* with a countdown" (README): when it is said, no job that was unfinished and
\* held when the command began is still unfinished.
NothingToResumeIsTrue ==
  \A p \in Shells : proc[p].says = "nothing to resume" => proc[p].held = {}

\* watch never sleeps through the end of its job: whenever the record is finished
\* a get that follows it comes to its end, though the records are read and the
\* change is waited for in two steps.
WatchEnds ==
  \A p \in Shells : \A j \in Jobs :
    (proc[p].cmd = "get" /\ proc[p].job = j /\ jobs[j].state \in Finished) ~> At(p, "exited")

\* "modelget resume picks up whatever was in flight": a submitted job is finished
\* in the end if somebody goes on running resume, whoever was killed, interrupted
\* or asleep while holding its lease, with or without a supervisor.
JobsFinish == \A j \in Jobs : (jobs[j].state = "unfinished") ~> (jobs[j].state \in Finished)
=============================================================================
