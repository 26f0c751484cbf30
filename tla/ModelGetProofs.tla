--------------------------- MODULE ModelGetProofs ---------------------------
(***************************************************************************)
(* For any shells, jobs and number of faults: modelget's state keeps its   *)
(* types and its exit status tells how a watched job ended.  For any       *)
(* command line: it means what its groups mean, or is refused.             *)
(*                                                                         *)
(* A command reads the store once and acts on it later.  The argument is   *)
(* that a verdict, once true of a record, stays true (Later), so that each *)
(* process may be looked at alone (Honest) whatever the others do to the   *)
(* store in between.                                                       *)
(***************************************************************************)
EXTENDS ModelGet, Args, PositionsProofs, SequenceTheorems, TLAPS

Following == {"subscribe", "watch", "select", "ending", "report"}

\* What holds of one process r over a store js.
Honest(r, js) ==
  /\ r.at \in Following => r.cmd = "get" /\ r.job \in Jobs
  /\ r.at \in {"resolve", "submit"} => r.job = NoJob
  /\ r.at = "submit" => r.cmd = "get"
  /\ r.at = "resolve" => r.cmd \in {"get", "where"}
  /\ r.at = "list" => r.cmd = "list"
  /\ r.at \in {"resume", "adopt", "listing"} => r.cmd = "resume"
  /\ r.at = "report" => js[r.job].state \in Verified
  /\ r.at = "ending" => \/ r.err = "permanent" /\ js[r.job].state = "failed"
                        \/ r.err = "other" /\ r.interrupted
  /\ (r.at = "exited" /\ r.cmd = "get" /\ r.job # NoJob) =>
        /\ r.exit \in {0, 1, 3, 130}
        /\ r.exit = 0 => js[r.job].state \in Verified
        /\ r.exit = 3 => js[r.job].state = "failed"
        /\ r.exit = 130 => r.interrupted

\* Only an unfinished job is leased; so a verdict is never overwritten.
LeasedUnfinished(js) == \A j \in Jobs : js[j].live => js[j].state = "unfinished"

GetInv == GetTypeOK /\ LeasedUnfinished(jobs) /\ \A p \in Shells : Honest(proc[p], jobs)

\* The store may go from js to next: verdicts stay.
Later(js, next) ==
  \A j \in Jobs : /\ js[j].state \in Verified => next[j].state \in Verified
                  /\ js[j].state = "failed" => next[j].state = "failed"

\* A good store that may follow the present one.
Follows(next) == next \in [Jobs -> JobTypes] /\ LeasedUnfinished(next) /\ Later(jobs, next)

-----------------------------------------------------------------------------
LEMMA Names == /\ NoJob \notin Jobs /\ Resumers \subseteq Shells /\ MaxFaults \in Nat
  BY ShellsAssumption, NamesAssumption

\* A verdict of one process is not changed by a later store.
LEMMA HonestLater ==
  ASSUME NEW js, NEW next, NEW r, Later(js, next), Honest(r, js), r.job \in Jobs \cup {NoJob}
  PROVE  Honest(r, next)
  BY DEF Honest, Later, Following, Verified

\* The invariant survives a step in which one process goes to r and the store to
\* a later one.
LEMMA OneProcess ==
  ASSUME GetInv, NEW p \in Shells, NEW r \in RunTypes, Honest(r, jobs),
         Follows(jobs'), proc' = [proc EXCEPT ![p] = r],
         supervisor' \in BOOLEAN, changed' \in [Shells -> BOOLEAN], faults' \in 0..MaxFaults
  PROVE  GetInv'
  <1>1. proc' \in [Shells -> RunTypes] BY DEF GetInv, GetTypeOK
  <1>2. ASSUME NEW q \in Shells PROVE Honest(proc'[q], jobs) /\ proc'[q].job \in Jobs \cup {NoJob}
    <2>1. proc'[q] \in RunTypes BY <1>1
    <2>2. proc'[q].job \in Jobs \cup {NoJob} BY <2>1 DEF RunTypes
    <2>3. CASE q = p BY <2>2, <2>3 DEF GetInv, GetTypeOK
    <2>4. CASE q # p BY <2>2, <2>4 DEF GetInv, GetTypeOK
    <2> QED BY <2>3, <2>4
  <1>3. ASSUME NEW q \in Shells PROVE Honest(proc'[q], jobs')
    <2>1. Honest(proc'[q], jobs) /\ proc'[q].job \in Jobs \cup {NoJob} BY <1>2
    <2> QED BY <2>1, HonestLater DEF Follows
  <1> QED BY <1>1, <1>3 DEF GetInv, GetTypeOK, Follows

\* ... or only the store changes.
LEMMA OnlyStore ==
  ASSUME GetInv, Follows(jobs'), UNCHANGED proc,
         supervisor' \in BOOLEAN, changed' \in [Shells -> BOOLEAN], faults' \in 0..MaxFaults
  PROVE  GetInv'
  <1>1. ASSUME NEW q \in Shells PROVE Honest(proc'[q], jobs')
    <2>1. proc[q] \in RunTypes /\ Honest(proc[q], jobs) BY DEF GetInv, GetTypeOK
    <2>2. proc[q].job \in Jobs \cup {NoJob} BY <2>1 DEF RunTypes
    <2> QED BY <2>1, <2>2, HonestLater DEF Follows
  <1> QED BY <1>1 DEF GetInv, GetTypeOK, Follows

-----------------------------------------------------------------------------
\* Stores that may follow.
LEMMA SameStore == ASSUME GetInv PROVE Follows(jobs)
  BY DEF GetInv, GetTypeOK, Follows, Later

LEMMA GoneFollows == ASSUME GetInv, NEW p \in Shells PROVE Follows(Gone(p))
  <1>1. ASSUME NEW j \in Jobs
        PROVE  /\ Gone(p)[j] \in JobTypes
               /\ Gone(p)[j].state = jobs[j].state /\ Gone(p)[j].live = jobs[j].live
    <2>1. jobs[j] \in JobTypes BY DEF GetInv, GetTypeOK
    <2> DEFINE r == [jobs[j] EXCEPT !.owner = Nobody]
    <2>2. r \in JobTypes /\ r.state = jobs[j].state /\ r.live = jobs[j].live BY <2>1 DEF JobTypes
    <2>3. Gone(p)[j] = IF jobs[j].owner = p THEN r ELSE jobs[j] BY DEF Gone
    <2> HIDE DEF r
    <2> QED BY <2>1, <2>2, <2>3
  <1>2. Gone(p) \in [Jobs -> JobTypes] BY <1>1 DEF Gone
  <1> QED BY <1>1, <1>2 DEF GetInv, Follows, Later, LeasedUnfinished

\* One record is replaced by another that keeps its verdict.
LEMMA SavedFollows ==
  ASSUME GetInv, NEW j \in Jobs, NEW r \in JobTypes, Save(j, r),
         r.live => r.state = "unfinished",
         jobs[j].state \in Verified => r.state \in Verified,
         jobs[j].state # "failed"
  PROVE  Follows(jobs') /\ changed' \in [Shells -> BOOLEAN]
  <1>1. jobs' = [jobs EXCEPT ![j] = r] BY DEF Save
  <1>2. jobs' \in [Jobs -> JobTypes] BY <1>1 DEF GetInv, GetTypeOK
  <1>3. \A k \in Jobs : jobs'[k] = IF k = j THEN r ELSE jobs[k] BY <1>1 DEF GetInv, GetTypeOK
  <1>4. LeasedUnfinished(jobs') BY <1>3 DEF GetInv, LeasedUnfinished
  <1>5. Later(jobs, jobs') BY <1>3 DEF Later
  <1> QED BY <1>2, <1>4, <1>5 DEF Follows, Save

-----------------------------------------------------------------------------
\* A process goes on and leaves the store alone.
LEMMA Moves ==
  ASSUME GetInv, NEW p \in Shells, NEW r \in RunTypes, Honest(r, jobs), Goto(p, r)
  PROVE  GetInv'
  <1>1. Follows(jobs') BY SameStore DEF Goto
  <1>2. supervisor' \in BOOLEAN /\ changed' \in [Shells -> BOOLEAN] /\ faults' \in 0..MaxFaults
    BY DEF Goto, GetInv, GetTypeOK
  <1>3. proc' = [proc EXCEPT ![p] = r] BY DEF Goto
  <1> QED BY <1>1, <1>2, <1>3, OneProcess

\* The status a process may end with, given what it has seen.
Truthful(r, code) ==
  (r.cmd = "get" /\ r.job # NoJob) =>
     /\ code \in {0, 1, 3, 130}
     /\ code = 0 => jobs[r.job].state \in Verified
     /\ code = 3 => jobs[r.job].state = "failed"
     /\ code = 130 => r.interrupted

Said == {"error", "found", "progress is saved", "verified", "records", "nothing here yet", "finished"}

LEMMA Exits ==
  ASSUME GetInv, NEW p \in Shells, NEW code \in {0, 1, 3, 4, 130}, NEW says \in Said,
         Truthful(proc[p], code), Exit(p, code, says)
  PROVE  GetInv'
  <1> DEFINE r == [proc[p] EXCEPT !.at = "exited", !.exit = code, !.says = says, !.todo = {}]
  <1>1. proc[p] \in RunTypes BY DEF GetInv, GetTypeOK
  <1>2. r \in RunTypes BY <1>1, ZenonT(60) DEF RunTypes, Places, Said
  <1>3. /\ r.at = "exited" /\ r.cmd = proc[p].cmd /\ r.job = proc[p].job
        /\ r.exit = code /\ r.interrupted = proc[p].interrupted
    BY <1>1 DEF RunTypes
  <1>4. proc' = [proc EXCEPT ![p] = r] BY DEF Exit, GetInv, GetTypeOK
  <1>5. Follows(jobs') BY GoneFollows DEF Exit
  <1>6. supervisor' \in BOOLEAN /\ changed' \in [Shells -> BOOLEAN] /\ faults' \in 0..MaxFaults
    BY DEF Exit, GetInv, GetTypeOK
  <1> HIDE DEF r
  <1>7. Honest(r, jobs) BY <1>3 DEF Honest, Truthful, Following
  <1> QED BY <1>2, <1>4, <1>5, <1>6, <1>7, OneProcess

\* An error before a job is known, or in a command that watches none.
LEMMA Fails ==
  ASSUME GetInv, NEW p \in Shells, NEW err \in Errors, Fatal(p, err),
         proc[p].cmd # "get" \/ proc[p].job = NoJob \/ (err = "other")
         \/ (err = "permanent" /\ jobs[proc[p].job].state = "failed")
  PROVE  GetInv'
  <1>1. status(err) \in {1, 3, 4} BY DEF Errors, status
  <1>2. /\ err = "other" => status(err) = 1
        /\ err = "permanent" => status(err) = 3
    BY DEF status
  <1>3. Truthful(proc[p], status(err)) BY <1>2 DEF Truthful
  <1>4. Exit(p, status(err), "error") BY DEF Fatal
  <1> QED BY <1>1, <1>3, <1>4, Exits, ZenonT(60) DEF Said

-----------------------------------------------------------------------------
\* What is known of a process that has come to a place.
LEMMA Known ==
  ASSUME GetInv, NEW p \in Shells
  PROVE  proc[p] \in RunTypes /\ Honest(proc[p], jobs)
  BY DEF GetInv, GetTypeOK

LEMMA StartSafe ==
  ASSUME GetInv, NEW p \in Shells, NEW cmd \in {"get", "where", "list", "resume"}, NEW b \in BOOLEAN,
         Start(p, cmd, b)
  PROVE  GetInv'
  <1> DEFINE at == CASE cmd \in {"get", "where"} -> "resolve" [] OTHER -> cmd
             r == [NoRun EXCEPT !.cmd = cmd, !.background = b, !.at = at]
  <1>1. /\ at \in {"resolve", "list", "resume"} /\ (at = "list" => cmd = "list")
        /\ (at = "resume" => cmd = "resume") /\ (at = "resolve" => cmd \in {"get", "where"})
    OBVIOUS
  <1> HIDE DEF at
  <1>2. r \in RunTypes /\ r.at = at /\ r.cmd = cmd /\ r.job = NoJob
    BY <1>1 DEF NoRun, RunTypes, Places, Errors
  <1>3. Goto(p, r) BY DEF Start, at
  <1> HIDE DEF r
  <1>4. Honest(r, jobs) BY <1>1, <1>2 DEF Honest, Following
  <1> QED BY <1>2, <1>3, <1>4, Moves

LEMMA ResolveSafe ==
  ASSUME GetInv, NEW p \in Shells, ResolveFails(p) \/ Resolved(p) \/ SubmitFails(p)
  PROVE  GetInv'
  <1>1. proc[p] \in RunTypes /\ Honest(proc[p], jobs) BY Known
  <1>2. proc[p].job = NoJob BY <1>1 DEF Honest, ResolveFails, Resolved, SubmitFails, At
  <1>3. CASE ResolveFails(p) \/ SubmitFails(p)
    <2>1. PICK err \in Errors : Fatal(p, err) BY <1>3 DEF ResolveFails, SubmitFails
    <2> QED BY <1>2, <2>1, Fails
  <1>4. CASE Resolved(p) /\ proc[p].cmd = "where"
    <2>1. Exit(p, 0, "found") /\ Truthful(proc[p], 0) BY <1>4 DEF Resolved, Truthful
    <2> QED BY <2>1, Exits DEF Said
  <1>5. CASE Resolved(p) /\ proc[p].cmd # "where"
    <2> DEFINE r == [proc[p] EXCEPT !.at = "submit"]
    <2>1. Goto(p, r) BY <1>5 DEF Resolved
    <2>2. proc[p].cmd = "get" BY <1>1, <1>5 DEF Honest, Resolved, At
    <2>3. r \in RunTypes /\ r.at = "submit" /\ r.job = NoJob /\ r.cmd = "get"
      BY <1>1, <1>2, <2>2 DEF RunTypes, Places
    <2> HIDE DEF r
    <2>4. Honest(r, jobs) BY <2>3 DEF Honest, Following
    <2> QED BY <2>1, <2>3, <2>4, Moves
  <1> QED BY <1>3, <1>4, <1>5

\* A job is submitted once, so no verdict is lost with the new record.
LEMMA SubmitSafe ==
  ASSUME GetInv, NEW p \in Shells, NEW j \in Jobs, Submit(p, j)
  PROVE  GetInv'
  <1> DEFINE r == IF proc[p].background
                  THEN [proc[p] EXCEPT !.at = "exited", !.exit = 0, !.says = "left in the store"]
                  ELSE [proc[p] EXCEPT !.at = "subscribe", !.job = j]
  <1>1. proc[p] \in RunTypes /\ Honest(proc[p], jobs) BY Known
  <1>2. proc[p].job = NoJob /\ proc[p].at = "submit" BY <1>1 DEF Honest, Submit, At
  <1>3. PICK begun \in {~proc[p].background, ~supervisor} :
          Save(j, [state |-> "unfinished", live |-> begun /\ ~supervisor,
                   owner |-> IF supervisor \/ proc[p].background THEN Nobody ELSE p])
    BY DEF Submit
  <1> DEFINE rec == [state |-> "unfinished", live |-> begun /\ ~supervisor,
                     owner |-> IF supervisor \/ proc[p].background THEN Nobody ELSE p]
  <1>4. rec \in JobTypes /\ rec.state = "unfinished" BY <1>1 DEF JobTypes, GetInv, GetTypeOK
  <1>5. jobs[j].state = "none" /\ Save(j, rec) BY <1>3 DEF Submit
  <1> HIDE DEF rec
  <1>6. Follows(jobs') /\ changed' \in [Shells -> BOOLEAN] BY <1>4, <1>5, SavedFollows DEF Verified
  <1>7. proc' = [proc EXCEPT ![p] = r] /\ UNCHANGED <<supervisor, faults>> BY DEF Submit, GetInv, GetTypeOK
  <1>8. CASE proc[p].background
    <2>1. r \in RunTypes /\ r.at = "exited" /\ r.job = NoJob BY <1>1, <1>2, <1>8 DEF RunTypes, Places
    <2> HIDE DEF r
    <2>2. Honest(r, jobs) BY <2>1 DEF Honest, Following
    <2> QED BY <1>6, <1>7, <2>1, <2>2, OneProcess DEF GetInv, GetTypeOK
  <1>9. CASE ~proc[p].background /\ proc[p].cmd = "get"
    <2>1. r \in RunTypes /\ r.at = "subscribe" /\ r.job = j /\ r.cmd = "get"
      BY <1>1, <1>9 DEF RunTypes, Places
    <2> HIDE DEF r
    <2>2. Honest(r, jobs) BY <2>1 DEF Honest, Following
    <2> QED BY <1>6, <1>7, <2>1, <2>2, OneProcess DEF GetInv, GetTypeOK
  <1> QED BY <1>1, <1>2, <1>8, <1>9 DEF Honest

\* watch: what it reads stays true until it acts on it.
LEMMA SubscribeSafe ==
  ASSUME GetInv, NEW p \in Shells, Subscribe(p) \/ WatchChanged(p)
  PROVE  GetInv'
  <1> DEFINE r == [proc[p] EXCEPT !.at = "watch"]
  <1>1. proc[p] \in RunTypes /\ Honest(proc[p], jobs) BY Known
  <1>2. proc[p].cmd = "get" /\ proc[p].job \in Jobs
    BY <1>1 DEF Honest, Following, Subscribe, WatchChanged, At
  <1>3. r \in RunTypes /\ r.at = "watch" /\ r.cmd = "get" /\ r.job \in Jobs
    BY <1>1, <1>2 DEF RunTypes, Places
  <1>4. proc' = [proc EXCEPT ![p] = r] BY DEF Subscribe, WatchChanged, GetInv, GetTypeOK
  <1> HIDE DEF r
  <1>5. Honest(r, jobs) BY <1>3 DEF Honest, Following
  <1>6. Follows(jobs') BY SameStore DEF Subscribe, WatchChanged
  <1>7. supervisor' \in BOOLEAN /\ changed' \in [Shells -> BOOLEAN] /\ faults' \in 0..MaxFaults
    BY DEF Subscribe, WatchChanged, GetInv, GetTypeOK
  <1> QED BY <1>3, <1>4, <1>5, <1>6, <1>7, OneProcess

LEMMA WatchReadSafe ==
  ASSUME GetInv, NEW p \in Shells, WatchRead(p)
  PROVE  GetInv'
  <1> DEFINE at == After(jobs[proc[p].job].state)
             r == [proc[p] EXCEPT !.at = at, !.err = "permanent"]
  <1>1. proc[p] \in RunTypes /\ Honest(proc[p], jobs) BY Known
  <1>2. proc[p].cmd = "get" /\ proc[p].job \in Jobs BY <1>1 DEF Honest, Following, WatchRead, At
  <1>3. /\ at \in {"report", "ending", "select"}
        /\ at = "report" => jobs[proc[p].job].state \in Verified
        /\ at = "ending" => jobs[proc[p].job].state = "failed"
    BY DEF After
  <1>4. Goto(p, r) BY DEF WatchRead
  <1> HIDE DEF at
  <1>5. r \in RunTypes /\ r.at = at /\ r.cmd = "get" /\ r.job = proc[p].job /\ r.err = "permanent"
    BY <1>1, <1>2, <1>3 DEF RunTypes, Places, Errors
  <1> HIDE DEF r
  <1>6. Honest(r, jobs) BY <1>2, <1>3, <1>5 DEF Honest, Following
  <1> QED BY <1>4, <1>5, <1>6, Moves

LEMMA WatchInterruptedSafe ==
  ASSUME GetInv, NEW p \in Shells, WatchInterrupted(p)
  PROVE  GetInv'
  <1> DEFINE r == [proc[p] EXCEPT !.at = "ending", !.err = "other"]
  <1>1. proc[p] \in RunTypes /\ Honest(proc[p], jobs) BY Known
  <1>2. proc[p].cmd = "get" /\ proc[p].job \in Jobs BY <1>1 DEF Honest, Following, WatchInterrupted, At
  <1>3. Goto(p, r) /\ proc[p].interrupted BY DEF WatchInterrupted
  <1>4. /\ r \in RunTypes /\ r.at = "ending" /\ r.cmd = "get" /\ r.job = proc[p].job
        /\ r.err = "other" /\ r.interrupted
    BY <1>1, <1>2, <1>3 DEF RunTypes, Places, Errors
  <1> HIDE DEF r
  <1>5. Honest(r, jobs) BY <1>2, <1>4 DEF Honest, Following
  <1> QED BY <1>3, <1>4, <1>5, Moves

LEMMA EndingSafe ==
  ASSUME GetInv, NEW p \in Shells, Ending(p) \/ Report(p) \/ ReportFails(p)
  PROVE  GetInv'
  <1>1. proc[p] \in RunTypes /\ Honest(proc[p], jobs) BY Known
  <1>2. CASE Ending(p) /\ proc[p].interrupted
    <2>1. Exit(p, 130, "progress is saved") BY <1>2 DEF Ending
    <2>2. 130 # 0 /\ 130 # 3 /\ proc[p].interrupted BY <1>2
    <2>3. Truthful(proc[p], 130) BY <2>2, Zenon DEF Truthful
    <2> QED BY <2>1, <2>3, Exits DEF Said
  <1>3. CASE Ending(p) /\ ~proc[p].interrupted
    <2>1. proc[p].err = "permanent" /\ jobs[proc[p].job].state = "failed"
      BY <1>1, <1>3 DEF Honest, Ending, At
    <2>2. Fatal(p, "permanent") BY <1>3, <2>1 DEF Ending
    <2> QED BY <2>1, <2>2, Fails DEF Errors
  <1>4. CASE Report(p)
    <2>1. jobs[proc[p].job].state \in Verified BY <1>1, <1>4 DEF Honest, Report, At
    <2>2. Exit(p, 0, "verified") /\ Truthful(proc[p], 0) BY <1>4, <2>1 DEF Report, Truthful
    <2> QED BY <2>2, Exits DEF Said
  <1>5. CASE ReportFails(p)
    <2>1. Fatal(p, "other") BY <1>5 DEF ReportFails
    <2> QED BY <2>1, Fails DEF Errors
  <1> QED BY <1>2, <1>3, <1>4, <1>5

LEMMA ListSafe ==
  ASSUME GetInv, NEW p \in Shells, OpenFails(p) \/ List(p)
  PROVE  GetInv'
  <1>1. proc[p] \in RunTypes /\ Honest(proc[p], jobs) BY Known
  <1>2. proc[p].cmd # "get" BY <1>1 DEF Honest, OpenFails, List, At
  <1>3. CASE OpenFails(p)
    <2>1. PICK err \in Errors : Fatal(p, err) BY <1>3 DEF OpenFails
    <2> QED BY <1>2, <2>1, Fails
  <1>4. CASE List(p)
    <2>1. PICK says \in {"records", "nothing here yet"} : Exit(p, 0, says) BY <1>4 DEF List
    <2>2. Truthful(proc[p], 0) BY <1>2 DEF Truthful
    <2> QED BY <2>1, <2>2, Exits DEF Said
  <1> QED BY <1>3, <1>4

\* resume: it never becomes a get, whatever it holds.
LEMMA AdoptMoves ==
  ASSUME GetInv, NEW p \in Shells,
         AdoptList(p) \/ (\E j \in Jobs : AdoptSkips(p, j)) \/ AdoptEnds(p) \/ Listing(p)
         \/ (Adopted(p) /\ ~(proc[p].finished > 0))
  PROVE  GetInv'
  <1>1. proc[p] \in RunTypes /\ Honest(proc[p], jobs) BY Known
  <1>2. proc[p].cmd = "resume"
    BY <1>1 DEF Honest, AdoptList, AdoptSkips, AdoptEnds, Listing, Adopted, At
  <1>3. SUFFICES ASSUME NEW r, Goto(p, r), r \in RunTypes, r.cmd = "resume",
                        r.at \in {"adopt", "listing", "exited"}
                 PROVE  GetInv'
    <2>1. CASE AdoptList(p)
      <3> DEFINE r == [proc[p] EXCEPT !.at = "adopt", !.todo = Adoptable, !.held = Unfinished \ Adoptable]
      <3>1. Adoptable \in SUBSET Jobs /\ Unfinished \ Adoptable \in SUBSET Jobs
        BY DEF Adoptable, Unfinished
      <3>2. r \in RunTypes /\ r.cmd = "resume" /\ r.at = "adopt" BY <1>1, <1>2, <3>1 DEF RunTypes, Places
      <3> QED BY <1>3, <2>1, <3>2 DEF AdoptList
    <2>2. CASE \E j \in Jobs : AdoptSkips(p, j)
      <3>1. PICK j \in Jobs : AdoptSkips(p, j) BY <2>2
      <3> DEFINE r == [proc[p] EXCEPT !.todo = @ \ {j}]
      <3>2. r \in RunTypes /\ r.cmd = "resume" /\ r.at = "adopt"
        BY <1>1, <1>2, <3>1 DEF RunTypes, Places, AdoptSkips, At
      <3> QED BY <1>3, <3>1, <3>2 DEF AdoptSkips
    <2>3. CASE AdoptEnds(p)
      <3> DEFINE j == proc[p].job
                 n == IF Mine(p, j) /\ jobs[j].state \in Verified /\ proc[p].finished = 0
                      THEN 1 ELSE proc[p].finished
                 r == [proc[p] EXCEPT !.job = NoJob, !.todo = @ \ {j}, !.finished = n]
      <3>1. n \in {0, 1} BY <1>1 DEF RunTypes
      <3>2. Goto(p, r) BY <2>3 DEF AdoptEnds
      <3> HIDE DEF n
      <3>3. r \in RunTypes /\ r.cmd = "resume" /\ r.at = "adopt"
        BY <1>1, <1>2, <2>3, <3>1 DEF RunTypes, Places, AdoptEnds, At
      <3> QED BY <1>3, <3>2, <3>3
    <2>4. CASE Listing(p)
      <3> DEFINE s == IF \E j \in Unfinished : ~Claimable(jobs[j]) THEN "still held" ELSE "nothing to resume"
                 r == [proc[p] EXCEPT !.at = "exited", !.exit = 0, !.held = @ \cap Unfinished, !.says = s]
      <3>1. s \in {"still held", "nothing to resume"} OBVIOUS
      <3>2. Goto(p, r) BY <2>4 DEF Listing
      <3> HIDE DEF s
      <3>3. r \in RunTypes /\ r.cmd = "resume" /\ r.at = "exited" BY <1>1, <1>2, <3>1 DEF RunTypes, Places
      <3> QED BY <1>3, <3>2, <3>3
    <2>5. CASE Adopted(p) /\ ~(proc[p].finished > 0)
      <3> DEFINE r == [proc[p] EXCEPT !.at = "listing"]
      <3>1. r \in RunTypes /\ r.cmd = "resume" /\ r.at = "listing" BY <1>1, <1>2 DEF RunTypes, Places
      <3> QED BY <1>3, <2>5, <3>1 DEF Adopted
    <2> QED BY <2>1, <2>2, <2>3, <2>4, <2>5
  <1>4. Honest(r, jobs) BY <1>3 DEF Honest, Following
  <1> QED BY <1>3, <1>4, Moves

LEMMA AdoptClaimsSafe ==
  ASSUME GetInv, NEW p \in Shells, NEW j \in Jobs, AdoptClaims(p, j)
  PROVE  GetInv'
  <1> DEFINE r == [proc[p] EXCEPT !.job = j]
             rec == [jobs[j] EXCEPT !.owner = p, !.live = TRUE]
  <1>1. proc[p] \in RunTypes /\ Honest(proc[p], jobs) BY Known
  <1>2. proc[p].cmd = "resume" /\ proc[p].at = "adopt" BY <1>1 DEF Honest, AdoptClaims, At
  <1>3. r \in RunTypes /\ r.cmd = "resume" /\ r.at = "adopt" BY <1>1, <1>2 DEF RunTypes, Places
  <1>4. jobs[j] \in JobTypes /\ jobs[j].state = "unfinished"
    BY DEF GetInv, GetTypeOK, AdoptClaims, Claimable
  <1>5. rec \in JobTypes /\ rec.state = "unfinished" BY <1>4 DEF JobTypes
  <1>6. Save(j, rec) BY DEF AdoptClaims
  <1> HIDE DEF rec
  <1>7. Follows(jobs') /\ changed' \in [Shells -> BOOLEAN]
    BY <1>4, <1>5, <1>6, SavedFollows DEF Verified
  <1>8. proc' = [proc EXCEPT ![p] = r] /\ UNCHANGED <<supervisor, faults>> BY DEF AdoptClaims
  <1> HIDE DEF r
  <1>9. Honest(r, jobs) BY <1>3 DEF Honest, Following
  <1> QED BY <1>3, <1>7, <1>8, <1>9, OneProcess DEF GetInv, GetTypeOK

LEMMA AdoptExits ==
  ASSUME GetInv, NEW p \in Shells,
         AdoptFails(p) \/ ListingFails(p) \/ (Adopted(p) /\ proc[p].finished > 0)
  PROVE  GetInv'
  <1>1. proc[p] \in RunTypes /\ Honest(proc[p], jobs) BY Known
  <1>2. proc[p].cmd = "resume" BY <1>1 DEF Honest, AdoptFails, ListingFails, Adopted, At
  <1>3. CASE AdoptFails(p) \/ ListingFails(p)
    <2>1. PICK err \in Errors : Fatal(p, err) BY <1>3 DEF AdoptFails, ListingFails, Errors
    <2> QED BY <1>2, <2>1, Fails
  <1>4. CASE Adopted(p) /\ proc[p].finished > 0
    <2>1. Exit(p, 0, "finished") /\ Truthful(proc[p], 0) BY <1>2, <1>4 DEF Adopted, Truthful
    <2> QED BY <2>1, Exits DEF Said
  <1> QED BY <1>3, <1>4

-----------------------------------------------------------------------------
\* Faults.
LEMMA KillSafe ==
  ASSUME GetInv, NEW p \in Shells, Kill(p) PROVE GetInv'
  <1>1. NoRun \in RunTypes /\ NoRun.at = "exited" /\ NoRun.cmd = "none"
    BY DEF NoRun, RunTypes, Places, Errors
  <1>2. Honest(NoRun, jobs) BY <1>1 DEF Honest, Following
  <1>3. Follows(jobs') BY GoneFollows DEF Kill
  <1>4. proc' = [proc EXCEPT ![p] = NoRun] BY DEF Kill
  <1>5. faults' \in 0..MaxFaults BY Names DEF Kill, GetInv, GetTypeOK
  <1>6. supervisor' \in BOOLEAN /\ changed' \in [Shells -> BOOLEAN] BY DEF Kill, GetInv, GetTypeOK
  <1> QED BY <1>1, <1>2, <1>3, <1>4, <1>5, <1>6, OneProcess

LEMMA InterruptSafe ==
  ASSUME GetInv, NEW p \in Shells, Interrupt(p) PROVE GetInv'
  <1> DEFINE r == [proc[p] EXCEPT !.interrupted = TRUE]
  <1>1. proc[p] \in RunTypes /\ Honest(proc[p], jobs) BY Known
  <1>2. /\ r \in RunTypes /\ r.at = proc[p].at /\ r.cmd = proc[p].cmd /\ r.job = proc[p].job
        /\ r.err = proc[p].err /\ r.interrupted /\ r.at # "exited"
    BY <1>1 DEF RunTypes, Interrupt
  <1>3. proc' = [proc EXCEPT ![p] = r] BY DEF Interrupt, GetInv, GetTypeOK
  <1> HIDE DEF r
  <1>4. Honest(r, jobs) BY <1>1, <1>2 DEF Honest
  <1>5. Follows(jobs') BY SameStore DEF Interrupt
  <1>6. faults' \in 0..MaxFaults BY Names DEF Interrupt, GetInv, GetTypeOK
  <1>7. supervisor' \in BOOLEAN /\ changed' \in [Shells -> BOOLEAN] BY DEF Interrupt, GetInv, GetTypeOK
  <1> QED BY <1>2, <1>3, <1>4, <1>5, <1>6, <1>7, OneProcess

LEMMA SupervisorSafe ==
  ASSUME GetInv, StartSupervisor \/ StopSupervisor PROVE GetInv'
  <1>1. Follows(jobs') BY SameStore DEF StartSupervisor, StopSupervisor
  <1>2. faults' \in 0..MaxFaults BY Names DEF StartSupervisor, StopSupervisor, GetInv, GetTypeOK
  <1>3. supervisor' \in BOOLEAN /\ changed' \in [Shells -> BOOLEAN] /\ UNCHANGED proc
    BY DEF StartSupervisor, StopSupervisor, GetInv, GetTypeOK
  <1> QED BY <1>1, <1>2, <1>3, OnlyStore

\* The store: a finished record is touched only to complete it.
LEMMA StoreSafe ==
  ASSUME GetInv, NEW j \in Jobs, SupervisorClaims(j) \/ Transfer(j) \/ Complete(j)
  PROVE  GetInv'
  <1>1. jobs[j] \in JobTypes BY DEF GetInv, GetTypeOK
  <1>2. SUFFICES ASSUME NEW r \in JobTypes, Save(j, r), r.live => r.state = "unfinished",
                        jobs[j].state \in Verified => r.state \in Verified, jobs[j].state # "failed"
                 PROVE  GetInv'
    <2>1. CASE SupervisorClaims(j)
      <3> DEFINE r == [jobs[j] EXCEPT !.owner = Jobd, !.live = TRUE]
      <3>1. jobs[j].state = "unfinished" BY <2>1 DEF SupervisorClaims, Claimable
      <3>2. r \in JobTypes /\ r.state = "unfinished" BY <1>1, <3>1 DEF JobTypes
      <3>3. Save(j, r) BY <2>1 DEF SupervisorClaims
      <3> HIDE DEF r
      <3> QED BY <1>2, <3>1, <3>2, <3>3 DEF Verified
    <2>2. CASE Transfer(j)
      <3>1. jobs[j].state = "unfinished" BY <2>2 DEF Transfer, Works, GetInv, LeasedUnfinished
      <3>2. PICK end \in {"transferred", "failed"} :
              Save(j, [jobs[j] EXCEPT !.state = end, !.live = FALSE])
        BY <2>2 DEF Transfer
      <3> DEFINE r == [jobs[j] EXCEPT !.state = end, !.live = FALSE]
      <3>3. r \in JobTypes /\ ~r.live BY <1>1 DEF JobTypes, Finished, Verified
      <3>4. Save(j, r) BY <3>2
      <3> HIDE DEF r
      <3> QED BY <1>2, <3>1, <3>3, <3>4 DEF Verified
    <2>3. CASE Complete(j)
      <3> DEFINE r == [jobs[j] EXCEPT !.state = "complete"]
      <3>1. jobs[j].state = "transferred" BY <2>3 DEF Complete
      <3>2. ~jobs[j].live BY <3>1 DEF GetInv, LeasedUnfinished
      <3>3. r \in JobTypes /\ r.state = "complete" /\ ~r.live
        BY <1>1, <3>2 DEF JobTypes, Finished, Verified
      <3>4. Save(j, r) BY <2>3 DEF Complete
      <3> HIDE DEF r
      <3> QED BY <1>2, <3>1, <3>3, <3>4 DEF Verified
    <2> QED BY <2>1, <2>2, <2>3
  <1>3. Follows(jobs') /\ changed' \in [Shells -> BOOLEAN] BY <1>2, SavedFollows
  <1>4. UNCHANGED <<supervisor, proc, faults>> BY DEF SupervisorClaims, Transfer, Complete
  <1> QED BY <1>3, <1>4, OnlyStore DEF GetInv, GetTypeOK

LEMMA LapseSafe ==
  ASSUME GetInv, NEW j \in Jobs, Lapse(j) PROVE GetInv'
  <1> DEFINE r == [jobs[j] EXCEPT !.live = FALSE]
  <1>1. jobs[j] \in JobTypes BY DEF GetInv, GetTypeOK
  <1>2. r \in JobTypes /\ r.state = jobs[j].state /\ ~r.live BY <1>1 DEF JobTypes
  <1>3. jobs' = [jobs EXCEPT ![j] = r] BY DEF Lapse, GetInv, GetTypeOK
  <1> HIDE DEF r
  <1>4. jobs' \in [Jobs -> JobTypes] BY <1>2, <1>3 DEF GetInv, GetTypeOK
  <1>5. \A k \in Jobs : jobs'[k] = IF k = j THEN r ELSE jobs[k] BY <1>3 DEF GetInv, GetTypeOK
  <1>6. LeasedUnfinished(jobs') BY <1>2, <1>5 DEF GetInv, LeasedUnfinished
  <1>7. Later(jobs, jobs') BY <1>2, <1>5 DEF Later
  <1>8. faults' \in 0..MaxFaults BY Names DEF Lapse, GetInv, GetTypeOK
  <1>9. UNCHANGED <<supervisor, proc, changed>> BY DEF Lapse
  <1> QED BY <1>4, <1>6, <1>7, <1>8, <1>9, OnlyStore DEF Follows, GetInv, GetTypeOK

-----------------------------------------------------------------------------
LEMMA GetInvInit == GetInit => GetInv
  <1> SUFFICES ASSUME GetInit PROVE GetInv OBVIOUS
  <1>1. NoRun \in RunTypes /\ NoRun.at = "exited" /\ NoRun.cmd = "none"
    BY DEF NoRun, RunTypes, Places, Errors
  <1>2. Honest(NoRun, jobs) BY <1>1 DEF Honest, Following
  <1>3. LeasedUnfinished(jobs) BY DEF GetInit, LeasedUnfinished
  <1>4. GetTypeOK BY <1>1, Names DEF GetInit, GetTypeOK, JobTypes
  <1> QED BY <1>2, <1>3, <1>4 DEF GetInit, GetInv

LEMMA GetInvStep == GetInv /\ [GetNext]_getVars => GetInv'
  <1> SUFFICES ASSUME GetInv, [GetNext]_getVars PROVE GetInv' OBVIOUS
  <1>1. CASE UNCHANGED getVars
    BY <1>1, SameStore, OnlyStore DEF getVars, GetInv, GetTypeOK
  <1>2. CASE \E p \in Shells : Runs(p)
    <2>1. PICK p \in Shells : Runs(p) BY <1>2
    <2>2. CASE Starts(p) BY <2>2, StartSafe DEF Starts
    <2>3. CASE ResolveFails(p) \/ Resolved(p) \/ SubmitFails(p) BY <2>3, ResolveSafe
    <2>4. CASE \E j \in Jobs : Submit(p, j) BY <2>4, SubmitSafe
    <2>5. CASE Watches(p)
      BY <2>5, SubscribeSafe, WatchReadSafe, WatchInterruptedSafe, EndingSafe DEF Watches
    <2>6. CASE OpenFails(p) \/ List(p) BY <2>6, ListSafe
    <2>7. CASE Adopts(p)
      BY <2>7, AdoptMoves, AdoptClaimsSafe, AdoptExits DEF Adopts
    <2>8. CASE Kill(p) \/ Interrupt(p) BY <2>8, KillSafe, InterruptSafe
    <2> QED BY <2>1, <2>2, <2>3, <2>4, <2>5, <2>6, <2>7, <2>8 DEF Runs
  <1>3. CASE \E j \in Jobs : Stores(j) BY <1>3, StoreSafe, LapseSafe DEF Stores
  <1>4. CASE StartSupervisor \/ StopSupervisor BY <1>4, SupervisorSafe
  <1> QED BY <1>1, <1>2, <1>3, <1>4 DEF GetNext

\* modelget, its processes and the store keep their types for any shells, jobs and
\* number of faults; in particular every exit status is one main.go documents.
THEOREM GetTypeCorrect == GetSpec => []GetTypeOK
  <1>1. GetInv => GetTypeOK BY DEF GetInv
  <1> QED BY <1>1, GetInvInit, GetInvStep, PTL DEF GetSpec

\* The exit status of a get that watched its job tells how the job ended, whatever
\* other commands, the supervisor, kills and lapsing leases do to the store
\* between watch's reading and the end of the process.
THEOREM StatusTruthful == GetSpec => []StatusTellsTheEnding
  <1>1. GetInv => StatusTellsTheEnding
    BY DEF GetInv, Honest, StatusTellsTheEnding, Watched, At
  <1> QED BY <1>1, GetInvInit, GetInvStep, PTL DEF GetSpec

-----------------------------------------------------------------------------
(***************************************************************************)
(* The command line.  A line of any length, over any texts, means what its *)
(* groups mean: parse reads one group in each turn of its loop, and after  *)
(* every turn it has refused a group or understood all of them so far.     *)
(***************************************************************************)
Vocabulary == Singles \cup {Flag("o")}

\* The words and their parts.
LEMMA WordParts ==
  /\ \A t : Word(t).kind = "word" /\ Word(t).name = NoText /\ Word(t).value = t /\ WordText(Word(t)) = t
  /\ \A n, v : Set(n, v).kind = "set" /\ Set(n, v).name = n /\ Set(n, v).value = v
  /\ \A n : Flag(n).kind = "flag" /\ Flag(n).name = n /\ Flag(n).value = NoText /\ WordText(Flag(n)) = n
BY DEF Word, Set, Flag, WordText

\* The groups there are.
Shape(g) ==
  \/ \E t \in Texts : g = <<Word(t)>> \/ g = <<Set("o", t)>> \/ g = <<Set("background", t)>> \/ g = <<Flag("o"), Word(t)>>
  \/ g = <<Flag("background")>> \/ g = <<Flag("here")>> \/ g = <<Flag("h")>> \/ g = <<Flag("o"), Flag("background")>>

\* There are no others.
LEMMA GroupShape ==
  ASSUME NEW g \in Groups
  PROVE  Shape(g)
<1>1. CASE g \in {<<w>> : w \in Singles}
  <2>1. PICK w \in Singles : g = <<w>>
    BY <1>1
  <2>2. \/ \E t \in Texts : w = Word(t) \/ w = Set("o", t) \/ w = Set("background", t)
        \/ w = Flag("background") \/ w = Flag("here") \/ w = Flag("h")
    BY Zenon DEF Singles
  <2>. QED
    BY <2>1, <2>2, Zenon DEF Shape
<1>2. CASE g \in {<<Flag("o"), w>> : w \in {Word(t) : t \in Texts} \cup {Flag("background")}}
  <2>1. PICK w \in {Word(t) : t \in Texts} \cup {Flag("background")} : g = <<Flag("o"), w>>
    BY <1>2
  <2>2. (\E t \in Texts : w = Word(t)) \/ w = Flag("background")
    BY Zenon
  <2>. QED
    BY <2>1, <2>2, Zenon DEF Shape
<1>. QED
  BY <1>1, <1>2, Zenon DEF Groups

\* A group is one or two words.
LEMMA GroupWords ==
  ASSUME NEW g \in Groups
  PROVE  g \in Seq(Vocabulary) /\ Len(g) \in 1..2
<1>1. CASE g \in {<<w>> : w \in Singles}
  <2>1. PICK w \in Singles : g = <<w>>
    BY <1>1
  <2>2. w \in Vocabulary
    BY DEF Vocabulary
  <2>. QED
    BY <2>1, <2>2
<1>2. CASE g \in {<<Flag("o"), w>> : w \in {Word(t) : t \in Texts} \cup {Flag("background")}}
  <2>1. PICK w \in {Word(t) : t \in Texts} \cup {Flag("background")} : g = <<Flag("o"), w>>
    BY <1>2
  <2>2. w \in Vocabulary /\ Flag("o") \in Vocabulary
    BY Zenon DEF Vocabulary, Singles
  <2> DEFINE f == Flag("o")
  <2> HIDE DEF f
  <2>3. f \in Vocabulary /\ g = <<f, w>>
    BY <2>1, <2>2 DEF f
  <2>. QED
    BY <2>2, <2>3
<1>. QED
  BY <1>1, <1>2, Zenon DEF Groups

-----------------------------------------------------------------------------
(***************************************************************************)
(* The loop.                                                               *)
(***************************************************************************)
AllTexts == {WordText(w) : w \in Vocabulary} \cup {w.value : w \in Vocabulary} \cup {"true"}
FlagNames == {w.name : w \in Vocabulary}
Reading == [refusal : {"none", "help", "refused"}, pos : Seq(AllTexts), flags : SUBSET (FlagNames \X AllTexts),
            at : Nat \ {0}]

\* Before the first word.
LEMMA UnreadIs ==
  Unread \in Reading /\ Unread.refusal = "none" /\ Unread.pos = <<>> /\ Unread.flags = {} /\ Unread.at = 1
BY DEF Unread, Reading

\* A refusal.
LEMMA RefuseIs ==
  ASSUME NEW r \in Reading, NEW why \in {"help", "refused"}
  PROVE  RefuseLine(r, why) \in Reading /\ RefuseLine(r, why).refusal = why
BY DEF RefuseLine, Reading

\* A flag taken.
LEMMA TakeFlagIs ==
  ASSUME NEW r \in Reading, NEW n \in FlagNames, NEW v \in AllTexts, NEW k \in 1..2
  PROVE  LET q == TakeFlag(r, n, v, k)
         IN /\ q \in Reading /\ q.refusal = r.refusal /\ q.pos = r.pos /\ q.at = r.at + k
            /\ q.flags = {f \in r.flags : f[1] # n} \cup {<<n, v>>}
<1> DEFINE fs == {f \in r.flags : f[1] # n} \cup {<<n, v>>}
<1>1. fs \in SUBSET (FlagNames \X AllTexts)
  BY DEF Reading
<1>2. TakeFlag(r, n, v, k) = [r EXCEPT !.flags = fs, !.at = r.at + k]
  BY DEF TakeFlag
<1>3. r.at + k \in Nat \ {0}
  BY DEF Reading
<1> HIDE DEF fs
<1>4. LET q == TakeFlag(r, n, v, k)
      IN /\ q \in Reading /\ q.refusal = r.refusal /\ q.pos = r.pos /\ q.at = r.at + k
         /\ q.flags = fs
  BY <1>1, <1>2, <1>3 DEF Reading
<1>. QED
  BY <1>4, Zenon DEF fs

\* A positional taken.
LEMMA TakePositionalIs ==
  ASSUME NEW r \in Reading, NEW t \in AllTexts
  PROVE  LET q == TakePositional(r, t)
         IN q \in Reading /\ q.refusal = r.refusal /\ q.pos = Append(r.pos, t) /\ q.at = r.at + 1 /\ q.flags = r.flags
<1> DEFINE p == Append(r.pos, t)
<1>1. p \in Seq(AllTexts) /\ r.at + 1 \in Nat \ {0}
  BY DEF Reading
<1>2. TakePositional(r, t) = [r EXCEPT !.pos = p, !.at = r.at + 1]
  BY DEF TakePositional
<1> HIDE DEF p
<1>3. LET q == TakePositional(r, t)
      IN q \in Reading /\ q.refusal = r.refusal /\ q.pos = p /\ q.at = r.at + 1 /\ q.flags = r.flags
  BY <1>1, <1>2 DEF Reading
<1>. QED
  BY <1>3, Zenon DEF p

\* A flag leaves a reading,
LEMMA ParseOneTyped ==
  ASSUME NEW args \in Seq(Vocabulary), NEW r \in Reading, r.at <= Len(args)
  PROVE  parseOne(command, args, r) \in Reading
<1> DEFINE w == args[r.at]
           x == args[r.at + 1]
           n == w.name
           known == n \in ValueFlags(command) \cup Switches(command)
           apart == n \in ValueFlags(command) /\ w.kind = "flag"
           sets == w.kind = "set" /\ (n \in ValueFlags(command) \/ w.value \in {"true", "false"})
           q == parseOne(command, args, r)
<1>1. q = CASE ~known -> RefuseLine(r, IF n = "h" THEN "help" ELSE "refused")
            [] apart -> IF r.at = Len(args) THEN RefuseLine(r, "refused") ELSE TakeFlag(r, n, WordText(x), 2)
            [] known /\ w.kind = "flag" /\ ~apart -> TakeFlag(r, n, "true", 1)
            [] OTHER -> IF sets THEN TakeFlag(r, n, w.value, 1) ELSE RefuseLine(r, "refused")
  BY Zenon DEF parseOne
<1>2. r.at \in Nat \ {0} /\ w \in Vocabulary /\ (r.at # Len(args) => x \in Vocabulary)
  <2>1. r.at \in Nat \ {0}
    BY DEF Reading
  <2>. QED
    BY <2>1
<1> HIDE DEF w, x
<1>3. n \in FlagNames /\ w.value \in AllTexts /\ "true" \in AllTexts /\ (r.at # Len(args) => WordText(x) \in AllTexts)
  BY <1>2 DEF FlagNames, AllTexts
<1>4. RefuseLine(r, "refused") \in Reading /\ RefuseLine(r, "help") \in Reading
  BY RefuseIs
<1>5. /\ TakeFlag(r, n, "true", 1) \in Reading /\ TakeFlag(r, n, w.value, 1) \in Reading
      /\ r.at # Len(args) => TakeFlag(r, n, WordText(x), 2) \in Reading
  <2> HIDE DEF n
  <2>. QED
    BY <1>3, TakeFlagIs
<1> HIDE DEF q, n, known, apart, sets
<1>. QED
  BY <1>1, <1>4, <1>5 DEF q

\* A turn in its order of tests.
LEMMA TurnCases ==
  ASSUME NEW args \in Seq(Vocabulary), NEW r \in Reading
  PROVE  LET w == args[r.at]
             q == lineTurn(command, args, r)
         IN /\ r.refusal # "none" \/ r.at > Len(args) => q = r
            /\ r.refusal = "none" /\ r.at <= Len(args) /\ w.kind # "word" => q = parseOne(command, args, r)
            /\ r.refusal = "none" /\ r.at <= Len(args) /\ w.kind = "word" =>
                 q = IF WordText(w) = NoText THEN RefuseLine(r, "refused") ELSE TakePositional(r, WordText(w))
            /\ r.at \in Nat \ {0} /\ Len(args) \in Nat /\ (r.at <= Len(args) => w \in Vocabulary)
<1> DEFINE w == args[r.at]
           q == lineTurn(command, args, r)
           a == r.refusal # "none" \/ r.at > Len(args)
           f == r.refusal = "none" /\ r.at <= Len(args) /\ isFlag(w, r)
           last == IF WordText(w) = NoText THEN RefuseLine(r, "refused") ELSE TakePositional(r, WordText(w))
<1>1. r.at \in Nat \ {0} /\ Len(args) \in Nat
  BY DEF Reading
<1>2. q = CASE a -> r [] f -> parseOne(command, args, r) [] OTHER -> last
  BY Zenon DEF lineTurn
<1>3. r.at <= Len(args) => w \in Vocabulary
  BY <1>1
<1>4. f <=> r.refusal = "none" /\ r.at <= Len(args) /\ w.kind # "word"
  BY DEF isFlag
<1>5. a => ~f
  BY <1>1
<1>6. r.refusal = "none" /\ r.at <= Len(args) => ~a
  BY <1>1
<1> HIDE DEF q, f, last, w, a
<1>7. /\ a => q = r
      /\ f => q = parseOne(command, args, r)
      /\ ~a /\ ~f => q = last
  BY <1>2, <1>5
<1>8. r.refusal = "none" /\ r.at <= Len(args) /\ w.kind = "word" => q = last
  BY <1>4, <1>6, <1>7
<1>9. r.refusal = "none" /\ r.at <= Len(args) /\ w.kind # "word" => q = parseOne(command, args, r)
  BY <1>4, <1>7
<1>10. r.refusal # "none" \/ r.at > Len(args) => q = r
  BY <1>7 DEF a
<1>. QED
  BY <1>1, <1>3, <1>8, <1>9, <1>10, Zenon DEF q, last, w

\* and so does a turn.
LEMMA TurnTyped ==
  ASSUME NEW args \in Seq(Vocabulary), NEW r \in Reading
  PROVE  lineTurn(command, args, r) \in Reading
<1> DEFINE w == args[r.at]
           q == lineTurn(command, args, r)
<1>1. /\ r.refusal # "none" \/ r.at > Len(args) => q = r
      /\ r.refusal = "none" /\ r.at <= Len(args) /\ w.kind # "word" => q = parseOne(command, args, r)
      /\ r.refusal = "none" /\ r.at <= Len(args) /\ w.kind = "word" =>
                 q = IF WordText(w) = NoText THEN RefuseLine(r, "refused") ELSE TakePositional(r, WordText(w))
      /\ r.at \in Nat \ {0} /\ Len(args) \in Nat /\ (r.at <= Len(args) => w \in Vocabulary)
  BY TurnCases, Zenon
<1> HIDE DEF w, q
<1>2. CASE r.refusal # "none" \/ r.at > Len(args)
  BY <1>1, <1>2 DEF q
<1>3. CASE r.refusal = "none" /\ r.at <= Len(args)
  <2>1. parseOne(command, args, r) \in Reading
    BY <1>3, ParseOneTyped
  <2>2. WordText(w) \in AllTexts
    BY <1>1, <1>3 DEF AllTexts
  <2>3. RefuseLine(r, "refused") \in Reading /\ TakePositional(r, WordText(w)) \in Reading
    BY <2>2, RefuseIs, TakePositionalIs
  <2>. QED
    BY <1>1, <1>3, <2>1, <2>3 DEF q
<1>. QED
  BY <1>1, <1>2, <1>3

\* The loop of parse.
LEMMA TurnsUnfold ==
  ASSUME NEW args \in Seq(Vocabulary)
  PROVE  LET v == LineTurns(command, args)
         IN /\ v \in [0..Len(args) -> Reading] /\ v[0] = Unread
            /\ \A n \in 1..Len(args) : v[n] = lineTurn(command, args, v[n - 1])
<1> DEFINE N == Len(args)
           V == Reading
           Step == [n \in 1..N |-> [v \in V |-> lineTurn(command, args, v)]]
           Is(g) == g = [n \in 0..N |-> IF n = 0 THEN Unread ELSE lineTurn(command, args, g[n - 1])]
<1>0. N \in Nat /\ Unread \in V
  BY UnreadIs
<1>1. Step \in [1..N -> [V -> V]]
  <2>1. ASSUME NEW v \in V PROVE lineTurn(command, args, v) \in V
    BY TurnTyped
  <2> HIDE DEF V
  <2>. QED
    BY <2>1
<1> HIDE DEF N, V
<1>2. PICK g : Loop(g, N, V, Unread, Step)
  <2> HIDE DEF Step
  <2>. QED
    BY <1>0, <1>1, LoopRuns
<1>3. ASSUME NEW n \in 0..N
      PROVE  g[n] = IF n = 0 THEN Unread ELSE lineTurn(command, args, g[n - 1])
  <2>1. g \in [0..N -> V] /\ g[0] = Unread
    BY <1>2 DEF Loop
  <2>2. CASE n # 0
    <3>1. n \in 1..N /\ n - 1 \in 0..N /\ g[n - 1] \in V
      BY <1>0, <2>1, <2>2
    <3>2. g[n] = Step[n][g[n - 1]]
      BY <1>2, <3>1 DEF Loop
    <3>. QED
      BY <2>2, <3>1, <3>2
  <2>. QED
    BY <2>1, <2>2
<1>4. Is(g)
  <2>1. g = [n \in 0..N |-> g[n]]
    BY <1>2 DEF Loop
  <2>. QED
    BY <1>3, <2>1
<1>5. Is(LineTurns(command, args))
  BY <1>4 DEF LineTurns, N
<1> DEFINE v == LineTurns(command, args)
<1> HIDE DEF v
<1>6. v = [n \in 0..N |-> IF n = 0 THEN Unread ELSE lineTurn(command, args, v[n - 1])]
  BY <1>5 DEF v
<1>7. /\ v = [n \in 0..N |-> v[n]] /\ v[0] = Unread
      /\ \A n \in 1..N : v[n] = lineTurn(command, args, v[n - 1])
  <2>1. 0 \in 0..N /\ \A n \in 1..N : n \in 0..N /\ n # 0
    BY <1>0
  <2>2. v = [n \in 0..N |-> v[n]] /\ v[0] = Unread
    BY <1>6, <2>1
  <2>3. ASSUME NEW n \in 1..N PROVE v[n] = lineTurn(command, args, v[n - 1])
    <3>1. v[n] = IF n = 0 THEN Unread ELSE lineTurn(command, args, v[n - 1])
      BY <1>6, <2>1, Zenon
    <3>. QED
      BY <2>1, <3>1
  <2>. QED
    BY <2>2, <2>3
<1>8. Loop(v, N, V, Unread, Step)
  <2>1. \A n \in 1..N : v[n - 1] \in V => v[n] = Step[n][v[n - 1]]
    BY <1>7
  <2> HIDE DEF Step
  <2>. QED
    BY <1>0, <1>1, <1>7, <2>1, LoopTyped
<1>. QED
  BY <1>7, <1>8 DEF v, Loop, N, V

\* A group as it stands on the line.
Stands(args, p, g) == \A k \in 1..Len(g) : p + k - 1 <= Len(args) /\ args[p + k - 1] = g[k]

\* What a turn that meets a group makes of it.
Effect(r, g) ==
  IF IsPositional(g) THEN (IF g[1].value = NoText THEN RefuseLine(r, "refused") ELSE TakePositional(r, g[1].value))
  ELSE IF IsOption(g) THEN TakeFlag(r, "o", Meant(g), Len(g))
  ELSE IF IsSwitch(g) THEN TakeFlag(r, "background", Meant(g), Len(g))
  ELSE RefuseLine(r, IF g = <<Flag("h")>> THEN "help" ELSE "refused")

\* parseOne in its order of tests.
LEMMA ParseOneIs ==
  ASSUME NEW args \in Seq(Vocabulary), NEW r \in Reading, r.at <= Len(args)
  PROVE  LET w == args[r.at]
             n == w.name
             known == n \in ValueFlags(command) \cup Switches(command)
             apart == n \in ValueFlags(command) /\ w.kind = "flag"
             sets == w.kind = "set" /\ (n \in ValueFlags(command) \/ w.value \in {"true", "false"})
             q == parseOne(command, args, r)
         IN /\ ~known => q = RefuseLine(r, IF n = "h" THEN "help" ELSE "refused")
            /\ apart /\ r.at # Len(args) => q = TakeFlag(r, n, WordText(args[r.at + 1]), 2)
            /\ known /\ w.kind = "flag" /\ ~apart => q = TakeFlag(r, n, "true", 1)
            /\ known /\ w.kind # "flag" => q = IF sets THEN TakeFlag(r, n, w.value, 1) ELSE RefuseLine(r, "refused")
<1> DEFINE w == args[r.at]
           n == w.name
           vals == n \in ValueFlags(command)
           known == n \in ValueFlags(command) \cup Switches(command)
           apart == vals /\ w.kind = "flag"
           sets == w.kind = "set" /\ (n \in ValueFlags(command) \/ w.value \in {"true", "false"})
           q == parseOne(command, args, r)
           e1 == RefuseLine(r, IF n = "h" THEN "help" ELSE "refused")
           e2 == TakeFlag(r, n, WordText(args[r.at + 1]), 2)
           e3 == TakeFlag(r, n, "true", 1)
           e4 == IF sets THEN TakeFlag(r, n, w.value, 1) ELSE RefuseLine(r, "refused")
           e5 == RefuseLine(r, "refused")
<1>1. q = CASE ~known -> e1
            [] apart -> IF r.at = Len(args) THEN e5 ELSE e2
            [] known /\ w.kind = "flag" /\ ~apart -> e3
            [] OTHER -> e4
  BY Zenon DEF parseOne
<1>2. vals => known
  OBVIOUS
<1> HIDE DEF q, e1, e2, e3, e4, e5, known, sets, n, vals
<1>3. /\ ~known => q = e1
      /\ apart /\ r.at # Len(args) => q = e2
      /\ known /\ w.kind = "flag" /\ ~apart => q = e3
      /\ known /\ w.kind # "flag" => q = e4
  BY <1>1, <1>2
<1>. QED
  BY <1>3, Zenon DEF q, e1, e2, e3, e4, e5, known, sets, n, vals

\* The strings that have to differ.
LEMMA Differ ==
  /\ "word" # "flag" /\ "word" # "set" /\ "flag" # "set" /\ "o" # "background" /\ "o" # "here" /\ "o" # "h"
  /\ "background" # "here" /\ "background" # "h" /\ "here" # "h" /\ "none" # "help" /\ "none" # "refused"
  /\ "help" # "refused"
OBVIOUS

\* Only get has flags.
LEMMA FlagsOf ==
  /\ command = "get" => /\ \A n : n \in ValueFlags(command) <=> n = "o"
                        /\ \A n : n \in Switches(command) <=> n = "background"
  /\ command # "get" => \A n : n \notin ValueFlags(command) \cup Switches(command)
BY DEF ValueFlags, Switches

\* One turn reads one group.
LEMMA GroupTurn ==
  ASSUME NEW args \in Seq(Vocabulary), NEW r \in Reading, r.refusal = "none", NEW g \in Groups, Stands(args, r.at, g)
  PROVE  lineTurn(command, args, r) = Effect(r, g)
<1> DEFINE w == args[r.at]
           x == args[r.at + 1]
           q == lineTurn(command, args, r)
           one == parseOne(command, args, r)
           out == RefuseLine(r, "refused")
           help == RefuseLine(r, "help")
           e == Effect(r, g)
<1>1. r.at \in Nat \ {0} /\ Len(args) \in Nat /\ Len(g) \in 1..2
  BY TurnCases, GroupWords
<1>2. r.at <= Len(args) /\ w = g[1]
  <2> DEFINE m == Len(g)
  <2>3. m \in 1..2
    BY <1>1
  <2> HIDE DEF m
  <2>4. 1 \in 1..m
    BY <2>3
  <2>5. \A p \in Nat : p + 1 - 1 = p
    OBVIOUS
  <2>1. 1 \in 1..Len(g) /\ \A p \in Nat : p + 1 - 1 = p
    BY <2>4, <2>5, Zenon DEF m
  <2>2. r.at + 1 - 1 = r.at
    BY <1>1, <2>1
  <2>. QED
    BY <2>1, <2>2 DEF Stands
<1>3. Len(g) = 2 => r.at # Len(args) /\ x = g[2]
  <2> SUFFICES ASSUME Len(g) = 2 PROVE r.at # Len(args) /\ x = g[2]
    OBVIOUS
  <2>1. 2 \in 1..Len(g) /\ r.at + 2 - 1 = r.at + 1
    BY <1>1
  <2>2. r.at + 1 <= Len(args) /\ args[r.at + 1] = g[2]
    BY <2>1 DEF Stands
  <2>. QED
    BY <1>1, <2>2
<1>4. /\ w.kind # "word" => q = one
      /\ w.kind = "word" => q = IF WordText(w) = NoText THEN out ELSE TakePositional(r, WordText(w))
  BY <1>2, TurnCases, Zenon
<1>5. LET n == w.name
          known == n \in ValueFlags(command) \cup Switches(command)
          apart == n \in ValueFlags(command) /\ w.kind = "flag"
          sets == w.kind = "set" /\ (n \in ValueFlags(command) \/ w.value \in {"true", "false"})
      IN /\ ~known => one = RefuseLine(r, IF n = "h" THEN "help" ELSE "refused")
         /\ apart /\ r.at # Len(args) => one = TakeFlag(r, n, WordText(x), 2)
         /\ known /\ w.kind = "flag" /\ ~apart => one = TakeFlag(r, n, "true", 1)
         /\ known /\ w.kind # "flag" => one = IF sets THEN TakeFlag(r, n, w.value, 1) ELSE out
  BY <1>2, ParseOneIs, Zenon
<1> HIDE DEF w, x, q, one, out, help
<1>6. CASE \E t \in Texts : g = <<Word(t)>>
  <2>1. PICK t \in Texts : g = <<Word(t)>>
    BY <1>6
  <2> DEFINE y == Word(t)
  <2>2. y.kind = "word" /\ y.value = t /\ WordText(y) = t
    BY WordParts
  <2> HIDE DEF y
  <2>3. g[1] = y
    BY <2>1 DEF y
  <2>4. IsPositional(g) /\ g[1].value = t
    BY <2>2, <2>3 DEF IsPositional
  <2>5. e = IF t = NoText THEN out ELSE TakePositional(r, t)
    BY <2>4, Zenon DEF Effect, out
  <2>6. w.kind = "word" /\ WordText(w) = t
    BY <1>2, <2>2, <2>3
  <2> HIDE DEF e
  <2>7. q = IF t = NoText THEN out ELSE TakePositional(r, t)
    BY <1>4, <2>6, Zenon
  <2>. QED
    BY <2>5, <2>7, Zenon DEF q, e
<1>7. CASE \E t \in Texts : g = <<Set("o", t)>>
  <2>1. PICK t \in Texts : g = <<Set("o", t)>>
    BY <1>7
  <2> DEFINE y == Set("o", t)
  <2>2. y.kind = "set" /\ y.name = "o" /\ y.value = t
    BY WordParts
  <2> HIDE DEF y
  <2>3. g[1] = y /\ Len(g) = 1 /\ g = <<y>>
    BY <2>1 DEF y
  <2>4. ~IsPositional(g) /\ (IsOption(g) <=> command = "get") /\ ~IsSwitch(g) /\ Meant(g) = t
    BY <2>2, <2>3, Differ DEF IsPositional, IsOption, IsSwitch, Meant
  <2>5. g # <<Flag("h")>>
    <3>1. Flag("h").kind = "flag"
      BY WordParts
    <3> DEFINE f == Flag("h")
    <3> HIDE DEF f
    <3>2. f # y
      BY <2>2, <3>1, Differ DEF f
    <3>3. <<f>> # <<y>>
      BY <3>2
    <3>. QED
      BY <2>3, <3>3 DEF f
  <2>6. e = IF command = "get" THEN TakeFlag(r, "o", t, 1) ELSE out
    BY <2>3, <2>4, <2>5, Zenon DEF Effect, out
  <2>7. q = one
    BY <1>2, <1>4, <2>2, <2>3, Differ
  <2>8. one = IF command = "get" THEN TakeFlag(r, "o", t, 1) ELSE out
    BY <1>2, <1>5, <2>2, <2>3, Differ, FlagsOf DEF out
  <2> HIDE DEF e
  <2>. QED
    BY <2>6, <2>7, <2>8, Zenon DEF q, e
<1>8. CASE \E t \in Texts : g = <<Set("background", t)>>
  <2>1. PICK t \in Texts : g = <<Set("background", t)>>
    BY <1>8
  <2> DEFINE y == Set("background", t)
             on == command = "get" /\ t \in {"true", "false"}
  <2>2. y.kind = "set" /\ y.name = "background" /\ y.value = t
    BY WordParts
  <2> HIDE DEF y
  <2>3. g[1] = y /\ Len(g) = 1 /\ g = <<y>>
    BY <2>1 DEF y
  <2>4. ~IsPositional(g) /\ ~IsOption(g) /\ (IsSwitch(g) <=> on) /\ Meant(g) = t
    BY <2>2, <2>3, Differ DEF IsPositional, IsOption, IsSwitch, Meant
  <2>5. g # <<Flag("h")>>
    <3>1. Flag("h").kind = "flag"
      BY WordParts
    <3> DEFINE f == Flag("h")
    <3> HIDE DEF f
    <3>2. f # y
      BY <2>2, <3>1, Differ DEF f
    <3>3. <<f>> # <<y>>
      BY <3>2
    <3>. QED
      BY <2>3, <3>3 DEF f
  <2>6. e = IF on THEN TakeFlag(r, "background", t, 1) ELSE out
    <3> HIDE DEF on
    <3>. QED
      BY <2>3, <2>4, <2>5, Zenon DEF Effect, out
  <2>7. q = one
    BY <1>2, <1>4, <2>2, <2>3, Differ
  <2>8. one = IF on THEN TakeFlag(r, "background", t, 1) ELSE out
    BY <1>2, <1>5, <2>2, <2>3, Differ, FlagsOf DEF out
  <2> HIDE DEF e, on
  <2>. QED
    BY <2>6, <2>7, <2>8, Zenon DEF q, e
<1>9. CASE g = <<Flag("background")>>
  <2> DEFINE y == Flag("background")
  <2>2. y.kind = "flag" /\ y.name = "background" /\ y.value = NoText
    BY WordParts
  <2> HIDE DEF y
  <2>3. g[1] = y /\ Len(g) = 1 /\ g = <<y>>
    BY <1>9 DEF y
  <2>4. ~IsPositional(g) /\ ~IsOption(g) /\ (IsSwitch(g) <=> command = "get") /\ Meant(g) = "true"
    BY <2>2, <2>3, Differ DEF IsPositional, IsOption, IsSwitch, Meant
  <2>5. g # <<Flag("h")>>
    <3>1. Flag("h").name = "h"
      BY WordParts
    <3> DEFINE f == Flag("h")
    <3> HIDE DEF f
    <3>2. f # y
      BY <2>2, <3>1, Differ DEF f
    <3>3. <<f>> # <<y>>
      BY <3>2
    <3>. QED
      BY <2>3, <3>3 DEF f
  <2>6. e = IF command = "get" THEN TakeFlag(r, "background", "true", 1) ELSE out
    BY <2>3, <2>4, <2>5, Zenon DEF Effect, out
  <2>7. q = one
    BY <1>2, <1>4, <2>2, <2>3, Differ
  <2>8. one = IF command = "get" THEN TakeFlag(r, "background", "true", 1) ELSE out
    BY <1>2, <1>5, <2>2, <2>3, Differ, FlagsOf DEF out
  <2> HIDE DEF e
  <2>. QED
    BY <2>6, <2>7, <2>8, Zenon DEF q, e
<1>10. ASSUME NEW name \in {"here", "h"}, g = <<Flag(name)>> PROVE q = e
  <2> DEFINE y == Flag(name)
             why == IF name = "h" THEN "help" ELSE "refused"
  <2>2. y.kind = "flag" /\ y.name = name
    BY WordParts
  <2> HIDE DEF y
  <2>3. g[1] = y /\ Len(g) = 1 /\ g = <<y>>
    BY <1>10 DEF y
  <2>4. ~IsPositional(g) /\ ~IsOption(g) /\ ~IsSwitch(g)
    BY <2>2, <2>3, Differ DEF IsPositional, IsOption, IsSwitch
  <2>5. g = <<Flag("h")>> <=> name = "h"
    <3>1. Flag("h").name = "h"
      BY WordParts
    <3> DEFINE f == Flag("h")
    <3> HIDE DEF f
    <3>2. f = y <=> name = "h"
      <4>1. name = "h" => f = y
        BY DEF f, y
      <4>2. f.name = "h"
        BY <3>1 DEF f
      <4>. QED
        BY <2>2, <4>1, <4>2
    <3>3. <<f>> = <<y>> <=> f = y
      OBVIOUS
    <3>. QED
      BY <2>3, <3>2, <3>3 DEF f
  <2>6. e = RefuseLine(r, why)
    BY <2>4, <2>5, Zenon DEF Effect
  <2>7. q = one
    BY <1>2, <1>4, <2>2, <2>3, Differ
  <2>8. name \notin ValueFlags(command) \cup Switches(command)
    BY Differ, FlagsOf
  <2>9. one = RefuseLine(r, why)
    BY <1>2, <1>5, <2>2, <2>3, <2>8, Zenon
  <2> HIDE DEF e, why
  <2>. QED
    BY <2>6, <2>7, <2>9, Zenon
<1>11. ASSUME NEW z, NEW t, g = <<Flag("o"), z>>, WordText(z) = t PROVE q = e
  <2> DEFINE y == Flag("o")
  <2>2. y.kind = "flag" /\ y.name = "o"
    BY WordParts
  <2> HIDE DEF y
  <2>3. g[1] = y /\ Len(g) = 2 /\ g[2] = z
    BY <1>11 DEF y
  <2>4. ~IsPositional(g) /\ (IsOption(g) <=> command = "get") /\ ~IsSwitch(g)
    BY <2>2, <2>3, Differ DEF IsPositional, IsOption, IsSwitch
  <2>10. Meant(g) = t
    BY <1>11, <2>2, <2>3, Differ DEF Meant
  <2>5. g # <<Flag("h")>>
    <3>1. Len(<<Flag("h")>>) = 1
      OBVIOUS
    <3>. QED
      BY <2>3, <3>1
  <2>6. e = IF command = "get" THEN TakeFlag(r, "o", t, 2) ELSE out
    BY <2>3, <2>4, <2>5, <2>10, Zenon DEF Effect, out
  <2>7. q = one
    BY <1>2, <1>4, <2>2, <2>3, Differ
  <2>8. WordText(x) = t /\ r.at # Len(args)
    BY <1>3, <1>11, <2>3
  <2>9. one = IF command = "get" THEN TakeFlag(r, "o", t, 2) ELSE out
    BY <1>2, <1>5, <2>2, <2>3, <2>8, Differ, FlagsOf DEF out
  <2> HIDE DEF e
  <2>. QED
    BY <2>6, <2>7, <2>9, Zenon
<1>12. Shape(g)
  BY GroupShape
<1> HIDE DEF e
<1>. QED
  BY <1>6, <1>7, <1>8, <1>9, <1>10, <1>11, <1>12, Zenon DEF Shape, q, e

-----------------------------------------------------------------------------
(***************************************************************************)
(* The groups read so far.                                                 *)
(***************************************************************************)
Named(k) == {i \in 1..k : IsPositional(groups[i])}
Chosen(k) == {i \in 1..k : IsOption(groups[i])}
Turned(k) == {i \in 1..k : IsSwitch(groups[i])}
Pairs(n, L) == {<<n, Meant(groups[i])>> : i \in L}
Flagged(k) == Pairs("o", LastOf(Chosen(k))) \cup Pairs("background", LastOf(Turned(k)))
Honoured(g) == (IsPositional(g) /\ g[1].value # NoText) \/ IsOption(g) \/ IsSwitch(g)

Ordered(k, p) ==
  /\ Len(p) = Cardinality(Named(k))
  /\ \A i \in Named(k) : p[Cardinality(Before(Named(k), i)) + 1] = groups[i][1].value

\* What parse has made of the first k groups: it has refused one of them, or
\* taken every one for what it was meant to be.
Refusal(k, r) ==
  /\ r.refusal # "none" /\ \E i \in 1..k : ~Honoured(groups[i])
  /\ r.refusal = "help" => \E i \in 1..k : groups[i] = <<Flag("h")>>
Understood(k, r) ==
  /\ r.refusal = "none" /\ \A i \in 1..k : Honoured(groups[i])
  /\ r.at = Len(Joined(groups)[k]) + 1 /\ Ordered(k, r.pos) /\ r.flags = Flagged(k)

\* A positional is no flag, and -o is not --background.
LEMMA GroupKinds ==
  ASSUME NEW g \in Groups
  PROVE  (IsPositional(g) => ~IsOption(g) /\ ~IsSwitch(g)) /\ (IsOption(g) => ~IsSwitch(g))
<1>1. NoText # "o" /\ NoText # "background"
  BY Zenon DEF NoText
<1>2. IsPositional(g) => g[1].name = NoText
  <2>1. CASE \E t \in Texts : g = <<Word(t)>>
    <3>1. PICK t \in Texts : g = <<Word(t)>>
      BY <2>1
    <3> DEFINE y == Word(t)
    <3>2. y.name = NoText
      BY WordParts
    <3> HIDE DEF y
    <3>3. g[1] = y
      BY <3>1 DEF y
    <3>. QED
      BY <3>2, <3>3
  <2>2. ASSUME NEW n, NEW v, g = <<Set(n, v)>> PROVE ~IsPositional(g)
    <3> DEFINE y == Set(n, v)
    <3>1. y.kind = "set"
      BY WordParts
    <3> HIDE DEF y
    <3>2. g[1] = y
      BY <2>2 DEF y
    <3>. QED
      BY <3>1, <3>2, Differ DEF IsPositional
  <2>3. ASSUME NEW n, g[1] = Flag(n) PROVE ~IsPositional(g)
    <3> DEFINE y == Flag(n)
    <3>1. y.kind = "flag"
      BY WordParts
    <3> HIDE DEF y
    <3>2. g[1] = y
      BY <2>3 DEF y
    <3>. QED
      BY <3>1, <3>2, Differ DEF IsPositional
  <2>4. ASSUME NEW w, NEW n, g = <<Flag(n), w>> PROVE g[1] = Flag(n)
    BY <2>4
  <2>5. ASSUME NEW n, g = <<Flag(n)>> PROVE g[1] = Flag(n)
    BY <2>5
  <2>6. Shape(g)
    BY GroupShape
  <2>. QED
    BY <2>1, <2>2, <2>3, <2>4, <2>5, <2>6, Zenon DEF Shape
<1>. QED
  BY <1>1, <1>2, Differ DEF IsOption, IsSwitch

\* What a group means is a text.
LEMMA MeantTyped ==
  ASSUME NEW g \in Groups
  PROVE  Meant(g) \in AllTexts /\ g[1].value \in AllTexts /\ "o" \in FlagNames /\ "background" \in FlagNames
<1>1. g \in Seq(Vocabulary) /\ Len(g) \in 1..2
  BY GroupWords
<1>2. g[1] \in Vocabulary /\ (Len(g) = 2 => g[2] \in Vocabulary)
  BY <1>1
<1>3. g[1].value \in AllTexts /\ "true" \in AllTexts /\ (Len(g) = 2 => WordText(g[2]) \in AllTexts)
  BY <1>2 DEF AllTexts
<1>4. (Meant(g) = WordText(g[2]) /\ Len(g) = 2) \/ Meant(g) = g[1].value \/ Meant(g) = "true"
  <2> DEFINE t == WordText(g[2])
             v == g[1].value
  <2>1. Meant(g) = CASE Len(g) = 2 -> t [] g[1].kind = "set" -> v [] OTHER -> "true"
    BY Zenon DEF Meant
  <2> HIDE DEF t, v
  <2>2. (Meant(g) = t /\ Len(g) = 2) \/ Meant(g) = v \/ Meant(g) = "true"
    BY <2>1
  <2>. QED
    BY <2>2, Zenon DEF t, v
<1>5. "o" \in FlagNames
  <2>1. Flag("o") \in Vocabulary /\ Flag("o").name = "o"
    BY WordParts DEF Vocabulary
  <2>. QED
    BY <2>1, Zenon DEF FlagNames
<1>6. "background" \in FlagNames
  <2>1. Flag("background") \in Vocabulary /\ Flag("background").name = "background"
    BY WordParts, Zenon DEF Vocabulary, Singles
  <2>. QED
    BY <2>1, Zenon DEF FlagNames
<1>. QED
  BY <1>3, <1>4, <1>5, <1>6

\* The newest is the last.
LEMMA LastGrows ==
  ASSUME NEW k \in Nat \ {0}, NEW L, L \subseteq 1..(k - 1)
  PROVE  LastOf(L \cup {k}) = {k}
<1>1. k <= k /\ \A j \in L : j <= k /\ ~(k <= j)
  OBVIOUS
<1>2. k \in LastOf(L \cup {k})
  BY <1>1, Zenon DEF LastOf
<1>3. ASSUME NEW i \in LastOf(L \cup {k}) PROVE i = k
  <2>1. i \in L \cup {k} /\ k <= i
    BY Zenon DEF LastOf
  <2>. QED
    BY <1>1, <2>1
<1>. QED
  BY <1>2, <1>3, Zenon

\* The pairs of one flag.
LEMMA PairsWithout ==
  ASSUME NEW n, NEW m, n # m, NEW L, NEW M
  PROVE  /\ {f \in Pairs(n, L) \cup Pairs(m, M) : f[1] # n} = Pairs(m, M)
         /\ {f \in Pairs(n, L) \cup Pairs(m, M) : f[1] # m} = Pairs(n, L)
BY DEF Pairs

\* One pair.
LEMMA PairsOne ==
  ASSUME NEW n, NEW k
  PROVE  Pairs(n, {k}) = {<<n, Meant(groups[k])>>}
BY DEF Pairs

\* A kind after one more group.
LEMMA KindsGrow ==
  ASSUME NEW k \in Nat \ {0}
  PROVE  /\ Named(k) = IF IsPositional(groups[k]) THEN Named(k - 1) \cup {k} ELSE Named(k - 1)
         /\ Chosen(k) = IF IsOption(groups[k]) THEN Chosen(k - 1) \cup {k} ELSE Chosen(k - 1)
         /\ Turned(k) = IF IsSwitch(groups[k]) THEN Turned(k - 1) \cup {k} ELSE Turned(k - 1)
         /\ Named(k - 1) \subseteq 1..(k - 1) /\ Chosen(k - 1) \subseteq 1..(k - 1) /\ Turned(k - 1) \subseteq 1..(k - 1)
<1>1. 1..k = 1..(k - 1) \cup {k}
  OBVIOUS
<1>. QED
  BY <1>1 DEF Named, Chosen, Turned

\* The flags after one more group.
LEMMA FlaggedGrows ==
  ASSUME NEW k \in Nat \ {0}, groups[k] \in Groups
  PROVE  LET g == groups[k]
             old == Flagged(k - 1)
         IN /\ IsOption(g) => Flagged(k) = {f \in old : f[1] # "o"} \cup {<<"o", Meant(g)>>}
            /\ IsSwitch(g) => Flagged(k) = {f \in old : f[1] # "background"} \cup {<<"background", Meant(g)>>}
            /\ ~IsOption(g) /\ ~IsSwitch(g) => Flagged(k) = old
<1> DEFINE g == groups[k]
           old == Flagged(k - 1)
           C == LastOf(Chosen(k - 1))
           T == LastOf(Turned(k - 1))
           o == "o"
           b == "background"
<1>1. o # b
  BY Differ
<1>2. old = Pairs(o, C) \cup Pairs(b, T)
  BY DEF Flagged
<1>3. IsOption(g) => ~IsSwitch(g)
  BY GroupKinds
<1>4. IsOption(g) => Flagged(k) = Pairs(o, {k}) \cup Pairs(b, T)
  BY <1>3, KindsGrow, LastGrows DEF Flagged
<1>5. IsSwitch(g) => Flagged(k) = Pairs(o, C) \cup Pairs(b, {k})
  BY <1>3, KindsGrow, LastGrows DEF Flagged
<1>6. ~IsOption(g) /\ ~IsSwitch(g) => Flagged(k) = old
  BY KindsGrow DEF Flagged
<1> HIDE DEF o, b, C, T, old
<1>7. {f \in old : f[1] # o} = Pairs(b, T) /\ {f \in old : f[1] # b} = Pairs(o, C)
  BY <1>1, <1>2, PairsWithout
<1>8. Pairs(o, {k}) = {<<o, Meant(g)>>} /\ Pairs(b, {k}) = {<<b, Meant(g)>>}
  BY PairsOne
<1>9. /\ IsOption(g) => Flagged(k) = {f \in old : f[1] # o} \cup {<<o, Meant(g)>>}
      /\ IsSwitch(g) => Flagged(k) = {f \in old : f[1] # b} \cup {<<b, Meant(g)>>}
  BY <1>4, <1>5, <1>7, <1>8
<1>. QED
  BY <1>6, <1>9, Zenon DEF o, b, old

\* The positionals after one more.
LEMMA NamedFinite ==
  ASSUME NEW k \in Nat
  PROVE  IsFiniteSet(Named(k)) /\ Cardinality(Named(k)) \in Nat /\ Named(k) \subseteq 1..k
<1>1. IsFiniteSet(1..k)
  BY FS_Interval
<1>2. Named(k) \subseteq 1..k
  BY DEF Named
<1>. QED
  BY <1>1, <1>2, FS_Subset, FS_CardinalityType

\* A positional comes after the others,
LEMMA OrderedGrows ==
  ASSUME NEW k \in Nat \ {0}, NEW p \in Seq(AllTexts), Ordered(k - 1, p), IsPositional(groups[k]),
         groups[k][1].value \in AllTexts
  PROVE  Ordered(k, Append(p, groups[k][1].value))
<1> DEFINE v == groups[k][1].value
           Q == Named(k - 1)
           R == Named(k)
           c == Cardinality(Q)
           q == Append(p, v)
<1>0. k - 1 \in Nat
  OBVIOUS
<1>1. R = Q \cup {k} /\ k \notin Q /\ Q \subseteq 1..(k - 1) /\ IsFiniteSet(Q) /\ c \in Nat
  <2>1. R = Q \cup {k}
    BY KindsGrow
  <2>2. IsFiniteSet(Q) /\ c \in Nat /\ Q \subseteq 1..(k - 1)
    BY <1>0, NamedFinite, Zenon
  <2>3. k \notin 1..(k - 1)
    OBVIOUS
  <2>. QED
    BY <2>1, <2>2, <2>3, Zenon
<1>2. Cardinality(R) = c + 1
  BY <1>1, FS_AddElement
<1>3. Len(p) = c /\ \A i \in Q : p[Cardinality(Before(Q, i)) + 1] = groups[i][1].value
  BY DEF Ordered
<1> HIDE DEF v, Q, R, c
<1>4. Len(q) = c + 1 /\ q[c + 1] = v /\ \A j \in 1..c : q[j] = p[j]
  BY <1>1, <1>3 DEF v
<1>5. Before(R, k) = Q
  <2>1. ~(k < k) /\ \A i \in 1..(k - 1) : i < k
    OBVIOUS
  <2>. QED
    BY <1>1, <2>1, Zenon DEF Before
<1>6. ASSUME NEW i \in Q PROVE q[Cardinality(Before(R, i)) + 1] = groups[i][1].value
  <2>0. ~(k < i)
    BY <1>1
  <2>1. Before(R, i) = Before(Q, i)
    BY <1>1, <2>0 DEF Before
  <2> DEFINE B == Before(Q, i)
  <2>2. B \subseteq Q /\ B # Q
    BY <1>1 DEF Before
  <2> HIDE DEF B
  <2>3. IsFiniteSet(B) /\ Cardinality(B) <= Cardinality(Q) /\ Cardinality(B) # Cardinality(Q)
    BY <1>1, <2>2, FS_Subset
  <2>4. Cardinality(B) \in Nat
    BY <2>3, FS_CardinalityType
  <2> DEFINE n == Cardinality(B)
  <2>5. n + 1 \in 1..c
    BY <1>1, <2>3, <2>4 DEF c
  <2> HIDE DEF n
  <2>6. q[n + 1] = p[n + 1]
    BY <1>4, <2>5
  <2>7. p[n + 1] = groups[i][1].value
    BY <1>3 DEF n, B
  <2> HIDE DEF q
  <2>. QED
    BY <2>1, <2>6, <2>7 DEF n, B
<1>7. q[Cardinality(Before(R, k)) + 1] = groups[k][1].value
  BY <1>4, <1>5 DEF v, c
<1> HIDE DEF q
<1>8. \A i \in R : q[Cardinality(Before(R, i)) + 1] = groups[i][1].value
  BY <1>1, <1>6, <1>7
<1>9. Len(q) = Cardinality(R)
  BY <1>2, <1>4
<1>. QED
  BY <1>8, <1>9 DEF Ordered, R, q, v

\* and no other group is one.
LEMMA OrderedStays ==
  ASSUME NEW k \in Nat \ {0}, NEW p, Ordered(k - 1, p), ~IsPositional(groups[k])
  PROVE  Ordered(k, p)
BY KindsGrow DEF Ordered

-----------------------------------------------------------------------------
(***************************************************************************)
(* From group to group.                                                    *)
(***************************************************************************)
\* One more group: it is refused, or understood after the others.
LEMMA EffectGrows ==
  ASSUME NEW k \in Nat \ {0}, groups[k] \in Groups, NEW r \in Reading, Understood(k - 1, r),
         Len(Joined(groups)[k - 1]) \in Nat,
         Len(Joined(groups)[k]) = Len(Joined(groups)[k - 1]) + Len(groups[k])
  PROVE  LET q == Effect(r, groups[k]) IN Refusal(k, q) \/ Understood(k, q)
<1> DEFINE g == groups[k]
           q == Effect(r, g)
           m == Len(g)
           old == Len(Joined(groups)[k - 1])
           v == g[1].value
<1>1. /\ r.refusal = "none" /\ \A i \in 1..(k - 1) : Honoured(groups[i])
      /\ r.at = old + 1 /\ Ordered(k - 1, r.pos) /\ r.flags = Flagged(k - 1)
  BY DEF Understood
<1>2. m \in 1..2 /\ Meant(g) \in AllTexts /\ v \in AllTexts /\ "o" \in FlagNames /\ "background" \in FlagNames
  BY GroupWords, MeantTyped
<1>3. (IsPositional(g) => ~IsOption(g) /\ ~IsSwitch(g)) /\ (IsOption(g) => ~IsSwitch(g))
  BY GroupKinds
<1>4. r.pos \in Seq(AllTexts)
  BY DEF Reading
<1>5. k \in 1..k /\ \A i \in 1..k : i = k \/ i \in 1..(k - 1)
  OBVIOUS
<1>6. \A n \in 1..2 : old + 1 + n = old + n + 1
  OBVIOUS
<1>7. ASSUME IsPositional(g), v = NoText PROVE Refusal(k, q)
  <2>1. q = RefuseLine(r, "refused")
    BY <1>7, Zenon DEF Effect
  <2>2. q.refusal = "refused"
    BY <2>1, RefuseIs
  <2>3. ~Honoured(g)
    BY <1>3, <1>7, Zenon DEF Honoured
  <2> HIDE DEF q
  <2>. QED
    BY <1>5, <2>2, <2>3, Differ DEF Refusal
<1>8. ASSUME ~IsPositional(g), ~IsOption(g), ~IsSwitch(g) PROVE Refusal(k, q)
  <2> DEFINE why == IF g = <<Flag("h")>> THEN "help" ELSE "refused"
  <2>1. q = RefuseLine(r, why)
    BY <1>8, Zenon DEF Effect
  <2>2. q.refusal = why
    BY <2>1, RefuseIs
  <2>3. ~Honoured(g)
    BY <1>8, Zenon DEF Honoured
  <2> HIDE DEF q
  <2>4. q.refusal # "none" /\ (q.refusal = "help" => g = <<Flag("h")>>)
    BY <2>2, Differ
  <2>. QED
    BY <1>5, <2>3, <2>4, Zenon DEF Refusal
<1>9. ASSUME IsPositional(g), v # NoText PROVE Understood(k, q)
  <2>1. q = TakePositional(r, v)
    BY <1>9, Zenon DEF Effect
  <2>2. q.refusal = r.refusal /\ q.pos = Append(r.pos, v) /\ q.at = r.at + 1 /\ q.flags = r.flags
    <3> DEFINE e == TakePositional(r, v)
    <3>1. v \in AllTexts
      BY <1>2
    <3>2. e.refusal = r.refusal /\ e.pos = Append(r.pos, v) /\ e.at = r.at + 1 /\ e.flags = r.flags
      <4> HIDE DEF v
      <4>. QED
        BY <3>1, TakePositionalIs, Zenon
    <3> HIDE DEF e, q, v
    <3>3. q = e
      BY <2>1 DEF e
    <3>. QED
      BY <3>2, <3>3
  <2>3. m = 1
    <3>1. Shape(g)
      BY GroupShape
    <3>2. ASSUME NEW w, g = <<Flag("o"), w>> PROVE FALSE
      <4>1. g[1] = Flag("o")
        BY <3>2
      <4>2. g[1].kind = "flag"
        BY <4>1, WordParts
      <4>. QED
        BY <1>9, <4>2, Differ DEF IsPositional
    <3>3. \A w : Len(<<w>>) = 1
      OBVIOUS
    <3>. QED
      BY <3>1, <3>2, <3>3, Zenon DEF Shape
  <2>4. Ordered(k, q.pos)
    BY <1>1, <1>2, <1>4, <1>9, <2>2, OrderedGrows, Zenon
  <2>5. Flagged(k) = Flagged(k - 1)
    BY <1>3, <1>9, FlaggedGrows, Zenon
  <2>6. Honoured(g)
    BY <1>9, Zenon DEF Honoured
  <2> HIDE DEF q, old, m
  <2>7. q.at = Len(Joined(groups)[k]) + 1
    <3> DEFINE c == Len(Joined(groups)[k])
               a == r.at
    <3>1. q.at = a + 1 /\ a = old + 1 /\ old \in Nat /\ c = old + 1
      BY <1>1, <2>2, <2>3 DEF old, m
    <3> HIDE DEF c, a
    <3>2. a + 1 = c + 1
      BY <3>1
    <3>. QED
      BY <3>1, <3>2 DEF c
  <2>. QED
    BY <1>1, <1>5, <2>2, <2>4, <2>5, <2>6, <2>7, Zenon DEF Understood
<1>10. ASSUME NEW n \in {"o", "background"}, ~IsPositional(g), Honoured(g), q = TakeFlag(r, n, Meant(g), m),
              Flagged(k) = {f \in Flagged(k - 1) : f[1] # n} \cup {<<n, Meant(g)>>}
       PROVE  Understood(k, q)
  <2>1. n \in FlagNames
    BY <1>2
  <2>2. /\ q.refusal = r.refusal /\ q.pos = r.pos /\ q.at = r.at + m
        /\ q.flags = {f \in r.flags : f[1] # n} \cup {<<n, Meant(g)>>}
    <3> DEFINE t == Meant(g)
               e == TakeFlag(r, n, t, m)
    <3>0. q = e
      BY <1>10
    <3>1. t \in AllTexts /\ m \in 1..2
      BY <1>2
    <3>2. /\ e.refusal = r.refusal /\ e.pos = r.pos /\ e.at = r.at + m
          /\ e.flags = {f \in r.flags : f[1] # n} \cup {<<n, t>>}
      <4> HIDE DEF t, m
      <4>. QED
        BY <2>1, <3>1, TakeFlagIs
    <3> HIDE DEF e, q, m, t
    <3>3. /\ q.refusal = r.refusal /\ q.pos = r.pos /\ q.at = r.at + m
          /\ q.flags = {f \in r.flags : f[1] # n} \cup {<<n, t>>}
      BY <3>0, <3>2
    <3>. QED
      BY <3>3, Zenon DEF t
  <2>3. q.flags = Flagged(k)
    BY <1>1, <1>10, <2>2, Zenon
  <2>4. Ordered(k, q.pos)
    BY <1>1, <1>10, <2>2, OrderedStays, Zenon
  <2> HIDE DEF q
  <2>5. q.at = Len(Joined(groups)[k]) + 1
    <3> DEFINE c == Len(Joined(groups)[k])
               a == r.at
    <3>1. q.at = a + m /\ a = old + 1 /\ old \in Nat /\ m \in 1..2 /\ c = old + m
      BY <1>1, <1>2, <2>2
    <3> HIDE DEF old, m, c, a
    <3>2. a + m = c + 1
      BY <3>1
    <3>. QED
      BY <3>1, <3>2 DEF c
  <2>. QED
    BY <1>1, <1>5, <1>10, <2>2, <2>3, <2>4, <2>5, Zenon DEF Understood
<1>11. ASSUME IsOption(g) PROVE Understood(k, q)
  <2>1. ~IsPositional(g) /\ Honoured(g)
    BY <1>3, <1>11 DEF Honoured
  <2>2. q = TakeFlag(r, "o", Meant(g), m)
    BY <1>11, <2>1, Zenon DEF Effect
  <2>3. Flagged(k) = {f \in Flagged(k - 1) : f[1] # "o"} \cup {<<"o", Meant(g)>>}
    BY <1>11, FlaggedGrows, Zenon
  <2>. QED
    BY <1>10, <2>1, <2>2, <2>3, Zenon
<1>12. ASSUME IsSwitch(g) PROVE Understood(k, q)
  <2>1. ~IsPositional(g) /\ ~IsOption(g) /\ Honoured(g)
    BY <1>3, <1>12 DEF Honoured
  <2>2. q = TakeFlag(r, "background", Meant(g), m)
    BY <1>12, <2>1, Zenon DEF Effect
  <2>3. Flagged(k) = {f \in Flagged(k - 1) : f[1] # "background"} \cup {<<"background", Meant(g)>>}
    BY <1>12, FlaggedGrows, Zenon
  <2>. QED
    BY <1>10, <2>1, <2>2, <2>3, Zenon
<1>. QED
  BY <1>7, <1>8, <1>9, <1>11, <1>12, Zenon

\* The words of the groups, and where each group stands.
LEMMA LineIs ==
  ASSUME groups \in Seq(Groups)
  PROVE  LET j == Joined(groups)
             N == Len(groups)
         IN /\ Line \in Seq(Vocabulary) /\ N \in Nat /\ N <= Len(Line) /\ Len(j[N]) = Len(Line)
            /\ \A k \in 0..N : Len(j[k]) \in Nat /\ k <= Len(j[k])
            /\ Len(j[0]) = 0
            /\ \A k \in 1..N : /\ groups[k] \in Groups /\ Len(j[k]) = Len(j[k - 1]) + Len(groups[k])
                               /\ Stands(Line, Len(j[k - 1]) + 1, groups[k])
<1> DEFINE j == Joined(groups)
           N == Len(groups)
<1>1. N \in Nat /\ \A k \in 1..N : groups[k] \in Groups
  OBVIOUS
<1>2. groups \in Seq(Seq(Vocabulary)) /\ \A k \in 1..N : Len(groups[k]) \in 1..2
  <2>1. \A k \in 1..N : groups[k] \in Seq(Vocabulary) /\ Len(groups[k]) \in 1..2
    BY <1>1, GroupWords
  <2>2. groups = [k \in 1..N |-> groups[k]]
    OBVIOUS
  <2>3. groups \in [1..N -> Seq(Vocabulary)]
    BY <2>1, <2>2
  <2> HIDE DEF N
  <2>4. groups \in Seq(Seq(Vocabulary))
    BY <1>1, <2>3, SeqDef
  <2>. QED
    BY <2>1, <2>4
<1>3. /\ j \in [0..N -> Seq(Vocabulary)] /\ j[0] = <<>>
      /\ \A n \in 1..N : j[n] = j[n - 1] \o groups[n]
  BY <1>2, JoinedUnfold, Zenon
<1>4. Line = j[N] /\ N \in 0..N /\ 0 \in 0..N
  BY <1>1 DEF Line
<1>5. ASSUME NEW k \in 1..N
      PROVE  /\ Len(j[k]) = Len(j[k - 1]) + Len(groups[k]) /\ Len(j[k]) <= Len(Line)
             /\ \A i \in 1..Len(groups[k]) : Line[Len(j[k - 1]) + i] = groups[k][i]
  <2>1. 1 \in 1..Len(groups[k])
    <3> DEFINE m == Len(groups[k])
    <3>1. m \in 1..2
      BY <1>2
    <3> HIDE DEF m
    <3>2. 1 \in 1..m
      BY <3>1
    <3>. QED
      BY <3>2 DEF m
  <2>2. ASSUME NEW i \in 1..Len(groups[k])
        PROVE  /\ Len(j[k]) = Len(j[k - 1]) + Len(groups[k]) /\ Len(j[k]) <= Len(Line)
               /\ Line[Len(j[k - 1]) + i] = groups[k][i]
    BY <1>2, <1>4, JoinedAt, Zenon
  <2> HIDE DEF j
  <2>. QED
    BY <2>1, <2>2, Zenon
<1> HIDE DEF j, N
<1>6. \A k \in 0..N : Len(j[k]) \in Nat
  BY <1>3
<1>7. \A k \in 0..N : k <= Len(j[k])
  <2> DEFINE S == {k \in 0..N : k <= Len(j[k])}
  <2>1. 0 \in S
    BY <1>1, <1>3, <1>4
  <2>2. ASSUME NEW k \in 1..N, k - 1 \in S PROVE k \in S
    <3> DEFINE a == Len(j[k - 1])
               b == Len(j[k])
               m == Len(groups[k])
    <3>1. a \in Nat /\ k - 1 <= a /\ b = a + m /\ m \in 1..2
      BY <1>2, <1>5, <1>6, <2>2
    <3> HIDE DEF a, b, m
    <3>2. k <= b /\ k \in 0..N
      BY <1>1, <3>1
    <3>. QED
      BY <3>2 DEF b
  <2> HIDE DEF S
  <2>3. \A k \in 0..N : k \in S
    BY <1>1, <2>1, <2>2, TurnByTurn
  <2>. QED
    BY <2>3 DEF S
<1>8. Line \in Seq(Vocabulary)
  BY <1>3, <1>4
<1>9. N <= Len(Line) /\ Len(j[N]) = Len(Line) /\ Len(j[0]) = 0
  <2>1. Len(j[0]) = 0
    BY <1>3
  <2>. QED
    BY <1>4, <1>7, <2>1
<1>10. ASSUME NEW k \in 1..N PROVE Stands(Line, Len(j[k - 1]) + 1, groups[k])
  <2> DEFINE a == Len(j[k - 1])
             b == Len(j[k])
             m == Len(groups[k])
             M == Len(Line)
  <2>0. k - 1 \in 0..N
    BY <1>1
  <2>1. a \in Nat /\ b = a + m /\ m \in 1..2 /\ M \in Nat /\ b <= M
    BY <1>2, <1>5, <1>6, <1>8, <2>0, LenProperties, Zenon
  <2> HIDE DEF a, b, m, M
  <2>2. ASSUME NEW i \in 1..m PROVE a + 1 + i - 1 <= M /\ a + 1 + i - 1 = a + i
    BY <2>1
  <2>3. ASSUME NEW i \in 1..m PROVE Line[a + i] = groups[k][i]
    BY <1>5 DEF a, m
  <2>4. ASSUME NEW i \in 1..m PROVE a + 1 + i - 1 <= M /\ Line[a + 1 + i - 1] = groups[k][i]
    BY <2>2, <2>3
  <2>. QED
    BY <2>4, Zenon DEF Stands, a, m, M
<1>. QED
  BY <1>1, <1>5, <1>6, <1>7, <1>8, <1>9, <1>10, Zenon DEF j, N

\* After as many turns as groups, and from then on.
LEMMA GroupByGroup ==
  ASSUME groups \in Seq(Groups)
  PROVE  LET r == LineTurns(command, Line)[Len(Line)]
         IN r \in Reading /\ (Refusal(Len(groups), r) \/ Understood(Len(groups), r))
<1> DEFINE N == Len(groups)
           M == Len(Line)
           v == LineTurns(command, Line)
           j == Joined(groups)
           Good(k, r) == Refusal(k, r) \/ Understood(k, r)
<1>1. /\ Line \in Seq(Vocabulary) /\ N \in Nat /\ N <= M /\ Len(j[N]) = M
      /\ \A k \in 0..N : Len(j[k]) \in Nat
      /\ Len(j[0]) = 0
      /\ \A k \in 1..N : /\ groups[k] \in Groups /\ Len(j[k]) = Len(j[k - 1]) + Len(groups[k])
                         /\ Stands(Line, Len(j[k - 1]) + 1, groups[k])
  BY LineIs, Zenon
<1>2. M \in Nat
  BY <1>1
<1>3. v \in [0..M -> Reading] /\ v[0] = Unread /\ \A n \in 1..M : v[n] = lineTurn(command, Line, v[n - 1])
  BY <1>1, TurnsUnfold, Zenon
<1> HIDE DEF v, M, N
<1>4. \A n \in 0..M : v[n] \in Reading
  BY <1>3
<1>5. \A k \in 0..N : Good(k, v[k])
  <2> DEFINE S == {k \in 0..N : Good(k, v[k])}
  <2>1. 0 \in S
    <3>1. v[0].refusal = "none" /\ v[0].pos = <<>> /\ v[0].flags = {} /\ v[0].at = 1
      BY <1>3, UnreadIs
    <3>2. 1..0 = {}
      OBVIOUS
    <3>3. Named(0) = {} /\ Chosen(0) = {} /\ Turned(0) = {}
      BY <3>2 DEF Named, Chosen, Turned
    <3>4. Flagged(0) = {}
      BY <3>3 DEF Flagged, LastOf, Pairs
    <3>5. Cardinality(Named(0)) = 0
      BY <3>3, FS_EmptySet
    <3>6. Ordered(0, v[0].pos)
      BY <3>1, <3>3, <3>5 DEF Ordered
    <3>7. v[0].at = Len(j[0]) + 1
      BY <1>1, <3>1
    <3>8. \A i \in 1..0 : Honoured(groups[i])
      BY <3>2, Zenon
    <3>9. Understood(0, v[0])
      BY <3>1, <3>4, <3>6, <3>7, <3>8, Zenon DEF Understood
    <3>10. 0 \in 0..N
      BY <1>1
    <3>. QED
      BY <3>9, <3>10, Zenon
  <2>2. ASSUME NEW k \in 1..N, k - 1 \in S PROVE k \in S
    <3> DEFINE r == v[k - 1]
               q == v[k]
    <3>1. k \in 0..N /\ k \in 1..M /\ k - 1 \in 0..M /\ k - 1 \in 0..N /\ k \in Nat \ {0} /\ k - 1 \in Nat
      BY <1>1, <1>2
    <3>2. r \in Reading /\ q = lineTurn(command, Line, r) /\ Good(k - 1, r)
      BY <1>3, <1>4, <2>2, <3>1
    <3> HIDE DEF r, q
    <3>3. CASE Refusal(k - 1, r)
      <4>1. q = r
        BY <1>1, <3>2, <3>3, TurnCases, Zenon DEF Refusal
      <4>2. \A i \in 1..(k - 1) : i \in 1..k
        BY <3>1
      <4>3. Refusal(k, r)
        BY <3>3, <4>2, Zenon DEF Refusal
      <4>. QED
        BY <3>1, <4>1, <4>3, Zenon DEF q
    <3>4. CASE Understood(k - 1, r)
      <4>1. r.refusal = "none" /\ r.at = Len(j[k - 1]) + 1
        BY <3>4, Zenon DEF Understood
      <4>2. groups[k] \in Groups /\ Stands(Line, r.at, groups[k])
        BY <1>1, <4>1, Zenon
      <4>3. q = Effect(r, groups[k])
        BY <1>1, <3>2, <4>1, <4>2, GroupTurn, Zenon
      <4>4. Len(j[k - 1]) \in Nat /\ Len(j[k]) = Len(j[k - 1]) + Len(groups[k])
        BY <1>1, <3>1, Zenon
      <4>5. Good(k, q)
        BY <3>1, <3>2, <3>4, <4>2, <4>3, <4>4, EffectGrows, Zenon
      <4>. QED
        BY <3>1, <4>5, Zenon DEF q
    <3>. QED
      BY <3>2, <3>3, <3>4
  <2> HIDE DEF S
  <2>3. \A k \in 0..N : k \in S
    BY <1>1, <2>1, <2>2, TurnByTurn
  <2>. QED
    BY <2>3, Zenon DEF S
<1>6. N \in 0..N /\ N \in 0..M /\ M \in 0..M
  BY <1>1, <1>2
<1>7. Good(N, v[N]) /\ v[N] \in Reading
  BY <1>4, <1>5, <1>6, Zenon
<1>8. lineTurn(command, Line, v[N]) = v[N]
  <2> DEFINE r == v[N]
  <2>1. r.refusal # "none" \/ r.at > M
    <3>1. CASE Refusal(N, r)
      BY <3>1 DEF Refusal
    <3>2. CASE Understood(N, r)
      <4>1. r.at = M + 1
        BY <1>1, <3>2, Zenon DEF Understood
      <4>. QED
        BY <1>2, <4>1
    <3>. QED
      BY <1>7, <3>1, <3>2
  <2> HIDE DEF r
  <2>2. r \in Reading
    BY <1>7 DEF r
  <2>3. lineTurn(command, Line, r) = r
    BY <1>1, <2>1, <2>2, TurnCases, Zenon DEF M
  <2>. QED
    BY <2>3, Zenon DEF r
<1>9. \A n \in 0..M : n >= N => v[n] = v[N]
  <2> DEFINE S == {n \in 0..M : n >= N => v[n] = v[N]}
  <2>1. 0 \in S
    <3>1. 0 >= N => N = 0
      BY <1>1
    <3>2. 0 \in 0..M
      BY <1>2
    <3>. QED
      BY <3>1, <3>2
  <2>2. ASSUME NEW n \in 1..M, n - 1 \in S PROVE n \in S
    <3>0. n \in 0..M /\ v[n] = lineTurn(command, Line, v[n - 1])
      BY <1>2, <1>3
    <3>1. CASE n - 1 >= N
      <4>1. v[n - 1] = v[N]
        BY <2>2, <3>1, Zenon
      <4>2. v[n] = v[N]
        BY <1>8, <3>0, <4>1
      <4>. QED
        BY <3>0, <4>2
    <3>2. CASE ~(n - 1 >= N)
      <4>1. n >= N => n = N
        BY <1>1, <3>2
      <4>. QED
        BY <3>0, <4>1
    <3>. QED
      BY <3>1, <3>2
  <2> HIDE DEF S
  <2>3. \A n \in 0..M : n \in S
    BY <1>2, <2>1, <2>2, TurnByTurn
  <2>. QED
    BY <2>3, Zenon DEF S
<1>10. v[M] = v[N]
  BY <1>1, <1>2, <1>6, <1>9
<1>. QED
  BY <1>7, <1>10, Zenon DEF v, M, N

\* parse in its order of tests.
LEMMA ParseIs ==
  ASSUME NEW args
  PROVE  LET r == LineTurns(command, args)[Len(args)]
             n == Len(r.pos)
             ok == n >= Wanted(command) /\ (n = Wanted(command) \/ TakesRest(command)) /\ ~blank(r.flags)
         IN /\ r.refusal # "none" => parse(command, args) = r
            /\ r.refusal = "none" /\ ok => parse(command, args) = r
            /\ r.refusal = "none" /\ ~ok => parse(command, args) = RefuseLine(r, "refused")
BY Zenon DEF parse

\* Only a request for help exits with 0.
LEMMA NeedIs ==
  ASSUME NEW args, need(command, args) = "exit0"
  PROVE  parse(command, args).refusal = "help"
<1> DEFINE r == parse(command, args)
<1>1. need(command, args) = CASE r.refusal = "help" -> "exit0" [] r.refusal = "refused" -> "exit2" [] OTHER -> "on"
  BY Zenon DEF need
<1> HIDE DEF r
<1>2. r.refusal # "help" => need(command, args) \in {"exit2", "on"}
  BY <1>1
<1>. QED
  BY <1>2 DEF r

\* The groups of a kind, all of them.
LEMMA AllGroups ==
  ASSUME groups \in Seq(Groups)
  PROVE  LET N == Len(groups)
         IN /\ DOMAIN groups = 1..N /\ N \in Nat
            /\ Positionals = Named(N) /\ Options = Chosen(N) /\ SwitchesOn = Turned(N)
BY DEF Positionals, Options, SwitchesOn, Named, Chosen, Turned

\* No value is blank but the last one of -o.
LEMMA BlankIs ==
  ASSUME groups \in Seq(Groups)
  PROVE  LET N == Len(groups)
         IN blank(Flagged(N)) <=> \E i \in LastOf(Chosen(N)) : Meant(groups[i]) = NoText
<1> DEFINE N == Len(groups)
           C == LastOf(Chosen(N))
           T == LastOf(Turned(N))
<1>1. NoText # "true" /\ NoText # "false"
  BY Zenon DEF NoText
<1>2. ASSUME NEW i \in T PROVE Meant(groups[i]) # NoText
  <2> DEFINE g == groups[i]
  <2>1. i \in 1..Len(groups) /\ IsSwitch(g)
    BY DEF LastOf, Turned
  <2>2. g \in Groups
    BY <2>1
  <2> HIDE DEF g
  <2>3. g[1].name = "background" /\ (g[1].kind = "flag" \/ g[1].value \in {"true", "false"})
    BY <2>1 DEF IsSwitch
  <2>4. Len(g) \in 1..2 /\ Len(g) # 2
    <3>1. Shape(g) /\ Len(g) \in 1..2
      BY <2>2, GroupShape, GroupWords
    <3>2. ASSUME NEW w, g = <<Flag("o"), w>> PROVE FALSE
      <4>1. g[1] = Flag("o")
        BY <3>2
      <4>2. g[1].name = "o"
        BY <4>1, WordParts
      <4>. QED
        BY <2>3, <4>2, Differ
    <3>3. \A w : Len(<<w>>) = 1
      OBVIOUS
    <3>4. (\E w : g = <<w>>) \/ \E w : g = <<Flag("o"), w>>
      BY <3>1, Zenon DEF Shape
    <3>5. Len(g) = 1
      BY <3>2, <3>3, <3>4
    <3>. QED
      BY <3>1, <3>5
  <2>5. g[1].kind = "flag" => Meant(g) = "true"
    BY <2>4, Differ DEF Meant
  <2>6. g[1].kind = "set" => Meant(g) = g[1].value
    BY <2>4, Differ DEF Meant
  <2>7. g[1].kind \notin {"flag", "set"} => Meant(g) = "true"
    BY <2>4, Differ DEF Meant
  <2>8. Meant(g) \in {"true", "false"}
    BY <2>3, <2>5, <2>6, <2>7, Differ
  <2>. QED
    BY <1>1, <2>8 DEF g
<1> HIDE DEF C, T
<1>3. \A n, L : \A f \in Pairs(n, L) : \E i \in L : f[2] = Meant(groups[i])
  BY DEF Pairs
<1>4. \A n, L : \A i \in L : \E f \in Pairs(n, L) : f[2] = Meant(groups[i])
  <2> SUFFICES ASSUME NEW n, NEW L, NEW i \in L PROVE \E f \in Pairs(n, L) : f[2] = Meant(groups[i])
    BY Zenon
  <2>1. <<n, Meant(groups[i])>> \in Pairs(n, L) /\ <<n, Meant(groups[i])>>[2] = Meant(groups[i])
    BY DEF Pairs
  <2>. QED
    BY <2>1
<1>5. Flagged(N) = Pairs("o", C) \cup Pairs("background", T)
  BY Zenon DEF Flagged, C, T
<1>6. blank(Flagged(N)) <=> \E i \in C : Meant(groups[i]) = NoText
  <2>1. ASSUME NEW f \in Flagged(N), f[2] = NoText PROVE \E i \in C : Meant(groups[i]) = NoText
    BY <1>2, <1>3, <1>5, <2>1
  <2>2. ASSUME NEW i \in C, Meant(groups[i]) = NoText PROVE \E f \in Flagged(N) : f[2] = NoText
    BY <1>4, <1>5, <2>2
  <2>. QED
    BY <2>1, <2>2, Zenon DEF blank
<1>. QED
  BY <1>6, Zenon DEF C, N

\* The last test of parse counts what the groups name.
LEMMA Counting ==
  ASSUME NEW S, IsFiniteSet(S), NEW n, n = Cardinality(S)
  PROVE  n >= Wanted(command) /\ (n = Wanted(command) \/ TakesRest(command))
           <=> Cardinality(S) = Wanted(command) \/ (TakesRest(command) /\ S # {})
<1>1. n \in Nat /\ (n = 0 <=> S = {})
  BY FS_CardinalityType, FS_EmptySet
<1>2. Wanted(command) \in {0, 1} /\ (TakesRest(command) => Wanted(command) = 1)
  BY DEF Wanted, TakesRest
<1> DEFINE w == Wanted(command)
           c == TakesRest(command)
           e == S = {}
<1> HIDE DEF w, c, e
<1>3. n \in Nat /\ (n = 0 <=> e) /\ w \in {0, 1} /\ (c => w = 1)
  BY <1>1, <1>2 DEF w, c, e
<1>4. n >= w /\ (n = w \/ c) <=> n = w \/ (c /\ ~e)
  BY <1>3
<1>. QED
  BY <1>4 DEF w, c, e

ArgTyped == groups \in Seq(Groups)

\* Command lines are sequences of groups.
LEMMA ArgTypedInvariant == ArgSpec => []ArgTyped
<1>1. ArgInit => ArgTyped
  BY DEF ArgInit, ArgTyped
<1>2. ArgTyped /\ [TypeGroup]_argVars => ArgTyped'
  <2> SUFFICES ASSUME ArgTyped, [TypeGroup]_argVars PROVE ArgTyped'
    OBVIOUS
  <2>1. CASE TypeGroup
    <3>1. PICK g \in Groups : groups' = Append(groups, g)
      BY <2>1 DEF TypeGroup
    <3>. QED
      BY <3>1 DEF ArgTyped
  <2>2. CASE UNCHANGED argVars
    BY <2>2 DEF argVars, ArgTyped
  <2>. QED
    BY <2>1, <2>2
<1>. QED
  BY <1>1, <1>2, PTL DEF ArgSpec

\* Whatever the texts and however many groups there are, a command line means
\* what its groups mean, or is refused.
THEOREM LinesAreHonoured == ArgSpec => []LineIsHonoured
<1>1. ASSUME ArgTyped PROVE LineIsHonoured
  <2> DEFINE N == Len(groups)
             q == LineTurns(command, Line)[Len(Line)]
             n == Len(q.pos)
             r == parse(command, Line)
             enough == n >= Wanted(command) /\ (n = Wanted(command) \/ TakesRest(command))
             honoured == /\ DOMAIN groups = Positionals \cup Options \cup SwitchesOn
                         /\ \A i \in Positionals : groups[i][1].value # NoText
                         /\ \A i \in LastOf(Options) : Meant(groups[i]) # NoText
             counted == \/ Cardinality(Positionals) = Wanted(command)
                        \/ TakesRest(command) /\ Positionals # {}
             meant == {<<"o", Meant(groups[i])>> : i \in LastOf(Options)}
                         \cup {<<"background", Meant(groups[i])>> : i \in LastOf(SwitchesOn)}
             asked == \E i \in DOMAIN groups : groups[i] = <<Flag("h")>>
  <2>0. groups \in Seq(Groups)
    BY <1>1 DEF ArgTyped
  <2>1. q \in Reading /\ (Refusal(N, q) \/ Understood(N, q))
    BY <2>0, GroupByGroup, Zenon
  <2>2. /\ DOMAIN groups = 1..N /\ N \in Nat
        /\ Positionals = Named(N) /\ Options = Chosen(N) /\ SwitchesOn = Turned(N)
    BY <2>0, AllGroups, Zenon
  <2>3. /\ q.refusal # "none" => r = q
        /\ q.refusal = "none" /\ enough /\ ~blank(q.flags) => r = q
        /\ q.refusal = "none" /\ ~(enough /\ ~blank(q.flags)) => r = RefuseLine(q, "refused")
    BY ParseIs, Zenon
  <2>4. meant = Flagged(N)
    BY <2>2, Zenon DEF Flagged, Pairs
  <2>5. (\A i \in 1..N : Honoured(groups[i])) <=>
           /\ DOMAIN groups = Positionals \cup Options \cup SwitchesOn
           /\ \A i \in Positionals : groups[i][1].value # NoText
    <3>1. \A i \in 1..N : /\ i \in Positionals <=> IsPositional(groups[i])
                          /\ i \in Options <=> IsOption(groups[i])
                          /\ i \in SwitchesOn <=> IsSwitch(groups[i])
      BY <2>2, Zenon DEF Named, Chosen, Turned
    <3>2. Positionals \subseteq 1..N /\ Options \subseteq 1..N /\ SwitchesOn \subseteq 1..N
      BY <2>2, Zenon DEF Named, Chosen, Turned
    <3>3. \A i \in 1..N : IsPositional(groups[i]) => ~IsOption(groups[i]) /\ ~IsSwitch(groups[i])
      <4>1. \A i \in 1..N : groups[i] \in Groups
        BY <2>0
      <4>. QED
        BY <4>1, GroupKinds, Zenon
    <3>4. ASSUME NEW i \in 1..N
          PROVE  Honoured(groups[i]) <=> \/ i \in Positionals /\ groups[i][1].value # NoText
                                         \/ i \in Options \/ i \in SwitchesOn
      BY <3>1, Zenon DEF Honoured
    <3> HIDE DEF N
    <3>. QED
      BY <2>2, <3>1, <3>2, <3>3, <3>4, Zenon
  <2>6. need(command, Line) = "exit0" => r.refusal = "help"
    BY NeedIs
  <2> HIDE DEF q, r, N, meant
  <2>7. CASE Refusal(N, q)
    <3>1. q.refusal # "none" /\ (\E i \in 1..N : ~Honoured(groups[i])) /\ (q.refusal = "help" => asked)
      BY <2>2, <2>7, Zenon DEF Refusal
    <3>2. r.refusal # "none" /\ ~honoured /\ (r.refusal = "help" => asked)
      BY <2>3, <2>5, <3>1
    <3> HIDE DEF asked, honoured, counted
    <3>. QED
      BY <2>6, <3>2, Zenon DEF LineIsHonoured, r, honoured, asked
  <2>8. CASE Understood(N, q)
    <3>1. /\ q.refusal = "none" /\ \A i \in 1..N : Honoured(groups[i])
          /\ Ordered(N, q.pos) /\ q.flags = Flagged(N)
      BY <2>8 DEF Understood
    <3>2. n = Cardinality(Positionals) /\ IsFiniteSet(Positionals)
      BY <2>2, <3>1, NamedFinite DEF Ordered
    <3>3. enough <=> counted
      BY <3>2, Counting, Zenon
    <3>4. blank(q.flags) <=> \E i \in LastOf(Options) : Meant(groups[i]) = NoText
      BY <2>0, <2>2, <3>1, BlankIs, Zenon DEF N
    <3>5. honoured <=> ~blank(q.flags)
      BY <2>5, <3>1, <3>4
    <3>6. CASE enough /\ ~blank(q.flags)
      <4>1. r = q /\ r.refusal = "none" /\ r.flags = meant /\ Len(r.pos) = Cardinality(Positionals)
        BY <2>3, <2>4, <3>1, <3>2, <3>6
      <4>2. ASSUME NEW m \in DOMAIN r.pos PROVE r.pos[m] = groups[Nth(Positionals, m)][1].value
        <5> DEFINE i == Nth(Positionals, m)
                   c == Cardinality(Before(Positionals, i))
        <5>1. r.pos \in Seq(AllTexts)
          BY <2>1, <4>1 DEF Reading
        <5>2. m \in 1..Cardinality(Positionals) /\ m \in Int
          BY <4>1, <5>1
        <5>3. Positionals \in SUBSET Nat
          BY <2>2 DEF Positionals
        <5>4. i \in Positionals /\ c = m - 1
          BY <3>2, <5>2, <5>3, NthPosition
        <5> HIDE DEF i, c
        <5>5. r.pos[c + 1] = groups[i][1].value
          BY <2>2, <3>1, <4>1, <5>4 DEF Ordered, c
        <5>6. c + 1 = m
          BY <5>2, <5>4
        <5>. QED
          BY <5>5, <5>6 DEF i
      <4>3. honoured /\ counted /\ r.refusal # "help"
        BY <3>3, <3>5, <3>6, <4>1, Differ
      <4> HIDE DEF honoured, counted
      <4>. QED
        BY <2>6, <4>1, <4>2, <4>3, Zenon DEF LineIsHonoured, r, honoured, counted, meant
    <3>7. CASE ~(enough /\ ~blank(q.flags))
      <4>1. r = RefuseLine(q, "refused")
        BY <2>3, <3>1, <3>7
      <4>2. r.refusal = "refused"
        BY <2>1, <4>1, RefuseIs
      <4>3. ~(honoured /\ counted) /\ r.refusal # "none" /\ r.refusal # "help"
        BY <3>3, <3>5, <3>7, <4>2, Differ
      <4> HIDE DEF honoured, counted
      <4>. QED
        BY <2>6, <4>3, Zenon DEF LineIsHonoured, r, honoured, counted
    <3>. QED
      BY <3>6, <3>7
  <2>. QED
    BY <2>1, <2>7, <2>8
<1>. QED
  BY <1>1, ArgTypedInvariant, PTL
=============================================================================
