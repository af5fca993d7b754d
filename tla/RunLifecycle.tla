---------------------------- MODULE RunLifecycle ----------------------------
(***************************************************************************)
(* The life of a pipeline run: the job_runs table of db.py, the JobManager *)
(* of scheduler.py (one request at a time under its lock, one watcher      *)
(* thread for each worker it spawned), the one-shot worker processes of    *)
(* worker.py and the control flow of Pipeline.run_pipeline, with the flock *)
(* that serialises pipelines and the edition of one date that they write.  *)
(*                                                                         *)
(* One action is one database transaction, one system call or one file     *)
(* replacement: everything between two of them is local to its process.    *)
(* Processes: the workers, the watcher threads, the request (or scheduler) *)
(* thread that holds JobManager._lock, and the environment, which kills    *)
(* processes and stops and restarts the service.                           *)
(***************************************************************************)
EXTENDS Naturals, FiniteSets

CONSTANTS
  MaxRuns,          \* bound: rows ever inserted in job_runs
  Spawned,          \* worker processes that JobManager.start may spawn
  Cli,              \* worker processes started by "frontier-daily run"
  NoWorker,         \* "no process": lock free, file not written, no entry
  MaxKills,         \* bound: workers killed by the environment (OOM, kill -9)
  MaxCrashes,       \* bound: times the service stops and is restarted
  MaxSpawnErrors    \* bound: times Popen raises

Worker == Spawned \cup Cli

ASSUME ConstantsAssumption ==
  /\ MaxRuns \in Nat
  /\ MaxKills \in Nat
  /\ MaxCrashes \in Nat
  /\ MaxSpawnErrors \in Nat
  /\ NoWorker \notin Worker
  /\ Spawned \cap Cli = {}

VARIABLES
  status,     \* job_runs.status of each run, "none" for no row yet
  lastRun,    \* the run created last: runs are numbered in creation order
  pc,         \* where each worker process is
  job,        \* run_id of each worker process, 0 before it has one
  code,       \* exit code of each worker: "none", "zero", "nonzero"
  sig,        \* SIGTERM or SIGINT pending at the worker
  watch,      \* JobManager._watch thread of each worker
  procs,      \* JobManager._processes
  mgr,        \* the thread that holds JobManager._lock, and its run
  up,         \* the service process is alive
  lock,       \* holder of the flock on pipeline.lock
  edition,    \* editions.status of the date
  files,      \* worker that wrote each published file of the date last
  committed,  \* worker whose commit_edition the edition row holds
  faults      \* how often each fault of the environment has happened

dbVars   == <<status, lastRun>>
procVars == <<pc, job, code>>
mgrVars  == <<watch, procs, mgr, up>>
edVars   == <<edition, files, committed>>
vars == <<dbVars, procVars, sig, mgrVars, lock, edVars, faults>>

Run == 1..MaxRuns
Active == {"queued", "running"}
Terminal == {"completed", "failed", "cancelled"}
Status == {"none"} \cup Active \cup Terminal
Published == {"ready", "partial"}
EditionStatus == {"none", "draft", "failed"} \cup Published
Artifact == {"json", "html"}
Fault == {"kill", "crash", "spawn"}

\* Inside "with run_lock": the stages, the commit and the final update.
InLock == {"work", "draft", "json", "html", "commit", "finish", "unlock"}
\* The except block of run_pipeline.
InExcept == {"h_read", "h_mark", "h_edition"}
\* Between signal.signal and the exit of the process.
Handled == {"mark", "lock", "erring"} \cup InLock \cup InExcept
NoHandler == {"cli_check", "cli_create", "boot"}
PC == {"free", "exited"} \cup NoHandler \cup Handled
\* Points where the process may be inside a write transaction of its own.
Writing == {"mark", "h_mark", "h_edition"} \cup (InLock \ {"unlock"})
WatchPC == {"none", "wait", "grace", "write", "pop", "done"}
MgrOp == {"idle", "check", "spawn", "c_write", "c_kill"}

Alive(w) == pc[w] \notin {"free", "exited"}
ActiveRuns == {r \in Run : status[r] \in Active}
Idle == [op |-> "idle", run |-> 0]

TypeOK ==
  /\ status \in [Run -> Status]
  /\ lastRun \in 0..MaxRuns
  /\ pc \in [Worker -> PC]
  /\ job \in [Worker -> 0..MaxRuns]
  /\ code \in [Worker -> {"none", "zero", "nonzero"}]
  /\ sig \in [Worker -> BOOLEAN]
  /\ watch \in [Worker -> WatchPC]
  /\ procs \in [Run -> Worker \cup {NoWorker}]
  /\ mgr \in [op : MgrOp, run : 0..MaxRuns]
  /\ up \in BOOLEAN
  /\ lock \in Worker \cup {NoWorker}
  /\ edition \in EditionStatus
  /\ files \in [Artifact -> Worker \cup {NoWorker}]
  /\ committed \in Worker \cup {NoWorker}
  /\ faults \in [Fault -> Nat]

Init ==
  /\ status = [r \in Run |-> "none"]
  /\ lastRun = 0
  /\ pc = [w \in Worker |-> "free"]
  /\ job = [w \in Worker |-> 0]
  /\ code = [w \in Worker |-> "none"]
  /\ sig = [w \in Worker |-> FALSE]
  /\ watch = [w \in Worker |-> "none"]
  /\ procs = [r \in Run |-> NoWorker]
  /\ mgr = Idle
  /\ up = TRUE
  /\ lock = NoWorker
  /\ edition = "none"
  /\ files = [a \in Artifact |-> NoWorker]
  /\ committed = NoWorker
  /\ faults = [f \in Fault |-> 0]

-----------------------------------------------------------------------------
(* Helpers of db.py. *)

\* update_run(status=...): one UPDATE by run_id, whatever the row says now.
update_run(r, s) == status' = [status EXCEPT ![r] = s]

\* create_run in one immediate transaction: the newest active run is
\* returned as it is; only without one is a row inserted.
create_run(r) ==
  IF ActiveRuns # {}
  THEN /\ r \in ActiveRuns
       /\ \A q \in ActiveRuns : q <= r
       /\ UNCHANGED dbVars
  ELSE /\ lastRun < MaxRuns
       /\ r = lastRun + 1
       /\ lastRun' = r
       /\ status' = [status EXCEPT ![r] = "queued"]

\* The process moves on, unless a signal is pending: the interpreter runs the
\* handler before its next instruction. A database or system call in flight
\* when the signal is sent counts as finished before it.
Goto(w, from, to) ==
  /\ pc[w] = from
  /\ ~sig[w]
  /\ pc' = [pc EXCEPT ![w] = to]
  /\ UNCHANGED <<job, code>>

\* The process ends; the kernel drops its flock and any pending signal.
Exit(w, c) ==
  /\ pc' = [pc EXCEPT ![w] = "exited"]
  /\ code' = [code EXCEPT ![w] = c]
  /\ sig' = [sig EXCEPT ![w] = FALSE]
  /\ lock' = IF lock = w THEN NoWorker ELSE lock
  /\ UNCHANGED job

-----------------------------------------------------------------------------
(* JobManager: one thread at a time between acquiring and releasing _lock. *)

\* start: create_run. Callers: run-now, retry, the cron job and the catch-up.
StartCreate(r) ==
  /\ up /\ mgr = Idle
  /\ \E w \in Spawned : pc[w] = "free"
  /\ create_run(r)
  /\ mgr' = [op |-> "check", run |-> r]
  /\ UNCHANGED <<procVars, sig, watch, procs, up, lock, edVars, faults>>

\* start: get_run and poll decide whether a process has to be spawned.
StartCheck ==
  /\ mgr.op = "check"
  /\ mgr' = IF \/ status[mgr.run] = "running"
               \/ procs[mgr.run] # NoWorker /\ Alive(procs[mgr.run])
            THEN Idle
            ELSE [mgr EXCEPT !.op = "spawn"]
  /\ UNCHANGED <<dbVars, procVars, sig, watch, procs, up, lock, edVars, faults>>

\* start: Popen, the entry in _processes and the watcher thread.
StartSpawn(w) ==
  /\ mgr.op = "spawn"
  /\ w \in Spawned /\ pc[w] = "free"
  /\ pc' = [pc EXCEPT ![w] = "boot"]
  /\ job' = [job EXCEPT ![w] = mgr.run]
  /\ procs' = [procs EXCEPT ![mgr.run] = w]
  /\ watch' = [watch EXCEPT ![w] = "wait"]
  /\ mgr' = Idle
  /\ UNCHANGED <<dbVars, code, sig, up, lock, edVars, faults>>

\* start: Popen raises, the exception leaves the run queued.
StartSpawnError ==
  /\ mgr.op = "spawn"
  /\ faults["spawn"] < MaxSpawnErrors
  /\ faults' = [faults EXCEPT !["spawn"] = @ + 1]
  /\ mgr' = Idle
  /\ UNCHANGED <<dbVars, procVars, sig, watch, procs, up, lock, edVars>>

\* cancel: the status is read; a run that is not active is refused.
CancelRead(r) ==
  /\ up /\ mgr = Idle
  /\ status[r] \in Active
  /\ mgr' = [op |-> "c_write", run |-> r]
  /\ UNCHANGED <<dbVars, procVars, sig, watch, procs, up, lock, edVars, faults>>

\* cancel: the status is overwritten in a transaction of its own.
CancelWrite ==
  /\ mgr.op = "c_write"
  /\ update_run(mgr.run, "cancelled")
  /\ mgr' = [mgr EXCEPT !.op = "c_kill"]
  /\ UNCHANGED <<lastRun, procVars, sig, watch, procs, up, lock, edVars, faults>>

\* cancel: SIGTERM to the process group, if this service spawned one that
\* still lives.
CancelKill ==
  /\ mgr.op = "c_kill"
  /\ LET w == procs[mgr.run] IN
       sig' = IF w # NoWorker /\ Alive(w) THEN [sig EXCEPT ![w] = TRUE] ELSE sig
  /\ mgr' = Idle
  /\ UNCHANGED <<dbVars, procVars, watch, procs, up, lock, edVars, faults>>

-----------------------------------------------------------------------------
(* JobManager._watch: one thread for each spawned worker. *)

WatchGoto(w, from, to) ==
  /\ watch[w] = from
  /\ watch' = [watch EXCEPT ![w] = to]
  /\ UNCHANGED <<lastRun, job, procs, mgr, up, edVars, faults>>

\* Faulty variant: only a running run is marked, not one whose worker died
\* before it got that far.
WatchExitReadRunning(w) ==
  /\ pc[w] = "exited"
  /\ WatchGoto(w, "wait",
       IF code[w] = "nonzero" /\ status[job[w]] = "running" THEN "write" ELSE "pop")
  /\ UNCHANGED <<status, pc, code, sig, lock>>

\* process.wait returns, the status is read: a run that its worker left with
\* an error code, neither cancelled nor failed, will be marked failed.
WatchExitRead(w) ==
  /\ pc[w] = "exited"
  /\ WatchGoto(w, "wait",
       IF code[w] = "nonzero" /\ status[job[w]] \notin {"cancelled", "failed"}
       THEN "write" ELSE "pop")
  /\ UNCHANGED <<status, pc, code, sig, lock>>

\* process.wait gives up after two hours: SIGTERM to the group.
WatchTimeout(w) ==
  /\ Alive(w)
  /\ WatchGoto(w, "wait", "grace")
  /\ sig' = [sig EXCEPT ![w] = TRUE]
  /\ UNCHANGED <<status, pc, code, lock>>

\* Faulty variant: SIGTERM again in place of SIGKILL.
WatchKillGently(w) ==
  /\ Alive(w)
  /\ WatchGoto(w, "grace", "grace")
  /\ sig' = [sig EXCEPT ![w] = TRUE]
  /\ UNCHANGED <<status, pc, code, lock>>

\* Ten seconds later the worker is still there: SIGKILL.
WatchKill(w) ==
  /\ Alive(w)
  /\ WatchGoto(w, "grace", "grace")
  /\ Exit(w, "nonzero")
  /\ UNCHANGED status

\* After a timeout the status is read: a run without an end gets one.
WatchTimeoutRead(w) ==
  /\ pc[w] = "exited"
  /\ WatchGoto(w, "grace", IF status[job[w]] \in Terminal THEN "pop" ELSE "write")
  /\ UNCHANGED <<status, pc, code, sig, lock>>

\* update_run(status="failed") of either branch, from the status read before.
WatchWrite(w) ==
  /\ WatchGoto(w, "write", "pop")
  /\ update_run(job[w], "failed")
  /\ UNCHANGED <<pc, code, sig, lock>>

\* finally: drop the entry of the run, whichever process it names.
WatchPop(w) ==
  /\ watch[w] = "pop"
  /\ mgr = Idle
  /\ watch' = [watch EXCEPT ![w] = "done"]
  /\ procs' = [procs EXCEPT ![job[w]] = NoWorker]
  /\ UNCHANGED <<dbVars, procVars, sig, mgr, up, lock, edVars, faults>>

-----------------------------------------------------------------------------
(* worker.main up to the pipeline. *)

\* "frontier-daily run" starts a worker without --run-id.
CliStart(w) ==
  /\ w \in Cli
  /\ Goto(w, "free", "cli_check")
  /\ UNCHANGED <<dbVars, sig, mgrVars, lock, edVars, faults>>

\* active_run: exit code 3 when some run is active.
CliCheck(w) ==
  /\ IF ActiveRuns # {}
     THEN pc[w] = "cli_check" /\ ~sig[w] /\ Exit(w, "nonzero")
     ELSE Goto(w, "cli_check", "cli_create") /\ UNCHANGED <<sig, lock>>
  /\ UNCHANGED <<dbVars, mgrVars, edVars, faults>>

\* create_run: by now it may hand back a run that somebody else created.
CliCreate(w, r) ==
  /\ pc[w] = "cli_create" /\ ~sig[w]
  /\ create_run(r)
  /\ pc' = [pc EXCEPT ![w] = "boot"]
  /\ job' = [job EXCEPT ![w] = r]
  /\ UNCHANGED <<code, sig, mgrVars, lock, edVars, faults>>

\* signal.signal: from here on SIGTERM and SIGINT run the cancel handler.
InstallHandlers(w) ==
  /\ Goto(w, "boot", "mark")
  /\ UNCHANGED <<dbVars, sig, mgrVars, lock, edVars, faults>>

-----------------------------------------------------------------------------
(* Pipeline.run_pipeline. *)

\* The run is marked running before the lock is tried, and whatever its
\* status has become since it was queued.
MarkRunning(w) ==
  /\ Goto(w, "mark", "lock")
  /\ update_run(job[w], "running")
  /\ UNCHANGED <<lastRun, sig, mgrVars, lock, edVars, faults>>

\* Faulty variant: the pid is written to pipeline.lock without flock.
AcquireLockBlindly(w) ==
  /\ Goto(w, "lock", "work")
  /\ lock' = w
  /\ UNCHANGED <<dbVars, sig, mgrVars, edVars, faults>>

\* run_lock: flock(LOCK_EX | LOCK_NB) succeeds.
AcquireLock(w) ==
  /\ lock = NoWorker
  /\ Goto(w, "lock", "work")
  /\ lock' = w
  /\ UNCHANGED <<dbVars, sig, mgrVars, edVars, faults>>

\* run_lock: the lock is taken, PipelineError.
LockBusy(w) ==
  /\ lock # NoWorker
  /\ Goto(w, "lock", "h_read")
  /\ UNCHANGED <<dbVars, sig, mgrVars, lock, edVars, faults>>

\* Discover, fetch, extract and deduplicate are done; the edition of the date
\* is read, and a published one may be found to need no change.
DecideUnchanged(w) ==
  /\ edition \in Published
  /\ Goto(w, "work", "finish")
  /\ UNCHANGED <<dbVars, sig, mgrVars, lock, edVars, faults>>

\* Faulty variant: the row of a published edition is left for the commit.
DecideChangedInPlace(w) ==
  /\ Goto(w, "work", IF edition \in Published THEN "json" ELSE "draft")
  /\ UNCHANGED <<dbVars, sig, mgrVars, lock, edVars, faults>>

DecideChanged(w) ==
  /\ Goto(w, "work", "draft")
  /\ UNCHANGED <<dbVars, sig, mgrVars, lock, edVars, faults>>

\* Faulty variant: ON CONFLICT DO NOTHING, a published row stays published.
upsert_edition_draft_keeping(w) ==
  /\ Goto(w, "draft", "json")
  /\ edition' = IF edition = "none" THEN "draft" ELSE edition
  /\ UNCHANGED <<dbVars, sig, mgrVars, lock, files, committed, faults>>

upsert_edition_draft(w) ==
  /\ Goto(w, "draft", "json")
  /\ edition' = "draft"
  /\ UNCHANGED <<dbVars, sig, mgrVars, lock, files, committed, faults>>

\* write_edition: each file is replaced atomically, one after the other.
WriteArtifact(w, a, to) ==
  /\ Goto(w, a, to)
  /\ files' = [files EXCEPT ![a] = w]
  /\ UNCHANGED <<dbVars, sig, mgrVars, lock, edition, committed, faults>>

write_edition(w) ==
  \/ WriteArtifact(w, "json", "html")
  \/ WriteArtifact(w, "html", "commit")

\* commit_edition: refused without the files, else one transaction.
commit_edition(w) ==
  /\ \A a \in Artifact : files[a] # NoWorker
  /\ Goto(w, "commit", "finish")
  /\ edition' \in Published
  /\ committed' = w
  /\ UNCHANGED <<dbVars, sig, mgrVars, lock, files, faults>>

\* update_run(status="completed") of the committed and the unchanged path.
Finish(w) ==
  /\ Goto(w, "finish", "unlock")
  /\ update_run(job[w], "completed")
  /\ UNCHANGED <<lastRun, sig, mgrVars, lock, edVars, faults>>

\* run_lock's finally on the way out; main returns 0.
ReturnZero(w) ==
  /\ pc[w] = "unlock" /\ ~sig[w]
  /\ Exit(w, "zero")
  /\ UNCHANGED <<dbVars, mgrVars, edVars, faults>>

\* An exception inside the lock (a source, the LLM requirement, the database, or
\* the log after the run was completed): the lock is released and the except
\* block entered, which fails a completed run as well.
StageFails(w) ==
  /\ \E p \in InLock : Goto(w, p, "h_read")
  /\ lock' = NoWorker
  /\ UNCHANGED <<dbVars, sig, mgrVars, edVars, faults>>

\* except BaseException: a cancelled run is left as it is.
ExceptRead(w) ==
  /\ Goto(w, "h_read", IF status[job[w]] = "cancelled" THEN "erring" ELSE "h_mark")
  /\ UNCHANGED <<dbVars, sig, mgrVars, lock, edVars, faults>>

ExceptMarkFailed(w) ==
  /\ Goto(w, "h_mark", "h_edition")
  /\ update_run(job[w], "failed")
  /\ UNCHANGED <<lastRun, sig, mgrVars, lock, edVars, faults>>

fail_edition(w) ==
  /\ Goto(w, "h_edition", "erring")
  /\ edition' = "failed"
  /\ UNCHANGED <<dbVars, sig, mgrVars, lock, files, committed, faults>>

\* main returns 130 or 1 after an exception.
ReturnNonzero(w) ==
  /\ pc[w] = "erring" /\ ~sig[w]
  /\ Exit(w, "nonzero")
  /\ UNCHANGED <<dbVars, mgrVars, edVars, faults>>

-----------------------------------------------------------------------------
(* Signals. *)

\* SIGTERM before the handlers exist kills the process.
SignalKills(w) ==
  /\ sig[w] /\ pc[w] \in NoHandler
  /\ Exit(w, "nonzero")
  /\ UNCHANGED <<dbVars, mgrVars, edVars, faults>>

\* Where an exception raised at a point of the program continues.
Unwind(w) ==
  /\ pc' = [pc EXCEPT ![w] = IF @ \in {"lock"} \cup InLock THEN "h_read" ELSE "erring"]
  /\ lock' = IF pc[w] \in InLock THEN NoWorker ELSE lock
  /\ sig' = [sig EXCEPT ![w] = FALSE]
  /\ UNCHANGED <<job, code>>

\* The handler writes "cancelled" and raises WorkerCancelled.
SignalCancels(w) ==
  /\ sig[w] /\ pc[w] \in Handled
  /\ update_run(job[w], "cancelled")
  /\ Unwind(w)
  /\ UNCHANGED <<lastRun, mgrVars, edVars, faults>>

\* The signal arrives inside a write transaction of the same thread: the
\* handler's own connection finds the database locked and raises instead.
SignalFindsDatabaseLocked(w) ==
  /\ sig[w] /\ pc[w] \in Writing
  /\ Unwind(w)
  /\ UNCHANGED <<dbVars, mgrVars, edVars, faults>>

\* Ctrl-C at the terminal of a command-line run.
CliInterrupt(w) ==
  /\ w \in Cli /\ Alive(w) /\ ~sig[w]
  /\ sig' = [sig EXCEPT ![w] = TRUE]
  /\ UNCHANGED <<dbVars, procVars, mgrVars, lock, edVars, faults>>

-----------------------------------------------------------------------------
(* Faults of the environment. *)

Kill(w) ==
  /\ Alive(w)
  /\ faults["kill"] < MaxKills
  /\ faults' = [faults EXCEPT !["kill"] = @ + 1]
  /\ Exit(w, "nonzero")
  /\ UNCHANGED <<dbVars, mgrVars, edVars>>

\* The service stops, with or without a clean shutdown: its threads and
\* _processes are gone, its workers run on in sessions of their own.
ServiceStop ==
  /\ up
  /\ faults["crash"] < MaxCrashes
  /\ faults' = [faults EXCEPT !["crash"] = @ + 1]
  /\ up' = FALSE
  /\ mgr' = Idle
  /\ procs' = [r \in Run |-> NoWorker]
  /\ watch' = [w \in Worker |-> IF watch[w] = "done" THEN "done" ELSE "none"]
  /\ UNCHANGED <<dbVars, procVars, sig, lock, edVars>>

\* Faulty variant: a status of its own for the runs of the earlier service.
recover_as_interrupted ==
  /\ ~up
  /\ up' = TRUE
  /\ status' = [r \in Run |-> IF status[r] \in Active THEN "interrupted" ELSE status[r]]
  /\ UNCHANGED <<lastRun, procVars, sig, watch, procs, mgr, lock, edVars, faults>>

\* Faulty variant: queued runs are overlooked.
recover_running_runs ==
  /\ ~up
  /\ up' = TRUE
  /\ status' = [r \in Run |-> IF status[r] = "running" THEN "failed" ELSE status[r]]
  /\ UNCHANGED <<lastRun, procVars, sig, watch, procs, mgr, lock, edVars, faults>>

\* The service comes back: lifespan calls recover_stale_runs first.
recover_stale_runs ==
  /\ ~up
  /\ up' = TRUE
  /\ status' = [r \in Run |-> IF status[r] \in Active THEN "failed" ELSE status[r]]
  /\ UNCHANGED <<lastRun, procVars, sig, watch, procs, mgr, lock, edVars, faults>>

-----------------------------------------------------------------------------
ManagerStep ==
  \/ StartCheck
  \/ \E w \in Spawned : StartSpawn(w)
  \/ CancelWrite
  \/ CancelKill

Request ==
  \E r \in Run :
    \/ StartCreate(r)
    \/ CancelRead(r)

WatchStep(w) ==
  \/ WatchExitRead(w)
  \/ WatchTimeout(w)
  \/ WatchKill(w)
  \/ WatchTimeoutRead(w)
  \/ WatchWrite(w)
  \/ WatchPop(w)

WorkerStep(w) ==
  \/ CliStart(w)
  \/ CliCheck(w)
  \/ \E r \in Run : CliCreate(w, r)
  \/ InstallHandlers(w)
  \/ MarkRunning(w)
  \/ AcquireLock(w)
  \/ LockBusy(w)
  \/ DecideUnchanged(w)
  \/ DecideChanged(w)
  \/ upsert_edition_draft(w)
  \/ write_edition(w)
  \/ commit_edition(w)
  \/ Finish(w)
  \/ ReturnZero(w)
  \/ StageFails(w)
  \/ ExceptRead(w)
  \/ ExceptMarkFailed(w)
  \/ fail_edition(w)
  \/ ReturnNonzero(w)

SignalDelivered(w) ==
  \/ SignalKills(w)
  \/ SignalCancels(w)
  \/ SignalFindsDatabaseLocked(w)

Environment ==
  \/ \E w \in Worker : Kill(w) \/ CliInterrupt(w)
  \/ StartSpawnError
  \/ ServiceStop
  \/ recover_stale_runs

Next ==
  \/ ManagerStep
  \/ Request
  \/ \E w \in Worker : WatchStep(w) \/ WorkerStep(w) \/ SignalDelivered(w)
  \/ Environment

Spec == Init /\ [][Next]_vars

\* The threads of the service run; nothing is assumed of the workers, which
\* may hang in a fetch or in the agent for as long as they like.
Fairness ==
  /\ WF_vars(ManagerStep)
  /\ \A w \in Worker : WF_vars(WatchStep(w))

FairSpec == Spec /\ Fairness

-----------------------------------------------------------------------------
(* Properties. *)

\* Only one pipeline works at a time (AGENTS.zh-CN.md): a worker between
\* taking and releasing pipeline.lock is the holder of the flock, so there
\* are never two, whatever signals, kills and restarts happen on the way out.
OnePipelineWorker == \A w \in Worker : pc[w] \in InLock <=> lock = w

\* A published edition is backed by the files of the very worker whose commit
\* it shows: no other run's rewrite of edition.json and report.html is visible
\* under a ready or partial row, although files and row change separately and
\* a run may end at any point in between.
PublishedFilesMatch ==
  edition \in Published =>
    /\ committed # NoWorker
    /\ \A a \in Artifact : files[a] = committed

\* Why it holds, as an inductive invariant: from its draft to its commit a
\* worker finds its own files in place, and the row is not published.
OwnFiles ==
  \A w \in Worker :
    /\ pc[w] = "html" => files["json"] = w
    /\ pc[w] = "commit" => \A a \in Artifact : files[a] = w
    /\ pc[w] \in {"json", "html", "commit"} => edition \notin Published

PipelineInv == OnePipelineWorker /\ OwnFiles /\ PublishedFilesMatch

\* What a reader is given: the report that the row names, whatever its status.
\* It names none before the first commit, and no draft or failure takes the
\* name away again.
Shown == IF committed = NoWorker THEN [a \in Artifact |-> NoWorker] ELSE files

Page == INSTANCE Publication WITH
  Writer <- Worker, File <- Artifact, Nothing <- NoWorker,
  sealed <- edition \in Published, owner <- committed, shown <- Shown

\* The run's steps implement the promise of Publication: under a published row
\* readers never see the files of two runs, nor one edition turn into another;
\* under a draft or a failed row they may, and only the status tells them so.
ImplementsPublication == Page!Spec

\* A worker that no watcher of this service process looks after: a
\* command-line run, or the orphan of an earlier service process.
Unwatched(w) == pc[w] # "free" /\ watch[w] = "none"

\* An active run blocks every later one (create_run returns it), so somebody
\* must still be going to end it: the request that is about to spawn, a live
\* worker, or a watcher that has not read the status for the last time.
\* Excepted are the runs of unwatched workers and a Popen that raised.
NobodyLeftBehind ==
  up /\ faults["spawn"] = 0 =>
    \A r \in ActiveRuns :
      \/ mgr.run = r /\ mgr.op \in {"check", "spawn"}
      \/ \E w \in Worker :
           /\ job[w] = r
           /\ \/ Alive(w)
              \/ watch[w] \notin {"none", "pop", "done"}
              \/ Unwatched(w)

\* Why it holds, as an inductive invariant: a run that is not queued any more
\* has a worker that answers for it. Either the worker lives and has not yet
\* completed the run, or it left an error code that no watcher has acted upon.
Answers(w, r) ==
  /\ job[w] = r
  /\ \/ Alive(w) /\ pc[w] # "unlock"
     \/ pc[w] = "exited" /\ code[w] = "nonzero" /\ watch[w] \notin {"pop", "done"}

Answered(r) ==
  \/ \E w \in Worker : Answers(w, r)
  \/ /\ status[r] = "queued"
     /\ \/ faults["spawn"] > 0
        \/ mgr.run = r /\ mgr.op \in {"check", "spawn"}

RunsAnswered == up => \A r \in ActiveRuns : Answered(r)

\* What run ids, watchers and the entries of _processes have to do with each
\* other: ids are those of rows, a watcher that is past its wait has seen the
\* process end, and an entry names a process of its run.
JobsInv ==
  /\ \A r \in Run : r > lastRun => status[r] = "none"
  /\ mgr.run <= lastRun
  /\ \A w \in Worker :
       /\ job[w] <= lastRun
       /\ pc[w] \in {"free", "cli_check", "cli_create"} => job[w] = 0
       /\ watch[w] \in {"write", "pop", "done"} => pc[w] = "exited"
       /\ pc[w] = "unlock" /\ job[w] \in Run => status[job[w]] # "queued"
  /\ \A r \in Run : procs[r] # NoWorker => job[procs[r]] = r

\* Every run the service starts comes to an end, even when its worker hangs
\* forever or dies at any point: the two-hour budget is enforced.
RunsEnd == \A r \in Run : status[r] \in Active ~> status[r] \in Terminal

\* Whoever holds the pipeline lock gives it up, by itself or by being killed.
LockIsFreed == \A w \in Worker : lock = w ~> lock # w

\* "A run can fail or be cancelled at any stage" (README.md, "Run states"): a
\* run whose cancel request was answered does not start to run afterwards.
CancelledStaysDown ==
  [][\A r \in Run :
       status[r] = "cancelled" /\ mgr.run # r => status'[r] # "running"]_vars
=============================================================================
