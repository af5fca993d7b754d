------------------------- MODULE RunLifecycle_proofs -------------------------
(* Proofs about RunLifecycle, for every number of runs and workers and any   *)
(* bounds on the faults: the variables keep their types, at most one worker  *)
(* is inside the pipeline lock, a published edition shows the files of the   *)
(* worker that committed it, and, while the service is up and no spawn has   *)
(* failed, an active run that it watches has somebody who will end it.       *)
EXTENDS RunLifecycle, TLAPS

USE DEF Worker, Status, Active, Terminal, Published, EditionStatus, Artifact,
        Fault, InLock, InExcept, Handled, NoHandler, PC, WatchPC, MgrOp

-----------------------------------------------------------------------------
(* Types. *)

LEMMA IdleType == Idle \in [op : MgrOp, run : 0..MaxRuns]
BY ConstantsAssumption DEF Idle

\* A worker that moves on stays at a point of the program.
LEMMA GotoType ==
  ASSUME TypeOK, NEW w \in Worker, NEW from, NEW to \in PC, Goto(w, from, to)
  PROVE  /\ pc' \in [Worker -> PC]
         /\ job' = job /\ code' = code
BY DEF TypeOK, Goto

\* Exit keeps the types of what it changes.
LEMMA ExitType ==
  ASSUME TypeOK, NEW w \in Worker, NEW c \in {"zero", "nonzero"}, Exit(w, c)
  PROVE  /\ pc' \in [Worker -> PC]
         /\ code' \in [Worker -> {"none", "zero", "nonzero"}]
         /\ sig' \in [Worker -> BOOLEAN]
         /\ lock' \in Worker \cup {NoWorker}
         /\ job' = job
BY DEF TypeOK, Exit

\* Unwinding keeps the types of what it changes.
LEMMA UnwindType ==
  ASSUME TypeOK, NEW w \in Worker, Unwind(w)
  PROVE  /\ pc' \in [Worker -> PC]
         /\ sig' \in [Worker -> BOOLEAN]
         /\ lock' \in Worker \cup {NoWorker}
         /\ job' = job /\ code' = code
BY DEF TypeOK, Unwind

\* create_run inserts at most the next run.
LEMMA CreateType ==
  ASSUME TypeOK, NEW r \in Run, create_run(r)
  PROVE  /\ status' \in [Run -> Status]
         /\ lastRun' \in 0..MaxRuns
BY ConstantsAssumption DEF TypeOK, create_run, dbVars, Run

\* Requests and the steps of the thread that holds JobManager._lock.
LEMMA ManagerTypes ==
  ASSUME TypeOK, ManagerStep \/ Request
  PROVE  TypeOK'
<1>1. CASE StartCheck
  BY <1>1, IdleType DEF TypeOK, StartCheck, dbVars, procVars, edVars
<1>2. ASSUME NEW w \in Spawned, StartSpawn(w) PROVE TypeOK'
  BY <1>2, IdleType DEF TypeOK, StartSpawn, dbVars, edVars
<1>3. CASE CancelWrite
  BY <1>3 DEF TypeOK, CancelWrite, update_run, procVars, edVars
<1>4. CASE CancelKill
  BY <1>4, IdleType DEF TypeOK, CancelKill, dbVars, procVars, edVars
<1>5. ASSUME NEW r \in Run, StartCreate(r) PROVE TypeOK'
  <2>1. status' \in [Run -> Status] /\ lastRun' \in 0..MaxRuns
    BY <1>5, CreateType DEF StartCreate
  <2>2. QED
    BY <1>5, <2>1, ConstantsAssumption DEF TypeOK, StartCreate, procVars, edVars, Run
<1>6. ASSUME NEW r \in Run, CancelRead(r) PROVE TypeOK'
  BY <1>6, ConstantsAssumption DEF TypeOK, CancelRead, dbVars, procVars, edVars, Run
<1>7. QED
  BY <1>1, <1>2, <1>3, <1>4, <1>5, <1>6 DEF ManagerStep, Request

\* The watcher threads.
LEMMA WatchTypes ==
  ASSUME TypeOK, NEW w \in Worker, WatchStep(w)
  PROVE  TypeOK'
<1>1. CASE WatchExitRead(w)
  BY <1>1 DEF TypeOK, WatchExitRead, WatchGoto, edVars
<1>2. CASE WatchTimeout(w)
  BY <1>2 DEF TypeOK, WatchTimeout, WatchGoto, edVars
<1>3. CASE WatchKill(w)
  BY <1>3, ExitType DEF TypeOK, WatchKill, WatchGoto, edVars
<1>4. CASE WatchTimeoutRead(w)
  BY <1>4 DEF TypeOK, WatchTimeoutRead, WatchGoto, edVars
<1>5. CASE WatchWrite(w)
  BY <1>5 DEF TypeOK, WatchWrite, WatchGoto, update_run, edVars
<1>6. CASE WatchPop(w)
  BY <1>6 DEF TypeOK, WatchPop, dbVars, procVars, edVars
<1>7. QED
  BY <1>1, <1>2, <1>3, <1>4, <1>5, <1>6 DEF WatchStep

\* The worker processes.
LEMMA WorkerTypes ==
  ASSUME TypeOK, NEW w \in Worker, WorkerStep(w)
  PROVE  TypeOK'
<1> USE DEF TypeOK, Goto, dbVars, mgrVars, edVars
<1>1. CASE CliStart(w)
  BY <1>1 DEF CliStart
<1>2. CASE CliCheck(w)
  <2>1. CASE ActiveRuns # {}
    BY <1>2, <2>1, ExitType DEF CliCheck
  <2>2. CASE ActiveRuns = {}
    BY <1>2, <2>2 DEF CliCheck
  <2>3. QED
    BY <2>1, <2>2
<1>3. ASSUME NEW r \in Run, CliCreate(w, r) PROVE TypeOK'
  <2>1. status' \in [Run -> Status] /\ lastRun' \in 0..MaxRuns
    BY <1>3, CreateType DEF CliCreate
  <2>2. job' \in [Worker -> 0..MaxRuns] /\ pc' \in [Worker -> PC]
    BY <1>3, ConstantsAssumption DEF CliCreate, Run
  <2>3. QED
    BY <1>3, <2>1, <2>2 DEF CliCreate
<1>4. CASE InstallHandlers(w)
  BY <1>4 DEF InstallHandlers
<1>5. CASE MarkRunning(w)
  BY <1>5 DEF MarkRunning, update_run
<1>6. CASE AcquireLock(w)
  BY <1>6 DEF AcquireLock
<1>7. CASE LockBusy(w)
  BY <1>7 DEF LockBusy
<1>8. CASE DecideUnchanged(w)
  BY <1>8 DEF DecideUnchanged
<1>9. CASE DecideChanged(w)
  BY <1>9 DEF DecideChanged
<1>10. CASE upsert_edition_draft(w)
  BY <1>10 DEF upsert_edition_draft
<1>11. CASE write_edition(w)
  BY <1>11 DEF write_edition, WriteArtifact
<1>12. CASE commit_edition(w)
  BY <1>12 DEF commit_edition
<1>13. CASE Finish(w)
  BY <1>13 DEF Finish, update_run
<1>14. CASE ReturnZero(w)
  BY <1>14, ExitType DEF ReturnZero
<1>15. CASE StageFails(w)
  BY <1>15 DEF StageFails
<1>16. CASE ExceptRead(w)
  BY <1>16 DEF ExceptRead
<1>17. CASE ExceptMarkFailed(w)
  BY <1>17 DEF ExceptMarkFailed, update_run
<1>18. CASE fail_edition(w)
  BY <1>18 DEF fail_edition
<1>19. CASE ReturnNonzero(w)
  BY <1>19, ExitType DEF ReturnNonzero
<1>20. QED
  BY <1>1, <1>2, <1>3, <1>4, <1>5, <1>6, <1>7, <1>8, <1>9, <1>10, <1>11, <1>12,
     <1>13, <1>14, <1>15, <1>16, <1>17, <1>18, <1>19 DEF WorkerStep

\* Signals and the faults of the environment.
LEMMA FaultTypes ==
  ASSUME TypeOK, Environment \/ \E w \in Worker : SignalDelivered(w)
  PROVE  TypeOK'
<1> USE DEF TypeOK, dbVars, procVars, mgrVars, edVars
<1>1. ASSUME NEW w \in Worker, SignalKills(w) PROVE TypeOK'
  BY <1>1, ExitType DEF SignalKills
<1>2. ASSUME NEW w \in Worker, SignalCancels(w) PROVE TypeOK'
  BY <1>2, UnwindType DEF SignalCancels, update_run
<1>3. ASSUME NEW w \in Worker, SignalFindsDatabaseLocked(w) PROVE TypeOK'
  BY <1>3, UnwindType DEF SignalFindsDatabaseLocked
<1>4. ASSUME NEW w \in Worker, CliInterrupt(w) PROVE TypeOK'
  BY <1>4 DEF CliInterrupt
<1>5. ASSUME NEW w \in Worker, Kill(w) PROVE TypeOK'
  BY <1>5, ExitType DEF Kill
<1>6. CASE StartSpawnError
  BY <1>6, IdleType DEF StartSpawnError
<1>7. CASE ServiceStop
  <2>1. watch' \in [Worker -> WatchPC]
    BY <1>7 DEF ServiceStop
  <2>2. procs' \in [Run -> Worker \cup {NoWorker}]
    BY <1>7 DEF ServiceStop
  <2>3. faults' \in [Fault -> Nat]
    BY <1>7 DEF ServiceStop
  <2>4. QED
    BY <1>7, <2>1, <2>2, <2>3, IdleType DEF ServiceStop
<1>8. CASE recover_stale_runs
  BY <1>8 DEF recover_stale_runs
<1>9. QED
  BY <1>1, <1>2, <1>3, <1>4, <1>5, <1>6, <1>7, <1>8 DEF SignalDelivered, Environment

LEMMA TypeStep == TypeOK /\ [Next]_vars => TypeOK'
<1> SUFFICES ASSUME TypeOK, [Next]_vars PROVE TypeOK'
  OBVIOUS
<1>1. CASE Next
  BY <1>1, ManagerTypes, WatchTypes, WorkerTypes, FaultTypes DEF Next
<1>2. CASE UNCHANGED vars
  BY <1>2 DEF TypeOK, vars, dbVars, procVars, mgrVars, edVars
<1>3. QED
  BY <1>1, <1>2

LEMMA TypeInit == Init => TypeOK
BY ConstantsAssumption DEF Init, TypeOK, Idle, Run

\* Every variable keeps its type: in particular create_run never runs past the
\* last row and no handler leaves a worker at a point the program lacks.
THEOREM TypeCorrect == Spec => []TypeOK
<1>1. QED
  BY TypeInit, TypeStep, PTL DEF Spec

-----------------------------------------------------------------------------
(* The pipeline lock and the published files. *)

\* What a step may do to the edition without disturbing the invariant: keep
\* the row or fail it, and leave files and commit alone.
Harmless == edition' \in {edition, "failed"} /\ UNCHANGED <<files, committed>>

\* A worker that ends, or unwinds, leaves the lock with its section.
LEMMA LeaveLock ==
  ASSUME TypeOK, OnePipelineWorker, NEW w \in Worker,
         NEW p \in PC \ InLock,
         pc' = [pc EXCEPT ![w] = p],
         lock' = IF lock = w THEN NoWorker ELSE lock
  PROVE  OnePipelineWorker'
BY ConstantsAssumption DEF TypeOK, OnePipelineWorker

\* A step that ends no section, writes no file and commits nothing.
LEMMA HarmlessStep ==
  ASSUME TypeOK, PipelineInv, Harmless, OnePipelineWorker',
         \A v \in Worker : pc'[v] \in {"json", "html", "commit"} => pc'[v] = pc[v]
  PROVE  PipelineInv'
BY DEF TypeOK, PipelineInv, OwnFiles, PublishedFilesMatch, Harmless

\* Steps of the service's threads and of the environment.
LEMMA ServicePipeline ==
  ASSUME TypeOK, PipelineInv,
         ManagerStep \/ Request \/ Environment \/ \E w \in Worker : WatchStep(w)
  PROVE  PipelineInv'
<1> USE DEF PipelineInv
<1>1. ASSUME NEW w \in Spawned, StartSpawn(w) PROVE PipelineInv'
  <2>1. pc' = [pc EXCEPT ![w] = "boot"] /\ pc[w] = "free" /\ UNCHANGED <<lock, edVars>>
    BY <1>1 DEF StartSpawn
  <2>2. OnePipelineWorker'
    BY <2>1 DEF TypeOK, OnePipelineWorker, edVars
  <2>3. QED
    BY <2>1, <2>2, HarmlessStep DEF TypeOK, Harmless, edVars
<1>2. ASSUME NEW w \in Worker, WatchKill(w) \/ Kill(w) PROVE PipelineInv'
  <2>1. /\ pc' = [pc EXCEPT ![w] = "exited"]
        /\ lock' = IF lock = w THEN NoWorker ELSE lock
        /\ UNCHANGED edVars
    BY <1>2 DEF WatchKill, Kill, WatchGoto, Exit, edVars
  <2>2. OnePipelineWorker'
    BY <2>1, LeaveLock
  <2>3. QED
    BY <2>1, <2>2, HarmlessStep DEF TypeOK, Harmless, edVars
<1>3. ASSUME UNCHANGED <<pc, lock, edVars>> PROVE PipelineInv'
  BY <1>3 DEF OnePipelineWorker, OwnFiles, PublishedFilesMatch, edVars
<1>4. CASE ManagerStep \/ Request
  BY <1>1, <1>3, <1>4 DEF ManagerStep, Request, StartCheck, CancelWrite, CancelKill,
     StartCreate, CancelRead, procVars
<1>5. CASE Environment
  BY <1>2, <1>3, <1>5 DEF Environment, CliInterrupt, StartSpawnError, ServiceStop, recover_stale_runs,
     procVars
<1>6. ASSUME NEW w \in Worker, WatchStep(w) PROVE PipelineInv'
  BY <1>2, <1>3, <1>6 DEF WatchStep, WatchGoto, WatchExitRead, WatchTimeout,
     WatchTimeoutRead, WatchWrite, WatchPop, procVars, edVars
<1>7. QED
  BY <1>4, <1>5, <1>6

\* Signals: the worker keeps its place, unwinds, or ends.
LEMMA SignalPipeline ==
  ASSUME TypeOK, PipelineInv, NEW w \in Worker, SignalDelivered(w)
  PROVE  PipelineInv'
<1> USE DEF PipelineInv
<1>1. CASE SignalKills(w)
  <2>1. /\ pc' = [pc EXCEPT ![w] = "exited"]
        /\ lock' = IF lock = w THEN NoWorker ELSE lock
        /\ UNCHANGED edVars
    BY <1>1 DEF SignalKills, Exit, edVars
  <2>2. OnePipelineWorker'
    BY <2>1, LeaveLock
  <2>3. QED
    BY <2>1, <2>2, HarmlessStep DEF TypeOK, Harmless, edVars
<1>2. CASE SignalCancels(w) \/ SignalFindsDatabaseLocked(w)
  <2> DEFINE p == IF pc[w] \in {"lock"} \cup InLock THEN "h_read" ELSE "erring"
  <2>1. pc' = [pc EXCEPT ![w] = p] /\ UNCHANGED edVars
    BY <1>2 DEF SignalCancels, SignalFindsDatabaseLocked, Unwind, edVars, TypeOK
  <2>2. lock' = IF lock = w THEN NoWorker ELSE lock
    BY <1>2 DEF SignalCancels, SignalFindsDatabaseLocked, Unwind, OnePipelineWorker
  <2>3. p \in PC \ InLock
    OBVIOUS
  <2> HIDE DEF p
  <2>4. OnePipelineWorker'
    BY <2>1, <2>2, <2>3, LeaveLock
  <2>5. QED
    BY <2>1, <2>3, <2>4, HarmlessStep DEF TypeOK, Harmless, edVars
<1>3. QED
  BY <1>1, <1>2 DEF SignalDelivered

\* A worker moves between two points on the same side of the lock.
LEMMA SameSide ==
  ASSUME TypeOK, OnePipelineWorker, NEW w \in Worker, NEW from, NEW to \in PC,
         Goto(w, from, to), from \in InLock <=> to \in InLock, lock' = lock
  PROVE  OnePipelineWorker'
BY DEF TypeOK, OnePipelineWorker, Goto

\* Worker steps that neither enter the lock nor publish: at most the row of
\* the edition is failed.
LEMMA OutsidePipeline ==
  ASSUME TypeOK, PipelineInv, NEW w \in Worker, NEW from,
         NEW to \in PC \ {"json", "html", "commit"},
         Goto(w, from, to), from \in InLock <=> to \in InLock, lock' = lock, Harmless
  PROVE  PipelineInv'
<1>1. OnePipelineWorker'
  BY SameSide DEF PipelineInv
<1>2. QED
  BY <1>1, HarmlessStep DEF TypeOK, Goto

\* Replacing a file: the row is not published and nobody else is in the lock.
LEMMA FileStep ==
  ASSUME TypeOK, PipelineInv, NEW w \in Worker, NEW a \in Artifact,
         NEW to \in {"html", "commit"}, WriteArtifact(w, a, to),
         a = "json" <=> to = "html"
  PROVE  PipelineInv'
<1>1. OnePipelineWorker'
  BY SameSide DEF WriteArtifact, PipelineInv
<1>2. \A v \in Worker \ {w} : pc[v] \notin InLock /\ pc'[v] = pc[v]
  BY DEF WriteArtifact, Goto, TypeOK, PipelineInv, OnePipelineWorker
<1>3. edition \notin Published /\ edition' = edition
  BY DEF WriteArtifact, Goto, PipelineInv, OwnFiles
<1>4. OwnFiles'
  BY <1>2, <1>3 DEF WriteArtifact, Goto, TypeOK, PipelineInv, OwnFiles
<1>5. QED
  BY <1>1, <1>3, <1>4 DEF PipelineInv, PublishedFilesMatch

\* The worker's own steps. Those between the draft and the commit rest on the
\* lock: no other worker is there to have its files or the row changed.
LEMMA WorkerPipeline ==
  ASSUME TypeOK, PipelineInv, NEW w \in Worker, WorkerStep(w)
  PROVE  PipelineInv'
<1>1. CASE CliStart(w)
  BY <1>1, OutsidePipeline DEF CliStart, Harmless, edVars
<1>2. CASE CliCheck(w)
  <2>1. CASE ActiveRuns # {}
    <3>1. /\ pc' = [pc EXCEPT ![w] = "exited"]
          /\ lock' = IF lock = w THEN NoWorker ELSE lock
          /\ UNCHANGED edVars
      BY <1>2, <2>1 DEF CliCheck, Exit, edVars
    <3>2. OnePipelineWorker'
      BY <3>1, LeaveLock DEF PipelineInv
    <3>3. QED
      BY <3>1, <3>2, HarmlessStep DEF TypeOK, Harmless, edVars
  <2>2. CASE ActiveRuns = {}
    BY <1>2, <2>2, OutsidePipeline DEF CliCheck, Harmless, edVars
  <2>3. QED
    BY <2>1, <2>2
<1>3. ASSUME NEW r \in Run, CliCreate(w, r) PROVE PipelineInv'
  <2>1. pc' = [pc EXCEPT ![w] = "boot"] /\ pc[w] = "cli_create" /\ UNCHANGED <<lock, edVars>>
    BY <1>3 DEF CliCreate
  <2>2. OnePipelineWorker'
    BY <2>1 DEF TypeOK, PipelineInv, OnePipelineWorker, edVars
  <2>3. QED
    BY <2>1, <2>2, HarmlessStep DEF TypeOK, Harmless, edVars
<1>4. CASE InstallHandlers(w) \/ MarkRunning(w) \/ LockBusy(w)
  BY <1>4, OutsidePipeline DEF InstallHandlers, MarkRunning, LockBusy, Harmless, edVars
<1>5. CASE AcquireLock(w)
  <2>1. OnePipelineWorker'
    BY <1>5, ConstantsAssumption DEF AcquireLock, Goto, TypeOK, PipelineInv, OnePipelineWorker
  <2>2. QED
    BY <1>5, <2>1, HarmlessStep DEF AcquireLock, Goto, TypeOK, Harmless, edVars
<1>6. CASE DecideUnchanged(w) \/ DecideChanged(w) \/ Finish(w)
  BY <1>6, OutsidePipeline DEF DecideUnchanged, DecideChanged, Finish, Harmless, edVars
<1>7. CASE upsert_edition_draft(w)
  <2>1. OnePipelineWorker'
    BY <1>7, SameSide DEF upsert_edition_draft, PipelineInv
  <2>2. QED
    BY <1>7, <2>1 DEF upsert_edition_draft, Goto, TypeOK, PipelineInv, OwnFiles, PublishedFilesMatch
<1>8. CASE write_edition(w)
  <2>1. CASE WriteArtifact(w, "json", "html")
    BY <2>1, FileStep
  <2>2. CASE WriteArtifact(w, "html", "commit")
    BY <2>2, FileStep
  <2>3. QED
    BY <1>8, <2>1, <2>2 DEF write_edition
<1>9. CASE commit_edition(w)
  <2>1. OnePipelineWorker'
    BY <1>9, SameSide DEF commit_edition, PipelineInv
  <2>2. \A v \in Worker : pc'[v] \notin {"json", "html", "commit"}
    BY <1>9 DEF commit_edition, Goto, TypeOK, PipelineInv, OnePipelineWorker
  <2>3. PublishedFilesMatch'
    BY <1>9, ConstantsAssumption DEF commit_edition, Goto, PipelineInv, OwnFiles, PublishedFilesMatch
  <2>4. QED
    BY <2>1, <2>2, <2>3 DEF PipelineInv, OwnFiles
<1>10. CASE ReturnZero(w) \/ ReturnNonzero(w)
  <2>1. /\ pc' = [pc EXCEPT ![w] = "exited"]
        /\ lock' = IF lock = w THEN NoWorker ELSE lock
        /\ UNCHANGED edVars
    BY <1>10 DEF ReturnZero, ReturnNonzero, Exit, edVars
  <2>2. OnePipelineWorker'
    BY <2>1, LeaveLock DEF PipelineInv
  <2>3. QED
    BY <2>1, <2>2, HarmlessStep DEF TypeOK, Harmless, edVars
<1>11. CASE StageFails(w)
  <2>1. /\ pc' = [pc EXCEPT ![w] = "h_read"] /\ pc[w] \in InLock /\ lock' = NoWorker
        /\ UNCHANGED edVars
    BY <1>11 DEF StageFails, Goto, edVars
  <2>2. OnePipelineWorker'
    BY <2>1, LeaveLock DEF PipelineInv, OnePipelineWorker
  <2>3. QED
    BY <2>1, <2>2, HarmlessStep DEF TypeOK, Harmless, edVars
<1>12. CASE ExceptRead(w) \/ ExceptMarkFailed(w) \/ fail_edition(w)
  BY <1>12, OutsidePipeline DEF ExceptRead, ExceptMarkFailed, fail_edition, Harmless, edVars
<1>13. QED
  BY <1>1, <1>2, <1>3, <1>4, <1>5, <1>6, <1>7, <1>8, <1>9, <1>10, <1>11, <1>12 DEF WorkerStep

LEMMA PipelineStep == TypeOK /\ PipelineInv /\ [Next]_vars => PipelineInv'
<1> SUFFICES ASSUME TypeOK, PipelineInv, [Next]_vars PROVE PipelineInv'
  OBVIOUS
<1>1. CASE Next
  BY <1>1, ServicePipeline, SignalPipeline, WorkerPipeline DEF Next
<1>2. CASE UNCHANGED vars
  BY <1>2 DEF PipelineInv, OnePipelineWorker, OwnFiles, PublishedFilesMatch,
     vars, procVars, edVars
<1>3. QED
  BY <1>1, <1>2

\* The inductive invariant: the lock, the files of the worker that holds it,
\* and the files behind a published row.
THEOREM PipelineInvariant == Spec => []PipelineInv
<1>1. Init => PipelineInv
  BY ConstantsAssumption DEF Init, PipelineInv, OnePipelineWorker, OwnFiles, PublishedFilesMatch
<1>2. QED
  BY <1>1, TypeInit, TypeStep, PipelineStep, PTL DEF Spec

\* Two workers are never inside the pipeline at once.
THEOREM LockExcludes ==
  Spec => []\A v, w \in Worker : pc[v] \in InLock /\ pc[w] \in InLock => v = w
<1>1. PipelineInv => \A v, w \in Worker : pc[v] \in InLock /\ pc[w] \in InLock => v = w
  BY DEF PipelineInv, OnePipelineWorker
<1>2. QED
  BY <1>1, PipelineInvariant, PTL

\* The flock protects the pipeline: the worker inside is its holder.
THEOREM OnePipelineWorkerHolds == Spec => []OnePipelineWorker
<1>1. PipelineInv => OnePipelineWorker
  BY DEF PipelineInv
<1>2. QED
  BY <1>1, PipelineInvariant, PTL

\* A ready or partial edition shows the files of the run that committed it.
THEOREM PublishedFilesMatchHolds == Spec => []PublishedFilesMatch
<1>1. PipelineInv => PublishedFilesMatch
  BY DEF PipelineInv
<1>2. QED
  BY <1>1, PipelineInvariant, PTL

\* Every step seals the page, withdraws it, revises a file of a withdrawn one,
\* or leaves what readers see alone.
LEMMA PageStep == TypeOK /\ PipelineInv /\ [Next]_vars => [Page!Next]_(Page!vars)
<1> SUFFICES ASSUME TypeOK, PipelineInv, [Next]_vars PROVE [Page!Next]_(Page!vars)
  OBVIOUS
<1>1. CASE edition' \notin Published /\ files' = files /\ committed' = committed
  <2>1. Shown' = Shown
    BY <1>1 DEF Shown
  <2>2. CASE edition \in Published
    BY <1>1, <2>1, <2>2 DEF Page!Next, Page!Withdraw
  <2>3. CASE edition \notin Published
    BY <1>1, <2>1, <2>3 DEF Page!vars
  <2>4. QED
    BY <2>2, <2>3
<1>2. CASE edition' = edition /\ files' = files /\ committed' = committed
  BY <1>2 DEF Shown, Page!vars
<1>3. ASSUME NEW w \in Worker, commit_edition(w) PROVE [Page!Next]_(Page!vars)
  <2>1. edition \notin Published /\ edition' \in Published /\ committed' = w
    BY <1>3 DEF PipelineInv, OwnFiles, commit_edition, Goto
  <2>2. files' = [a \in Artifact |-> w]
    BY <1>3 DEF PipelineInv, OwnFiles, commit_edition, Goto, TypeOK
  <2>3. Shown' = [a \in Artifact |-> w]
    BY <2>1, <2>2, ConstantsAssumption DEF Shown
  <2>4. QED
    BY <2>1, <2>3 DEF Page!Next, Page!Publish, Page!Edition
<1>4. ASSUME NEW w \in Worker, NEW a \in Artifact, NEW to, WriteArtifact(w, a, to)
      PROVE [Page!Next]_(Page!vars)
  <2>1. /\ edition \notin Published /\ edition' = edition /\ committed' = committed
        /\ files' = [files EXCEPT ![a] = w]
    BY <1>4 DEF PipelineInv, OwnFiles, WriteArtifact, Goto, Artifact
  <2>2. CASE committed = NoWorker
    BY <2>1, <2>2 DEF Shown, Page!vars
  <2>3. CASE committed # NoWorker
    BY <2>1, <2>3 DEF Shown, Page!Next, Page!Revise
  <2>4. QED
    BY <2>2, <2>3
<1>5. QED
  <2>1. CASE UNCHANGED vars
    BY <2>1, <1>2 DEF vars, edVars
  <2>2. CASE ManagerStep \/ Request \/ Environment
    BY <2>2, <1>2 DEF ManagerStep, Request, Environment, StartCheck, StartSpawn, CancelWrite,
       CancelKill, StartCreate, CancelRead, Kill, CliInterrupt, StartSpawnError, ServiceStop,
       recover_stale_runs, edVars
  <2>3. ASSUME NEW w \in Worker, WatchStep(w) \/ SignalDelivered(w)
        PROVE [Page!Next]_(Page!vars)
    BY <2>3, <1>2 DEF WatchStep, WatchGoto, WatchExitRead, WatchTimeout, WatchKill,
       WatchTimeoutRead, WatchWrite, WatchPop, SignalDelivered, SignalKills, SignalCancels,
       SignalFindsDatabaseLocked, edVars
  <2>4. ASSUME NEW w \in Worker, WorkerStep(w) PROVE [Page!Next]_(Page!vars)
    <3>1. CASE upsert_edition_draft(w) \/ fail_edition(w)
      BY <3>1, <1>1 DEF upsert_edition_draft, fail_edition, Published
    <3>2. CASE write_edition(w)
      BY <3>2, <1>4 DEF write_edition, Artifact
    <3>3. CASE commit_edition(w)
      BY <3>3, <1>3
    <3>4. QED
      BY <2>4, <3>1, <3>2, <3>3, <1>2 DEF WorkerStep, CliStart, CliCheck, CliCreate,
         InstallHandlers, MarkRunning, AcquireLock, LockBusy, DecideUnchanged, DecideChanged,
         Finish, ReturnZero, StageFails, ExceptRead, ExceptMarkFailed, ReturnNonzero, edVars
  <2>5. QED
    BY <2>1, <2>2, <2>3, <2>4 DEF Next

\* The implementation of the publication: any number of workers, runs, kills
\* and restarts keep the promise made to readers, also while a rerun replaces
\* the files of a row that is not published.
THEOREM PublicationImplemented == Spec => ImplementsPublication
<1>1. Init => Page!Init
  BY DEF Init, Page!Init, Page!Edition, Shown, Published
<1>2. QED
  BY <1>1, TypeCorrect, PipelineInvariant, PageStep, PTL DEF Spec, ImplementsPublication, Page!Spec

-----------------------------------------------------------------------------
(* Who ends an active run. The steps are sorted by what they do to the worker *)
(* that answers for a run: it moves on, it ends, or its watcher does.         *)

RunsInv == JobsInv /\ RunsAnswered

\* Worker w goes on to p, and its run may get a status that is not "queued".
MovesOn(w, p) ==
  /\ pc[w] # "exited"
  /\ pc' = [pc EXCEPT ![w] = p]
  /\ p \in {"cli_check", "cli_create"} => pc[w] \in {"free", "cli_check"}
  /\ \/ status' = status
     \/ \E s \in {"running", "failed", "cancelled"} : status' = [status EXCEPT ![job[w]] = s]
  /\ UNCHANGED <<code, lastRun, job, watch, procs, mgr, up, faults>>

\* Worker w ends with an error code.
Errs(w) ==
  /\ Alive(w)
  /\ pc' = [pc EXCEPT ![w] = "exited"]
  /\ code' = [code EXCEPT ![w] = "nonzero"]
  /\ faults'["spawn"] = faults["spawn"]
  /\ UNCHANGED <<status, lastRun, job, watch, procs, mgr, up>>

\* A run is as answered for as before when its status, its workers and the
\* request at hand are.
LEMMA AnsweredStays ==
  ASSUME NEW r \in Run, Answered(r), status'[r] = status[r],
         \A w \in Worker : Answers(w, r) => Answers(w, r)',
         mgr' = mgr, faults'["spawn"] = faults["spawn"]
  PROVE  Answered(r)'
BY DEF Answered

\* A step of one worker leaves what the others answer for.
LEMMA OthersAnswer ==
  ASSUME NEW v, NEW r, pc'[v] = pc[v], job'[v] = job[v], code'[v] = code[v],
         watch'[v] = watch[v]
  PROVE  Answers(v, r)' <=> Answers(v, r)
BY DEF Answers, Alive

LEMMA MovesOnStep ==
  ASSUME TypeOK, RunsInv, NEW w \in Worker, NEW p \in PC \ {"free", "exited", "unlock"},
         MovesOn(w, p)
  PROVE  RunsInv'
<1>1. pc'[w] = p /\ \A v \in Worker \ {w} : pc'[v] = pc[v]
  BY DEF MovesOn, TypeOK
<1>2. \A r \in Run : r # job[w] => status'[r] = status[r]
  BY DEF MovesOn, TypeOK
<1>3. job[w] \in Run => \/ status'[job[w]] = status[job[w]]
                        \/ status'[job[w]] \in {"running", "failed", "cancelled"}
  BY DEF MovesOn, TypeOK
<1>4. JobsInv'
  <2>1. \A r \in Run : r > lastRun => status'[r] = "none"
    <3>1. job[w] \in Nat /\ lastRun \in Nat /\ job[w] <= lastRun
      BY DEF TypeOK, RunsInv, JobsInv
    <3>2. QED
      BY <1>2, <3>1 DEF RunsInv, JobsInv, Run
  <2>2. ASSUME NEW v \in Worker
        PROVE  /\ job'[v] <= lastRun'
               /\ pc'[v] \in {"free", "cli_check", "cli_create"} => job'[v] = 0
               /\ watch'[v] \in {"write", "pop", "done"} => pc'[v] = "exited"
    BY <1>1 DEF MovesOn, RunsInv, JobsInv
  <2>3. ASSUME NEW v \in Worker, pc'[v] = "unlock", job'[v] \in Run
        PROVE  status'[job'[v]] # "queued"
    <3>1. pc[v] = "unlock" /\ job'[v] = job[v]
      BY <1>1, <2>3 DEF MovesOn
    <3>2. status[job[v]] # "queued"
      BY <2>3, <3>1 DEF RunsInv, JobsInv
    <3>3. QED
      BY <1>2, <1>3, <2>3, <3>1, <3>2
  <2>4. QED
    BY <2>1, <2>2, <2>3 DEF MovesOn, RunsInv, JobsInv
<1>5. RunsAnswered'
  <2>1. SUFFICES ASSUME up, NEW r \in Run, status'[r] \in Active
                 PROVE  Answered(r)'
    BY DEF RunsAnswered, ActiveRuns, MovesOn
  <2>2. CASE r = job[w]
    BY <1>1, <2>2 DEF Answered, Answers, Alive, MovesOn
  <2>3. CASE r # job[w]
    <3>1. status'[r] = status[r] /\ Answered(r)
      BY <1>2, <2>1, <2>3 DEF RunsInv, RunsAnswered, ActiveRuns
    <3>2. ASSUME NEW v \in Worker, Answers(v, r) PROVE Answers(v, r)'
      <4>1. v # w
        BY <2>3, <3>2 DEF Answers
      <4>2. QED
        BY <1>1, <3>2, <4>1, OthersAnswer DEF MovesOn
    <3>3. QED
      BY <3>1, <3>2, AnsweredStays DEF MovesOn
  <2>4. QED
    BY <2>2, <2>3
<1>6. QED
  BY <1>4, <1>5 DEF RunsInv

LEMMA ErrsStep ==
  ASSUME TypeOK, RunsInv, NEW w \in Worker, Errs(w)
  PROVE  RunsInv'
<1>1. /\ pc'[w] = "exited" /\ code'[w] = "nonzero"
      /\ \A v \in Worker \ {w} : pc'[v] = pc[v] /\ code'[v] = code[v]
  BY DEF Errs, TypeOK
<1>2. watch[w] \notin {"write", "pop", "done"}
  BY DEF Errs, Alive, RunsInv, JobsInv
<1>3. JobsInv'
  BY <1>1 DEF Errs, RunsInv, JobsInv
<1>4. ASSUME NEW v \in Worker, NEW r \in Run, Answers(v, r) PROVE Answers(v, r)'
  <2>1. CASE v = w
    BY <1>1, <1>2, <1>4, <2>1 DEF Answers, Errs
  <2>2. CASE v # w
    BY <1>1, <1>4, <2>2, OthersAnswer DEF Errs
  <2>3. QED
    BY <2>1, <2>2
<1>5. RunsAnswered'
  BY <1>4, AnsweredStays DEF Errs, RunsInv, RunsAnswered, ActiveRuns
<1>6. QED
  BY <1>3, <1>5 DEF RunsInv

\* A worker that has completed its run answers for it no more, nor need it.
LEMMA CompletesStep ==
  ASSUME TypeOK, RunsInv, NEW w \in Worker, Finish(w) \/ ReturnZero(w)
  PROVE  RunsInv'
<1>1. CASE Finish(w)
  <2>1. /\ pc[w] = "finish" /\ pc' = [pc EXCEPT ![w] = "unlock"]
        /\ status' = [status EXCEPT ![job[w]] = "completed"]
        /\ UNCHANGED <<lastRun, job, code, watch, procs, mgr, up, faults>>
    BY <1>1 DEF Finish, Goto, update_run, mgrVars
  <2>2. pc'[w] = "unlock" /\ \A v \in Worker \ {w} : pc'[v] = pc[v]
    BY <2>1 DEF TypeOK
  <2>3. /\ \A r \in Run : r # job[w] => status'[r] = status[r]
        /\ job[w] \in Run => status'[job[w]] = "completed"
    BY <2>1 DEF TypeOK
  <2>4. JobsInv'
    <3>1. \A r \in Run : r > lastRun => status'[r] = "none"
      <4>1. job[w] \in Nat /\ lastRun \in Nat /\ job[w] <= lastRun
        BY DEF TypeOK, RunsInv, JobsInv
      <4>2. QED
        BY <2>3, <4>1 DEF RunsInv, JobsInv, Run
    <3>2. ASSUME NEW v \in Worker
          PROVE  /\ job'[v] <= lastRun'
                 /\ pc'[v] \in {"free", "cli_check", "cli_create"} => job'[v] = 0
                 /\ watch'[v] \in {"write", "pop", "done"} => pc'[v] = "exited"
                 /\ pc'[v] = "unlock" /\ job'[v] \in Run => status'[job'[v]] # "queued"
      BY <2>1, <2>2, <2>3 DEF RunsInv, JobsInv
    <3>3. QED
      BY <2>1, <3>1, <3>2 DEF RunsInv, JobsInv
  <2>5. ASSUME up, NEW r \in Run, status'[r] \in Active PROVE Answered(r)'
    <3>1. r # job[w] /\ status'[r] = status[r]
      BY <2>3, <2>5
    <3>2. Answered(r)
      BY <2>5, <3>1 DEF RunsInv, RunsAnswered, ActiveRuns
    <3>3. ASSUME NEW v \in Worker, Answers(v, r) PROVE Answers(v, r)'
      <4>1. v # w
        BY <3>1, <3>3 DEF Answers
      <4>2. QED
        BY <2>1, <2>2, <3>3, <4>1, OthersAnswer
    <3>4. QED
      BY <2>1, <3>1, <3>2, <3>3, AnsweredStays
  <2>6. QED
    BY <2>1, <2>4, <2>5 DEF RunsInv, RunsAnswered, ActiveRuns
<1>2. CASE ReturnZero(w)
  <2>1. /\ pc[w] = "unlock" /\ pc' = [pc EXCEPT ![w] = "exited"]
        /\ code' = [code EXCEPT ![w] = "zero"]
        /\ UNCHANGED <<status, lastRun, job, watch, procs, mgr, up, faults>>
    BY <1>2 DEF ReturnZero, Exit, dbVars, mgrVars
  <2>2. /\ pc'[w] = "exited"
        /\ \A v \in Worker \ {w} : pc'[v] = pc[v] /\ code'[v] = code[v]
    BY <2>1 DEF TypeOK
  <2>3. JobsInv'
    BY <2>1, <2>2 DEF RunsInv, JobsInv
  <2>4. ASSUME NEW v \in Worker, NEW r \in Run, Answers(v, r) PROVE Answers(v, r)'
    <3>1. v # w
      BY <2>1, <2>4 DEF Answers
    <3>2. QED
      BY <2>1, <2>2, <2>4, <3>1, OthersAnswer
  <2>5. RunsAnswered'
    BY <2>1, <2>4, AnsweredStays DEF RunsInv, RunsAnswered, ActiveRuns
  <2>6. QED
    BY <2>3, <2>5 DEF RunsInv
<1>3. QED
  BY <1>1, <1>2

\* create_run returns an active run or the new last one.
LEMMA CreatesRun ==
  ASSUME TypeOK, RunsInv, NEW r \in Run, create_run(r)
  PROVE  /\ r <= lastRun' /\ lastRun <= lastRun' /\ lastRun' \in Nat
         /\ \A q \in Run : q > lastRun' => status'[q] = "none"
         /\ \A q \in Run \ {r} : status'[q] = status[q]
         /\ status'[r] \in Active
         /\ \A w \in Worker : job[w] = r => status'[r] = status[r]
<1>1. /\ lastRun \in Nat /\ r \in Nat /\ status \in [Run -> Status]
      /\ \A q \in Run : q \in Nat /\ (q > lastRun => status[q] = "none")
      /\ \A w \in Worker : job[w] <= lastRun
  BY DEF TypeOK, RunsInv, JobsInv, Run
<1>2. CASE ActiveRuns # {}
  <2>1. status[r] \in Active /\ status' = status /\ lastRun' = lastRun
    BY <1>2 DEF create_run, ActiveRuns, dbVars
  <2>2. QED
    BY <1>1, <2>1
<1>3. CASE ActiveRuns = {}
  <2>1. r = lastRun + 1 /\ lastRun' = r /\ status' = [status EXCEPT ![r] = "queued"]
    BY <1>3 DEF create_run
  <2>2. \A w \in Worker : job[w] # r
    BY <1>1, <2>1 DEF TypeOK
  <2>3. /\ \A q \in Run \ {r} : status'[q] = status[q]
        /\ status'[r] = "queued"
    BY <1>1, <2>1
  <2>4. QED
    BY <1>1, <2>1, <2>2, <2>3
<1>4. QED
  BY <1>2, <1>3

\* A command-line run answers for the run it has created or been handed.
LEMMA CliCreateStep ==
  ASSUME TypeOK, RunsInv, NEW w \in Worker, NEW r \in Run, CliCreate(w, r)
  PROVE  RunsInv'
<1>1. /\ pc[w] = "cli_create" /\ create_run(r)
      /\ pc' = [pc EXCEPT ![w] = "boot"] /\ job' = [job EXCEPT ![w] = r]
      /\ UNCHANGED <<code, watch, procs, mgr, up, faults>>
  BY DEF CliCreate, mgrVars
<1>2. /\ pc'[w] = "boot" /\ job'[w] = r
      /\ \A v \in Worker \ {w} : pc'[v] = pc[v] /\ job'[v] = job[v]
  BY <1>1 DEF TypeOK
<1>3. /\ r <= lastRun' /\ lastRun <= lastRun' /\ lastRun' \in Nat /\ lastRun \in Nat
      /\ \A q \in Run : q > lastRun' => status'[q] = "none"
      /\ \A q \in Run \ {r} : status'[q] = status[q]
      /\ \A v \in Worker : job[v] = r => status'[r] = status[r]
  BY <1>1, CreatesRun DEF TypeOK
<1>4. JobsInv'
  <2>1. mgr'.run <= lastRun'
    BY <1>1, <1>3 DEF RunsInv, JobsInv, TypeOK
  <2>2. ASSUME NEW v \in Worker
        PROVE  /\ job'[v] <= lastRun'
               /\ pc'[v] \in {"free", "cli_check", "cli_create"} => job'[v] = 0
               /\ watch'[v] \in {"write", "pop", "done"} => pc'[v] = "exited"
               /\ pc'[v] = "unlock" /\ job'[v] \in Run => status'[job'[v]] # "queued"
    <3>1. CASE v = w
      BY <1>1, <1>2, <1>3, <3>1 DEF RunsInv, JobsInv
    <3>2. CASE v # w
      <4>1. job[v] \in Nat /\ job[v] <= lastRun /\ job'[v] = job[v] /\ pc'[v] = pc[v]
              /\ watch'[v] = watch[v]
        BY <1>1, <1>2, <3>2 DEF RunsInv, JobsInv, TypeOK
      <4>2. job[v] \in Run => status'[job[v]] = status[job[v]]
        BY <1>3
      <4>3. job'[v] <= lastRun'
        BY <1>3, <4>1
      <4>4. QED
        BY <4>1, <4>2, <4>3 DEF RunsInv, JobsInv
    <3>3. QED
      BY <3>1, <3>2
  <2>3. ASSUME NEW q \in Run, procs'[q] # NoWorker PROVE job'[procs'[q]] = q
    <3>1. procs[q] \in Worker /\ job[procs[q]] = q /\ q # 0
      BY <1>1, <2>3 DEF RunsInv, JobsInv, TypeOK, Run
    <3>2. procs[q] # w
      BY <1>1, <3>1 DEF RunsInv, JobsInv
    <3>3. QED
      BY <1>1, <1>2, <3>1, <3>2
  <2>4. QED
    BY <1>3, <2>1, <2>2, <2>3 DEF JobsInv
<1>5. ASSUME up, NEW q \in Run, status'[q] \in Active PROVE Answered(q)'
  <2>1. CASE q = r
    BY <1>2, <2>1 DEF Answered, Answers, Alive
  <2>2. CASE q # r
    <3>1. status'[q] = status[q] /\ Answered(q) /\ q # 0
      BY <1>3, <1>5, <2>2 DEF RunsInv, RunsAnswered, ActiveRuns, Run
    <3>2. job[w] = 0
      BY <1>1 DEF RunsInv, JobsInv
    <3>3. ASSUME NEW v \in Worker, Answers(v, q) PROVE Answers(v, q)'
      <4>1. v # w
        BY <3>1, <3>2, <3>3 DEF Answers
      <4>2. QED
        BY <1>1, <1>2, <3>3, <4>1, OthersAnswer
    <3>4. QED
      BY <1>1, <3>1, <3>3, AnsweredStays
  <2>3. QED
    BY <2>1, <2>2
<1>6. QED
  BY <1>1, <1>4, <1>5 DEF RunsInv, RunsAnswered, ActiveRuns

\* A watcher gives up only a worker whose run has ended, or that has completed
\* its run.
LEMMA WatchReads ==
  ASSUME TypeOK, RunsInv, NEW w \in Worker,
         WatchExitRead(w) \/ WatchTimeout(w) \/ WatchTimeoutRead(w)
  PROVE  RunsInv'
<1>1. PICK t \in {"grace", "write", "pop"} :
        /\ watch' = [watch EXCEPT ![w] = t]
        /\ t # "grace" => pc[w] = "exited"
        /\ t = "pop" => code[w] # "nonzero" \/ status[job[w]] \in Terminal
        /\ watch[w] \in {"wait", "grace"}
        /\ UNCHANGED <<status, lastRun, pc, job, code, procs, mgr, up, faults>>
  BY DEF WatchExitRead, WatchTimeout, WatchTimeoutRead, WatchGoto
<1>2. watch'[w] = t /\ \A v \in Worker \ {w} : watch'[v] = watch[v]
  BY <1>1 DEF TypeOK
<1>3. JobsInv'
  BY <1>1, <1>2 DEF RunsInv, JobsInv
<1>4. ASSUME up, NEW r \in Run, status'[r] \in Active PROVE Answered(r)'
  <2>1. Answered(r) /\ status[r] \in Active /\ status'[r] = status[r]
    BY <1>1, <1>4 DEF RunsInv, RunsAnswered, ActiveRuns
  <2>2. ASSUME NEW v \in Worker, Answers(v, r) PROVE Answers(v, r)'
    <3>1. CASE v = w
      <4>1. job[w] = r /\ ~(t = "pop" /\ code[w] = "nonzero")
        BY <1>1, <2>1, <2>2, <3>1 DEF Answers
      <4>2. QED
        BY <1>1, <1>2, <2>2, <3>1, <4>1 DEF Answers, Alive
    <3>2. CASE v # w
      BY <1>1, <1>2, <2>2, <3>2, OthersAnswer
    <3>3. QED
      BY <3>1, <3>2
  <2>3. QED
    BY <1>1, <2>1, <2>2, AnsweredStays
<1>5. QED
  BY <1>1, <1>3, <1>4 DEF RunsInv, RunsAnswered, ActiveRuns

LEMMA WatchActs ==
  ASSUME TypeOK, RunsInv, NEW w \in Worker, WatchWrite(w) \/ WatchPop(w)
  PROVE  RunsInv'
<1>1. CASE WatchWrite(w)
  <2>1. /\ watch[w] = "write" /\ watch' = [watch EXCEPT ![w] = "pop"]
        /\ status' = [status EXCEPT ![job[w]] = "failed"]
        /\ UNCHANGED <<lastRun, pc, job, code, procs, mgr, up, faults>>
    BY <1>1 DEF WatchWrite, WatchGoto, update_run
  <2>2. watch'[w] = "pop" /\ \A v \in Worker \ {w} : watch'[v] = watch[v]
    BY <2>1 DEF TypeOK
  <2>3. /\ \A r \in Run : r # job[w] => status'[r] = status[r]
        /\ job[w] \in Run => status'[job[w]] = "failed"
    BY <2>1 DEF TypeOK
  <2>4. JobsInv'
    <3>1. \A r \in Run : r > lastRun => status'[r] = "none"
      <4>1. job[w] \in Nat /\ lastRun \in Nat /\ job[w] <= lastRun
        BY DEF TypeOK, RunsInv, JobsInv
      <4>2. QED
        BY <2>3, <4>1 DEF RunsInv, JobsInv, Run
    <3>2. ASSUME NEW v \in Worker
          PROVE  /\ job'[v] <= lastRun'
                 /\ pc'[v] \in {"free", "cli_check", "cli_create"} => job'[v] = 0
                 /\ watch'[v] \in {"write", "pop", "done"} => pc'[v] = "exited"
                 /\ pc'[v] = "unlock" /\ job'[v] \in Run => status'[job'[v]] # "queued"
      BY <2>1, <2>2, <2>3 DEF RunsInv, JobsInv
    <3>3. QED
      BY <2>1, <3>1, <3>2 DEF RunsInv, JobsInv
  <2>5. ASSUME up, NEW r \in Run, status'[r] \in Active PROVE Answered(r)'
    <3>1. r # job[w] /\ status'[r] = status[r]
      BY <2>3, <2>5
    <3>2. Answered(r)
      BY <2>5, <3>1 DEF RunsInv, RunsAnswered, ActiveRuns
    <3>3. ASSUME NEW v \in Worker, Answers(v, r) PROVE Answers(v, r)'
      <4>1. v # w
        BY <3>1, <3>3 DEF Answers
      <4>2. QED
        BY <2>1, <2>2, <3>3, <4>1, OthersAnswer
    <3>4. QED
      BY <2>1, <3>1, <3>2, <3>3, AnsweredStays
  <2>6. QED
    BY <2>1, <2>4, <2>5 DEF RunsInv, RunsAnswered, ActiveRuns
<1>2. CASE WatchPop(w)
  <2>1. /\ watch[w] = "pop" /\ watch' = [watch EXCEPT ![w] = "done"]
        /\ procs' = [procs EXCEPT ![job[w]] = NoWorker]
        /\ UNCHANGED <<status, lastRun, pc, job, code, mgr, up, faults>>
    BY <1>2 DEF WatchPop, dbVars, procVars
  <2>2. watch'[w] = "done" /\ \A v \in Worker \ {w} : watch'[v] = watch[v]
    BY <2>1 DEF TypeOK
  <2>3. \A r \in Run : procs'[r] # NoWorker => procs'[r] = procs[r]
    BY <2>1 DEF TypeOK
  <2>4. JobsInv'
    BY <2>1, <2>2, <2>3 DEF RunsInv, JobsInv
  <2>5. ASSUME NEW v \in Worker, NEW r \in Run, Answers(v, r) PROVE Answers(v, r)'
    <3>1. CASE v = w
      BY <2>1, <2>5, <3>1 DEF Answers, Alive, RunsInv, JobsInv
    <3>2. CASE v # w
      BY <2>1, <2>2, <2>5, <3>2, OthersAnswer
    <3>3. QED
      BY <3>1, <3>2
  <2>6. RunsAnswered'
    BY <2>1, <2>5, AnsweredStays DEF RunsInv, RunsAnswered, ActiveRuns
  <2>7. QED
    BY <2>4, <2>6 DEF RunsInv
<1>3. QED
  BY <1>1, <1>2

\* start: the run it has created, or been handed, waits for a worker, unless
\* somebody answers for it.
LEMMA StartRunsInv ==
  ASSUME TypeOK, RunsInv,
         \/ \E r \in Run : StartCreate(r)
         \/ StartCheck
         \/ StartSpawnError
  PROVE  RunsInv'
<1>1. ASSUME UNCHANGED <<pc, job, code, watch>>, NEW v, NEW r, Answers(v, r)
      PROVE  Answers(v, r)'
  BY <1>1, OthersAnswer
<1>2. ASSUME NEW r \in Run, StartCreate(r) PROVE RunsInv'
  <2>1. /\ create_run(r) /\ mgr = Idle /\ mgr' = [op |-> "check", run |-> r]
        /\ UNCHANGED <<pc, job, code, watch, procs, up, faults>>
    BY <1>2 DEF StartCreate, procVars
  <2>2. /\ r <= lastRun' /\ lastRun <= lastRun' /\ lastRun' \in Nat /\ lastRun \in Nat
        /\ \A q \in Run : q > lastRun' => status'[q] = "none"
        /\ \A q \in Run \ {r} : status'[q] = status[q]
        /\ \A v \in Worker : job[v] = r => status'[r] = status[r]
    BY <2>1, CreatesRun DEF TypeOK
  <2>3. ASSUME NEW v \in Worker
        PROVE  /\ job'[v] <= lastRun'
               /\ pc'[v] \in {"free", "cli_check", "cli_create"} => job'[v] = 0
               /\ watch'[v] \in {"write", "pop", "done"} => pc'[v] = "exited"
               /\ pc'[v] = "unlock" /\ job'[v] \in Run => status'[job'[v]] # "queued"
    <3>1. job[v] \in Nat /\ job[v] <= lastRun
      BY DEF RunsInv, JobsInv, TypeOK
    <3>2. job[v] \in Run => status'[job[v]] = status[job[v]]
      BY <2>2
    <3>3. job'[v] <= lastRun'
      BY <2>1, <2>2, <3>1
    <3>4. QED
      BY <2>1, <3>2, <3>3 DEF RunsInv, JobsInv
  <2>4. JobsInv'
    BY <2>1, <2>2, <2>3 DEF RunsInv, JobsInv
  <2>5. ASSUME up, NEW q \in Run, status'[q] \in Active PROVE Answered(q)'
    <3>1. CASE status'[q] = status[q]
      <4>1. Answered(q)
        BY <2>5, <3>1 DEF RunsInv, RunsAnswered, ActiveRuns
      <4>2. CASE \E v \in Worker : Answers(v, q)
        BY <1>1, <2>1, <4>2 DEF Answered
      <4>3. CASE status[q] = "queued" /\ faults["spawn"] > 0
        BY <2>1, <3>1, <4>3 DEF Answered
      <4>4. QED
        BY <2>1, <4>1, <4>2, <4>3 DEF Answered, Idle
    <3>2. CASE status'[q] # status[q]
      <4>1. q = r /\ ActiveRuns = {}
        BY <2>1, <2>2, <3>2 DEF create_run, dbVars
      <4>2. status'[r] = "queued"
        BY <2>1, <4>1 DEF create_run, TypeOK
      <4>3. QED
        BY <2>1, <4>1, <4>2 DEF Answered
    <3>3. QED
      BY <3>1, <3>2
  <2>6. QED
    BY <2>1, <2>4, <2>5 DEF RunsInv, RunsAnswered, ActiveRuns
<1>3. CASE StartCheck
  <2>1. /\ mgr.op = "check"
        /\ mgr' = IF \/ status[mgr.run] = "running"
                     \/ procs[mgr.run] # NoWorker /\ Alive(procs[mgr.run])
                  THEN Idle
                  ELSE [mgr EXCEPT !.op = "spawn"]
        /\ UNCHANGED <<status, lastRun, pc, job, code, watch, procs, up, faults>>
    BY <1>3 DEF StartCheck, dbVars, procVars
  <2>2. mgr' = Idle \/ (mgr'.op = "spawn" /\ mgr'.run = mgr.run)
    BY <2>1 DEF TypeOK
  <2>3. mgr'.run <= lastRun
    BY <2>2 DEF RunsInv, JobsInv, Idle, TypeOK
  <2>4. JobsInv'
    BY <2>1, <2>3 DEF RunsInv, JobsInv
  <2>5. ASSUME up, NEW q \in Run, status[q] \in Active PROVE Answered(q)'
    <3>1. Answered(q)
      BY <2>5 DEF RunsInv, RunsAnswered, ActiveRuns
    <3>2. CASE \E v \in Worker : Answers(v, q)
      BY <1>1, <2>1, <3>2 DEF Answered
    <3>3. CASE status[q] = "queued" /\ faults["spawn"] > 0
      BY <2>1, <3>3 DEF Answered
    <3>4. CASE status[q] = "queued" /\ mgr.run = q
      <4>1. CASE mgr' = Idle
        <5>1. procs[q] \in Worker /\ Alive(procs[q]) /\ job[procs[q]] = q
          BY <2>1, <3>4, <4>1 DEF RunsInv, JobsInv, TypeOK, Idle
        <5>2. Answers(procs[q], q)
          BY <3>4, <5>1 DEF Answers, RunsInv, JobsInv
        <5>3. QED
          BY <1>1, <2>1, <5>1, <5>2 DEF Answered
      <4>2. CASE mgr'.op = "spawn" /\ mgr'.run = mgr.run
        BY <2>1, <3>4, <4>2 DEF Answered
      <4>3. QED
        BY <2>2, <4>1, <4>2
    <3>5. QED
      BY <3>1, <3>2, <3>3, <3>4 DEF Answered
  <2>6. QED
    BY <2>1, <2>4, <2>5 DEF RunsInv, RunsAnswered, ActiveRuns
<1>4. CASE StartSpawnError
  <2>1. /\ mgr' = Idle /\ faults["spawn"] \in Nat /\ faults'["spawn"] = faults["spawn"] + 1
        /\ mgr.op = "spawn"
        /\ UNCHANGED <<status, lastRun, pc, job, code, watch, procs, up>>
    BY <1>4 DEF StartSpawnError, dbVars, procVars, TypeOK
  <2>2. mgr'.run <= lastRun
    BY <2>1 DEF Idle, TypeOK
  <2>3. JobsInv'
    BY <2>1, <2>2 DEF RunsInv, JobsInv
  <2>4. ASSUME up, NEW q \in Run, status[q] \in Active PROVE Answered(q)'
    <3>1. Answered(q) /\ faults'["spawn"] > 0
      BY <2>1, <2>4 DEF RunsInv, RunsAnswered, ActiveRuns
    <3>2. CASE \E v \in Worker : Answers(v, q)
      BY <1>1, <2>1, <3>2 DEF Answered
    <3>3. CASE status[q] = "queued"
      BY <2>1, <3>1, <3>3 DEF Answered
    <3>4. QED
      BY <3>1, <3>2, <3>3 DEF Answered
  <2>5. QED
    BY <2>1, <2>3, <2>4 DEF RunsInv, RunsAnswered, ActiveRuns
<1>5. QED
  BY <1>2, <1>3, <1>4

\* start: the new process answers for the run it was spawned for.
LEMMA StartSpawnStep ==
  ASSUME TypeOK, RunsInv, NEW w \in Spawned, StartSpawn(w)
  PROVE  RunsInv'
<1>1. /\ w \in Worker /\ pc[w] = "free" /\ mgr.op = "spawn" /\ mgr' = Idle
      /\ pc' = [pc EXCEPT ![w] = "boot"] /\ job' = [job EXCEPT ![w] = mgr.run]
      /\ procs' = [procs EXCEPT ![mgr.run] = w] /\ watch' = [watch EXCEPT ![w] = "wait"]
      /\ UNCHANGED <<status, lastRun, code, up, faults>>
  BY DEF StartSpawn, dbVars
<1>2. /\ pc'[w] = "boot" /\ job'[w] = mgr.run /\ watch'[w] = "wait"
      /\ \A v \in Worker \ {w} : pc'[v] = pc[v] /\ job'[v] = job[v] /\ watch'[v] = watch[v]
  BY <1>1 DEF TypeOK
<1>3. job[w] = 0
  BY <1>1 DEF RunsInv, JobsInv
<1>4. JobsInv'
  <2>1. mgr'.run <= lastRun'
    BY <1>1 DEF TypeOK, Idle
  <2>2. ASSUME NEW v \in Worker
        PROVE  /\ job'[v] <= lastRun'
               /\ pc'[v] \in {"free", "cli_check", "cli_create"} => job'[v] = 0
               /\ watch'[v] \in {"write", "pop", "done"} => pc'[v] = "exited"
               /\ pc'[v] = "unlock" /\ job'[v] \in Run => status'[job'[v]] # "queued"
    <3>1. CASE v = w
      BY <1>1, <1>2, <3>1 DEF RunsInv, JobsInv
    <3>2. CASE v # w
      BY <1>1, <1>2, <3>2 DEF RunsInv, JobsInv
    <3>3. QED
      BY <3>1, <3>2
  <2>3. ASSUME NEW q \in Run, procs'[q] # NoWorker PROVE job'[procs'[q]] = q
    <3>1. CASE q = mgr.run
      BY <1>1, <1>2, <3>1 DEF TypeOK
    <3>2. CASE q # mgr.run
      <4>0. procs'[q] = procs[q]
        BY <1>1, <3>2 DEF TypeOK
      <4>1. procs'[q] = procs[q] /\ procs[q] \in Worker /\ job[procs[q]] = q /\ q # 0
        BY <2>3, <4>0 DEF RunsInv, JobsInv, TypeOK, Run
      <4>2. procs[q] # w
        BY <1>3, <4>1
      <4>3. QED
        BY <1>2, <4>1, <4>2
    <3>3. QED
      BY <3>1, <3>2
  <2>4. QED
    BY <1>1, <2>1, <2>2, <2>3 DEF RunsInv, JobsInv
<1>5. ASSUME up, NEW q \in Run, status[q] \in Active PROVE Answered(q)'
  <2>1. Answered(q) /\ q # 0
    BY <1>5 DEF RunsInv, RunsAnswered, ActiveRuns, Run
  <2>2. CASE \E v \in Worker : Answers(v, q)
    <3>1. PICK v \in Worker : Answers(v, q)
      BY <2>2
    <3>2. v # w
      BY <1>3, <2>1, <3>1 DEF Answers
    <3>3. Answers(v, q)'
      BY <1>1, <1>2, <3>1, <3>2, OthersAnswer
    <3>4. QED
      BY <3>3 DEF Answered
  <2>3. CASE status[q] = "queued" /\ faults["spawn"] > 0
    BY <1>1, <2>3 DEF Answered
  <2>4. CASE mgr.run = q
    BY <1>1, <1>2, <2>4 DEF Answered, Answers, Alive
  <2>5. QED
    BY <2>1, <2>2, <2>3, <2>4 DEF Answered
<1>6. QED
  BY <1>1, <1>4, <1>5 DEF RunsInv, RunsAnswered, ActiveRuns

\* cancel: the run it is about ends, and no other was waiting for a spawn.
LEMMA CancelStep ==
  ASSUME TypeOK, RunsInv, CancelWrite \/ CancelKill \/ \E r \in Run : CancelRead(r)
  PROVE  RunsInv'
<1>1. /\ mgr.op \notin {"check", "spawn"}
      /\ UNCHANGED <<lastRun, pc, job, code, watch, procs, up, faults>>
  BY DEF CancelWrite, CancelKill, CancelRead, Idle, dbVars, procVars
<1>2. /\ \A r \in Run : status'[r] # status[r] => status'[r] = "cancelled" /\ r <= lastRun
      /\ mgr'.run <= lastRun
  <2>1. lastRun \in Nat /\ mgr.run \in Nat /\ mgr.run <= lastRun
    BY DEF TypeOK, RunsInv, JobsInv
  <2>2. CASE CancelWrite
    <3>1. /\ status' = [status EXCEPT ![mgr.run] = "cancelled"] /\ mgr'.run = mgr.run
          /\ mgr.op = "c_write"
      BY <2>2 DEF CancelWrite, update_run, TypeOK
    <3>2. QED
      BY <2>1, <3>1 DEF TypeOK
  <2>3. CASE CancelKill
    BY <2>1, <2>3 DEF CancelKill, Idle, dbVars
  <2>4. ASSUME NEW r \in Run, CancelRead(r)
        PROVE  status' = status /\ mgr'.run <= lastRun
    <3>1. status' = status /\ status[r] # "none" /\ mgr'.run = r
      BY <2>4 DEF CancelRead, dbVars
    <3>2. QED
      BY <2>1, <3>1 DEF RunsInv, JobsInv, Run
  <2>5. QED
    BY <2>2, <2>3, <2>4
<1>3. JobsInv'
  <2>1. \A r \in Run : r > lastRun => status'[r] = "none"
    <3>1. lastRun \in Nat /\ \A r \in Run : r \in Nat
      BY DEF TypeOK, Run
    <3>2. QED
      BY <1>2, <3>1 DEF RunsInv, JobsInv
  <2>2. ASSUME NEW v \in Worker, pc[v] = "unlock", job[v] \in Run
        PROVE  status'[job[v]] # "queued"
    BY <1>2, <2>2 DEF RunsInv, JobsInv
  <2>3. QED
    BY <1>1, <1>2, <2>1, <2>2 DEF RunsInv, JobsInv
<1>4. ASSUME up, NEW q \in Run, status'[q] \in Active PROVE Answered(q)'
  <2>1. status'[q] = status[q] /\ Answered(q)
    BY <1>2, <1>4 DEF RunsInv, RunsAnswered, ActiveRuns
  <2>2. ASSUME NEW v \in Worker, Answers(v, q) PROVE Answers(v, q)'
    BY <1>1, <2>2, OthersAnswer
  <2>3. QED
    BY <1>1, <2>1, <2>2 DEF Answered
<1>5. QED
  BY <1>1, <1>3, <1>4 DEF RunsInv, RunsAnswered, ActiveRuns

\* The service stops and comes back: while it is down nobody is expected to
\* answer, and when it is back no run is active.
LEMMA RestartRunsInv ==
  ASSUME TypeOK, RunsInv, ServiceStop \/ recover_stale_runs
  PROVE  RunsInv'
<1>1. CASE ServiceStop
  <2>1. /\ ~up' /\ mgr' = Idle /\ \A r \in Run : procs'[r] = NoWorker
        /\ \A w \in Worker : watch'[w] \in {"none", "done"}
                               /\ (watch'[w] = "done" => watch[w] = "done")
        /\ UNCHANGED <<status, lastRun, pc, job, code>>
    BY <1>1 DEF ServiceStop, dbVars, procVars
  <2>2. mgr'.run <= lastRun'
    BY <2>1 DEF Idle, TypeOK
  <2>3. JobsInv'
    BY <2>1, <2>2 DEF RunsInv, JobsInv
  <2>4. QED
    BY <2>1, <2>3 DEF RunsInv, RunsAnswered
<1>2. CASE recover_stale_runs
  <2>1. /\ \A r \in Run : status'[r] = IF status[r] \in Active THEN "failed" ELSE status[r]
        /\ UNCHANGED <<lastRun, pc, job, code, watch, procs, mgr>>
    BY <1>2 DEF recover_stale_runs, procVars
  <2>2. JobsInv'
    BY <2>1 DEF RunsInv, JobsInv
  <2>3. QED
    BY <2>1, <2>2 DEF RunsInv, RunsAnswered, ActiveRuns
<1>3. QED
  BY <1>1, <1>2

\* Nothing that matters here changes.
LEMMA UnrelatedStep ==
  ASSUME RunsInv,
         UNCHANGED <<status, lastRun, pc, job, code, watch, procs, mgr, up, faults>>
  PROVE  RunsInv'
<1>1. JobsInv'
  BY DEF RunsInv, JobsInv
<1>2. RunsAnswered'
  BY DEF RunsInv, RunsAnswered, ActiveRuns, Answered, Answers, Alive
<1>3. QED
  BY <1>1, <1>2 DEF RunsInv

LEMMA ServiceRuns ==
  ASSUME TypeOK, RunsInv, ManagerStep \/ Request \/ Environment
  PROVE  RunsInv'
<1>1. ASSUME NEW w \in Worker, Kill(w) PROVE Errs(w)
  BY <1>1 DEF Kill, Exit, Errs, TypeOK, dbVars, mgrVars
<1>2. ASSUME NEW w \in Worker, CliInterrupt(w) PROVE RunsInv'
  BY <1>2, UnrelatedStep DEF CliInterrupt, dbVars, procVars, mgrVars
<1>3. CASE ManagerStep \/ Request
  BY <1>3, StartRunsInv, StartSpawnStep, CancelStep DEF ManagerStep, Request
<1>4. CASE Environment
  BY <1>1, <1>2, <1>4, ErrsStep, StartRunsInv, RestartRunsInv DEF Environment
<1>5. QED
  BY <1>3, <1>4

LEMMA WatchRuns ==
  ASSUME TypeOK, RunsInv, NEW w \in Worker, WatchStep(w)
  PROVE  RunsInv'
<1>1. CASE WatchKill(w)
  BY <1>1, ErrsStep DEF WatchKill, WatchGoto, Exit, Errs, TypeOK
<1>2. QED
  BY <1>1, WatchReads, WatchActs DEF WatchStep

\* The points a worker reaches by its own steps and by signals.
LEMMA WorkerRuns ==
  ASSUME TypeOK, RunsInv, NEW w \in Worker, WorkerStep(w)
  PROVE  RunsInv'
<1>1. ASSUME NEW from \in PC \ {"exited"},
             NEW to \in PC \ {"free", "exited", "unlock", "cli_check", "cli_create"},
             Goto(w, from, to),
             \/ status' = status
             \/ \E s \in {"running", "failed"} : update_run(job[w], s),
             UNCHANGED <<lastRun, watch, procs, mgr, up, faults>>
      PROVE  RunsInv'
  <2>1. MovesOn(w, to)
    BY <1>1 DEF MovesOn, Goto, update_run
  <2>2. QED
    BY <2>1, MovesOnStep
<1>2. CASE CliStart(w)
  <2>1. MovesOn(w, "cli_check")
    BY <1>2 DEF CliStart, Goto, MovesOn, dbVars, mgrVars
  <2>2. QED
    BY <2>1, MovesOnStep
<1>3. CASE CliCheck(w)
  <2>1. Errs(w) \/ MovesOn(w, "cli_create")
    BY <1>3 DEF CliCheck, Exit, Goto, Errs, Alive, MovesOn, dbVars, mgrVars
  <2>2. QED
    BY <2>1, ErrsStep, MovesOnStep
<1>4. CASE InstallHandlers(w) \/ MarkRunning(w)
  BY <1>1, <1>4 DEF InstallHandlers, MarkRunning, dbVars, mgrVars
<1>5. CASE AcquireLock(w) \/ LockBusy(w)
  BY <1>1, <1>5 DEF AcquireLock, LockBusy, dbVars, mgrVars
<1>6. CASE DecideUnchanged(w) \/ DecideChanged(w)
  BY <1>1, <1>6 DEF DecideUnchanged, DecideChanged, dbVars, mgrVars
<1>7. CASE upsert_edition_draft(w) \/ commit_edition(w)
  BY <1>1, <1>7 DEF upsert_edition_draft, commit_edition, dbVars, mgrVars
<1>8. CASE write_edition(w)
  BY <1>1, <1>8 DEF write_edition, WriteArtifact, dbVars, mgrVars
<1>9. CASE StageFails(w)
  BY <1>1, <1>9 DEF StageFails, dbVars, mgrVars
<1>10. CASE ExceptRead(w)
  BY <1>1, <1>10 DEF ExceptRead, dbVars, mgrVars
<1>11. CASE ExceptMarkFailed(w) \/ fail_edition(w)
  BY <1>1, <1>11 DEF ExceptMarkFailed, fail_edition, dbVars, mgrVars
<1>12. CASE ReturnNonzero(w)
  BY <1>12, ErrsStep DEF ReturnNonzero, Exit, Errs, Alive, dbVars, mgrVars
<1>13. QED
  BY <1>2, <1>3, <1>4, <1>5, <1>6, <1>7, <1>8, <1>9, <1>10, <1>11, <1>12, CliCreateStep,
     CompletesStep DEF WorkerStep

LEMMA SignalRuns ==
  ASSUME TypeOK, RunsInv, NEW w \in Worker, SignalDelivered(w)
  PROVE  RunsInv'
<1>1. CASE SignalKills(w)
  BY <1>1, ErrsStep DEF SignalKills, Exit, Errs, Alive, dbVars, mgrVars
<1>2. CASE SignalCancels(w) \/ SignalFindsDatabaseLocked(w)
  <2> DEFINE p == IF pc[w] \in {"lock"} \cup InLock THEN "h_read" ELSE "erring"
  <2>1. pc' = [pc EXCEPT ![w] = p] /\ pc[w] # "exited"
    BY <1>2 DEF SignalCancels, SignalFindsDatabaseLocked, Unwind, Writing, TypeOK
  <2>2. status' = status \/ status' = [status EXCEPT ![job[w]] = "cancelled"]
    BY <1>2 DEF SignalCancels, SignalFindsDatabaseLocked, update_run, dbVars
  <2>3. UNCHANGED <<code, lastRun, job, watch, procs, mgr, up, faults>>
    BY <1>2 DEF SignalCancels, SignalFindsDatabaseLocked, Unwind, dbVars, mgrVars
  <2>4. p \in PC \ {"free", "exited", "unlock"} /\ p \notin {"cli_check", "cli_create"}
    OBVIOUS
  <2> HIDE DEF p
  <2>5. MovesOn(w, p)
    BY <2>1, <2>2, <2>3, <2>4 DEF MovesOn
  <2>6. QED
    BY <2>4, <2>5, MovesOnStep
<1>3. QED
  BY <1>1, <1>2 DEF SignalDelivered

LEMMA RunsStep == TypeOK /\ RunsInv /\ [Next]_vars => RunsInv'
<1> SUFFICES ASSUME TypeOK, RunsInv, [Next]_vars PROVE RunsInv'
  OBVIOUS
<1>1. CASE Next
  BY <1>1, ServiceRuns, WatchRuns, WorkerRuns, SignalRuns DEF Next
<1>2. CASE UNCHANGED vars
  BY <1>2, UnrelatedStep DEF vars, dbVars, procVars, mgrVars
<1>3. QED
  BY <1>1, <1>2

\* Whichever processes die, whatever is cancelled and however often the service
\* restarts, an active run, which keeps create_run from beginning another, has
\* somebody left to end it, but for the runs that NobodyLeftBehind excepts.
THEOREM NobodyLeftBehindHolds == Spec => []NobodyLeftBehind
<1>1. Init => RunsInv
  BY ConstantsAssumption
  DEF Init, RunsInv, JobsInv, RunsAnswered, ActiveRuns, Idle
<1>2. TypeOK /\ RunsInv => NobodyLeftBehind
  <2>1. SUFFICES ASSUME TypeOK, RunsInv, up, faults["spawn"] = 0, NEW r \in ActiveRuns
                 PROVE  \/ mgr.run = r /\ mgr.op \in {"check", "spawn"}
                        \/ \E w \in Worker :
                             /\ job[w] = r
                             /\ \/ Alive(w)
                                \/ watch[w] \notin {"none", "pop", "done"}
                                \/ Unwatched(w)
    BY DEF NobodyLeftBehind
  <2>2. Answered(r)
    BY <2>1 DEF RunsInv, RunsAnswered
  <2>3. ASSUME NEW w \in Worker, Answers(w, r)
        PROVE  job[w] = r /\ (Alive(w) \/ watch[w] \notin {"none", "pop", "done"} \/ Unwatched(w))
    BY <2>3 DEF Answers, Alive, Unwatched
  <2>4. QED
    BY <2>1, <2>2, <2>3 DEF Answered
<1>3. QED
  BY <1>1, <1>2, RunsStep, TypeCorrect, PTL DEF Spec
=============================================================================
