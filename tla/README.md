# Formal models of AI Frontier Daily

TLA+ models of the parts of `src/frontier_daily` where a mistake is hard to see and
hard to test: the life of a pipeline run across processes, threads and restarts, the
fetch stage with its table of source items, the agent's events and the gates they pass,
the event ledger, the way from the ledger to the briefing of a day and what it says, and
the schedule that starts it. TLC checks small instances; TLAPS proves the central safety
properties for every instance.

## The system

One service process (FastAPI, APScheduler, `JobManager`) starts one-shot worker
processes, each in a session of its own. A worker can also be started by
`frontier-daily run`. Everybody shares one SQLite database in WAL mode, the file
`pipeline.lock`, and the published files of each edition date.

| Component | State | Operations | Interacts through |
|---|---|---|---|
| Job manager (`scheduler.py`) | `_processes`, `_lock`, a watcher thread per spawned worker | start, cancel, retry, `_watch` | `job_runs`, Popen, SIGTERM and SIGKILL |
| Scheduler (`scheduler.py`) | APScheduler job, `scheduler_paused` | start, catch-up, pause, resume, reschedule | `JobManager.start`, settings |
| Worker (`worker.py`, `cli.py`) | process, signal handlers | main, cancel handler | `job_runs`, `pipeline.lock` |
| Pipeline (`pipeline.py`) | local variables of one run | discover, fetch, extract, deduplicate, synthesize, render, commit | all tables, files |
| Run table (`db.py`) | `job_runs`, `job_steps` | create_run, update_run, active_run, recover_stale_runs | everybody |
| Source items (`db.py`) | `source_items`, `run_items` | add_source_item, content_duplicate, dispositions | fetch stage |
| Event ledger (`db.py`) | `events`, `event_aliases`, `event_sources`, `claims`, `run_events` | upsert_event, run_events, event_action | pipeline and control API |
| Editions (`db.py`, `render.py`) | `editions`, `edition_items`, three files a date | draft, write_edition, commit, fail | pipeline, API readers |
| Settings (`api.py`, `db.py`) | `app_settings` | PUT /api/settings, open_database | pipeline reads them at many points |
| Agent (`llm.py`), `dedup.py` | none | extract_events with its merge, synthesize_edition, fallback_event | pipeline |
| Quality (`quality.py`) | none | assess_candidate, thresholds of candidates and events | fetch, both event gates |
| Localisation | none | pure functions over texts | rendering |
| Collectors, HTTP, content | none | network and parsing | pipeline |
| Frontend, scripts | none that is kept | display; launchd | API |

What is hard, and what makes each component correct:

* **Runs.** Watchers, requests, workers and signals write `job_runs.status` without
  looking at it, or after looking in another transaction; workers survive the service;
  a signal handler writes to the database from inside any statement. Correct means: one
  pipeline at a time, every run ends, no active run is forgotten (it would block every
  later one), a cancelled run stays cancelled.
* **Publication.** Files and row change one after the other and a run may stop between
  any two. Correct means: a published row is backed by the files of its own run. (The API
  serves the files whatever the row says: under a draft or a failed row a reader may be given
  the last edition, the next one or some of each.)
* **Source items.** Pages arrive in any order, two of them may lead to one URL, texts
  move between URLs, runs fail after the texts are stored. Correct means: only what
  passed the gate goes to the model, once, and what is set aside as seen was seen.
* **Extraction.** The agent splits and repeats events, cites what it was not given, or does
  not answer; two gates judge an event by different data. Correct means: the merge loses
  and adds nothing, every candidate gets a disposition that is true, the gates agree.
* **Ledger.** Keys of the extraction drift while source items stay. Correct means: the
  three lookups of an event agree, a claim is news once, news is not forgotten.
* **Scheduler.** Pauses, new hours, restarts and a sleeping host. Correct means: what the
  settings say is what APScheduler does, and a day gets its run.
* **Edition.** Many runs, failed runs and the user's actions add up to one edition per
  date. Correct means: what is shown has news, what is news is shown, no fact is news on two
  dates, a rerun of a date loses nothing, a requested rebuild takes place, and `ready` is
  said of the agent's work only.

`PROJECT.json` lists the hazards with their lines and the properties that cover them.

## Modules

| Module | Models |
|---|---|
| `RunLifecycle` | run table, `JobManager` with watchers, worker processes with signals, `run_lock`, control flow of `run_pipeline`, publication of one date |
| `RunLifecycle_proofs` | its theorems |
| `Publication` | what the readers of a date are promised while its row is published; `RunLifecycle` implements it |
| `QualityPolicy` | `quality.py`: scores, thresholds and failures; the thresholds of both event gates |
| `QualityPolicy_proofs` | its theorems |
| `EventLedger` | the ledger as one transaction per action |
| `EventLedger_proofs` | its theorems |
| `AgentStages`, `MCAgentStages` | extends the ledger and the quality policy with the stages extract and deduplicate; the sources and answers of an instance |
| `AgentStages_proofs` | its theorems, which extend those of the ledger |
| `DailyEdition`, `MCDailyEdition` | extends the ledger with runs, dates, stages, editions, rebuild requests; the pages that an instance extracts |
| `DailyEdition_proofs` | its theorems, which extend those of the ledger |
| `EditionEntries`, `MCEditionEntries` | extends `DailyEdition` with what an edition says of its events: kind, delta and whose text |
| `EditionEntries_proofs` | its theorems, which extend those of `DailyEdition` |
| `SourceItems`, `MCSourceItems` | discovery and fetch over the table of source items |
| `SourceItems_proofs` | its theorems |
| `DailySchedule`, `MCDailySchedule` | `SchedulerService`, the settings it obeys and the requests that change them, over time and restarts |
| `DailySchedule_proofs` | its theorems |

How they compose. `AgentStages`, `DailyEdition` and `EditionEntries` extend the ledger and
call its operations in their own actions; the proofs show that each of them implements
`LedgerSpec`, so what is proved of the ledger holds of all. `EditionEntries` adds variables to
`DailyEdition` and implements its `Spec`. What one module takes as an input another one
shows: the batches of `DailyEdition` are what `AgentStages` files, the candidates of
`AgentStages` are what `SourceItems` hands over, the exclusion of runs that all of them
rely on is `OnePipelineWorker` of `RunLifecycle`.

### RunLifecycle

One action is one transaction, one system call or one file replacement; the rest is
local to its process. `pc[w]` is the worker's place: `cli_check`, `cli_create` and
`boot` before its handlers exist, `mark` and `lock` before `run_lock`, `work` to
`unlock` inside it, `h_read` to `h_edition` in the except block, `erring` on the way
out. `mgr` is the thread that holds `JobManager._lock` and what it does next, `watch[w]`
the watcher thread. The stages before the draft are one step, `work`: they write other
tables, which `DailyEdition` models. `sig[w]` is a pending signal; no instruction runs
before its handler does, and inside a write transaction (`Writing`) the handler may also
find the database locked by its own process. `ServiceStop` and `recover_stale_runs` are
the restart. Runs are numbered by creation, so the newest is the largest. `report.md`
is left out: no row names it. `job_steps`, logs, pids and progress are left out too.
Starts by request, cron, catch-up and retry are the same call, `StartCreate`.

### Publication

While the row of a date is published (`sealed`), what a reader is given are the files of the
writer whose items the row lists, and they do not change; the row is withdrawn before a file
is replaced (`Revise`) and sealed again when all of them are one writer's (`Publish`).
`RunLifecycle` refines it with `shown <- Shown`, what `edition_report` serves: nothing before
the first commit, because the row names no file, and from then on the files as they are,
also under a draft or a failed row. So the promise is about published rows only, and that
is all the code keeps: during a rerun, or after one has failed between two files, readers
are given files of two editions, and only the status says so.

### QualityPolicy

The ladders of points, thresholds and minimums of `quality.py` over what it measures:
lengths, counts and whether a pattern matches. `MeetsThreshold` is the test that both event
gates share (the minimum over the sources is met when some source is content), `Vouches`
the choice of sources of the second one.

### EventLedger

`upsert_event` is `InsertEvent` or `MergeEvent`; `Resolves` is the order of lookups (by
source item, by alias, by key), `Decide` the decision and `NewMaterial` the claims that
are inserted and material. The placeholder text for a forced event is not a claim and
leaves the delta empty (`EditionEntries` has it). `BeginRun` starts the rows of a new run id:
none are decided. `reject_items` is the disposition of items whose events are refused or
that no event cites. Importance is in `AgentStages`; texts and time stamps are left out.

### AgentStages

A run gets candidates with their verdicts, asks the agent or falls back to rules, merges the
answer event by event (`MergeStated`, the loop of `extract_events`), filters and files.
`Stated` is any event that the schema lets through: it may cite items that were not given,
repeat a key, be split. `ExtractByRules` covers the agent that is off, fails, times out or
answers something invalid, and the valid answer without an event, which `_extract_events`
treats as a failure. `importance` is `events.importance`, `grade` the assessment stored with an
item; a new `QUALITY_POLICY_VERSION` (`Upgrade`) makes those of before outdated. `BeginStages`
takes any verdicts: a candidate may have been replaced by a poorer copy, as `items_gate` shows.
`source_id` is the source an item was stored from last: `add_source_item` replaces it on every
store, so each run may bring an item from another of the sources that have it (`Origins`), with
another tier and threshold. `GateKept` therefore excepts events with an item that was stored
with another verdict or from another source. A source whose settings change, or which is taken
out of `sources.json`, is left out.

### DailyEdition

`phase` and `run` are the place and the local variables of one run of `run_pipeline`,
`editions` its table, `rebuild` the setting `report_rebuild_requested`. Runs do not
overlap: that is what `RunLifecycle` is about. The user's event actions come between any
two transactions. `Combine` is the whole of `_combine_with_existing_edition`: a rebuild
starts from `RebuildLimit` of the active events (300 in the code), any other run from the
published edition of its date and its own events; then come the quality gate and the item
limit. Scores are left open, so any events may fall to a limit (`CutTo`). `passing` are the
events that `_event_meets_quality_policy` lets through. A run may change it for any event of
`Regraded` when it begins, because storing items anew changes verdicts and sources; an event
that is filed passes afterwards (`PassesGate`: `FreshPassesGate` of `AgentStages` says that
its run's gates agree), unless it is one of those. The histories `gained`, `withheld`,
`rebuilt`, `broken`, `muted`, `asked`, `overtaken` record what the properties speak about; no
guard reads them. `withheld` are the events that the gate, a limit or a later decision of
the same run has kept out of a date's edition; an event leaves it when a later run of the
date selects it.

### EditionEntries

Each action is one of `DailyEdition` with what it does to the values of the selected events
(`values`) and the committed items (`entries`): the kind and the delta that
`_combine_with_existing_edition` gives them, the texts of `build_draft`, the rewrites that
`synthesize_edition` accepts. `Rewrites` are the agent's answers, with events left out or
named twice. `focus` stands for `focus` and `related`, and a text is only told by whose it is.
`by_rules` remembers that the events of the run come from `fallback_event`. Between files
and commit nothing comes here; that window is in `RunLifecycle`.

### SourceItems

A row is the last candidate stored under its canonical URL: source, content (one value per
hash) and `grade`, which stands for the 80 characters of evidence and the verdict of
`assess_candidate`. The verdict is an input of its own and not a function of the content: it
also depends on title, date and stars, which the hash ignores. A page is chosen when it is
stored, in any order; that covers redirects, pages that could not be fetched and the completion
order of the pool. `Judge` is the chain of dispositions. `batch_item_ids` is the set of that
name, which decides between `StoreFirst` and `StoreAgain`; that it agrees with the rows of
`run_items` is an invariant (`BatchOfRun`). `StoreUnjudged` is a database error between the row
and its disposition, which is logged and leaves the item a candidate. `disposition` holds the
rows of the current run only: those of earlier runs are never read again by the pipeline.
`failing` is whether `consecutive_failures` is positive, all that the dashboard counts. Fixture
runs skip the gates and are the case where every grade is good. A blank title is the only way
to an empty hash and is left out. `sent`, `unsent` and `churn` are histories.

### DailySchedule

The clock counts moments; `HourOf` and `DayOf` split it, and `PassTime` may skip any
number of them, because the host may sleep. `NextFireTime`, `Due`, `LastOccurrence` and
`InGrace` are APScheduler as the code configures it (cron trigger, `coalesce`,
`misfire_grace_time`); `Fire` is the call of `_scheduled_run` that follows, with the
setting it reads. A request runs in a thread of the pool, and each setting written and
each call of the scheduler is a step of it (`save`, `flag`, `apply`, `read`,
`reschedule`). `Stop` may find it between any two. `edition` is what a run of today,
started by anyone, has left behind; `ready` stands for `partial` too. The time zone never
changes while the service runs, and days without the scheduled hour or with two of it
(daylight saving time) are left out.

Definitions commented as "Faulty variant" stand beside the definition they vary. They
are not part of any specification and show that a property can fail.

## Runs of TLC

| Run | Configuration | Shows | Size |
|---|---|---|---|
| `service` | two spawned workers, two runs, one kill | `RunsEnd`, `LockIsFreed` under `FairSpec` | the largest liveness graph, two to three minutes |
| `faults` | a spawned and a command-line worker, one restart, one failed Popen | `TypeOK`, `OnePipelineWorker`, `PublishedFilesMatch`, `NobodyLeftBehind`, `ImplementsPublication` | 2.9 million states |
| `cancel` | as above, no faults | violates `CancelledStaysDown` | |
| `ledger` | `AgentStages`: an item of an official source and one that moves between an official and a community source, two events, three runs, one upgrade | `StagesTypeOK`, `MergeLosesNothing`, `EveryItemDisposed`, `FreshPassesGate`, `OutageSparesOfficial`, `GateKept`; of the ledger `LedgerTypeOK`, `KeysUnique`, `AliasesResolve`, `DeltaRecorded`, `NewsOnce` | 1.2 million states |
| `ledger_overwrite` | two keys, one item | violates `NewsKept` | |
| `edition` | `DailyEdition`: two pages, also as two events of one row, two dates, three runs, one failure; the gate may turn event 1 away on a rerun (`Regraded`), a rebuild lists one event (`RebuildLimit`); the user acts on one event (`Handled`) where a run may notice (`HandledIn`), settings are saved between runs or after one has read the request (`SavedIn`) | `EditionTypeOK`, `ReappearsOnlyWithNews`, `NewsReachesEdition`, `RebuildKept` | 6.7 million states, two and a half minutes |
| `entries` | `EditionEntries`: two pages, two dates, three runs, one failure, every answer of the agent, the user as above | `EntriesTypeOK`, `FactsShownOnce`, `NewsShown`, `ReadyIsRewritten` | 3.1 million states, two minutes |
| `edition_ready` | as `entries`, two runs | violates `ReadyUsedModel` | |
| `edition_rerun` | one date, three runs, one failure | violates `RerunLosesNothing` | |
| `items` | two sources, two URLs, two contents, three runs, three candidates a run, a database error between two statements | `ItemsTypeOK`, `NothingLost`, `SentOnceWhileStored`, `ReadableSourceHealthy` | 1.5 million states |
| `items_gate` | as above, two runs, no database error | violates `OnlyGatedReachesModel` | |
| `schedule` | three days of four moments, a catch-up of one, two requests by two threads | `ScheduleTypeOK`, `SettingsInForce`, `DayCovered` | 1.1 million states |

Why the bounds are enough to be interesting: two workers are what a race for the lock or for a
row takes, and a third waits like the second. Two runs let a second one be created after the
first has ended. One restart makes an orphan that meets a new worker. Two events and three keys
let a key lead to one event and its source item to the other. Two runs on one date make a
rerun, two dates a yesterday; three runs a failure with a day before and after. Only
`upsert_event`, `run_events` and a rebuild's choice read what the user has ignored or forced,
so in `edition` and `entries` the user acts between runs and before these; acting at any other
place of a run comes to the same. Settings likewise come to the same anywhere before a run
reads the request, and anywhere from there to its end. Their runs always extract something:
from there on, nothing and what is known already are one case. A rebuild of one event out of
two is as short of events as one of 300 out of more. Three candidates let a page change while
another takes its text, and one more run sends what was set aside. The bounds are constants
named `Max...`, `Handled...`, `SavedIn` and `Regraded`; they are guards of the actions they
bound. Three days are a night before and after the day that the host sleeps through.
`RunLifecycle`, `SourceItems` and `AgentStages` stop when their runs are used up and
`DailySchedule` when its clock does, so their configurations do not check deadlock; the other
modules never stop, and theirs do.

### What the violations say

1. `cancel`: the worker marks its run running without looking at it
   (`pipeline.py:606`). A queued command-line run cancelled through the API has no
   process to signal, and then runs and completes.
2. `ledger_overwrite`: a second extracted event that resolves to the same row replaces
   the decision of the first (`db.py:691`). News becomes a duplicate and is not shown.
3. `edition_rerun`: events are filed before the edition exists (`pipeline.py:653`).
   After a failure in a later stage the rerun finds duplicates only.
4. `items_gate`: a later copy of a URL in one batch (`pipeline.py:382`) keeps the first
   disposition, but its text is in the row by then and goes to the model ungated.
5. `edition_ready`: `ready` is decided as if the events had been extracted by the agent
   whenever the date has a row in `editions` (`pipeline.py:726`), also a failed one. After a
   failed run the next one may extract by rules and is still `ready`. `ReadyIsRewritten` is
   the half of the README's sentence that holds: the texts are the agent's.

`NothingLost` names the ways in which a content is given up: a gate, a failed run, a
replacement in one batch. Two of them are stricter than they look, because the hash stays:
the candidates of a failed run and a text that was rejected once come back as
`duplicate_exact`. `SentOnceWhileStored` excepts rows that changed since: the README
promises more (`README.md:240`), but `content_duplicate` sees current hashes only.

`RebuildKept` names one exception to what `README.md:203` says of changed settings. A run reads
the rebuild request at `pipeline.py:655` and clears it at line 746; settings saved in between
are not followed by a rebuild when that run completes (`overtaken`). Any other request survives
every failure and no-change run. `NewsReachesEdition` speaks of dates without a failed run, for
the reason of item 3, and names what keeps news out on the others: the user, the second gate,
the limits, and a decision replaced for the reason of item 2. The second gate is the one to
know of: a rerun stores its pages anew, and when one of them is poorer by then, or comes from
another source, an event of the day leaves the edition of the day without any failure
(`pipeline.py:585`, `db.py:497`). No text of the repository says that it stays.

`OutageSparesOfficial` names what an outage of the agent costs: items of community and media
sources get 50 or 58 points by rules, below their default thresholds of 75 and 80
(`dedup.py:64`), and since their hash is stored they do not come back with the agent. A
valid answer without an event is treated like a failure (`pipeline.py:462`): every
candidate then becomes a fallback event.

`FreshPassesGate` excepts events with an item whose accepted verdict a later copy has
replaced, the case of item 4. `NewsShown` speaks of the events of the run at hand. An update
that a rerun takes over from the date's edition keeps its kind and loses its delta
(`pipeline.py:580`), although the agent is asked to state the added facts.

`SettingsInForce` and `DayCovered` name what they except; an occurrence that is due and not
processed yet is a matter of moments. Two requests that overlap may
leave APScheduler paused while the setting says otherwise, because each writes the setting
first and turns to the scheduler afterwards (`scheduler.py:203`). A pause over the
scheduled time loses the run of that day: resuming moves the job to the next day
(`api.py:354`) and only a start of the service catches up.

### Fairness

`FairSpec` assumes weak fairness of the manager's steps and of each watcher thread: they
are threads of a live service, never wait for a worker beyond their time limits, and the
lock they share is always released. Nothing is assumed of workers, signals or requests: a
worker may hang in a fetch for ever, and `RunsEnd` still holds because the watcher kills it
(the time limits of two hours and ten seconds are steps that may happen at any time).
`RunsEnd` is about spawned workers of a service that stays up. A killed command-line
worker leaves its run active until the service restarts; `NobodyLeftBehind` names that
exception and the one of a failed Popen. `LockIsFreed` is checked for spawned workers too: a
hung command-line worker or an orphan may keep the lock for as long as it lives.

## Proofs

All constants are arbitrary, under the named assumptions of the modules.

* `TypeCorrect`, `PipelineInvariant`, `OnePipelineWorkerHolds`, `LockExcludes`,
  `PublishedFilesMatchHolds`: any number of workers, runs, kills and restarts. The
  invariant `PipelineInv` says that the flock and the program counters agree, and
  `OwnFiles`, that a worker between its draft and its commit finds the files it has
  written itself under a row that is not published. Without `OwnFiles` the commit could
  not be shown to publish matching files; without the lock `OwnFiles` would not hold.
* `NobodyLeftBehindHolds`: a run that is no longer queued has a worker that answers for it
  (`Answers`): it lives and has not completed the run, or it left an error code that no
  watcher has acted upon. The invariant `RunsAnswered` says so of every active run while the
  service is up, and of a queued one that else the request at hand is about to spawn its
  worker, or that a Popen has failed. It takes `JobsInv` to keep it: a watcher past its wait has seen
  the process end (so a live worker is never given up), an entry of `_processes` names a
  process of its run (so `StartCheck` may trust it), and a worker that has completed a run
  does not find it queued. Steps are sorted by what they do to the worker in question: it
  moves on (`MovesOn`), errs (`Errs`), completes, or its watcher acts; a worker that moves on
  may set any status but `queued`, which is why nobody has to look at the status it writes over.
* `PublicationImplemented`: from `PipelineInv`. A commit happens at an unpublished row
  and under files that are all the writer's own (`OwnFiles`), so it maps to `Publish`; a file
  is replaced under an unpublished row only, so it maps to `Revise`, or to a stutter before the
  first commit.
* `ScoreRange`, `MoreNeverHurts`: the score of `quality.py` stays between 0 and 100, and a
  candidate with more material is accepted where one with less is. The one exception is in
  the theorem's assumption: a body that grows past 120 characters takes the place of a
  summary that may be worth more (`quality.py:109`).
* `LedgerInvariant`, `LedgerTypesHold`, `KeysUniqueHolds`, `AliasesResolveHolds`,
  `DeltaRecordedHolds`, `NewsOnceHolds`: `LedgerInv` adds to the types
  that the key an event was created with leads to it as an alias for ever, so an event
  found by no source and no alias has a fresh key. Rows not inserted own nothing, which
  makes the delta of a new event its own.
* `StagesInvariant` and the theorems of `MergeLosesNothing`, `EveryItemDisposed`,
  `FreshPassesGate`, `OutageSparesOfficial`, `GateKept` and the types: `StagesInv` says that
  until a run files, it has decided nothing; that what is still to be filed has been
  admitted; that an event the run has decided has a candidate whose source admits it; and
  that candidates not disposed of belong to events to be filed. `MergeLosesNothing` is
  inductive by itself over the events taken so far. `StagesImplementLedger` carries the
  ledger's invariant over.
* `EditionInvariant`, `EditionTypesHold`, `ReappearsOnlyWithNewsHolds`: `RunShowsNews` says that what the run
  has decided, collected and selected is news of its date, also after runs that failed;
  a selection of an ordinary run mixes it with the date's own edition only.
* `NewsReachesEditionHolds`: `NewsInv` follows the news of a date from the decisions of its
  run to what the run collects, selects and commits; at each place the news is among the
  events there, among those of the published edition, ignored by the user, or `withheld`. The
  steps that need care are the filing, where a decision that is taken back makes its event
  withheld, and the combination, where all that was combined is selected or withheld. The
  theorem has no hypothesis. `ApartKeepsDecisions` says when no decision is taken back, in terms
  of what is extracted (`PagesApart`): keys and items divide into topics and no run extracts two
  events of one. Then rows have topics too (`RowsApart`), whatever the runs have filed, and the
  row of an event to be filed is not decided yet (`FilingApart`). TLC evaluates `PagesApart` for
  the batches of `entries`; those of `edition` include one that breaks it.
* `RebuildKeptHolds`: whenever settings are saved. From its collection to its commit a run
  either carries out what is requested or knows (`late`) that settings were saved since
  (`RebuildInv`), so what the commit does not answer was not asked or came late; and a late request
  that the end of the run takes back is overtaken, the exception that the property names.
* `LedgerImplemented`: `DailyEdition` implements `EventLedger`, so everything proved of
  the ledger holds of the pipeline. The mapping is the identity on the ledger's variables;
  each stage maps to an operation or to a stutter.
* `EntriesImplementEdition`, `EntriesInvariant` and the theorems of `EntriesTypeOK`,
  `FactsShownOnce`, `NewsShown`, `ReadyIsRewritten`: `FactsOfRun` says that every fact shown is
  a claim by then, and that what the run at hand has found out is shown for no other date.
  It is kept by the ledger (what is newly reported was no claim before, `NewsStep`), and at
  the commit it is what makes the facts of two dates disjoint. `ValuesOfRun` says that from
  the combination to the commit the values are those of the selected events.
* `ItemsInvariant`, `ItemsTypesHold`, `NothingLostHolds`, `SentOnceHolds`,
  `ReadableSourceHealthyHolds`: the
  strengthening, `HandedStored`, says that a row still holds what the model was or will
  be given under its URL, unless it is marked in `churn`; so a content with no other row
  was given under no other URL. `NothingLost` is inductive once the items of a run are
  known to be stored: the row that makes another one a duplicate is itself accounted for.
  `SourcesInv` says that a source with a readable first copy has answered in this run, and that
  none that has answered is marked failing before the fetch ends. Of a source whose readable
  articles came as later copies only nothing is claimed: the code does mark it failing
  (`pipeline.py:436`).

* `ScheduleInvariant`, `ScheduleTypesHold`, `SettingsInForceHolds`, `DayCoveredHolds`: any
  hours, days, catch-up windows, threads and restarts. `SettingsInv` says what a
  request that is alone has brought into force at each of its steps (`InForceAt`): only the hour
  of a new schedule may wait for longer than the next step, and a thread that finds another one
  under way makes the service `tangled`. `DayInv` says that the run of a quiet day has been
  started, or is still ahead or due, or came too late for the window. The lemmas about moments
  (`MomentSplit`, `SameHourApart`, `LaterDay`, `NextFireToday`) say what the arithmetic of
  hours and days gives: two moments of one hour are a day apart, and the next run of
  a service that starts before the hour is today's.

Only model-checked: `RunsEnd` and `LockIsFreed`, because they are liveness properties and rest
on fairness. Every invariant, action property and refinement that a passing run checks is a
theorem. Of the operators of
`QualityPolicy`, TLC evaluates those of the event gates; the score is only proved about.

## Plan

In order of importance; done so far are `RunLifecycle` with `Publication`, `EventLedger`,
`QualityPolicy`, `AgentStages`, `DailyEdition`, `EditionEntries`, `SourceItems`,
`DailySchedule` and the proofs above.

1. `Settings`: `open_database` with the quality fingerprint, and a process that stops between
   two settings (`db.py:964`, `api.py:335`).
2. Fetch stage: a run that shows the item lost with its failed run.
3. A failing database write in `JobManager.start`, and the time limit that a command-line
   run does not have.
4. The redirect limit of `http.py` and the recursion of sitemaps, as operators.

## Not modelled

Network I/O, parsing, wording and localisation of text, the agent's process and prompts,
request validation, the frontend and the launchd scripts: they keep no state of their own
that the properties are about. The patterns of `quality.py` are inputs of its model. See
`PROJECT.json` for each.
