---------------------------- MODULE DailyEdition ----------------------------
(***************************************************************************)
(* From the ledger to the day's edition: the stages of run_pipeline from   *)
(* extract to commit, run after run and date after date, with the editions *)
(* and edition_items tables and the setting report_rebuild_requested.      *)
(* Runs do not overlap here: RunLifecycle is about the lock that keeps     *)
(* them apart.  What does interleave with the stages is the user, who      *)
(* ignores, restores and forces events and saves settings, and failure,    *)
(* ends a run after any stage and leaves what it wrote.                    *)
(* Batches are the events that pass _filter_extracted_events; which events *)
(* of the ledger pass _event_meets_quality_policy is a set here, what      *)
(* AgentStages!Passes says of them.  The settings keep one max_items.      *)
(***************************************************************************)
EXTENDS EventLedger

CONSTANTS
  Batches,         \* the sets of ExtractedEvents that a run may extract
  MaxDates,        \* bound: edition dates
  MaxRuns,         \* bound: runs
  MaxFailures,     \* bound: runs that fail, are cancelled or killed
  MaxItems,        \* the setting max_items
  RebuildLimit,    \* the events that a rebuild asks the ledger for: 300
  LlmEnabled,      \* config.llm_enabled
  LlmRequired,     \* config.llm_required_for_ready
  Regraded,        \* bound: the events that may pass the quality gate or not
  Handled,         \* bound: the events that the user ignores, restores or forces
  HandledIn,       \* bound: the phases in which the user does so
  SavedIn          \* bound: the phases in which settings are saved

ASSUME EditionAssumption ==
  /\ Batches \subseteq SUBSET Extracted
  /\ MaxDates \in Nat \ {0} /\ MaxRuns \in Nat /\ MaxFailures \in Nat
  /\ MaxItems \in Nat /\ RebuildLimit \in Nat
  /\ LlmEnabled \in BOOLEAN /\ LlmRequired \in BOOLEAN
  /\ Regraded \subseteq Id /\ Handled \subseteq Id

VARIABLES
  phase,       \* what the run does next, "idle" between runs
  run,         \* the local variables of run_pipeline; between runs the date
               \* of the last one and whether it completed
  todo,        \* extracted events still to be upserted
  passing,     \* the events that _event_meets_quality_policy lets through
  editions,    \* status and items of each date's edition
  rebuild,     \* report_rebuild_requested
  runs,        \* runs begun
  failures,    \* runs that ended early
  gained,      \* history: events new or updated on each date
  withheld,    \* history: events that the gate, a limit or a later decision
               \* has kept out of each date's edition
  rebuilt,     \* history: dates with an edition rebuilt on request
  broken,      \* history: dates with a run that ended early
  muted,       \* history: events the user has ever ignored
  asked,       \* history: settings were saved and no rebuild shows them yet
  overtaken    \* history: the last ones were saved while a run that completed
               \* had already read whether to rebuild

history == <<gained, withheld, rebuilt, broken, muted, asked, overtaken>>
pipeline == <<phase, run, todo, runs, failures>>
vars == <<ledger, passing, pipeline, editions, rebuild, history>>

Date == 1..MaxDates
Published == {"ready", "partial"}
EditionStatus == {"none", "draft", "failed"} \cup Published
Phase == {"idle", "extract", "dedup", "combine", "draft", "skip", "synthesize",
          "commit", "clear"}

\* late: settings have been saved since the run read report_rebuild_requested.
NoRun == [date |-> 1, completed |-> FALSE, rebuild |-> FALSE, late |-> FALSE, fresh |-> {},
          selected |-> {}, existing |-> FALSE, extraction |-> FALSE, synthesis |-> FALSE]

EditionTypeOK ==
  /\ phase \in Phase
  /\ run \in [date : Date, completed : BOOLEAN, rebuild : BOOLEAN, late : BOOLEAN,
              fresh : SUBSET Id, selected : SUBSET Id, existing : BOOLEAN, extraction : BOOLEAN,
              synthesis : BOOLEAN]
  /\ todo \in SUBSET Extracted
  /\ passing \subseteq Id
  /\ editions \in [Date -> [status : EditionStatus, items : SUBSET Id]]
  /\ rebuild \in BOOLEAN
  /\ runs \in 0..MaxRuns
  /\ failures \in 0..MaxFailures
  /\ gained \in [Date -> SUBSET Id]
  /\ withheld \in [Date -> SUBSET Id]
  /\ rebuilt \subseteq Date
  /\ broken \subseteq Date
  /\ muted \subseteq Id
  /\ asked \in BOOLEAN
  /\ overtaken \in BOOLEAN

Init ==
  /\ LedgerInit
  /\ phase = "idle"
  /\ run = NoRun
  /\ todo = {}
  /\ passing = {}
  /\ editions = [d \in Date |-> [status |-> "none", items |-> {}]]
  /\ rebuild = FALSE
  /\ runs = 0
  /\ failures = 0
  /\ gained = [d \in Date |-> {}]
  /\ withheld = [d \in Date |-> {}]
  /\ rebuilt = {}
  /\ broken = {}
  /\ muted = {}
  /\ asked = FALSE
  /\ overtaken = FALSE

-----------------------------------------------------------------------------
(* The stages. *)

\* The run is over, its local variables are gone.
EndRun(ok) ==
  /\ phase' = "idle"
  /\ run' = [NoRun EXCEPT !.date = run.date, !.completed = ok]

\* A new run, for the date of the last one or the next day.  By storing items
\* anew it decides which of the events in the ledger pass the gate from now on.
StartRun(d, P) ==
  /\ phase = "idle" /\ runs < MaxRuns
  /\ d \in {run.date, run.date + 1}
  /\ passing' = P
  /\ P \ Regraded = passing \ Regraded
  /\ runs' = runs + 1
  /\ BeginRun
  /\ run' = [NoRun EXCEPT !.date = d]
  /\ phase' = "extract"
  /\ UNCHANGED <<todo, failures, editions, rebuild, history>>

\* _extract_events: by the agent, or by rules when it is off or has failed; of
\* the agent's events, too, the gate may have left none.
Extract(B, llm) ==
  /\ phase = "extract"
  /\ llm => LlmEnabled
  /\ todo' = B
  /\ run' = [run EXCEPT !.extraction = llm]
  /\ phase' = "dedup"
  /\ UNCHANGED <<ledger, passing, runs, failures, editions, rebuild, history>>

\* What the run has decided to show.
Decided == {e \in Id : run_events[e].decision \in {"new", "update"}}

\* An event that is filed has passed the first gate, and so it passes the second
\* one (FreshPassesGate of AgentStages) unless a copy of an item was stored since.
PassesGate(e) ==
  \/ passing' = passing \cup {e}
  \/ e \in Regraded /\ passing' = passing

\* The loop over upsert_event.
Deduplicate(x) ==
  /\ phase = "dedup" /\ x \in todo
  /\ \/ InsertEvent(x) /\ PassesGate(lastEvent')
     \/ \E e \in Existing : MergeEvent(x, e) /\ PassesGate(e)
  /\ todo' = todo \ {x}
  /\ gained' = [gained EXCEPT ![run.date] = @ \cup Decided']
  /\ withheld' = [withheld EXCEPT ![run.date] = @ \cup (Decided \ Decided')]
  /\ UNCHANGED <<phase, run, runs, failures, editions, rebuild, rebuilt, broken, muted, asked,
                 overtaken>>

\* Faulty variant: the request is taken back as soon as it has been read.
CollectConsuming ==
  /\ phase = "dedup" /\ todo = {}
  /\ run' = [run EXCEPT !.fresh = RunEvents, !.rebuild = rebuild, !.late = FALSE]
  /\ rebuild' = FALSE
  /\ phase' = "combine"
  /\ UNCHANGED <<ledger, passing, todo, runs, failures, editions, history>>

\* run_events, then report_rebuild_requested.
Collect ==
  /\ phase = "dedup" /\ todo = {}
  /\ run' = [run EXCEPT !.fresh = RunEvents, !.rebuild = rebuild, !.late = FALSE]
  /\ phase' = "combine"
  /\ UNCHANGED <<ledger, passing, todo, runs, failures, editions, rebuild, history>>

\* What the published edition of the date shows.
Shown == IF editions[run.date].status \in Published THEN editions[run.date].items ELSE {}

\* Faulty variants: the items of every published edition come along; the
\* edition of the date is not taken into account.
CombinedAll ==
  IF run.rebuild THEN Existing \ ignored
  ELSE run.fresh \cup UNION {editions[d].items : d \in Date}
CombinedFresh == IF run.rebuild THEN Existing \ ignored ELSE run.fresh

\* _combine_with_existing_edition before any cut: a rebuild starts from the
\* active events, any other run from the published edition of the same date.
Combined == IF run.rebuild THEN Existing \ ignored ELSE run.fresh \cup Shown

\* S is as many of the events as the limit allows; by what the code sorts them
\* is left open, so any may be the ones that are cut.
CutTo(S, events, limit) ==
  /\ S \subseteq events
  /\ Cardinality(S) = IF Cardinality(events) < limit THEN Cardinality(events) ELSE limit

\* A rebuild lists 300 active events at most.  The quality gate and max_items
\* come next, and then the edition of the date decides whether the run is a
\* no-change.
Combine(S) ==
  /\ phase = "combine"
  /\ \E C \in SUBSET Combined :
       /\ IF run.rebuild THEN CutTo(C, Combined, RebuildLimit) ELSE C = Combined
       /\ CutTo(S, C \cap passing, MaxItems)
  /\ run' = [run EXCEPT !.selected = S, !.existing = editions[run.date].status # "none"]
  /\ phase' = IF run.fresh = {} /\ ~run.rebuild /\ editions[run.date].status \in Published
              THEN "skip" ELSE "draft"
  /\ withheld' = IF phase' = "skip" THEN withheld
                 ELSE [withheld EXCEPT ![run.date] = (@ \cup Combined) \ S]
  /\ UNCHANGED <<ledger, passing, todo, runs, failures, editions, rebuild, gained, rebuilt, broken,
                 muted, asked, overtaken>>

\* No material change: the run completes, the edition stays.
Skip ==
  /\ phase = "skip"
  /\ EndRun(TRUE)
  /\ UNCHANGED <<ledger, passing, todo, runs, failures, editions, rebuild, history>>

\* upsert_edition_draft.
Draft ==
  /\ phase = "draft"
  /\ editions' = [editions EXCEPT ![run.date].status = "draft"]
  /\ phase' = "synthesize"
  /\ UNCHANGED <<ledger, passing, run, todo, runs, failures, rebuild, history>>

\* synthesize_edition by the agent, or the deterministic summary.
Synthesize(llm) ==
  /\ phase = "synthesize"
  /\ llm => LlmEnabled /\ run.selected # {}
  /\ run' = [run EXCEPT !.synthesis = llm]
  /\ phase' = "commit"
  /\ UNCHANGED <<ledger, passing, todo, runs, failures, editions, rebuild, history>>

used_llm ==
  /\ run.extraction \/ (run.existing /\ run.selected # {})
  /\ run.synthesis \/ run.selected = {}

\* commit_edition: status and items in one transaction.
Commit ==
  /\ phase = "commit"
  /\ LlmRequired => used_llm \/ run.selected = {}
  /\ editions' = [editions EXCEPT ![run.date] =
       [status |-> IF used_llm \/ run.selected = {} THEN "ready" ELSE "partial",
        items |-> run.selected]]
  /\ phase' = "clear"
  /\ rebuilt' = IF run.rebuild THEN rebuilt \cup {run.date} ELSE rebuilt
  /\ asked' = (asked /\ ~(run.rebuild /\ ~run.late))
  /\ UNCHANGED <<ledger, passing, run, todo, runs, failures, rebuild, gained, withheld, broken,
                 muted, overtaken>>

\* set_setting("report_rebuild_requested", False), whatever was asked since.
ClearRebuild ==
  /\ phase = "clear"
  /\ rebuild' = FALSE
  /\ overtaken' = (overtaken \/ run.late)
  /\ EndRun(TRUE)
  /\ UNCHANGED <<ledger, passing, todo, runs, failures, editions, gained, withheld, rebuilt, broken,
                 muted, asked>>

EndEarly ==
  /\ phase # "idle" /\ failures < MaxFailures
  /\ failures' = failures + 1
  /\ EndRun(FALSE)
  /\ todo' = {}
  /\ broken' = broken \cup {run.date}
  /\ UNCHANGED <<ledger, passing, runs, rebuild, gained, withheld, rebuilt, muted, asked,
                 overtaken>>

\* Faulty variant: a status the editions table does not know.
FailAsError ==
  /\ EndEarly
  /\ editions' = [editions EXCEPT ![run.date].status = "error"]

\* An exception in any stage: fail_edition.
Fail ==
  /\ EndEarly
  /\ editions' = [editions EXCEPT ![run.date].status = "failed"]

\* Cancelled or killed: the edition is left as it is.
Die == EndEarly /\ UNCHANGED editions

-----------------------------------------------------------------------------
(* The user. *)

UserEventAction ==
  /\ event_action
  /\ phase \in HandledIn /\ ignored' \cup force_next' \subseteq Handled
  /\ muted' = muted \cup ignored'
  /\ UNCHANGED <<passing, pipeline, editions, rebuild, gained, withheld, rebuilt, broken, asked,
                 overtaken>>

\* Where a run has read report_rebuild_requested and not completed yet.
HasRead == {"combine", "skip", "draft", "synthesize", "commit", "clear"}

\* PUT /api/settings with a changed agent, model, focus or item count.
SaveSettings ==
  /\ phase \in SavedIn
  /\ rebuild' = TRUE
  /\ asked' = TRUE
  /\ overtaken' = FALSE
  /\ run' = IF phase \in HasRead THEN [run EXCEPT !.late = TRUE] ELSE run
  /\ UNCHANGED <<ledger, passing, phase, todo, runs, failures, editions, gained, withheld, rebuilt,
                 broken, muted>>

-----------------------------------------------------------------------------
Next ==
  \/ \E d \in Date, P \in SUBSET Existing : StartRun(d, P)
  \/ \E B \in Batches, llm \in BOOLEAN : Extract(B, llm)
  \/ \E x \in todo : Deduplicate(x)
  \/ Collect
  \/ \E S \in SUBSET Combined : Combine(S)
  \/ Skip
  \/ Draft
  \/ \E llm \in BOOLEAN : Synthesize(llm)
  \/ Commit
  \/ ClearRebuild
  \/ Fail
  \/ Die
  \/ UserEventAction
  \/ SaveSettings

Spec == Init /\ [][Next]_vars

-----------------------------------------------------------------------------
(* Properties. *)

\* "An event returns to the briefing only when it gains a new material fact"
\* (README.md): what a date's edition shows was new, updated or forced in some
\* run of that very date, unless the user had that edition rebuilt.  So neither
\* a failed day nor a rerun shows yesterday's events as today's.
ReappearsOnlyWithNews ==
  \A d \in Date \ rebuilt : editions[d].items \subseteq gained[d]

\* Why it holds, as an inductive invariant: what the run at hand has decided,
\* collected and, unless it rebuilds, selected is news of its date; and a run
\* has not selected anything before it combines.
RunShowsNews ==
  /\ \A e \in Id : run_events[e].decision \in {"new", "update"} => e \in gained[run.date]
  /\ run.fresh \subseteq gained[run.date]
  /\ ~run.rebuild /\ run.date \notin rebuilt => run.selected \subseteq gained[run.date]
  /\ phase \in {"idle", "extract", "dedup", "combine"} => run.selected = {}

EditionInv == EditionTypeOK /\ RunShowsNews /\ ReappearsOnlyWithNews

\* Nothing is lost on a day without a failed run: every event that any of its
\* runs found new or updated is in the edition when the runs are over, but for
\* those that the user ignored, that the quality gate (which a rerun may decide
\* otherwise, over the copies that it has stored), the limit of a rebuild or
\* max_items last kept out, and those whose decision a later event of the same
\* run has replaced.
NewsReachesEdition ==
  phase = "idle" =>
    \A d \in Date \ broken :
      editions[d].status \in Published =>
        gained[d] \subseteq editions[d].items \cup muted \cup withheld[d]

\* "A rerun for the same edition date must be idempotent" (AGENTS.zh-CN.md):
\* when the last run of a date has completed, the edition shows what the runs
\* of the date have found, with the same exceptions, also when an earlier one of
\* them failed.
RerunLosesNothing ==
  phase = "idle" /\ run.completed =>
    gained[run.date] \subseteq editions[run.date].items \cup muted \cup withheld[run.date]

\* "Agent, model, focus-profile, and item-count changes request a briefing
\* rebuild on the next run" (README.md): the request stands until an edition
\* built with the new settings is committed, also after runs that fail, are
\* cancelled or find nothing new.  The one exception, which the README does not
\* make: the settings came after a run had read the request, and it completed.
RebuildKept == phase = "idle" /\ asked /\ ~overtaken => rebuild

-----------------------------------------------------------------------------
(* Why NewsReachesEdition and RebuildKept hold. *)

\* The news of a date is among these events, or it is accounted for.
Reached(d, events) == gained[d] \subseteq events \cup muted \cup withheld[d]

\* No run is about to change the edition of date d, and it has the news of d.
Settled(d) ==
  /\ editions[d].status \in {"none"} \cup Published
  /\ editions[d].status = "none" => gained[d] = {}
  /\ editions[d].status \in Published => Reached(d, editions[d].items)

\* The news of a date passes from the decisions of its run to the events that
\* the run has collected, to those it has selected and to the edition.
NewsInv ==
  /\ ignored \subseteq muted
  /\ \A d \in Date : gained[d] \subseteq Existing
  /\ \A d \in Date \ broken :
       d # run.date \/ phase \in {"idle", "extract", "skip", "clear"} => Settled(d)
  /\ run.date \notin broken =>
       /\ phase = "dedup" => Reached(run.date, Decided \cup Shown)
       /\ phase = "combine" => Reached(run.date, run.fresh \cup Shown)
       /\ phase \in {"draft", "synthesize", "commit"} => Reached(run.date, run.selected)

\* Settings that were not overtaken are requested still; a run that has read the
\* request since carries it out, and has done so when it takes it back.
RebuildInv ==
  asked /\ ~overtaken =>
    /\ rebuild
    /\ phase \in HasRead \ {"clear"} => run.rebuild \/ run.late
    /\ phase = "clear" => run.late

-----------------------------------------------------------------------------
(* When DecisionsKept of EventLedger holds here. *)

\* The events that are extracted divide keys and items into topics, and no run
\* extracts two events of one topic.
PagesApart(topic) ==
  \A B \in Batches :
    /\ \A x \in B : \A i \in x.items : topic[i] = topic[x.key]
    /\ \A x, y \in B : topic[x.key] = topic[y.key] => x = y
=============================================================================
