------------------------ MODULE DailyEdition_proofs ------------------------
(***************************************************************************)
(* Proofs about DailyEdition, for any pages, dates, runs, failures, gates  *)
(* and limits: the runs drive the ledger only through its own operations,  *)
(* an event returns to a briefing only with news, the news of a day        *)
(* reaches its edition or is accounted for, and a requested rebuild stands *)
(* until it has been carried out or overtaken.                             *)
(***************************************************************************)
EXTENDS DailyEdition, EventLedger_proofs

\* One turn of the loop files one event.
LEMMA DeduplicateFiles ==
  ASSUME NEW x, Deduplicate(x)
  PROVE  upsert_event(x)
  BY DEF Deduplicate, upsert_event

\* What one step does, whichever action it is, to the ledger: an operation of
\* the ledger or nothing.
LEMMA StepOfLedger ==
  ASSUME todo \subseteq Extracted, [Next]_vars
  PROVE  [LedgerNext]_ledger
  <1>1. ASSUME NEW d \in Date, NEW P \in SUBSET Existing, StartRun(d, P) PROVE LedgerNext
    BY <1>1 DEF StartRun, LedgerNext
  <1>2. ASSUME NEW x \in todo, Deduplicate(x) PROVE LedgerNext
    BY <1>2, DeduplicateFiles DEF Deduplicate, LedgerNext, EditionTypeOK
  <1>3. CASE UserEventAction
    BY <1>3 DEF UserEventAction, LedgerNext
  <1>4. ASSUME \/ \E B \in Batches, llm \in BOOLEAN : Extract(B, llm)
               \/ Collect
               \/ \E S \in SUBSET Combined : Combine(S)
               \/ Skip \/ Draft
               \/ \E llm \in BOOLEAN : Synthesize(llm)
               \/ Commit \/ ClearRebuild \/ Fail \/ Die \/ SaveSettings
        PROVE  UNCHANGED ledger
    BY <1>4
    DEF Extract, Collect, Combine, Skip, Draft, Synthesize, Commit, ClearRebuild,
        Fail, Die, EndEarly, SaveSettings
  <1>5. CASE UNCHANGED vars
    BY <1>5 DEF vars
  <1> QED BY <1>1, <1>2, <1>3, <1>4, <1>5 DEF Next

-----------------------------------------------------------------------------
(* Types and news: one lemma for each group of actions. *)

\* The typing facts that the steps use.
LEMMA EditionTypes ==
  ASSUME EditionTypeOK
  PROVE  /\ run.date \in Date
         /\ run.fresh \in SUBSET Id /\ run.selected \in SUBSET Id
         /\ \A d \in Date : editions[d].items \in SUBSET Id /\ gained[d] \in SUBSET Id
  BY DEF EditionTypeOK

\* What is collected or combined are rows of the events table.
LEMMA CombinedRows ==
  ASSUME LedgerInv, EditionTypeOK
  PROVE  RunEvents \subseteq Id /\ Combined \subseteq Id
  BY ExistingInId, EditionTypes DEF LedgerInv, RunEvents, Combined, Shown

\* When a run ends, nothing of it is left but its date.
LEMMA EndRunResets ==
  ASSUME EditionTypeOK, NEW ok \in BOOLEAN, EndRun(ok)
  PROVE  /\ phase' = "idle" /\ phase' \in Phase
         /\ run' \in [date : Date, completed : BOOLEAN, rebuild : BOOLEAN, late : BOOLEAN,
                      fresh : SUBSET Id, selected : SUBSET Id, existing : BOOLEAN,
                      extraction : BOOLEAN, synthesis : BOOLEAN]
         /\ run'.date = run.date /\ run'.fresh = {} /\ run'.selected = {}
  BY EditionTypes DEF EndRun, NoRun, Phase

LEMMA EditionInitOK == Init => EditionInv
  <1> SUFFICES ASSUME Init PROVE EditionInv
    OBVIOUS
  <1>1. 1 \in Date
    BY EditionAssumption DEF Date
  <1>2. NoRun \in [date : Date, completed : BOOLEAN, rebuild : BOOLEAN, late : BOOLEAN,
                   fresh : SUBSET Id, selected : SUBSET Id, existing : BOOLEAN,
                   extraction : BOOLEAN, synthesis : BOOLEAN]
    BY <1>1 DEF NoRun
  <1>3. EditionTypeOK
    <2>1. phase \in Phase /\ run \in [date : Date, completed : BOOLEAN, rebuild : BOOLEAN,
             late : BOOLEAN, fresh : SUBSET Id, selected : SUBSET Id, existing : BOOLEAN,
             extraction : BOOLEAN, synthesis : BOOLEAN]
      BY <1>2 DEF Init, Phase
    <2>2. editions \in [Date -> [status : EditionStatus, items : SUBSET Id]]
      BY DEF Init, EditionStatus
    <2>3. runs \in 0..MaxRuns /\ failures \in 0..MaxFailures
      BY EditionAssumption DEF Init
    <2>4. /\ todo \in SUBSET Extracted /\ rebuild \in BOOLEAN
          /\ gained \in [Date -> SUBSET Id] /\ rebuilt \subseteq Date /\ broken \subseteq Date
          /\ withheld \in [Date -> SUBSET Id] /\ passing \subseteq Id
          /\ muted \subseteq Id /\ asked \in BOOLEAN /\ overtaken \in BOOLEAN
      BY DEF Init
    <2> QED BY <2>1, <2>2, <2>3, <2>4 DEF EditionTypeOK
  <1>4. RunShowsNews
    BY <1>1 DEF Init, LedgerInit, Undecided, RunShowsNews, NoRun
  <1>5. ReappearsOnlyWithNews
    BY DEF Init, ReappearsOnlyWithNews
  <1> QED BY <1>3, <1>4, <1>5 DEF EditionInv

LEMMA StartRunStep ==
  ASSUME LedgerInv, EditionInv, NEW d \in Date, NEW P \in SUBSET Existing, StartRun(d, P)
  PROVE  EditionInv'
  <1>1. EditionTypeOK /\ ReappearsOnlyWithNews
    BY DEF EditionInv
  <1>2. run' = [NoRun EXCEPT !.date = d] /\ phase' = "extract"
          /\ UNCHANGED <<todo, failures, editions, rebuild, gained, withheld, rebuilt, broken,
                         muted, asked, overtaken>>
          /\ runs' = runs + 1 /\ runs < MaxRuns /\ passing' \subseteq Id
    BY ExistingInId DEF StartRun, history, LedgerInv
  <1>3. run' \in [date : Date, completed : BOOLEAN, rebuild : BOOLEAN, late : BOOLEAN,
                  fresh : SUBSET Id, selected : SUBSET Id, existing : BOOLEAN,
                  extraction : BOOLEAN, synthesis : BOOLEAN]
    BY <1>2 DEF NoRun
  <1>4. runs' \in 0..MaxRuns
    BY <1>1, <1>2, EditionAssumption DEF EditionTypeOK
  <1>5. EditionTypeOK'
    BY <1>1, <1>2, <1>3, <1>4 DEF EditionTypeOK, Phase
  <1>6. \A e \in Id : run_events'[e] = Undecided
    BY DEF StartRun, BeginRun
  <1>7. RunShowsNews'
    BY <1>2, <1>6 DEF RunShowsNews, Undecided, NoRun
  <1>8. ReappearsOnlyWithNews'
    BY <1>1, <1>2 DEF ReappearsOnlyWithNews
  <1> QED BY <1>5, <1>7, <1>8 DEF EditionInv

LEMMA ExtractStep ==
  ASSUME EditionInv, NEW B \in Batches, NEW llm \in BOOLEAN, Extract(B, llm)
  PROVE  EditionInv'
  <1>1. EditionTypeOK'
    BY EditionAssumption DEF EditionInv, EditionTypeOK, Extract, Phase, history
  <1>2. RunShowsNews' /\ ReappearsOnlyWithNews'
    BY DEF EditionInv, EditionTypeOK, RunShowsNews, ReappearsOnlyWithNews, Extract, history,
           ledger, runVars
  <1> QED BY <1>1, <1>2 DEF EditionInv

LEMMA DeduplicateStep ==
  ASSUME LedgerInv, EditionInv, NEW x \in todo, Deduplicate(x)
  PROVE  EditionInv'
  <1>1. EditionTypeOK /\ RunShowsNews /\ ReappearsOnlyWithNews /\ run.date \in Date
    BY EditionTypes DEF EditionInv
  <1>2. /\ todo' = todo \ {x}
        /\ gained' = [gained EXCEPT ![run.date] = @ \cup Decided']
        /\ withheld' = [withheld EXCEPT ![run.date] = @ \cup (Decided \ Decided')]
        /\ UNCHANGED <<phase, run, runs, failures, editions, rebuild, rebuilt, broken,
                       muted, asked, overtaken>>
    BY DEF Deduplicate
  <1>3. gained' \in [Date -> SUBSET Id] /\ gained'[run.date] = gained[run.date] \cup Decided'
          /\ \A d \in Date : gained[d] \subseteq gained'[d]
    <2>1. Decided' \in SUBSET Id
      BY DEF Decided
    <2> QED BY <1>1, <1>2, <2>1 DEF EditionTypeOK
  <1>4. EditionTypeOK'
    <2>1. withheld' \in [Date -> SUBSET Id]
      <3>1. Decided \ Decided' \in SUBSET Id
        BY DEF Decided
      <3> QED BY <1>1, <1>2, <3>1 DEF EditionTypeOK
    <2>2. passing' \subseteq Id
      BY <1>1, InsertRange, ExistingInId
      DEF Deduplicate, PassesGate, InsertEvent, LedgerInv, EditionTypeOK
    <2> QED BY <1>1, <1>2, <1>3, <2>1, <2>2 DEF EditionTypeOK
  <1>5. RunShowsNews'
    BY <1>1, <1>2, <1>3 DEF RunShowsNews, Decided
  <1>6. ReappearsOnlyWithNews'
    BY <1>1, <1>2, <1>3 DEF ReappearsOnlyWithNews
  <1> QED BY <1>4, <1>5, <1>6 DEF EditionInv

LEMMA CollectStep ==
  ASSUME LedgerInv, EditionInv, Collect
  PROVE  EditionInv'
  <1>1. EditionTypeOK /\ RunShowsNews /\ ReappearsOnlyWithNews /\ run.date \in Date
    BY EditionTypes DEF EditionInv
  <1>2. /\ run' = [run EXCEPT !.fresh = RunEvents, !.rebuild = rebuild, !.late = FALSE]
        /\ phase = "dedup" /\ phase' = "combine"
        /\ UNCHANGED <<run_events, passing, todo, runs, failures, editions, rebuild, gained,
                       withheld, rebuilt, broken, muted, asked, overtaken>>
    BY DEF Collect, history, ledger, runVars
  <1>3. RunEvents \subseteq Id
    BY <1>1, CombinedRows
  <1>4. EditionTypeOK'
    BY <1>1, <1>2, <1>3 DEF EditionTypeOK, Phase
  <1>5. run'.date = run.date /\ run'.fresh = RunEvents /\ run'.selected = run.selected
    BY <1>1, <1>2 DEF EditionTypeOK
  <1>6. RunEvents \subseteq gained[run.date]
    BY <1>1, <1>3 DEF RunEvents, RunShowsNews
  <1>7. RunShowsNews'
    BY <1>1, <1>2, <1>5, <1>6 DEF RunShowsNews
  <1>8. ReappearsOnlyWithNews'
    BY <1>1, <1>2 DEF ReappearsOnlyWithNews
  <1> QED BY <1>4, <1>7, <1>8 DEF EditionInv

LEMMA CombineStep ==
  ASSUME LedgerInv, EditionInv, NEW S \in SUBSET Combined, Combine(S)
  PROVE  EditionInv'
  <1>1. EditionTypeOK /\ RunShowsNews /\ ReappearsOnlyWithNews /\ run.date \in Date
    BY EditionTypes DEF EditionInv
  <1>2. /\ run' = [run EXCEPT !.selected = S, !.existing = editions[run.date].status # "none"]
        /\ phase' \in {"skip", "draft"}
        /\ UNCHANGED <<run_events, passing, todo, runs, failures, editions, rebuild, gained,
                       rebuilt, broken, muted, asked, overtaken>>
    BY DEF Combine, ledger, runVars
  <1>3. S \subseteq Id /\ Combined \subseteq Id
    BY <1>1, CombinedRows
  <1>4. EditionTypeOK'
    <2>1. withheld' \in [Date -> SUBSET Id]
      <3> DEFINE kept == (withheld[run.date] \cup Combined) \ S
      <3>1. kept \in SUBSET Id
        BY <1>1, <1>3 DEF EditionTypeOK
      <3>2. withheld' = withheld \/ withheld' = [withheld EXCEPT ![run.date] = kept]
        BY DEF Combine
      <3> HIDE DEF kept
      <3> QED BY <1>1, <3>1, <3>2 DEF EditionTypeOK
    <2> QED BY <1>1, <1>2, <1>3, <2>1 DEF EditionTypeOK, Phase
  <1>5. run'.date = run.date /\ run'.fresh = run.fresh /\ run'.selected = S
          /\ run'.rebuild = run.rebuild
    BY <1>1, <1>2 DEF EditionTypeOK
  <1>6. ~run.rebuild /\ run.date \notin rebuilt => S \subseteq gained[run.date]
    BY <1>1 DEF Combined, Shown, RunShowsNews, ReappearsOnlyWithNews
  <1>7. RunShowsNews'
    BY <1>1, <1>2, <1>5, <1>6 DEF RunShowsNews
  <1>8. ReappearsOnlyWithNews'
    BY <1>1, <1>2 DEF ReappearsOnlyWithNews
  <1> QED BY <1>4, <1>7, <1>8 DEF EditionInv

LEMMA DraftStep ==
  ASSUME EditionInv, Draft
  PROVE  EditionInv'
  <1>1. EditionTypeOK /\ run.date \in Date
    BY EditionTypes DEF EditionInv
  <1>2. editions' \in [Date -> [status : EditionStatus, items : SUBSET Id]]
          /\ \A d \in Date : editions'[d].items = editions[d].items
    BY <1>1 DEF EditionTypeOK, Draft, EditionStatus
  <1>3. EditionTypeOK'
    BY <1>1, <1>2 DEF EditionTypeOK, Draft, Phase, history
  <1>4. RunShowsNews'
    BY DEF EditionInv, RunShowsNews, Draft, history, ledger, runVars
  <1>5. ReappearsOnlyWithNews'
    BY <1>2 DEF EditionInv, ReappearsOnlyWithNews, Draft, history
  <1> QED BY <1>3, <1>4, <1>5 DEF EditionInv

LEMMA SynthesizeStep ==
  ASSUME EditionInv, NEW llm \in BOOLEAN, Synthesize(llm)
  PROVE  EditionInv'
  <1>1. EditionTypeOK'
    BY DEF EditionInv, EditionTypeOK, Synthesize, Phase, history
  <1>2. RunShowsNews' /\ ReappearsOnlyWithNews'
    BY DEF EditionInv, EditionTypeOK, RunShowsNews, ReappearsOnlyWithNews, Synthesize, history,
           ledger, runVars
  <1> QED BY <1>1, <1>2 DEF EditionInv

LEMMA CommitStep ==
  ASSUME EditionInv, Commit
  PROVE  EditionInv'
  <1>1. EditionTypeOK /\ RunShowsNews /\ ReappearsOnlyWithNews /\ run.date \in Date
          /\ run.selected \in SUBSET Id
    BY EditionTypes DEF EditionInv
  <1>2. /\ phase' = "clear"
        /\ rebuilt' = IF run.rebuild THEN rebuilt \cup {run.date} ELSE rebuilt
        /\ UNCHANGED <<run_events, passing, run, todo, runs, failures, rebuild, gained, withheld,
                       broken, muted, overtaken>>
        /\ asked' \in BOOLEAN
    BY DEF Commit, ledger, runVars
  <1> DEFINE s == IF used_llm \/ run.selected = {} THEN "ready" ELSE "partial"
  <1>3. editions' = [editions EXCEPT ![run.date] = [status |-> s, items |-> run.selected]]
    BY DEF Commit
  <1>4. s \in EditionStatus
    BY DEF EditionStatus, Published
  <1>5. editions' \in [Date -> [status : EditionStatus, items : SUBSET Id]]
          /\ editions'[run.date].items = run.selected
          /\ \A d \in Date \ {run.date} : editions'[d] = editions[d]
    <2> HIDE DEF s
    <2> QED BY <1>1, <1>3, <1>4 DEF EditionTypeOK
  <1>6. EditionTypeOK'
    BY <1>1, <1>2, <1>5 DEF EditionTypeOK, Phase
  <1>7. RunShowsNews'
    BY <1>1, <1>2 DEF RunShowsNews
  <1>8. ReappearsOnlyWithNews'
    BY <1>1, <1>2, <1>5 DEF ReappearsOnlyWithNews, RunShowsNews
  <1> QED BY <1>6, <1>7, <1>8 DEF EditionInv

\* A run ends without touching an item or a history that matters.
LEMMA EndStep ==
  ASSUME EditionInv, Skip \/ ClearRebuild \/ Fail \/ Die
  PROVE  EditionInv'
  <1>1. EditionTypeOK /\ RunShowsNews /\ ReappearsOnlyWithNews /\ run.date \in Date
    BY EditionTypes DEF EditionInv
  <1>2. /\ phase' = "idle" /\ phase' \in Phase
        /\ run' \in [date : Date, completed : BOOLEAN, rebuild : BOOLEAN, late : BOOLEAN,
                     fresh : SUBSET Id, selected : SUBSET Id, existing : BOOLEAN,
                     extraction : BOOLEAN, synthesis : BOOLEAN]
        /\ run'.date = run.date /\ run'.fresh = {} /\ run'.selected = {}
    BY <1>1, EndRunResets DEF Skip, ClearRebuild, Fail, Die, EndEarly
  <1>3. UNCHANGED <<run_events, passing, runs, gained, withheld, rebuilt, muted, asked>>
    BY DEF Skip, ClearRebuild, Fail, Die, EndEarly, history, ledger, runVars
  <1>4. todo' \in SUBSET Extracted /\ rebuild' \in BOOLEAN /\ broken' \subseteq Date
          /\ overtaken' \in BOOLEAN
    <2>0. overtaken' = overtaken \/ overtaken' = (overtaken \/ run.late)
      BY DEF Skip, ClearRebuild, Fail, Die, EndEarly, history
    <2>1. todo' \in {todo, {}} /\ rebuild' \in {rebuild, FALSE}
            /\ broken' \in {broken, broken \cup {run.date}}
      BY DEF Skip, ClearRebuild, Fail, Die, EndEarly, history
    <2> QED BY <1>1, <2>0, <2>1 DEF EditionTypeOK
  <1>5. failures' \in 0..MaxFailures
    <2>1. failures \in 0..MaxFailures /\ MaxFailures \in Nat
      BY <1>1, EditionAssumption DEF EditionTypeOK
    <2>2. \/ failures' = failures
          \/ failures' = failures + 1 /\ failures < MaxFailures
      <3>1. CASE Skip \/ ClearRebuild
        BY <3>1 DEF Skip, ClearRebuild
      <3>2. CASE Fail \/ Die
        BY <3>2 DEF Fail, Die, EndEarly
      <3> QED BY <3>1, <3>2
    <2> QED BY <2>1, <2>2
  <1>6. editions' \in [Date -> [status : EditionStatus, items : SUBSET Id]]
          /\ \A d \in Date : editions'[d].items = editions[d].items
    <2>1. editions' = editions \/ editions' = [editions EXCEPT ![run.date].status = "failed"]
      BY DEF Skip, ClearRebuild, Fail, Die
    <2>2. editions \in [Date -> [status : EditionStatus, items : SUBSET Id]]
      BY <1>1 DEF EditionTypeOK
    <2>3. "failed" \in EditionStatus
      BY DEF EditionStatus
    <2> QED BY <1>1, <2>1, <2>2, <2>3
  <1>7. EditionTypeOK'
    BY <1>1, <1>2, <1>3, <1>4, <1>5, <1>6 DEF EditionTypeOK
  <1>8. RunShowsNews'
    BY <1>1, <1>2, <1>3 DEF RunShowsNews
  <1>9. ReappearsOnlyWithNews'
    BY <1>1, <1>3, <1>6 DEF ReappearsOnlyWithNews
  <1> QED BY <1>7, <1>8, <1>9 DEF EditionInv

LEMMA UserStep ==
  ASSUME LedgerInv', EditionInv, UserEventAction \/ SaveSettings
  PROVE  EditionInv'
  <1>1. EditionTypeOK /\ RunShowsNews /\ ReappearsOnlyWithNews
    BY DEF EditionInv
  <1>2. CASE UserEventAction
    <2>1. UNCHANGED <<run_events, passing, phase, run, todo, runs, failures, editions, rebuild,
                      gained, withheld, rebuilt, broken, asked, overtaken>>
      BY <1>2 DEF UserEventAction, event_action, pipeline, runVars
    <2>2. ignored' \subseteq Id
      BY LedgerAssumption DEF LedgerInv, LedgerTypeOK, Existing, Id
    <2>3. muted' \subseteq Id
      BY <1>1, <1>2, <2>2 DEF UserEventAction, EditionTypeOK
    <2>4. EditionTypeOK'
      BY <1>1, <2>1, <2>3 DEF EditionTypeOK
    <2>5. RunShowsNews' /\ ReappearsOnlyWithNews'
      BY <1>1, <2>1 DEF RunShowsNews, ReappearsOnlyWithNews
    <2> QED BY <2>4, <2>5 DEF EditionInv
  <1>3. CASE SaveSettings
    <2>1. /\ UNCHANGED <<run_events, passing, phase, todo, runs, failures, editions, gained,
                         withheld, rebuilt, broken, muted>>
          /\ rebuild' \in BOOLEAN /\ asked' \in BOOLEAN /\ overtaken' \in BOOLEAN
          /\ run' = run \/ run' = [run EXCEPT !.late = TRUE]
      BY <1>3 DEF SaveSettings, ledger, runVars
    <2>2. EditionTypeOK'
      BY <1>1, <2>1 DEF EditionTypeOK
    <2>3. run'.date = run.date /\ run'.fresh = run.fresh /\ run'.selected = run.selected
            /\ run'.rebuild = run.rebuild
      BY <1>1, <2>1 DEF EditionTypeOK
    <2>4. RunShowsNews' /\ ReappearsOnlyWithNews'
      BY <1>1, <2>1, <2>3 DEF RunShowsNews, ReappearsOnlyWithNews
    <2> QED BY <2>2, <2>4 DEF EditionInv
  <1> QED BY <1>2, <1>3

LEMMA EditionStep ==
  ASSUME LedgerInv, EditionInv, [Next]_vars
  PROVE  LedgerInv' /\ EditionInv'
  <1>1. LedgerInv'
    BY StepOfLedger, LedgerStep DEF EditionInv, EditionTypeOK
  <1>2. CASE UNCHANGED vars
    <2>1. UNCHANGED <<run_events, passing, phase, run, todo, editions, rebuild, runs, failures,
                      gained, withheld, rebuilt, broken, muted, asked, overtaken>>
      BY <1>2 DEF vars, ledger, runVars, pipeline, history
    <2>2. EditionTypeOK'
      BY <2>1 DEF EditionInv, EditionTypeOK
    <2>3. RunShowsNews' /\ ReappearsOnlyWithNews'
      BY <2>1 DEF EditionInv, RunShowsNews, ReappearsOnlyWithNews
    <2> QED BY <1>1, <2>2, <2>3 DEF EditionInv
  <1>3. CASE Next
    BY <1>1, <1>3, StartRunStep, ExtractStep, DeduplicateStep, CollectStep, CombineStep,
       DraftStep, SynthesizeStep, CommitStep, EndStep, UserStep
    DEF Next
  <1> QED BY <1>1, <1>2, <1>3

-----------------------------------------------------------------------------
\* The ledger and the editions keep their invariants over any number of runs,
\* failures and user actions.
THEOREM EditionInvariant == Spec => [](LedgerInv /\ EditionInv)
  <1>1. Init => LedgerInv /\ EditionInv
    BY LedgerInitOK, EditionInitOK DEF Init
  <1>2. LedgerInv /\ EditionInv /\ [Next]_vars => (LedgerInv /\ EditionInv)'
    BY EditionStep
  <1> QED BY <1>1, <1>2, PTL DEF Spec

\* The edition of a date shows only events that a run of that date found new
\* or updated, or that were forced, unless it was rebuilt on request.
THEOREM ReappearsOnlyWithNewsHolds == Spec => []ReappearsOnlyWithNews
  <1>1. EditionInv => ReappearsOnlyWithNews
    BY DEF EditionInv
  <1> QED BY <1>1, EditionInvariant, PTL

\* What the runs and the editions table hold is well typed.
THEOREM EditionTypesHold == Spec => []EditionTypeOK
  <1>1. EditionInv => EditionTypeOK
    BY DEF EditionInv
  <1> QED BY <1>1, EditionInvariant, PTL

\* The pipeline implements the ledger: whatever runs, users and failures do,
\* the ledger sees only its own operations.
THEOREM LedgerImplemented == Spec => LedgerSpec
  <1>1. Init => LedgerInit
    BY DEF Init
  <1>2. EditionInv /\ [Next]_vars => [LedgerNext]_ledger
    BY StepOfLedger DEF EditionInv, EditionTypeOK
  <1> QED BY <1>1, <1>2, EditionInvariant, PTL DEF Spec, LedgerSpec

-----------------------------------------------------------------------------
(* The request for a rebuild. *)

LEMMA RebuildStep ==
  ASSUME EditionTypeOK, RebuildInv, [Next]_vars
  PROVE  RebuildInv'
  <1>1. ASSUME NEW d \in Date, NEW P \in SUBSET Existing, StartRun(d, P) PROVE RebuildInv'
    BY <1>1 DEF StartRun, RebuildInv, HasRead, history
  <1>2. ASSUME NEW B \in Batches, NEW llm \in BOOLEAN, Extract(B, llm) PROVE RebuildInv'
    BY <1>2 DEF Extract, RebuildInv, HasRead, history
  <1>3. ASSUME NEW x \in todo, Deduplicate(x) PROVE RebuildInv'
    BY <1>3 DEF Deduplicate, RebuildInv
  <1>4. CASE Collect
    <2>1. run'.rebuild = rebuild /\ phase' = "combine" /\ UNCHANGED <<rebuild, asked, overtaken>>
      BY <1>4 DEF Collect, EditionTypeOK, history
    <2> QED BY <2>1 DEF RebuildInv
  \* The run goes on with what it has read.
  <1>5. ASSUME \/ \E S \in SUBSET Combined : Combine(S)
               \/ Draft
               \/ \E llm \in BOOLEAN : Synthesize(llm)
        PROVE  RebuildInv'
    <2>1. run'.late = run.late /\ run'.rebuild = run.rebuild
      BY <1>5 DEF Combine, Draft, Synthesize, EditionTypeOK
    <2>2. /\ phase \in HasRead \ {"clear"} /\ phase' \in HasRead \ {"clear"}
          /\ UNCHANGED <<rebuild, asked, overtaken>>
      BY <1>5 DEF Combine, Draft, Synthesize, HasRead, history
    <2> QED BY <2>1, <2>2 DEF RebuildInv, HasRead
  \* The commit answers the request, unless there are later settings.
  <1>6. CASE Commit
    <2>1. /\ phase \in HasRead \ {"clear"} /\ phase' = "clear"
          /\ asked' = (asked /\ ~(run.rebuild /\ ~run.late))
          /\ UNCHANGED <<run, rebuild, overtaken>>
      BY <1>6 DEF Commit, HasRead
    <2> QED BY <2>1 DEF RebuildInv
  \* It is taken back: only later settings can be asked for, and are overtaken.
  <1>7. CASE ClearRebuild
    <2>1. phase = "clear" /\ asked' = asked /\ overtaken' = (overtaken \/ run.late)
      BY <1>7 DEF ClearRebuild
    <2> QED BY <2>1 DEF RebuildInv
  <1>8. CASE Skip \/ Fail \/ Die
    <2>1. phase' = "idle" /\ UNCHANGED <<rebuild, asked, overtaken>>
      BY <1>8 DEF Skip, Fail, Die, EndEarly, EndRun, history
    <2> QED BY <2>1 DEF RebuildInv, HasRead
  <1>9. CASE UserEventAction
    BY <1>9 DEF UserEventAction, pipeline, RebuildInv
  <1>10. CASE SaveSettings
    <2>1. rebuild' /\ phase' = phase /\ (phase \in HasRead => run'.late)
      BY <1>10 DEF SaveSettings, EditionTypeOK
    <2> QED BY <2>1 DEF RebuildInv, HasRead
  <1>11. CASE UNCHANGED vars
    BY <1>11 DEF vars, pipeline, history, RebuildInv
  <1> QED BY <1>1, <1>2, <1>3, <1>4, <1>5, <1>6, <1>7, <1>8, <1>9, <1>10, <1>11 DEF Next

\* The request for a rebuild stands until an edition that was built with the new
\* settings is committed, whichever runs fail, are cancelled or find nothing new
\* before, and whenever the settings were saved, unless a run that had read the
\* request already went on to complete.
THEOREM RebuildKeptHolds == Spec => []RebuildKept
  <1>1. Init => RebuildInv
    BY DEF Init, RebuildInv
  <1>2. EditionInv /\ RebuildInv /\ [Next]_vars => RebuildInv'
    BY RebuildStep DEF EditionInv
  <1>3. RebuildInv => RebuildKept
    BY DEF RebuildInv, RebuildKept
  <1> QED BY <1>1, <1>2, <1>3, EditionInvariant, PTL DEF Spec

-----------------------------------------------------------------------------
(* The way of the news into the edition. *)

\* A step leaves the edition and the news of every date but its own alone.
LEMMA OtherDates ==
  ASSUME EditionTypeOK, [Next]_vars
  PROVE  \A d \in Date \ {run.date} : /\ editions'[d] = editions[d] /\ gained'[d] = gained[d]
                                      /\ withheld'[d] = withheld[d]
  <1>1. ASSUME NEW d \in Date, NEW P \in SUBSET Existing, StartRun(d, P)
        PROVE  UNCHANGED <<editions, gained, withheld>>
    BY <1>1 DEF StartRun, history
  <1>2. ASSUME NEW x \in todo, Deduplicate(x)
        PROVE  \A d \in Date \ {run.date} : /\ editions'[d] = editions[d]
                                            /\ gained'[d] = gained[d]
                                            /\ withheld'[d] = withheld[d]
    <2> DEFINE G == gained[run.date] \cup Decided'
    <2> DEFINE W == withheld[run.date] \cup (Decided \ Decided')
    <2>1. /\ editions' = editions /\ gained' = [gained EXCEPT ![run.date] = G]
          /\ withheld' = [withheld EXCEPT ![run.date] = W]
      BY <1>2 DEF Deduplicate
    <2> HIDE DEF G, W
    <2> QED BY <2>1 DEF EditionTypeOK
  <1>3. ASSUME \/ \E B \in Batches, llm \in BOOLEAN : Extract(B, llm)
               \/ Collect
               \/ Skip
               \/ \E llm \in BOOLEAN : Synthesize(llm)
               \/ ClearRebuild \/ Die \/ SaveSettings \/ UserEventAction
        PROVE  UNCHANGED <<editions, gained, withheld>>
    BY <1>3 DEF Extract, Collect, Skip, Synthesize, ClearRebuild, Die, EndEarly,
                SaveSettings, UserEventAction, history
  <1>4. CASE Draft \/ Commit \/ Fail
    BY <1>4 DEF Draft, Commit, Fail, EndEarly, EditionTypeOK, history
  <1>5. ASSUME NEW S \in SUBSET Combined, Combine(S)
        PROVE  /\ UNCHANGED <<editions, gained>>
               /\ \A d \in Date \ {run.date} : withheld'[d] = withheld[d]
    <2> DEFINE kept == (withheld[run.date] \cup Combined) \ S
    <2>1. withheld' = withheld \/ withheld' = [withheld EXCEPT ![run.date] = kept]
      BY <1>5 DEF Combine
    <2> HIDE DEF kept
    <2> QED BY <1>5, <2>1 DEF Combine, EditionTypeOK
  <1>6. CASE UNCHANGED vars
    BY <1>6 DEF vars, history
  <1> QED BY <1>1, <1>2, <1>3, <1>4, <1>5, <1>6 DEF Next

\* Rows are never deleted, nor is it forgotten what the user has ignored.
LEMMA RowsGrow ==
  ASSUME LedgerInv, [LedgerNext]_ledger
  PROVE  Existing \subseteq Existing'
  <1>1. lastEvent \in Nat
    BY DEF LedgerInv, LedgerTypeOK
  <1>2. lastEvent' = lastEvent \/ lastEvent' = lastEvent + 1
    BY DEF LedgerNext, upsert_event, InsertEvent, MergeEvent, BeginRun, reject_items,
           event_action, ledger, ledgerVars
  <1> QED BY <1>1, <1>2 DEF Existing

LEMMA MutedStep ==
  ASSUME LedgerInv, EditionTypeOK, ignored \subseteq muted, [Next]_vars
  PROVE  ignored' \subseteq muted' /\ muted \subseteq muted'
  <1>1. ASSUME NEW d \in Date, NEW P \in SUBSET Existing, StartRun(d, P)
        PROVE  UNCHANGED <<ignored, muted>>
    BY <1>1 DEF StartRun, BeginRun, ledgerVars, history
  <1>2. ASSUME NEW x \in todo, Deduplicate(x) PROVE UNCHANGED <<ignored, muted>>
    BY <1>2 DEF Deduplicate, InsertEvent, MergeEvent, Record
  <1>3. ASSUME \/ \E B \in Batches, llm \in BOOLEAN : Extract(B, llm)
               \/ Collect
               \/ \E S \in SUBSET Combined : Combine(S)
               \/ Skip \/ Draft
               \/ \E llm \in BOOLEAN : Synthesize(llm)
               \/ Commit \/ ClearRebuild \/ Fail \/ Die \/ SaveSettings
        PROVE  UNCHANGED <<ignored, muted>>
    BY <1>3 DEF Extract, Collect, Combine, Skip, Draft, Synthesize, Commit, ClearRebuild, Fail,
                Die, EndEarly, SaveSettings, history, ledger, ledgerVars
  <1>4. CASE UserEventAction
    BY <1>4 DEF UserEventAction
  <1>5. CASE UNCHANGED vars
    BY <1>5 DEF vars, history, ledger, ledgerVars
  <1> QED BY <1>1, <1>2, <1>3, <1>4, <1>5 DEF Next

\* What a date has gained are rows of the events table.
LEMMA GainedRows ==
  ASSUME LedgerInv, LedgerInv', EditionTypeOK, [Next]_vars,
         \A d \in Date : gained[d] \subseteq Existing
  PROVE  \A d \in Date : gained'[d] \subseteq Existing'
  <1>1. Existing \subseteq Existing'
    BY StepOfLedger, RowsGrow DEF EditionTypeOK
  <1>2. ASSUME NEW x \in todo, Deduplicate(x)
        PROVE  \A d \in Date : gained'[d] \subseteq Existing'
    <2> DEFINE News == Decided'
    <2>1. News \subseteq Existing'
      BY DEF Decided, LedgerInv, NothingDangling, Undecided
    <2>2. gained' = [gained EXCEPT ![run.date] = @ \cup News]
      BY <1>2 DEF Deduplicate
    <2> HIDE DEF News
    <2> QED BY <1>1, <2>1, <2>2 DEF EditionTypeOK
  <1>3. ASSUME ~(\E x \in todo : Deduplicate(x))
        PROVE  gained' = gained
    BY <1>3 DEF Next, StartRun, Extract, Collect, Combine, Skip, Draft, Synthesize, Commit,
                ClearRebuild, Fail, Die, EndEarly, UserEventAction, SaveSettings, vars, history
  <1> QED BY <1>1, <1>2, <1>3

\* What a step leaves to a date that it does not change.
LEMMA SettledStays ==
  ASSUME NEW d, muted \subseteq muted', editions'[d] = editions[d], gained'[d] = gained[d],
         withheld'[d] = withheld[d], Settled(d)
  PROVE  Settled(d)'
  BY DEF Settled, Reached

\* The news of the date of the run, one stage of the pipeline after the other.
LEMMA ExtractNews ==
  ASSUME EditionTypeOK, NewsInv, run.date \notin broken,
         NEW B \in Batches, NEW llm \in BOOLEAN, Extract(B, llm)
  PROVE  Reached(run.date, Decided \cup Shown)'
  <1>1. /\ phase = "extract" /\ run'.date = run.date
        /\ UNCHANGED <<editions, gained, withheld, muted>>
    BY DEF Extract, EditionTypeOK, history
  <1>2. Settled(run.date)
    BY <1>1, EditionTypes DEF NewsInv
  <1>3. Reached(run.date, Shown)
    BY <1>2 DEF Settled, Reached, Shown
  <1>4. Shown' = Shown
    BY <1>1 DEF Shown
  <1> QED BY <1>1, <1>3, <1>4 DEF Reached

\* What is decided otherwise is accounted for.
LEMMA DeduplicateNews ==
  ASSUME EditionTypeOK, NewsInv, run.date \notin broken, NEW x \in todo, Deduplicate(x)
  PROVE  Reached(run.date, Decided \cup Shown)'
  <1>1. /\ phase = "dedup" /\ UNCHANGED <<run, editions, muted>>
        /\ gained' = [gained EXCEPT ![run.date] = @ \cup Decided']
        /\ withheld' = [withheld EXCEPT ![run.date] = @ \cup (Decided \ Decided')]
    BY DEF Deduplicate
  <1>2. Reached(run.date, Decided \cup Shown)
    BY <1>1 DEF NewsInv
  <1>3. /\ gained'[run.date] = gained[run.date] \cup Decided'
        /\ withheld'[run.date] = withheld[run.date] \cup (Decided \ Decided')
    BY <1>1, EditionTypes DEF EditionTypeOK
  <1>4. Shown' = Shown
    BY <1>1 DEF Shown
  <1> QED BY <1>1, <1>2, <1>3, <1>4 DEF Reached

LEMMA CollectNews ==
  ASSUME LedgerInv, EditionTypeOK, NewsInv, run.date \notin broken, Collect
  PROVE  Reached(run.date, run.fresh \cup Shown)'
  <1>1. /\ phase = "dedup" /\ run'.date = run.date /\ run'.fresh = RunEvents
        /\ UNCHANGED <<editions, gained, withheld, muted>>
    BY DEF Collect, EditionTypeOK, history
  <1>2. Reached(run.date, Decided \cup Shown)
    BY <1>1 DEF NewsInv
  <1>3. Decided \subseteq RunEvents \cup muted
    BY DEF Decided, RunEvents, NewsInv, LedgerInv, NothingDangling, Undecided
  <1>4. Shown' = Shown
    BY <1>1 DEF Shown
  <1> QED BY <1>1, <1>2, <1>3, <1>4 DEF Reached

\* What is combined has the news; what is not selected of it is accounted for.
LEMMA CombineNews ==
  ASSUME EditionTypeOK, NewsInv, run.date \notin broken,
         NEW S \in SUBSET Combined, Combine(S)
  PROVE  /\ phase' = "draft" => Reached(run.date, run.selected)'
         /\ phase' = "skip" => Settled(run.date)'
  <1>1. /\ phase = "combine" /\ run'.date = run.date /\ run'.selected = S
        /\ UNCHANGED <<editions, gained, muted>>
        /\ phase' = IF run.fresh = {} /\ ~run.rebuild /\ editions[run.date].status \in Published
                    THEN "skip" ELSE "draft"
    BY DEF Combine, EditionTypeOK
  <1>2. Reached(run.date, run.fresh \cup Shown) /\ gained[run.date] \subseteq Existing
    BY <1>1, EditionTypes DEF NewsInv
  <1>3. Reached(run.date, Combined)
    BY <1>2 DEF Reached, Combined, NewsInv
  <1>4. ASSUME phase' = "draft" PROVE Reached(run.date, run.selected)'
    <2>1. withheld' = [withheld EXCEPT ![run.date] = (@ \cup Combined) \ S]
      BY <1>4 DEF Combine
    <2>2. withheld'[run.date] = (withheld[run.date] \cup Combined) \ S
      BY <2>1, EditionTypes DEF EditionTypeOK
    <2> QED BY <1>1, <1>3, <2>2 DEF Reached
  <1>5. ASSUME phase' = "skip" PROVE Settled(run.date)'
    <2>1. withheld' = withheld
      BY <1>5 DEF Combine
    <2> QED BY <1>1, <1>2, <1>5, <2>1 DEF Settled, Reached, Shown, Published
  <1> QED BY <1>4, <1>5

LEMMA CommitNews ==
  ASSUME EditionTypeOK, NewsInv, run.date \notin broken, Commit
  PROVE  Settled(run.date)'
  <1> DEFINE s == IF used_llm \/ run.selected = {} THEN "ready" ELSE "partial"
  <1>1. /\ phase = "commit" /\ UNCHANGED <<run, gained, withheld, muted>>
        /\ editions' = [editions EXCEPT ![run.date] = [status |-> s, items |-> run.selected]]
    BY DEF Commit
  <1>2. s \in Published
    BY DEF Published
  <1> HIDE DEF s
  <1>3. editions'[run.date] = [status |-> s, items |-> run.selected]
    BY <1>1, EditionTypes DEF EditionTypeOK
  <1>4. Reached(run.date, run.selected)
    BY <1>1 DEF NewsInv
  <1> QED BY <1>1, <1>2, <1>3, <1>4 DEF Settled, Reached, Published

\* Which stage a step leads to, and what it leaves alone.
LEMMA StageSteps ==
  ASSUME EditionTypeOK
  PROVE  /\ Skip \/ ClearRebuild => /\ phase \in {"skip", "clear"} /\ phase' = "idle"
                                    /\ run'.date = run.date
                                    /\ UNCHANGED <<editions, gained, withheld, broken>>
         /\ Fail \/ Die => run'.date = run.date /\ broken' = broken \cup {run.date}
         /\ Draft => /\ phase = "draft" /\ phase' = "synthesize"
                     /\ UNCHANGED <<run, gained, withheld, broken>>
         /\ \A llm \in BOOLEAN :
              Synthesize(llm) => /\ phase = "synthesize" /\ phase' = "commit"
                                 /\ run'.date = run.date /\ run'.selected = run.selected
                                 /\ UNCHANGED <<gained, withheld, broken>>
         /\ UserEventAction \/ SaveSettings \/ UNCHANGED vars =>
              /\ run'.date = run.date /\ run'.fresh = run.fresh
              /\ run'.selected = run.selected
              /\ UNCHANGED <<run_events, phase, editions, gained, withheld, broken>>
  <1>1. Skip \/ ClearRebuild => /\ phase \in {"skip", "clear"} /\ phase' = "idle"
                                /\ run'.date = run.date
                                /\ UNCHANGED <<editions, gained, withheld, broken>>
    BY EndRunResets DEF Skip, ClearRebuild, history
  <1>2. Fail \/ Die => run'.date = run.date /\ broken' = broken \cup {run.date}
    BY EndRunResets DEF Fail, Die, EndEarly
  <1>3. Draft => /\ phase = "draft" /\ phase' = "synthesize"
                 /\ UNCHANGED <<run, gained, withheld, broken>>
    BY DEF Draft, history
  <1>4. ASSUME NEW llm \in BOOLEAN, Synthesize(llm)
        PROVE  /\ phase = "synthesize" /\ phase' = "commit"
               /\ run'.date = run.date /\ run'.selected = run.selected
               /\ UNCHANGED <<gained, withheld, broken>>
    BY <1>4 DEF Synthesize, EditionTypeOK, history
  <1>5. UserEventAction \/ SaveSettings \/ UNCHANGED vars =>
          /\ run'.date = run.date /\ run'.fresh = run.fresh
          /\ run'.selected = run.selected
          /\ UNCHANGED <<run_events, phase, editions, gained, withheld, broken>>
    BY DEF UserEventAction, event_action, SaveSettings, vars, ledger, runVars, pipeline, history,
           EditionTypeOK
  <1> QED BY <1>1, <1>2, <1>3, <1>4, <1>5

LEMMA EditionNewsStep ==
  ASSUME LedgerInv, LedgerInv', EditionTypeOK, NewsInv, [Next]_vars
  PROVE  NewsInv'
  <1> SUFFICES ASSUME NEW D, D = run.date
               PROVE  NewsInv'
    OBVIOUS
  <1>1. D \in Date
    BY EditionTypes
  <1>2. ignored' \subseteq muted' /\ muted \subseteq muted'
    BY MutedStep DEF NewsInv
  <1>3. \A d \in Date : gained'[d] \subseteq Existing'
    BY GainedRows DEF NewsInv
  <1>4. \A d \in Date \ {D} : d \notin broken => Settled(d)'
    BY <1>2, OtherDates, SettledStays DEF NewsInv
  \* The run keeps its date: only this date is left to look at.
  <1>5. ASSUME run'.date = D, broken \subseteq broken',
               D \notin broken' =>
                 /\ phase' \in {"idle", "extract", "skip", "clear"} => Settled(D)'
                 /\ phase' = "dedup" => Reached(run.date, Decided \cup Shown)'
                 /\ phase' = "combine" => Reached(run.date, run.fresh \cup Shown)'
                 /\ phase' \in {"draft", "synthesize", "commit"} =>
                      Reached(run.date, run.selected)'
        PROVE  NewsInv'
    BY <1>1, <1>2, <1>3, <1>4, <1>5 DEF NewsInv
  \* A date without a run under way stays settled while nothing touches it.
  <1>6. ASSUME D \notin broken, phase \in {"idle", "extract", "skip", "clear"},
               UNCHANGED <<editions, gained, withheld>>
        PROVE  Settled(D)'
    BY <1>1, <1>2, <1>6, SettledStays DEF NewsInv
  <1>7. ASSUME NEW d \in Date, NEW P \in SUBSET Existing, StartRun(d, P) PROVE NewsInv'
    <2>1. /\ phase = "idle" /\ phase' = "extract" /\ run'.date = d
          /\ UNCHANGED <<editions, gained, withheld, broken>>
      BY <1>7 DEF StartRun, NoRun, history
    <2>2. \A f \in Date \ broken : Settled(f)'
      BY <2>1, <1>4, <1>6
    <2> QED BY <1>2, <1>3, <2>1, <2>2 DEF NewsInv
  <1>8. ASSUME NEW B \in Batches, NEW llm \in BOOLEAN, Extract(B, llm) PROVE NewsInv'
    <2>1. phase' = "dedup" /\ run'.date = D /\ broken' = broken
      BY <1>8 DEF Extract, EditionTypeOK, history
    <2> QED BY <1>5, <1>8, <2>1, ExtractNews
  <1>9. ASSUME NEW x \in todo, Deduplicate(x) PROVE NewsInv'
    <2>1. phase' = "dedup" /\ run'.date = D /\ broken' = broken
      BY <1>9 DEF Deduplicate
    <2> QED BY <1>5, <1>9, <2>1, DeduplicateNews
  <1>10. CASE Collect
    <2>1. phase' = "combine" /\ run'.date = D /\ broken' = broken
      BY <1>10 DEF Collect, EditionTypeOK, history
    <2> QED BY <1>5, <1>10, <2>1, CollectNews
  <1>11. ASSUME NEW S \in SUBSET Combined, Combine(S) PROVE NewsInv'
    <2>1. phase' \in {"skip", "draft"} /\ run'.date = D /\ broken' = broken
      BY <1>11 DEF Combine, EditionTypeOK, history
    <2>2. D \notin broken => /\ phase' = "draft" => Reached(run.date, run.selected)'
                             /\ phase' = "skip" => Settled(run.date)'
      BY <1>11, CombineNews
    <2>3. Settled(run.date)' => Settled(D)'
      BY <2>1 DEF Settled, Reached
    <2> QED BY <1>5, <2>1, <2>2, <2>3
  <1>12. CASE Commit
    <2>1. phase' = "clear" /\ run' = run /\ broken' = broken
      BY <1>12 DEF Commit
    <2>2. Settled(run.date)' => Settled(D)'
      BY <2>1 DEF Settled, Reached
    <2> QED BY <1>5, <1>12, <2>1, <2>2, CommitNews
  <1>13. CASE Skip \/ ClearRebuild
    BY <1>5, <1>6, <1>13, StageSteps
  <1>14. CASE Fail \/ Die
    BY <1>5, <1>14, StageSteps
  <1>15. CASE Draft
    <2>1. D \notin broken => Reached(run.date, run.selected)'
      BY <1>2, <1>15, StageSteps DEF NewsInv, Reached
    <2> QED BY <1>5, <1>15, <2>1, StageSteps
  <1>16. ASSUME NEW llm \in BOOLEAN, Synthesize(llm) PROVE NewsInv'
    <2>1. D \notin broken => Reached(run.date, run.selected)'
      BY <1>2, <1>16, StageSteps DEF NewsInv, Reached
    <2> QED BY <1>5, <1>16, <2>1, StageSteps
  <1>17. CASE UserEventAction \/ SaveSettings \/ UNCHANGED vars
    <2>1. /\ run'.date = D /\ run'.fresh = run.fresh /\ run'.selected = run.selected
          /\ UNCHANGED <<run_events, phase, editions, gained, withheld, broken>>
      BY <1>17, StageSteps
    <2>2. Decided' = Decided /\ Shown' = Shown
      BY <2>1 DEF Decided, Shown
    <2>3. D \notin broken =>
            /\ phase = "dedup" => Reached(run.date, Decided \cup Shown)'
            /\ phase = "combine" => Reached(run.date, run.fresh \cup Shown)'
            /\ phase \in {"draft", "synthesize", "commit"} =>
                 Reached(run.date, run.selected)'
      BY <1>2, <2>1, <2>2 DEF NewsInv, Reached
    <2> QED BY <1>5, <1>6, <2>1, <2>3
  <1> QED
    BY <1>7, <1>8, <1>9, <1>10, <1>11, <1>12, <1>13, <1>14, <1>15, <1>16, <1>17 DEF Next

\* What a date's runs have found is in its edition after each of them, unless
\* the user ignored it, the gate or a limit kept it out, a later event of the run
\* changed its decision or a run of the date failed.
THEOREM NewsReachesEditionHolds == Spec => []NewsReachesEdition
  <1>1. Init => NewsInv
    BY DEF Init, LedgerInit, NewsInv, Settled, Published
  <1>2. LedgerInv /\ EditionInv /\ NewsInv /\ [Next]_vars /\ (LedgerInv /\ EditionInv)'
        => NewsInv'
    BY EditionNewsStep DEF EditionInv
  <1>3. NewsInv => NewsReachesEdition
    BY DEF NewsInv, NewsReachesEdition, Settled, Reached
  <1> QED BY <1>1, <1>2, <1>3, EditionInvariant, PTL DEF Spec

-----------------------------------------------------------------------------
(* With pages of one topic each no two events of a run meet in one row.      *)

\* Each row of the ledger is of one topic, and the events still to be filed are
\* of other topics than the rows that the run has decided.
RowsApart(topic) ==
  /\ \A e \in Existing : \A i \in sources[e] : topic[i] = topic[event_key[e]]
  /\ \A k \in Key : alias[k] # 0 => topic[k] = topic[event_key[alias[k]]]

FilingApart(topic) ==
  /\ phase = "extract" => Decided = {}
  /\ phase = "dedup" =>
       /\ \E B \in Batches : todo \subseteq B
       /\ \A x \in todo, e \in Decided : topic[x.key] # topic[event_key[e]]

\* An extracted event is filed under a row of its own topic.
LEMMA ResolvesInTopic ==
  ASSUME LedgerInv, NEW topic, RowsApart(topic), NEW x \in Extracted,
         \A i \in x.items : topic[i] = topic[x.key],
         NEW e \in Existing, Resolves(x, e)
  PROVE  topic[event_key[e]] = topic[x.key]
  <1>1. x.key \in Key /\ e # 0
    BY ExistingInId DEF Extracted, LedgerInv
  <1>2. CASE Cited(x) # {}
    BY <1>2 DEF Resolves, Cited, RowsApart
  <1>3. CASE Cited(x) = {} /\ alias[x.key] # 0
    BY <1>1, <1>3 DEF Resolves, RowsApart
  <1>4. CASE Cited(x) = {} /\ alias[x.key] = 0
    BY <1>1, <1>4 DEF Resolves
  <1> QED BY <1>2, <1>3, <1>4

\* What upsert_event does, seen by topics: one row of the event's topic takes
\* its items and its key and is decided, all else stays.
LEMMA FiledInTopic ==
  ASSUME LedgerInv, NEW topic, RowsApart(topic), NEW x \in Extracted,
         \A i \in x.items : topic[i] = topic[x.key], upsert_event(x)
  PROVE  /\ RowsApart(topic)'
         /\ \A e \in Existing : event_key'[e] = event_key[e]
         /\ \E n \in Existing' :
              /\ topic[event_key'[n]] = topic[x.key]
              /\ \A e \in Id \ {n} : run_events'[e] = run_events[e]
  <1>0. LedgerTypeOK /\ AliasesResolve /\ NothingDangling /\ x.key \in Key
    BY DEF LedgerInv, Extracted
  <1>1. SUFFICES \E n \in Existing' : \E isNew \in BOOLEAN :
                   /\ Record(x, n, isNew) /\ Existing \subseteq Existing' /\ Existing' \subseteq Id
                   /\ \A e \in Existing' \ {n} : e \in Existing
                   /\ \A e \in Existing : event_key'[e] = event_key[e]
                   /\ topic[event_key'[n]] = topic[x.key]
                   /\ n \in Existing \/ sources[n] = {}
    <2>1. PICK n \in Existing' : \E isNew \in BOOLEAN :
            /\ Record(x, n, isNew) /\ Existing \subseteq Existing' /\ Existing' \subseteq Id
            /\ \A e \in Existing' \ {n} : e \in Existing
            /\ \A e \in Existing : event_key'[e] = event_key[e]
            /\ topic[event_key'[n]] = topic[x.key]
            /\ n \in Existing \/ sources[n] = {}
      BY <1>1
    <2>2. PICK isNew \in BOOLEAN : Record(x, n, isNew)
      BY <2>1
    <2>3. /\ alias' = [alias EXCEPT ![x.key] = IF @ = 0 THEN n ELSE @]
          /\ sources' = [sources EXCEPT ![n] = @ \cup x.items]
          /\ run_events' = [run_events EXCEPT
               ![n] = [decision |-> Decide(x, n, isNew), delta |-> NewMaterial(x, n)]]
      BY <2>2 DEF Record
    <2>4. \A e \in Id \ {n} : run_events'[e] = run_events[e] /\ sources'[e] = sources[e]
      BY <1>0, <2>3 DEF LedgerTypeOK
    <2>5. sources'[n] = sources[n] \cup x.items
      BY <1>0, <2>1, <2>3 DEF LedgerTypeOK
    <2>6. ASSUME NEW e \in Existing', NEW i \in sources'[e]
          PROVE  topic[i] = topic[event_key'[e]]
      BY <2>1, <2>4, <2>5, <2>6 DEF RowsApart
    <2>7. ASSUME NEW k \in Key, alias'[k] # 0
          PROVE  topic[k] = topic[event_key'[alias'[k]]]
      <3>1. alias'[k] = alias[k] \/ (k = x.key /\ alias'[k] = n)
        BY <1>0, <2>3 DEF LedgerTypeOK
      <3>2. CASE alias'[k] = alias[k]
        BY <1>0, <2>1, <2>7, <3>2 DEF RowsApart, AliasesResolve
      <3>3. CASE k = x.key /\ alias'[k] = n
        BY <2>1, <3>3
      <3> QED BY <3>1, <3>2, <3>3
    <2> QED BY <2>1, <2>4, <2>6, <2>7 DEF RowsApart
  <1>2. CASE InsertEvent(x)
    <2>1. /\ lastEvent' \in Id /\ lastEvent' \notin Existing
          /\ Existing' = Existing \cup {lastEvent'} /\ Existing \subseteq Id
          /\ Record(x, lastEvent', TRUE)
          /\ event_key' = [event_key EXCEPT ![lastEvent'] = x.key]
      BY <1>0, <1>2, InsertRange DEF InsertEvent
    <2>2. event_key'[lastEvent'] = x.key /\ \A e \in Existing : event_key'[e] = event_key[e]
      BY <1>0, <2>1 DEF LedgerTypeOK
    <2>3. sources[lastEvent'] = {}
      BY <1>0, <2>1 DEF NothingDangling
    <2> QED BY <2>1, <2>2, <2>3
  <1>3. CASE \E e \in Existing : MergeEvent(x, e)
    <2>1. PICK e \in Existing : MergeEvent(x, e)
      BY <1>3
    <2>2. Record(x, e, FALSE) /\ Existing' = Existing /\ event_key' = event_key
      BY <2>1 DEF MergeEvent, Existing
    <2>3. topic[event_key[e]] = topic[x.key]
      BY <2>1, ResolvesInTopic DEF MergeEvent
    <2> QED BY <1>0, <2>2, <2>3, ExistingInId
  <1> QED BY <1>2, <1>3 DEF upsert_event

LEMMA ApartStep ==
  ASSUME LedgerInv, EditionTypeOK, [Next]_vars,
         NEW topic, PagesApart(topic), RowsApart(topic), FilingApart(topic)
  PROVE  RowsApart(topic)' /\ FilingApart(topic)' /\ KeepsDecisions
  <1>1. Decided \subseteq Existing
    BY DEF Decided, LedgerInv, NothingDangling, Undecided
  <1>2. ASSUME NEW d \in Date, NEW P \in SUBSET Existing, StartRun(d, P)
        PROVE  RowsApart(topic)' /\ FilingApart(topic)' /\ KeepsDecisions
    <2>1. /\ phase' = "extract" /\ \A e \in Id : run_events'[e] = Undecided
          /\ UNCHANGED <<lastEvent, event_key, alias, sources>>
      BY <1>2 DEF StartRun, BeginRun, ledgerVars
    <2>2. RowsApart(topic)'
      BY <2>1 DEF RowsApart, Existing
    <2> QED BY <2>1, <2>2 DEF FilingApart, Decided, KeepsDecisions, Undecided
  <1>3. ASSUME NEW B \in Batches, NEW llm \in BOOLEAN, Extract(B, llm)
        PROVE  RowsApart(topic)' /\ FilingApart(topic)' /\ KeepsDecisions
    <2>1. /\ phase = "extract" /\ phase' = "dedup" /\ todo' = B
          /\ UNCHANGED <<lastEvent, event_key, alias, sources, run_events>>
      BY <1>3 DEF Extract, ledger, ledgerVars, runVars
    <2>2. RowsApart(topic)' /\ Decided' = {}
      BY <2>1 DEF RowsApart, FilingApart, Existing, Decided
    <2> QED BY <2>1, <2>2 DEF FilingApart, KeepsDecisions
  \* The row that an event is filed under was not decided before.
  <1>4. ASSUME NEW x \in todo, Deduplicate(x)
        PROVE  RowsApart(topic)' /\ FilingApart(topic)' /\ KeepsDecisions
    <2>1. /\ phase = "dedup" /\ phase' = "dedup" /\ todo' = todo \ {x} /\ upsert_event(x)
          /\ x \in Extracted
      BY <1>4, DeduplicateFiles DEF Deduplicate, EditionTypeOK
    <2>2. PICK B \in Batches : todo \subseteq B
      BY <2>1 DEF FilingApart
    <2>3. \A i \in x.items : topic[i] = topic[x.key]
      BY <2>2 DEF PagesApart
    <2>4. RowsApart(topic)' /\ \A e \in Existing : event_key'[e] = event_key[e]
      BY <2>1, <2>3, FiledInTopic
    <2>5. PICK n \in Existing' : /\ topic[event_key'[n]] = topic[x.key]
                                 /\ \A e \in Id \ {n} : run_events'[e] = run_events[e]
      BY <2>1, <2>3, FiledInTopic
    <2>6. n \notin Decided
      BY <1>1, <2>1, <2>4, <2>5 DEF FilingApart
    <2>7. KeepsDecisions
      BY <2>5, <2>6 DEF Decided, KeepsDecisions
    <2>8. ASSUME NEW y \in todo', NEW e \in Decided'
          PROVE  topic[y.key] # topic[event_key'[e]]
      <3>1. CASE e = n
        BY <2>1, <2>2, <2>5, <2>8, <3>1 DEF PagesApart
      <3>2. CASE e # n
        <4>1. e \in Decided
          BY <2>5, <2>8, <3>2 DEF Decided
        <4> QED BY <1>1, <2>1, <2>4, <2>8, <4>1 DEF FilingApart
      <3> QED BY <3>1, <3>2
    <2>9. FilingApart(topic)'
      BY <2>1, <2>2, <2>8 DEF FilingApart
    <2> QED BY <2>4, <2>7, <2>9
  <1>5. ASSUME \/ Collect
               \/ \E S \in SUBSET Combined : Combine(S)
               \/ Skip \/ Draft
               \/ \E llm \in BOOLEAN : Synthesize(llm)
               \/ Commit \/ ClearRebuild \/ Fail \/ Die
        PROVE  RowsApart(topic)' /\ FilingApart(topic)' /\ KeepsDecisions
    <2>1. UNCHANGED <<lastEvent, event_key, alias, sources, run_events>>
      BY <1>5 DEF Collect, Combine, Skip, Draft, Synthesize, Commit, ClearRebuild, Fail, Die,
                  EndEarly, ledger, ledgerVars, runVars
    <2>2. phase' \notin {"extract", "dedup"}
      BY <1>5 DEF Collect, Combine, Skip, Draft, Synthesize, Commit, ClearRebuild, Fail, Die,
                  EndEarly, EndRun
    <2>3. RowsApart(topic)' /\ KeepsDecisions
      BY <2>1 DEF RowsApart, Existing, KeepsDecisions
    <2> QED BY <2>2, <2>3 DEF FilingApart
  <1>6. ASSUME UserEventAction \/ SaveSettings \/ UNCHANGED vars
        PROVE  RowsApart(topic)' /\ FilingApart(topic)' /\ KeepsDecisions
    <2>1. UNCHANGED <<lastEvent, event_key, alias, sources, run_events, phase, todo>>
      BY <1>6 DEF UserEventAction, event_action, SaveSettings, vars, ledger, ledgerVars, runVars,
                  pipeline
    <2>2. RowsApart(topic)' /\ FilingApart(topic)' /\ KeepsDecisions
      BY <2>1 DEF RowsApart, FilingApart, Existing, Decided, KeepsDecisions
    <2> QED BY <2>2
  <1> QED BY <1>2, <1>3, <1>4, <1>5, <1>6 DEF Next

\* A run that extracts one event for each topic, and the items of no other, takes
\* no decision back, whatever earlier runs have filed: an agent that keeps topics
\* apart is enough for what the run ledger_overwrite shows not to happen.
THEOREM ApartKeepsDecisions ==
  ASSUME NEW topic, PagesApart(topic)
  PROVE  Spec => DecisionsKept
  <1>1. Init => RowsApart(topic) /\ FilingApart(topic)
    BY DEF Init, LedgerInit, RowsApart, FilingApart, Existing
  <1>2. LedgerInv /\ EditionInv /\ RowsApart(topic) /\ FilingApart(topic) /\ [Next]_vars
        => RowsApart(topic)' /\ FilingApart(topic)'
    BY ApartStep DEF EditionInv
  <1>3. LedgerInv /\ EditionInv /\ RowsApart(topic) /\ FilingApart(topic) /\ [Next]_vars
        => [KeepsDecisions]_ledger
    BY ApartStep DEF EditionInv
  <1> QED BY <1>1, <1>2, <1>3, EditionInvariant, PTL DEF Spec, DecisionsKept
=============================================================================
