------------------------ MODULE EditionEntries_proofs ------------------------
(***************************************************************************)
(* Proofs about EditionEntries, for any pages, answers of the agent, dates *)
(* and runs: it is DailyEdition with the values filled in, and what the    *)
(* editions say of an event is news once, complete and, when the edition   *)
(* is ready, in the agent's words.                                         *)
(***************************************************************************)
EXTENDS EditionEntries, DailyEdition_proofs

LEMMA StepOfEdition ==
  ASSUME [EntriesNext]_allVars
  PROVE  [Next]_vars
  <1>1. CASE UNCHANGED allVars
    BY <1>1 DEF allVars
  <1>2. CASE EntriesNext
    BY <1>2
    DEF EntriesNext, Next, ExtractMaterial, CombineValues, SynthesizeByAgent,
        SynthesizeByRules, CommitEntries
  <1> QED BY <1>1, <1>2

\* EditionEntries implements DailyEdition: every step is one of its steps.
THEOREM EntriesImplementEdition == EntriesSpec => Spec
  <1>1. EntriesInit => Init
    BY DEF EntriesInit
  <1>2. [EntriesNext]_allVars => [Next]_vars
    BY StepOfEdition
  <1> QED BY <1>1, <1>2, PTL DEF EntriesSpec, Spec

-----------------------------------------------------------------------------
(* The values of a run and the entries of the editions. *)

LEMMA EntryTypes ==
  /\ NoEntry \in Entry
  /\ NoEntry.item_type = "none" /\ NoEntry.delta = {}
  /\ NoEntries \in [Id -> Entry]
  /\ \A e \in Id : NoEntries[e] = NoEntry
  BY DEF NoEntry, Entry, NoEntries

LEMMA EntriesInitOK == EntriesInit => EntriesInv
  <1> SUFFICES ASSUME EntriesInit PROVE EntriesInv
    OBVIOUS
  <1>1. /\ values = NoEntries /\ \A d \in Date : entries[d] = NoEntries
        /\ by_rules = FALSE /\ phase = "idle"
        /\ \A d \in Date : editions[d].items = {} /\ editions[d].status = "none"
    BY DEF EntriesInit, Init
  <1>2. EntriesTypeOK
    BY <1>1, EntryTypes DEF EntriesTypeOK, EntriesInit
  <1>3. ValuesOfRun /\ NewsShown /\ ReadyIsRewritten
    BY <1>1 DEF ValuesOfRun, NewsShown, ReadyIsRewritten
  <1>4. FactsOfRun /\ FactsShownOnce
    <2>1. \A e \in Id : run_events[e].delta = {}
      BY DEF EntriesInit, Init, LedgerInit, Undecided
    <2> QED BY <1>1, <2>1, EntryTypes DEF FactsOfRun, FactsShownOnce
  <1> QED BY <1>2, <1>3, <1>4 DEF EntriesInv

\* A run begins or files an event: nothing is selected, and what it finds out
\* is no fact that an edition shows.
LEMMA FilingStep ==
  ASSUME LedgerInv, EditionInv, EntriesInv, [LedgerNext]_ledger,
         UNCHANGED page,
         \/ \E d \in Date, P \in SUBSET Existing : StartRun(d, P)
         \/ \E x \in todo : Deduplicate(x)
  PROVE  EntriesInv'
  <1>1. /\ EntriesTypeOK /\ ValuesOfRun /\ FactsOfRun /\ FactsShownOnce /\ ReadyIsRewritten
        /\ UNCHANGED <<values, entries, by_rules, editions>>
        /\ phase \in {"idle", "dedup"} /\ phase' \in {"extract", "dedup"}
    BY DEF EntriesInv, page, StartRun, Deduplicate
  <1>2. EntriesTypeOK' /\ FactsShownOnce' /\ ReadyIsRewritten'
    BY <1>1 DEF EntriesTypeOK, FactsShownOnce, ReadyIsRewritten
  <1>3. ValuesOfRun' /\ NewsShown'
    BY <1>1 DEF ValuesOfRun, NewsShown
  <1>4. FactsOfRun'
    <2>0. Date # {}
      BY EditionTypes DEF EditionInv
    <2> SUFFICES ASSUME NEW e \in Id, NEW d \in Date
                 PROVE  /\ values[e].delta \subseteq run_events'[e].delta \cup {ForcedNote}
                        /\ entries[d][e].delta \subseteq claims'[e] \cup {ForcedNote}
                        /\ d # run'.date => run_events'[e].delta \cap entries[d][e].delta = {}
      BY <1>1, <2>0 DEF FactsOfRun
    <2>1. values[e].delta = {}
      BY <1>1, EntryTypes DEF ValuesOfRun
    <2>2. /\ claims[e] \subseteq claims'[e]
          /\ run_events'[e] # run_events[e] => run_events'[e].delta \cap claims[e] = {}
      BY NewsStep
    <2>3. entries[d][e].delta \subseteq claims[e] \cup {ForcedNote}
      BY <1>1 DEF FactsOfRun
    <2>4. d # run'.date => run_events'[e].delta \cap entries[d][e].delta = {}
      <3>1. CASE \E f \in Date, P \in SUBSET Existing : StartRun(f, P)
        BY <3>1 DEF StartRun, BeginRun, Undecided
      <3>2. CASE \E x \in todo : Deduplicate(x)
        <4>1. run' = run
          BY <3>2 DEF Deduplicate
        <4>2. CASE run_events'[e] = run_events[e]
          BY <1>1, <4>1, <4>2 DEF FactsOfRun
        <4>3. CASE run_events'[e] # run_events[e]
          <5>1. LedgerTypeOK'
            BY LedgerStep DEF LedgerInv
          <5>2. ForcedNote \notin run_events'[e].delta
            BY <5>1, EntriesAssumption DEF LedgerTypeOK
          <5> QED BY <2>2, <2>3, <4>3, <5>2
        <4> QED BY <4>2, <4>3
      <3> QED BY <3>1, <3>2
    <2> QED BY <2>1, <2>2, <2>3, <2>4
  <1> QED BY <1>2, <1>3, <1>4 DEF EntriesInv

\* Extraction, collection and the request for a rebuild: the values stay none.
LEMMA CollectingStep ==
  ASSUME LedgerInv, EditionInv, EntriesInv,
         \/ \E B \in Batches, llm \in BOOLEAN : ExtractMaterial(B, llm)
         \/ Collect /\ UNCHANGED page
  PROVE  EntriesInv'
  <1>1. /\ EntriesTypeOK /\ ValuesOfRun /\ FactsOfRun /\ FactsShownOnce /\ ReadyIsRewritten
        /\ EditionTypeOK
    BY DEF EntriesInv, EditionInv
  <1>2. UNCHANGED <<values, entries, editions, run_events, claims>> /\ by_rules' \in BOOLEAN
    BY <1>1 DEF ExtractMaterial, Extract, Collect, page, ledger, ledgerVars, runVars,
                EntriesTypeOK
  <1>3. /\ phase \in {"extract", "dedup"} /\ phase' \in {"dedup", "combine"}
        /\ run'.date = run.date
        /\ phase' = "combine" => run'.fresh = RunEvents
    BY <1>1 DEF ExtractMaterial, Extract, Collect, EditionTypeOK
  <1>4. EntriesTypeOK' /\ FactsShownOnce' /\ ReadyIsRewritten' /\ FactsOfRun'
    BY <1>1, <1>2, <1>3 DEF EntriesTypeOK, FactsShownOnce, ReadyIsRewritten, FactsOfRun
  <1>5. \A e \in RunEvents : run_events[e].decision \in {"new", "update"}
    BY DEF RunEvents
  <1>6. ValuesOfRun' /\ NewsShown'
    BY <1>1, <1>2, <1>3, <1>5 DEF ValuesOfRun, NewsShown
  <1> QED BY <1>4, <1>6 DEF EntriesInv

\* The value of a selected event names its kind and only what the run knows.
LEMMA ValueType ==
  ASSUME LedgerInv, EditionInv, EntriesInv, phase = "combine", NEW e \in Combined
  PROVE  /\ e \in Id /\ Value(e) \in Entry /\ Value(e).item_type # "none"
         /\ Value(e).delta \subseteq run_events[e].delta \cup {ForcedNote}
         /\ ~run.rebuild /\ e \in run.fresh =>
              Value(e).item_type = run_events[e].decision /\ Value(e).delta = Delta(e)
  <1>1. EntriesTypeOK /\ ValuesOfRun /\ EditionTypeOK /\ LedgerTypeOK
    BY DEF EntriesInv, EditionInv, LedgerInv
  <1>2. e \in Id
    BY <1>1, CombinedRows
  <1>3. CASE run.rebuild
    BY <1>2, <1>3 DEF Value, Entry, Type
  <1>4. CASE ~run.rebuild /\ e \in run.fresh
    <2>1. run_events[e].decision \in {"new", "update"} /\ run_events[e].delta \in SUBSET Claim
      BY <1>1, <1>2, <1>4 DEF ValuesOfRun, LedgerTypeOK
    <2>2. Delta(e) \in SUBSET (Claim \cup {ForcedNote})
            /\ Delta(e) \subseteq run_events[e].delta \cup {ForcedNote}
      BY <2>1 DEF Delta
    <2>3. Value(e) = [item_type |-> run_events[e].decision, delta |-> Delta(e),
                      text |-> "none"]
      BY <1>4 DEF Value
    <2> QED BY <1>2, <1>4, <2>1, <2>2, <2>3 DEF Entry, Type
  <1>5. CASE ~run.rebuild /\ e \notin run.fresh
    <2>1. run.date \in Date /\ e \in editions[run.date].items
      BY <1>1, <1>5, EditionTypes DEF Combined, Shown
    <2>2. entries[run.date][e] \in Entry /\ entries[run.date][e].item_type # "none"
      BY <1>1, <1>2, <2>1 DEF EntriesTypeOK
    <2>3. Value(e) = [item_type |-> entries[run.date][e].item_type, delta |-> {},
                      text |-> "none"]
      BY <1>5 DEF Value
    <2> QED BY <1>2, <1>5, <2>2, <2>3 DEF Entry
  <1> QED BY <1>3, <1>4, <1>5

LEMMA CombineValuesStep ==
  ASSUME LedgerInv, EditionInv, EntriesInv, NEW S \in SUBSET Combined, CombineValues(S)
  PROVE  EntriesInv'
  <1>1. /\ EntriesTypeOK /\ FactsOfRun /\ FactsShownOnce /\ ReadyIsRewritten
        /\ EditionTypeOK /\ run.date \in Date
    BY EditionTypes DEF EntriesInv, EditionInv
  <1>2. /\ phase = "combine" /\ phase' \in {"skip", "draft"}
        /\ UNCHANGED <<entries, by_rules, editions, run_events, claims>>
        /\ values' = [e \in Id |-> IF e \in S THEN Value(e) ELSE NoEntry]
    BY DEF CombineValues, Combine, ledger, ledgerVars, runVars
  <1>3. /\ run'.date = run.date /\ run'.fresh = run.fresh /\ run'.selected = S
        /\ run'.rebuild = run.rebuild
    BY <1>1 DEF CombineValues, Combine, EditionTypeOK
  <1>4. \A e \in S : e \in Combined
    OBVIOUS
  <1>5. /\ values' \in [Id -> Entry]
        /\ \A e \in Id : values'[e].item_type # "none" <=> e \in S
        /\ \A e \in Id : values'[e].delta \subseteq run_events[e].delta \cup {ForcedNote}
    BY <1>2, <1>4, ValueType, EntryTypes
  <1>6. ~run.rebuild => \A e \in run.fresh \cap S :
          values'[e].item_type = run_events[e].decision /\ values'[e].delta = Delta(e)
    BY <1>2, <1>4, ValueType
  <1>7. EntriesTypeOK' /\ FactsShownOnce' /\ ReadyIsRewritten' /\ NewsShown'
    BY <1>1, <1>2, <1>5 DEF EntriesTypeOK, FactsShownOnce, ReadyIsRewritten, NewsShown
  <1>8. FactsOfRun'
    BY <1>1, <1>2, <1>3, <1>5 DEF FactsOfRun
  <1>9. ValuesOfRun'
    BY <1>2, <1>3, <1>5, <1>6 DEF ValuesOfRun, Delta
  <1> QED BY <1>7, <1>8, <1>9 DEF EntriesInv

\* The texts come in; the kinds and deltas of the values stay.
LEMMA SynthesisStep ==
  ASSUME LedgerInv, EditionInv, EntriesInv,
         \/ \E rewrites \in Rewrites : SynthesizeByAgent(rewrites)
         \/ SynthesizeByRules
  PROVE  EntriesInv'
  <1>1. /\ EntriesTypeOK /\ ValuesOfRun /\ FactsOfRun /\ FactsShownOnce /\ ReadyIsRewritten
        /\ EditionTypeOK /\ run.selected \in SUBSET Id
    BY EditionTypes DEF EntriesInv, EditionInv
  <1>2. /\ phase = "synthesize" /\ phase' = "commit"
        /\ UNCHANGED <<entries, by_rules, editions, run_events, claims>>
    BY DEF SynthesizeByAgent, SynthesizeByRules, Synthesize, ledger, ledgerVars, runVars
  <1>3. /\ run'.date = run.date /\ run'.fresh = run.fresh /\ run'.selected = run.selected
        /\ run'.rebuild = run.rebuild
    BY <1>1 DEF SynthesizeByAgent, SynthesizeByRules, Synthesize, EditionTypeOK
  <1>4. /\ values' \in [Id -> Entry]
        /\ \A e \in Id :
             /\ values'[e].item_type # "none" <=> e \in run.selected
             /\ values'[e].delta \subseteq values[e].delta
             /\ e \in run.selected => /\ values'[e].item_type = values[e].item_type
                                      /\ values'[e].delta = values[e].delta
    <2>0. PICK rewrites : Texts(rewrites)
      BY DEF SynthesizeByAgent, SynthesizeByRules
    <2> DEFINE said(e) == IF e \in {rewrites[n] : n \in DOMAIN rewrites} THEN "agent" ELSE "ledger"
    <2>1. values' = [e \in Id |->
            IF e \notin run.selected THEN NoEntry ELSE [values[e] EXCEPT !.text = said(e)]]
      BY <2>0 DEF Texts
    <2>2. \A e \in Id : said(e) \in {"none", "ledger", "agent"}
      OBVIOUS
    <2>3. \A e \in Id : values[e] \in Entry
      BY <1>1 DEF EntriesTypeOK
    <2>4. \A e \in run.selected : values[e].item_type # "none"
      BY <1>1, <1>2 DEF ValuesOfRun
    <2> HIDE DEF said
    <2>5. ASSUME NEW e \in Id
          PROVE  /\ values'[e] \in Entry
                 /\ values'[e].item_type # "none" <=> e \in run.selected
                 /\ values'[e].delta \subseteq values[e].delta
                 /\ e \in run.selected => /\ values'[e].item_type = values[e].item_type
                                          /\ values'[e].delta = values[e].delta
      <3>1. CASE e \in run.selected
        BY <2>1, <2>2, <2>3, <2>4, <3>1 DEF Entry
      <3>2. CASE e \notin run.selected
        BY <2>1, <3>2, EntryTypes
      <3> QED BY <3>1, <3>2
    <2> QED BY <2>1, <2>5
  <1>5. run'.synthesis => \A e \in run.selected : values'[e].text = "agent"
    <2>1. CASE SynthesizeByRules
      BY <1>1, <2>1 DEF SynthesizeByRules, Synthesize, EditionTypeOK
    <2>2. ASSUME NEW rewrites \in Rewrites, SynthesizeByAgent(rewrites)
          PROVE  \A e \in run.selected : values'[e].text = "agent"
      <3> SUFFICES ASSUME NEW e \in run.selected PROVE values'[e].text = "agent"
        OBVIOUS
      <3>1. e \in Id /\ values[e] \in Entry
        BY <1>1 DEF EntriesTypeOK
      <3>2. e \in {rewrites[n] : n \in DOMAIN rewrites}
        BY <2>2 DEF SynthesizeByAgent, ValidRewrites
      <3>3. values'[e] = [values[e] EXCEPT !.text = "agent"]
        BY <2>2, <3>1, <3>2 DEF SynthesizeByAgent, Texts
      <3> QED BY <3>1, <3>3 DEF Entry
    <2> QED BY <2>1, <2>2
  <1>6. EntriesTypeOK' /\ FactsShownOnce' /\ ReadyIsRewritten' /\ NewsShown'
    BY <1>1, <1>2, <1>4 DEF EntriesTypeOK, FactsShownOnce, ReadyIsRewritten, NewsShown
  <1>7. FactsOfRun'
    BY <1>1, <1>2, <1>3, <1>4 DEF FactsOfRun
  <1>8. ValuesOfRun'
    BY <1>1, <1>2, <1>3, <1>4, <1>5 DEF ValuesOfRun, Delta
  <1> QED BY <1>6, <1>7, <1>8 DEF EntriesInv

LEMMA CommitEntriesStep ==
  ASSUME LedgerInv, EditionInv, EntriesInv, CommitEntries
  PROVE  EntriesInv'
  <1>1. /\ EntriesTypeOK /\ ValuesOfRun /\ FactsOfRun /\ FactsShownOnce /\ ReadyIsRewritten
        /\ EditionTypeOK /\ LedgerTypeOK /\ DeltaRecorded /\ NothingDangling
        /\ run.date \in Date /\ run.selected \in SUBSET Id
    BY EditionTypes DEF EntriesInv, EditionInv, LedgerInv
  <1>2. /\ phase = "commit" /\ phase' = "clear"
        /\ UNCHANGED <<run, values, by_rules, run_events, claims>>
    BY DEF CommitEntries, Commit, ledger, ledgerVars, runVars
  <1>3. /\ entries' = [entries EXCEPT ![run.date] = values]
        /\ entries'[run.date] = values
        /\ \A d \in Date \ {run.date} : entries'[d] = entries[d]
    BY <1>1 DEF CommitEntries, EntriesTypeOK
  <1>4. /\ \A d \in Date \ {run.date} : editions'[d] = editions[d]
        /\ editions'[run.date].items = run.selected
        /\ editions'[run.date].status = "ready" => used_llm \/ run.selected = {}
    BY <1>1 DEF CommitEntries, Commit, EditionTypeOK
  <1>5. EntriesTypeOK'
    <2>1. entries' \in [Date -> [Id -> Entry]]
      BY <1>1, <1>3 DEF EntriesTypeOK
    <2>2. {e \in Id : values[e].item_type # "none"} = run.selected
      BY <1>1, <1>2 DEF ValuesOfRun
    <2> QED BY <1>1, <1>2, <1>3, <1>4, <2>1, <2>2 DEF EntriesTypeOK
  <1>6. ValuesOfRun'
    BY <1>2 DEF ValuesOfRun
  <1>7. \A e \in Id : values[e].delta \subseteq claims[e] \cup {ForcedNote}
    <2>1. \A e \in Id : run_events[e].delta \subseteq claims[e]
      BY <1>1 DEF DeltaRecorded, NothingDangling, Undecided
    <2> QED BY <1>1, <2>1 DEF FactsOfRun
  <1>8. FactsOfRun'
    BY <1>1, <1>2, <1>3, <1>7 DEF FactsOfRun
  <1>9. FactsShownOnce'
    <2>1. \A d \in Date \ {run.date}, e \in Id :
            values[e].delta \cap entries[d][e].delta \subseteq {ForcedNote}
      BY <1>1 DEF FactsOfRun
    <2> QED BY <1>1, <1>3, <2>1 DEF FactsShownOnce
  <1>10. NewsShown'
    <2>1. ASSUME ~run.rebuild, NEW e \in run.fresh \cap run.selected
          PROVE  /\ values[e].item_type = run_events[e].decision
                 /\ run_events[e].delta \subseteq values[e].delta
                 /\ run_events[e].decision = "update" => values[e].delta # {}
      <3>1. values[e].item_type = run_events[e].decision /\ values[e].delta = Delta(e)
        BY <1>1, <1>2, <2>1 DEF ValuesOfRun
      <3> QED BY <3>1 DEF Delta
    <2> QED BY <1>2, <1>3, <2>1 DEF NewsShown
  <1>11. ReadyIsRewritten'
    <2>1. editions'[run.date].status = "ready" => \A e \in run.selected : values[e].text = "agent"
      BY <1>1, <1>2, <1>4 DEF used_llm, ValuesOfRun
    <2> QED BY <1>1, <1>3, <1>4, <2>1 DEF ReadyIsRewritten
  <1> QED BY <1>5, <1>6, <1>8, <1>9, <1>10, <1>11 DEF EntriesInv

\* The edition of the date becomes a draft: its items stay.
LEMMA DraftEntriesStep ==
  ASSUME LedgerInv, EditionInv, EntriesInv, Draft, UNCHANGED page
  PROVE  EntriesInv'
  <1>1. /\ EntriesTypeOK /\ ValuesOfRun /\ FactsOfRun /\ FactsShownOnce /\ ReadyIsRewritten
        /\ EditionTypeOK /\ run.date \in Date
    BY EditionTypes DEF EntriesInv, EditionInv
  <1>2. /\ phase = "draft" /\ phase' = "synthesize"
        /\ UNCHANGED <<run, values, entries, by_rules, run_events, claims>>
    BY DEF Draft, page, ledger, ledgerVars, runVars
  <1>3. \A d \in Date : /\ editions'[d].items = editions[d].items
                        /\ editions'[d].status = "ready" => editions[d].status = "ready"
    BY <1>1 DEF Draft, EditionTypeOK
  <1>4. EntriesTypeOK' /\ ReadyIsRewritten'
    BY <1>1, <1>2, <1>3 DEF EntriesTypeOK, ReadyIsRewritten
  <1>5. FactsShownOnce' /\ FactsOfRun' /\ NewsShown'
    BY <1>1, <1>2 DEF FactsShownOnce, FactsOfRun, NewsShown
  <1>6. ValuesOfRun'
    BY <1>1, <1>2 DEF ValuesOfRun, Delta
  <1> QED BY <1>4, <1>5, <1>6 DEF EntriesInv

\* A run ends: its values go, the entries stay.
LEMMA ForgetStep ==
  ASSUME LedgerInv, EditionInv, EntriesInv, Forget, Skip \/ ClearRebuild \/ Fail \/ Die
  PROVE  EntriesInv'
  <1>1. /\ EntriesTypeOK /\ FactsOfRun /\ FactsShownOnce /\ ReadyIsRewritten
        /\ EditionTypeOK /\ run.date \in Date
    BY EditionTypes DEF EntriesInv, EditionInv
  <1>2. /\ values' = NoEntries /\ by_rules' = FALSE
        /\ UNCHANGED <<entries, run_events, claims>>
    BY DEF Forget, Skip, ClearRebuild, Fail, Die, EndEarly, ledger, ledgerVars, runVars
  <1>3. phase' = "idle" /\ run'.date = run.date
    BY <1>1, EndRunResets DEF Skip, ClearRebuild, Fail, Die, EndEarly
  <1>4. \A d \in Date : /\ editions'[d].items = editions[d].items
                        /\ editions'[d].status = "ready" => editions[d].status = "ready"
    <2>1. editions' = editions \/ editions' = [editions EXCEPT ![run.date].status = "failed"]
      BY DEF Skip, ClearRebuild, Fail, Die
    <2>2. editions \in [Date -> [status : EditionStatus, items : SUBSET Id]]
      BY <1>1 DEF EditionTypeOK
    <2> QED BY <1>1, <2>1, <2>2
  <1>5. EntriesTypeOK' /\ ReadyIsRewritten'
    BY <1>1, <1>2, <1>4, EntryTypes DEF EntriesTypeOK, ReadyIsRewritten
  <1>6. FactsShownOnce' /\ NewsShown' /\ ValuesOfRun'
    BY <1>1, <1>2, <1>3 DEF FactsShownOnce, NewsShown, ValuesOfRun
  <1>7. FactsOfRun'
    BY <1>1, <1>2, <1>3, EntryTypes DEF FactsOfRun
  <1> QED BY <1>5, <1>6, <1>7 DEF EntriesInv

\* The user decides about events, not about what the editions say; nor do
\* settings change that.
LEMMA UserEntriesStep ==
  ASSUME LedgerInv, EditionInv, EntriesInv, UNCHANGED page,
         UserEventAction \/ SaveSettings \/ UNCHANGED vars
  PROVE  EntriesInv'
  <1>1. /\ EntriesTypeOK /\ ValuesOfRun /\ FactsOfRun /\ FactsShownOnce /\ ReadyIsRewritten
        /\ NewsShown /\ EditionTypeOK
    BY DEF EntriesInv, EditionInv
  <1>2. UNCHANGED <<values, entries, by_rules, phase, editions, run_events, claims>>
    BY DEF page, UserEventAction, event_action, SaveSettings, vars, pipeline, ledger,
           ledgerVars, runVars
  <1>3. /\ run'.date = run.date /\ run'.fresh = run.fresh /\ run'.selected = run.selected
        /\ run'.rebuild = run.rebuild /\ run'.synthesis = run.synthesis
    BY <1>1 DEF UserEventAction, SaveSettings, vars, pipeline, EditionTypeOK
  <1>4. EntriesTypeOK' /\ ReadyIsRewritten' /\ FactsShownOnce'
    BY <1>1, <1>2 DEF EntriesTypeOK, ReadyIsRewritten, FactsShownOnce
  <1>5. FactsOfRun' /\ NewsShown'
    BY <1>1, <1>2, <1>3 DEF FactsOfRun, NewsShown
  <1>6. ValuesOfRun'
    BY <1>1, <1>2, <1>3 DEF ValuesOfRun, Delta
  <1> QED BY <1>4, <1>5, <1>6 DEF EntriesInv

LEMMA EntriesStep ==
  ASSUME LedgerInv, EditionInv, EntriesInv, [EntriesNext]_allVars
  PROVE  EntriesInv'
  <1>1. [LedgerNext]_ledger
    BY StepOfEdition, StepOfLedger DEF EditionInv, EditionTypeOK
  <1>2. CASE UNCHANGED allVars
    BY <1>2, UserEntriesStep DEF allVars
  <1>3. CASE EntriesNext
    BY <1>1, <1>3, FilingStep, CollectingStep, CombineValuesStep, SynthesisStep,
       CommitEntriesStep, DraftEntriesStep, ForgetStep, UserEntriesStep
    DEF EntriesNext
  <1> QED BY <1>2, <1>3

-----------------------------------------------------------------------------
\* What the editions say keeps its invariant over any number of runs, failures,
\* user actions and answers of the agent.
THEOREM EntriesInvariant == EntriesSpec => []EntriesInv
  <1>1. EntriesInit => EntriesInv
    BY EntriesInitOK
  <1>2. LedgerInv /\ EditionInv /\ EntriesInv /\ [EntriesNext]_allVars => EntriesInv'
    BY EntriesStep
  <1> QED BY <1>1, <1>2, EntriesImplementEdition, EditionInvariant, PTL DEF EntriesSpec

\* edition_items and the files hold the same events, in the tables' types.
THEOREM EntriesTypesHold == EntriesSpec => []EntriesTypeOK
  <1>1. EntriesInv => EntriesTypeOK
    BY DEF EntriesInv
  <1> QED BY <1>1, EntriesInvariant, PTL

\* No two editions show one fact of an event as new.
THEOREM FactsShownOnceHolds == EntriesSpec => []FactsShownOnce
  <1>1. EntriesInv => FactsShownOnce
    BY DEF EntriesInv
  <1> QED BY <1>1, EntriesInvariant, PTL

\* An edition shows what the run that made it has found out.
THEOREM NewsShownHolds == EntriesSpec => []NewsShown
  <1>1. EntriesInv => NewsShown
    BY DEF EntriesInv
  <1> QED BY <1>1, EntriesInvariant, PTL

\* Every event of a ready edition has the agent's text.
THEOREM ReadyIsRewrittenHolds == EntriesSpec => []ReadyIsRewritten
  <1>1. EntriesInv => ReadyIsRewritten
    BY DEF EntriesInv
  <1> QED BY <1>1, EntriesInvariant, PTL
=============================================================================
