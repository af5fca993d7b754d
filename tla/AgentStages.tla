------------------------------ MODULE AgentStages ------------------------------
(***************************************************************************)
(* The stages extract and deduplicate of pipeline.py: the answer of the    *)
(* agent or its deterministic substitute, the merge of llm.py, the event   *)
(* gate, and the events filed one by one in the ledger, run after run.     *)
(* A run may end between any two of these, the user acts at any time, and  *)
(* an upgrade of the quality policy outdates what was assessed before.     *)
(* An item is stored anew by any run that meets it, from whichever source  *)
(* has it then; the settings of a source do not change.                    *)
(***************************************************************************)
EXTENDS EventLedger, QualityPolicy, Sequences

CONSTANTS
  Origins,      \* the sources, with their settings, that may have each item
  FallbackKey,  \* the event key that rules give an item
  Answers,      \* the sequences of events that an agent may answer with
  MaxRuns,      \* bound: runs ever begun
  MaxUpgrades   \* bound: changes of QUALITY_POLICY_VERSION

\* Where the items come from.
Provenance ==
  {from \in [Item -> UNION {Origins[i] : i \in Item}] : \A i \in Item : from[i] \in Origins[i]}

\* An event as the agent states it: it may cite items it was not given.
Stated == [key : Key, items : (SUBSET Item) \ {{}}, claims : SUBSET Claim, importance : 0..100]

ASSUME StagesAssumption ==
  /\ Origins \in [Item -> (SUBSET SourceConfig) \ {{}}]
  /\ FallbackKey \in [Item -> Key]
  /\ Answers \subseteq Seq(Stated)
  /\ MaxRuns \in Nat /\ MaxUpgrades \in Nat

VARIABLES
  stage,       \* stage of the current run; "idle" when no run is on
  batch,       \* the items that are candidates of the run
  answer,      \* the agent's answer until its events pass the gate
  taken,       \* how many of its events have been merged into todo
  by_rules,    \* the events of the run come from fallback_event
  todo,        \* merged events, then those still to be filed
  grade,       \* metadata.quality of each item
  source_id,   \* the source that each item was stored from last
  importance,  \* events.importance
  runs,        \* runs begun
  upgrades     \* changes of the quality policy

stageVars == <<stage, batch, answer, taken, by_rules, todo>>
counters == <<runs, upgrades>>
assessment == <<grade, source_id>>
vars == <<ledger, stageVars, assessment, importance, counters>>

Stage == {"idle", "extract", "merge", "filter", "deduplicate", "done"}
Grade == {"none", "accepted", "rejected", "outdated"}

StagesTypeOK ==
  /\ stage \in Stage
  /\ batch \subseteq Item
  /\ answer \in Answers \cup {<<>>}
  /\ taken \in 0..Len(answer)
  /\ by_rules \in BOOLEAN
  /\ todo \subseteq Stated
  /\ \A x \in todo : x.items \subseteq batch
  /\ grade \in [Item -> Grade]
  /\ source_id \in Provenance
  /\ importance \in [Id -> 0..100]
  /\ runs \in 0..MaxRuns
  /\ upgrades \in 0..MaxUpgrades

Init ==
  /\ LedgerInit
  /\ stage = "idle" /\ batch = {} /\ answer = <<>> /\ taken = 0 /\ by_rules = FALSE /\ todo = {}
  /\ grade = [i \in Item |-> "none"]
  /\ source_id \in Provenance
  /\ importance = [e \in Id |-> 0]
  /\ runs = 0
  /\ upgrades = 0

-----------------------------------------------------------------------------
(* Extraction. *)

\* The larger of two importances.
Larger(a, b) == IF a >= b THEN a ELSE b

\* Faulty variant: the later event of a key brings its items only.
AbsorbItems(p, x) ==
  [key |-> p.key, items |-> p.items \cup x.items, claims |-> p.claims,
   importance |-> Larger(p.importance, x.importance)]

\* Faulty variant: what several events say of a key adds up.
AbsorbSum(p, x) ==
  [key |-> p.key, items |-> p.items \cup x.items, claims |-> p.claims \cup x.claims,
   importance |-> p.importance + x.importance]

\* llm.extract_events: what the first event of a key takes from a later one.
Absorb(p, x) ==
  [key |-> p.key, items |-> p.items \cup x.items, claims |-> p.claims \cup x.claims,
   importance |-> Larger(p.importance, x.importance)]

\* One turn of its loop: an event is left with the items the agent was given,
\* and without any it is dropped.
Given(stated) == [stated EXCEPT !.items = @ \cap batch]
Merged(x) ==
  LET same == {p \in todo : p.key = x.key}
  IN  IF x.items = {} THEN todo
      ELSE IF same = {} THEN todo \cup {x}
      ELSE (todo \ same) \cup {Absorb(p, x) : p \in same}

\* Faulty variant: a substitute below every threshold.
fallback_event_weak(i, claim, weighty) ==
  [key |-> FallbackKey[i], items |-> {i}, claims |-> {claim},
   importance |-> fallback_importance(source_id[i].tier, weighty) - 10]

\* dedup.fallback_event: one event for the item, with its summary as the
\* only claim.
fallback_event(i, claim, weighty) ==
  [key |-> FallbackKey[i], items |-> {i}, claims |-> {claim},
   importance |-> fallback_importance(source_id[i].tier, weighty)]

\* A run has fetched and stored its items: verdict is what the policy said of
\* each, "none" for an item not seen, and from the source that each comes from,
\* which replaces the one it came from before.  Candidates were accepted,
\* except where a later copy has brought another verdict (SourceItems).
BeginStages(verdict, from, candidates) ==
  /\ stage = "idle" /\ runs < MaxRuns
  /\ \A i \in candidates : verdict[i] # "none"
  /\ \A i \in Item : verdict[i] = "none" => from[i] = source_id[i]
  /\ BeginRun
  /\ grade' = [i \in Item |-> IF verdict[i] = "none" THEN grade[i] ELSE verdict[i]]
  /\ source_id' = from
  /\ batch' = candidates
  /\ stage' = "extract"
  /\ runs' = runs + 1
  /\ UNCHANGED <<answer, taken, by_rules, todo, importance, upgrades>>

\* The agent has given a valid answer.
AskAgent(stated) ==
  /\ stage = "extract" /\ batch # {}
  /\ answer' = stated
  /\ stage' = "merge"
  /\ UNCHANGED <<ledger, batch, taken, by_rules, todo, assessment, importance, counters>>

MergeStated ==
  /\ stage = "merge" /\ taken < Len(answer)
  /\ taken' = taken + 1
  /\ todo' = Merged(Given(answer[taken']))
  /\ UNCHANGED <<ledger, stage, batch, answer, by_rules, assessment, importance, counters>>

\* extract_events returns, and _extract_events takes what it returns.
AllMerged == stage = "merge" /\ taken = Len(answer)
FinishMerge ==
  /\ AllMerged /\ todo # {}
  /\ stage' = "filter"
  /\ UNCHANGED <<ledger, batch, answer, taken, by_rules, todo, assessment, importance, counters>>

\* The agent is off, has failed or timed out, or its answer is not valid; or no
\* event of its answer is left: one event for each item.
ExtractByRules(claimOf, weighty) ==
  /\ stage = "extract" \/ (AllMerged /\ todo = {})
  /\ answer' = <<>> /\ taken' = 0
  /\ by_rules' = TRUE
  /\ todo' = {fallback_event(i, claimOf[i], i \in weighty) : i \in batch}
  /\ stage' = "filter"
  /\ UNCHANGED <<ledger, batch, assessment, importance, counters>>

-----------------------------------------------------------------------------
(* The event gate. *)

\* Faulty variant: the threshold of the batch instead of the event's own.
AdmittedWithBatch(x) == MeetsThreshold(x.importance, {source_id[i] : i \in batch})

Admitted(x) == MeetsThreshold(x.importance, {source_id[i] : i \in x.items})

ItemsOf(events) == UNION {x.items : x \in events}

\* Faulty variant: items that no event refers to are forgotten.
FilterReferenced ==
  LET admitted == {x \in todo : Admitted(x)}
  IN  /\ stage = "filter"
      /\ reject_items(ItemsOf(todo) \ ItemsOf(admitted), {})
      /\ todo' = admitted
      /\ answer' = <<>> /\ taken' = 0
      /\ stage' = "deduplicate"
      /\ UNCHANGED <<batch, by_rules, assessment, importance, counters>>

\* _filter_extracted_events.
Filter ==
  LET admitted == {x \in todo : Admitted(x)}
  IN  /\ stage = "filter"
      /\ reject_items(ItemsOf(todo) \ ItemsOf(admitted), batch \ ItemsOf(todo))
      /\ todo' = admitted
      /\ answer' = <<>> /\ taken' = 0
      /\ stage' = "deduplicate"
      /\ UNCHANGED <<batch, by_rules, assessment, importance, counters>>

-----------------------------------------------------------------------------
(* The ledger. *)

\* Faulty variant: the importance said last.
WeighLast(x, e) == importance' = [importance EXCEPT ![e] = x.importance]

\* The importance of an event is the largest ever said of it.
Weigh(x, e) == importance' = [importance EXCEPT ![e] = Larger(@, x.importance)]

Filed(x) == [key |-> x.key, items |-> x.items, claims |-> x.claims]

\* The loop over upsert_event.
Deduplicate(x) ==
  /\ stage = "deduplicate" /\ x \in todo
  /\ \/ InsertEvent(Filed(x)) /\ Weigh(x, lastEvent')
     \/ \E e \in Existing : MergeEvent(Filed(x), e) /\ Weigh(x, e)
  /\ todo' = todo \ {x}
  /\ UNCHANGED <<stage, batch, answer, taken, by_rules, assessment, counters>>

\* run_events is read; the rest of the run is DailyEdition's.
Collect ==
  /\ stage = "deduplicate" /\ todo = {}
  /\ stage' = "done"
  /\ UNCHANGED <<ledger, batch, answer, taken, by_rules, todo, assessment, importance, counters>>

\* The run is over, or has ended early at any point.
EndRun ==
  /\ stage # "idle"
  /\ stage' = "idle" /\ batch' = {} /\ todo' = {}
  /\ answer' = <<>> /\ taken' = 0 /\ by_rules' = FALSE
  /\ UNCHANGED <<ledger, assessment, importance, counters>>

UserEventAction ==
  /\ event_action
  /\ UNCHANGED <<stageVars, assessment, importance, counters>>

\* A new QUALITY_POLICY_VERSION, with a restart.
Upgrade ==
  /\ stage = "idle" /\ upgrades < MaxUpgrades
  /\ grade' = [i \in Item |-> IF grade[i] = "none" THEN "none" ELSE "outdated"]
  /\ upgrades' = upgrades + 1
  /\ UNCHANGED <<ledger, stageVars, source_id, importance, runs>>

Next ==
  \/ \E verdict \in [Item -> {"none", "accepted", "rejected"}], from \in Provenance,
       candidates \in SUBSET Item : BeginStages(verdict, from, candidates)
  \/ \E stated \in Answers : AskAgent(stated)
  \/ MergeStated
  \/ FinishMerge
  \/ \E claimOf \in [Item -> Material], weighty \in SUBSET Item :
       ExtractByRules(claimOf, weighty)
  \/ Filter
  \/ \E x \in todo : Deduplicate(x)
  \/ Collect
  \/ EndRun
  \/ UserEventAction
  \/ Upgrade

Spec == Init /\ [][Next]_vars

-----------------------------------------------------------------------------
(* Properties. *)

\* _event_meets_quality_policy: the gate of the edition.
Passes(e) ==
  MeetsThreshold(importance[e],
                 {source_id[i] : i \in {j \in sources[e] : Vouches(source_id[j], grade[j])}})

\* The merge of extract_events loses nothing that cites a given item, whatever
\* the agent repeats, splits or makes up, and adds nothing: one event for each
\* key, with all its given items, all its claims and the largest importance.
About(k) == {n \in 1..taken : answer[n].key = k /\ answer[n].items \cap batch # {}}
MergeLosesNothing ==
  stage \in {"merge", "filter"} /\ ~by_rules =>
    /\ \A n \in 1..taken : answer[n].items \cap batch # {} => \E x \in todo : x.key = answer[n].key
    /\ \A x \in todo :
         /\ \A y \in todo : x.key = y.key => x = y
         /\ x.items = UNION {answer[n].items \cap batch : n \in About(x.key)}
         /\ x.claims = UNION {answer[n].claims : n \in About(x.key)}
         /\ \A n \in About(x.key) : answer[n].importance <= x.importance
         /\ \E n \in About(x.key) : answer[n].importance = x.importance

\* Each candidate of a run ends with a disposition that says what became of
\* it, also when several events cite it: none stays "candidate", and one that
\* counts as accepted or known belongs to an event that the run has decided.
EveryItemDisposed ==
  stage = "done" =>
    \A i \in batch :
      /\ disposition[i] # "candidate"
      /\ disposition[i] \in {"accepted", "duplicate"} =>
           \E e \in Existing : i \in sources[e] /\ run_events[e].decision # "none"

\* The two event gates agree: what the first has let into a run's new events,
\* by the importance extracted and the sources cited, the second lets into the
\* edition, by the importance stored and the sources that still vouch for the
\* event; unless a later copy of a candidate has replaced its verdict.
Replaced == {i \in batch : grade[i] # "accepted"}
FreshPassesGate ==
  stage = "done" =>
    \A e \in RunEvents : sources[e] \cap Replaced = {} => Passes(e)

\* Items of the most reliable sources, with the default threshold.
Spared(i) ==
  source_id[i].tier \in {"official", "paper"} /\ source_id[i].min_event_importance = Unset

\* "A clearly marked deterministic fallback briefing when Pi is unavailable"
\* (README.md): without the agent, every candidate of an official source or a
\* paper still ends in an event of the ledger.
OutageSparesOfficial ==
  stage = "done" /\ by_rules =>
    \A i \in batch : Spared(i) => disposition[i] \in {"accepted", "duplicate"}

\* Why they hold, as an inductive invariant.  A run that has not filed anything
\* yet has decided nothing; whatever is still to be filed has been admitted,
\* and an event it has decided has a candidate whose source admits it; the
\* items not disposed of yet are those of the events to be filed.
FreshRun ==
  /\ stage \in {"idle", "extract", "done"} => todo = {}
  /\ stage \in {"idle", "extract"} => taken = 0
  /\ stage \in {"idle", "extract", "merge"} => ~by_rules
  /\ stage \in {"extract", "merge", "filter"} =>
       \A e \in Existing : run_events[e].decision = "none"
DisposedSoFar ==
  /\ \A i \in Item : disposition[i] \in {"accepted", "duplicate"} =>
       \E e \in Existing : i \in sources[e] /\ run_events[e].decision # "none"
  /\ stage \in {"deduplicate", "done"} =>
       \A i \in batch : disposition[i] = "candidate" => i \in ItemsOf(todo)
  /\ stage = "filter" /\ by_rules =>
       \A i \in batch : Spared(i) => \E x \in todo : x.items = {i} /\ x.importance >= 65
  /\ stage \in {"deduplicate", "done"} /\ by_rules =>
       \A i \in batch : Spared(i) =>
         disposition[i] \in {"accepted", "duplicate"} \/ i \in ItemsOf(todo)
Vouched(e) ==
  \E i \in sources[e] \cap batch : importance[e] >= source_min_event_importance(source_id[i])
AdmittedSoFar ==
  stage \in {"deduplicate", "done"} =>
    /\ \A x \in todo : Admitted(x)
    /\ \A e \in Existing : run_events[e].decision # "none" => Vouched(e)
StagesInv ==
  StagesTypeOK /\ FreshRun /\ MergeLosesNothing /\ DisposedSoFar /\ AdmittedSoFar

\* An event that passes the edition's gate goes on passing it, whatever is
\* filed with it or said of it later, until an item of it is stored with
\* another grade or from another source.
GateKept ==
  [][\A e \in Existing :
       Passes(e) /\ ~Passes(e)' =>
         \E i \in sources[e] : grade'[i] # grade[i] \/ source_id'[i] # source_id[i]]_vars
=============================================================================
