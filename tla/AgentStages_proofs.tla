-------------------------- MODULE AgentStages_proofs --------------------------
(***************************************************************************)
(* Proofs about AgentStages, for any items, sources, thresholds, answers   *)
(* of the agent and number of runs.                                        *)
(***************************************************************************)
EXTENDS AgentStages, EventLedger_proofs, QualityPolicy_proofs

\* Thresholds and the importances given by rules are importances.
LEMMA ImportanceRange ==
  ASSUME NEW s \in SourceConfig, NEW weighty \in BOOLEAN
  PROVE  /\ source_min_event_importance(s) \in 0..100
         /\ fallback_importance(s.tier, weighty) \in 0..100
         /\ s.tier \in {"official", "paper"} => fallback_importance(s.tier, weighty) >= 65
         /\ s.tier \in {"official", "paper"} /\ s.min_event_importance = Unset
              => source_min_event_importance(s) = 65
<1>1. s.min_event_importance \in {Unset} \cup 0..100
  BY DEF SourceConfig
<1>2. ByTier(s.tier, 65, 65, 75, 80) \in {65, 75, 80}
  BY DEF ByTier
<1>3. source_min_event_importance(s) \in 0..100
  BY <1>1, <1>2 DEF source_min_event_importance
<1>4. QED
  BY <1>3 DEF fallback_importance, Bonus, source_min_event_importance, ByTier

\* An event as the ledger takes it.
LEMMA FiledType ==
  ASSUME NEW x \in Stated
  PROVE  Filed(x) \in Extracted /\ Filed(x).items = x.items
  BY DEF Stated, Filed, Extracted

\* Every step of the stages is an operation of the ledger or leaves it alone.
LEMMA StagesLedgerStep ==
  ASSUME StagesTypeOK, [Next]_vars
  PROVE  [LedgerNext]_ledger
<1>1. ASSUME NEW verdict, NEW from, NEW candidates, BeginStages(verdict, from, candidates)
      PROVE  LedgerNext
  BY <1>1 DEF BeginStages, LedgerNext
<1>2. CASE Filter
  <2>1. \E refused, unreferenced : 
          /\ refused = ItemsOf(todo) \ ItemsOf({x \in todo : Admitted(x)})
          /\ unreferenced = batch \ ItemsOf(todo)
          /\ reject_items(refused, unreferenced)
    BY <1>2 DEF Filter
  <2>2. ItemsOf(todo) \in SUBSET Item /\ batch \in SUBSET Item
    BY DEF StagesTypeOK, ItemsOf, Stated
  <2>3. QED
    BY <2>1, <2>2 DEF LedgerNext
<1>3. ASSUME NEW x \in todo, Deduplicate(x)
      PROVE  LedgerNext
  <2>1. upsert_event(Filed(x))
    BY <1>3 DEF Deduplicate, upsert_event
  <2>2. QED
    BY <2>1, FiledType DEF LedgerNext, StagesTypeOK
<1>4. CASE UserEventAction
  BY <1>4 DEF UserEventAction, LedgerNext
<1>5. ASSUME \/ \E stated \in Answers : AskAgent(stated)
             \/ MergeStated \/ FinishMerge
             \/ \E claimOf \in [Item -> Material], weighty \in SUBSET Item :
                  ExtractByRules(claimOf, weighty)
             \/ Collect \/ EndRun \/ Upgrade
             \/ UNCHANGED vars
      PROVE  UNCHANGED ledger
  BY <1>5 DEF AskAgent, MergeStated, FinishMerge, ExtractByRules, Collect, EndRun, Upgrade, vars
<1>6. QED
  BY <1>1, <1>2, <1>3, <1>4, <1>5 DEF Next

-----------------------------------------------------------------------------
\* Wherever an item comes from, its source has settings.
LEMMA SourceRange ==
  ASSUME StagesTypeOK, NEW i \in Item
  PROVE  source_id[i] \in SourceConfig
<1>1. source_id[i] \in Origins[i]
  BY DEF StagesTypeOK, Provenance
<1>2. QED
  BY <1>1, StagesAssumption

\* Where no item is stored anew, the first gate and the list of items that it
\* has to spare stay what they are.
LEMMA SameSources ==
  ASSUME UNCHANGED assessment \/ UNCHANGED source_id
  PROVE  /\ source_id' = source_id
         /\ \A x : Admitted(x)' <=> Admitted(x)
         /\ \A i : Spared(i)' <=> Spared(i)
  BY DEF assessment, Admitted, MeetsThreshold, Spared

LEMMA StagesInitOK == Init => StagesInv
<1> SUFFICES ASSUME Init PROVE StagesInv
  OBVIOUS
<1>1. StagesTypeOK
  <2>1. taken \in 0..Len(answer)
    BY DEF Init
  <2>2. stage \in Stage /\ answer \in Answers \cup {<<>>} /\ todo = {} /\ batch = {}
          /\ by_rules \in BOOLEAN
    BY DEF Init, Stage
  <2>3. grade \in [Item -> Grade] /\ source_id \in Provenance /\ importance \in [Id -> 0..100]
    BY DEF Init, Grade
  <2>4. runs \in 0..MaxRuns /\ upgrades \in 0..MaxUpgrades
    BY StagesAssumption DEF Init
  <2>5. QED
    BY <2>1, <2>2, <2>3, <2>4 DEF StagesTypeOK
<1>2. FreshRun /\ DisposedSoFar /\ AdmittedSoFar /\ MergeLosesNothing
  BY DEF Init, LedgerInit, FreshRun, DisposedSoFar, AdmittedSoFar, MergeLosesNothing
<1>3. QED
  BY <1>1, <1>2 DEF StagesInv

LEMMA BeginStagesStep ==
  ASSUME LedgerInv, StagesInv,
         NEW verdict \in [Item -> {"none", "accepted", "rejected"}], NEW from \in Provenance,
         NEW candidates \in SUBSET Item, BeginStages(verdict, from, candidates)
  PROVE  StagesInv'
<1>1. /\ stage = "idle" /\ stage' = "extract" /\ batch' = candidates /\ runs' = runs + 1
      /\ runs < MaxRuns
      /\ UNCHANGED <<ledgerVars, answer, taken, by_rules, todo, importance, upgrades>>
      /\ \A e \in Id : run_events'[e] = Undecided
      /\ disposition' = [i \in Item |-> "candidate"]
  BY DEF BeginStages, BeginRun
<1>2. todo = {} /\ taken = 0 /\ ~by_rules
  BY <1>1 DEF StagesInv, FreshRun
<1>3. grade' \in [Item -> Grade] /\ source_id' \in Provenance
  BY DEF BeginStages, StagesInv, StagesTypeOK, Grade
<1>4. StagesTypeOK'
  BY <1>1, <1>2, <1>3, StagesAssumption DEF StagesInv, StagesTypeOK, Stage
<1>5. Existing' \subseteq Id
  BY <1>1, ExistingInId DEF LedgerInv, Existing, ledgerVars
<1>6. FreshRun'
  BY <1>1, <1>2, <1>5 DEF FreshRun, Undecided
<1>7. DisposedSoFar' /\ AdmittedSoFar' /\ MergeLosesNothing'
  BY <1>1 DEF DisposedSoFar, AdmittedSoFar, MergeLosesNothing
<1>8. QED
  BY <1>4, <1>6, <1>7 DEF StagesInv

LEMMA AskAgentStep ==
  ASSUME StagesInv, NEW stated \in Answers, AskAgent(stated)
  PROVE  StagesInv'
<1>1. /\ stage = "extract" /\ stage' = "merge" /\ answer' = stated
      /\ UNCHANGED <<ledger, batch, taken, by_rules, todo, assessment, importance, counters>>
  BY DEF AskAgent
<1>2. todo = {} /\ taken = 0 /\ ~by_rules
  BY <1>1 DEF StagesInv, FreshRun
<1>3. StagesTypeOK'
  <2>1. Len(stated) \in Nat
    BY StagesAssumption
  <2>2. taken' \in 0..Len(answer')
    BY <1>1, <1>2, <2>1
  <2>3. QED
    BY <1>1, <1>2, <2>2 DEF StagesInv, StagesTypeOK, Stage, counters, assessment
<1>4. FreshRun' /\ DisposedSoFar' /\ AdmittedSoFar'
  BY <1>1, <1>2, SameSources DEF StagesInv, FreshRun, DisposedSoFar, AdmittedSoFar, ledger,
     ledgerVars, runVars, Existing
<1>5. MergeLosesNothing'
  BY <1>1, <1>2 DEF MergeLosesNothing
<1>6. QED
  BY <1>3, <1>4, <1>5 DEF StagesInv

\* One turn of the merge keeps the events of the prefix that is merged.
LEMMA MergeStatedStep ==
  ASSUME StagesInv, MergeStated
  PROVE  StagesInv'
<1> DEFINE n == taken + 1
           x == Given(answer[n])
           same == {p \in todo : p.key = x.key}
<1>1. /\ stage = "merge" /\ taken < Len(answer) /\ taken' = n /\ todo' = Merged(x)
      /\ UNCHANGED <<ledger, stage, batch, answer, by_rules, assessment, importance, counters>>
  BY DEF MergeStated
<1>2. StagesTypeOK /\ ~by_rules
  BY <1>1 DEF StagesInv, FreshRun
<1>3. answer \in Seq(Stated)
  <2>1. <<>> \in Seq(Stated)
    OBVIOUS
  <2>2. Answers \subseteq Seq(Stated)
    BY StagesAssumption
  <2>3. answer \in Answers \cup {<<>>}
    BY <1>2 DEF StagesTypeOK
  <2>4. QED
    BY <2>1, <2>2, <2>3
<1>4. Len(answer) \in Nat /\ n \in 1..Len(answer) /\ taken \in Nat /\ taken' \in 0..Len(answer)
  BY <1>1, <1>2, <1>3 DEF StagesTypeOK
<1>5. answer[n] \in Stated
  BY <1>3, <1>4
<1>6. /\ x.key = answer[n].key /\ x.claims = answer[n].claims
      /\ x.importance = answer[n].importance /\ x.items = answer[n].items \cap batch
      /\ x.items # {} => x \in Stated
  BY <1>5 DEF Given, Stated
<1>7. \A p \in same : Absorb(p, x) \in Stated /\ Absorb(p, x).key = p.key
        /\ Absorb(p, x).items = p.items \cup x.items
        /\ Absorb(p, x).claims = p.claims \cup x.claims
        /\ Absorb(p, x).importance = Larger(p.importance, x.importance)
  <2> SUFFICES ASSUME NEW p \in same
               PROVE  /\ Absorb(p, x) \in Stated /\ Absorb(p, x).key = p.key
                      /\ Absorb(p, x).items = p.items \cup x.items
                      /\ Absorb(p, x).claims = p.claims \cup x.claims
                      /\ Absorb(p, x).importance = Larger(p.importance, x.importance)
    OBVIOUS
  <2>1. p \in Stated
    BY <1>2 DEF StagesTypeOK
  <2>2. x.items \in SUBSET Item /\ x.claims \in SUBSET Claim /\ x.importance \in 0..100
    BY <1>5, <1>6 DEF Stated
  <2>3. Larger(p.importance, x.importance) \in 0..100
    BY <2>1, <2>2 DEF Larger, Stated
  <2>4. QED
    BY <2>1, <2>2, <2>3 DEF Absorb, Stated
<1>8. Merged(x) = IF x.items = {} THEN todo
                  ELSE IF same = {} THEN todo \cup {x}
                  ELSE (todo \ same) \cup {Absorb(p, x) : p \in same}
  BY DEF Merged
<1> HIDE DEF n, x, same
<1>9. StagesTypeOK'
  <2>1. todo' \subseteq Stated
    BY <1>1, <1>2, <1>6, <1>7, <1>8 DEF StagesTypeOK
  <2>2. \A y \in todo' : y.items \subseteq batch
    BY <1>1, <1>2, <1>6, <1>7, <1>8 DEF StagesTypeOK, same
  <2>3. QED
    BY <1>1, <1>2, <1>4, <2>1, <2>2 DEF StagesTypeOK, counters, assessment
<1>10. FreshRun' /\ DisposedSoFar' /\ AdmittedSoFar'
  BY <1>1, <1>2, SameSources DEF StagesInv, FreshRun, DisposedSoFar, AdmittedSoFar, ledger,
     ledgerVars, runVars, Existing
<1>11. MergeLosesNothing'
  <2>1. /\ \A m \in 1..taken : answer[m].items \cap batch # {} =>
                \E y \in todo : y.key = answer[m].key
        /\ \A y \in todo :
             /\ \A z \in todo : y.key = z.key => y = z
             /\ y.items = UNION {answer[m].items \cap batch : m \in About(y.key)}
             /\ y.claims = UNION {answer[m].claims : m \in About(y.key)}
             /\ \A m \in About(y.key) : answer[m].importance <= y.importance
             /\ \E m \in About(y.key) : answer[m].importance = y.importance
    BY <1>1, <1>2 DEF StagesInv, MergeLosesNothing
  <2>2. 1..taken' = (1..taken) \cup {n}
    BY <1>1, <1>4 DEF n
  <2>3. \A k : About(k)' = IF x.items # {} /\ k = x.key THEN About(k) \cup {n} ELSE About(k)
    BY <1>1, <1>6, <2>2 DEF About
  <2> DEFINE A(k) == IF x.items # {} /\ k = x.key THEN About(k) \cup {n} ELSE About(k)
             MergedTo(y) == /\ \A z \in todo' : y.key = z.key => y = z
                            /\ y.items = UNION {answer[m].items \cap batch : m \in A(y.key)}
                            /\ y.claims = UNION {answer[m].claims : m \in A(y.key)}
                            /\ \A m \in A(y.key) : answer[m].importance <= y.importance
                            /\ \E m \in A(y.key) : answer[m].importance = y.importance
  <2>4. ASSUME /\ \A m \in 1..taken' : answer[m].items \cap batch # {}
                     => \E y \in todo' : y.key = answer[m].key
               /\ \A y \in todo' : MergedTo(y)
        PROVE  MergeLosesNothing'
    BY <1>1, <2>3, <2>4 DEF MergeLosesNothing
  <2>5. CASE x.items = {}
    <3>1. todo' = todo
      BY <1>1, <1>8, <2>5
    <3>2. \A m \in 1..taken' : answer[m].items \cap batch # {} => m \in 1..taken
      BY <1>6, <2>2, <2>5
    <3>3. QED
      BY <2>1, <2>4, <2>5, <3>1, <3>2
  <2>6. CASE x.items # {} /\ same = {}
    <3>1. todo' = todo \cup {x} /\ \A y \in todo : y.key # x.key
      BY <1>1, <1>8, <2>6 DEF same
    <3>2. About(x.key) = {}
      BY <2>1, <3>1 DEF About
    <3>3. MergedTo(x)
      BY <1>5, <1>6, <2>6, <3>1, <3>2 DEF Stated
    <3>4. \A y \in todo : MergedTo(y)
      BY <2>1, <3>1
    <3>5. \A m \in 1..taken' : answer[m].items \cap batch # {}
            => \E y \in todo' : y.key = answer[m].key
      BY <1>6, <2>1, <2>2, <3>1
    <3>6. QED
      BY <2>4, <3>1, <3>3, <3>4, <3>5
  <2>7. CASE x.items # {} /\ same # {}
    <3>1. PICK p \in same : TRUE
      BY <2>7
    <3>2. p \in todo /\ p.key = x.key /\ same = {p}
      BY <2>1, <3>1 DEF same
    <3> DEFINE q == Absorb(p, x)
    <3>3. todo' = (todo \ {p}) \cup {q}
      BY <1>1, <1>8, <2>7, <3>2
    <3>4. /\ q.key = x.key /\ q.items = p.items \cup x.items
          /\ q.claims = p.claims \cup x.claims
          /\ q.importance = Larger(p.importance, x.importance)
      BY <1>7, <3>1, <3>2
    <3> HIDE DEF q
    <3>5. A(x.key) = About(p.key) \cup {n}
      BY <2>7, <3>2
    <3>6. \A y \in todo \ {p} : y.key # x.key /\ A(y.key) = About(y.key)
      BY <2>1, <3>2
    <3>7. p.importance \in Int /\ x.importance \in Int
      <4>1. p \in Stated /\ answer[n] \in Stated
        BY <1>2, <1>5, <3>2 DEF StagesTypeOK
      <4>2. p.importance \in 0..100 /\ answer[n].importance \in 0..100
        BY <4>1 DEF Stated
      <4>3. QED
        BY <1>6, <4>2
    <3>8. MergedTo(q)
      <4>1. \A z \in todo' : q.key = z.key => q = z
        BY <3>3, <3>4, <3>6
      <4>2. q.items = UNION {answer[m].items \cap batch : m \in A(q.key)}
        BY <1>6, <2>1, <3>2, <3>4, <3>5
      <4>3. q.claims = UNION {answer[m].claims : m \in A(q.key)}
        BY <1>6, <2>1, <3>2, <3>4, <3>5
      <4>4. \A m \in About(p.key) : answer[m].importance \in Int
        <5>1. \A m \in About(p.key) : m \in 1..Len(answer)
          BY <1>1, <1>4 DEF About
        <5>2. \A m \in About(p.key) : answer[m] \in Stated
          BY <1>3, <5>1
        <5>3. \A m \in About(p.key) : answer[m].importance \in 0..100
          BY <5>2 DEF Stated
        <5>4. QED
          BY <5>3
      <4>5. \A m \in A(q.key) : answer[m].importance <= q.importance
        BY <1>6, <2>1, <3>2, <3>4, <3>5, <3>7, <4>4 DEF Larger
      <4>6. \E m \in A(q.key) : answer[m].importance = q.importance
        BY <1>6, <2>1, <3>2, <3>4, <3>5 DEF Larger
      <4>7. QED
        BY <4>1, <4>2, <4>3, <4>5, <4>6
    <3>9. \A y \in todo \ {p} : MergedTo(y)
      BY <2>1, <3>3, <3>4, <3>6
    <3>10. \A m \in 1..taken' : answer[m].items \cap batch # {}
             => \E y \in todo' : y.key = answer[m].key
      BY <1>6, <2>1, <2>2, <3>2, <3>3, <3>4
    <3>11. QED
      BY <2>4, <3>3, <3>8, <3>9, <3>10
  <2>8. QED
    BY <2>5, <2>6, <2>7
<1>12. QED
  BY <1>9, <1>10, <1>11 DEF StagesInv

LEMMA FinishMergeStep ==
  ASSUME StagesInv, FinishMerge
  PROVE  StagesInv'
<1>1. /\ stage = "merge" /\ stage' = "filter"
      /\ UNCHANGED <<ledger, batch, answer, taken, by_rules, todo, assessment, importance,
                  counters>>
  BY DEF FinishMerge, AllMerged
<1>2. ~by_rules
  BY <1>1 DEF StagesInv, FreshRun
<1>3. StagesTypeOK'
  BY <1>1 DEF StagesInv, StagesTypeOK, Stage, counters, assessment
<1>4. FreshRun' /\ DisposedSoFar' /\ AdmittedSoFar'
  BY <1>1, <1>2, SameSources DEF StagesInv, FreshRun, DisposedSoFar, AdmittedSoFar, ledger,
     ledgerVars, runVars, Existing
<1>5. MergeLosesNothing'
  BY <1>1, <1>2 DEF StagesInv, MergeLosesNothing, About
<1>6. QED
  BY <1>3, <1>4, <1>5 DEF StagesInv

\* The substitute events are well-formed, one for each candidate, and those of
\* an official source or a paper weigh enough.
LEMMA ExtractByRulesStep ==
  ASSUME StagesInv, NEW claimOf \in [Item -> Material], NEW weighty \in SUBSET Item,
         ExtractByRules(claimOf, weighty)
  PROVE  StagesInv'
<1> DEFINE event(i) == fallback_event(i, claimOf[i], i \in weighty)
<1>1. /\ stage \in {"extract", "merge"} /\ stage' = "filter" /\ answer' = <<>> /\ taken' = 0
      /\ by_rules' = TRUE /\ todo' = {event(i) : i \in batch}
      /\ UNCHANGED <<ledger, batch, assessment, importance, counters>>
  BY DEF ExtractByRules, AllMerged
<1>2. StagesTypeOK /\ batch \subseteq Item
  BY DEF StagesInv, StagesTypeOK
<1>3. ASSUME NEW i \in batch
      PROVE  /\ event(i) \in Stated /\ event(i).items = {i}
             /\ Spared(i) => event(i).importance >= 65
  <2>1. i \in Item /\ source_id[i] \in SourceConfig /\ FallbackKey[i] \in Key
    BY <1>2, SourceRange, StagesAssumption
  <2>2. claimOf[i] \in Claim /\ (i \in weighty) \in BOOLEAN
    BY <2>1, LedgerAssumption
  <2>3. /\ fallback_importance(source_id[i].tier, i \in weighty) \in 0..100
        /\ source_id[i].tier \in {"official", "paper"}
             => fallback_importance(source_id[i].tier, i \in weighty) >= 65
    BY <2>1, <2>2, ImportanceRange
  <2>4. {i} \in (SUBSET Item) \ {{}} /\ {claimOf[i]} \in SUBSET Claim
    BY <2>1, <2>2
  <2>5. QED
    BY <2>1, <2>3, <2>4 DEF fallback_event, Stated, Spared
<1> HIDE DEF event
<1>4. StagesTypeOK'
  <2>1. todo' \subseteq Stated /\ \A y \in todo' : y.items \subseteq batch
    BY <1>1, <1>3
  <2>2. taken' \in 0..Len(answer')
    BY <1>1
  <2>3. QED
    BY <1>1, <1>2, <2>1, <2>2 DEF StagesTypeOK, Stage, counters, assessment
<1>5. FreshRun'
  BY <1>1 DEF StagesInv, FreshRun, ledger, ledgerVars, runVars, Existing
<1>6. DisposedSoFar'
  <2>1. \A i \in batch : Spared(i) => \E y \in todo' : y.items = {i} /\ y.importance >= 65
    BY <1>1, <1>3
  <2>2. QED
    BY <1>1, <2>1, SameSources DEF StagesInv, DisposedSoFar, ledger, ledgerVars, runVars, Existing
<1>7. AdmittedSoFar' /\ MergeLosesNothing'
  BY <1>1 DEF AdmittedSoFar, MergeLosesNothing
<1>8. QED
  BY <1>4, <1>5, <1>6, <1>7 DEF StagesInv

\* Whatever the gate refuses is disposed of; the rest is in admitted events.
LEMMA FilterStep ==
  ASSUME StagesInv, Filter
  PROVE  StagesInv'
<1> DEFINE admitted == {x \in todo : Admitted(x)}
<1>1. /\ stage = "filter" /\ stage' = "deduplicate" /\ todo' = admitted
      /\ answer' = <<>> /\ taken' = 0
      /\ UNCHANGED <<ledgerVars, run_events, batch, by_rules, assessment, importance, counters>>
  BY DEF Filter, reject_items
<1>2. disposition' = [i \in Item |->
        IF i \in batch \ ItemsOf(todo) THEN "editorial_rejected"
        ELSE IF i \in ItemsOf(todo) \ ItemsOf(admitted) THEN "quality_rejected_event"
        ELSE disposition[i]]
  BY DEF Filter, reject_items
<1>3. StagesTypeOK /\ batch \subseteq Item
  BY DEF StagesInv, StagesTypeOK
<1>4. StagesTypeOK'
  <2>1. taken' \in 0..Len(answer')
    BY <1>1
  <2>2. QED
    BY <1>1, <1>3, <2>1 DEF StagesTypeOK, Stage, counters, assessment
<1>5. FreshRun'
  BY <1>1 DEF StagesInv, FreshRun
<1>6. DisposedSoFar'
  <2>1. \A i \in Item : disposition'[i] \in {"accepted", "duplicate"} =>
          disposition[i] = disposition'[i]
    BY <1>2
  <2>2. \A i \in batch : disposition'[i] = "candidate" => i \in ItemsOf(admitted)
    BY <1>2, <1>3
  <2>3. ASSUME by_rules, NEW i \in batch, Spared(i)
        PROVE  i \in ItemsOf(admitted)
    <3>1. PICK x \in todo : x.items = {i} /\ x.importance >= 65
      BY <1>1, <2>3 DEF StagesInv, DisposedSoFar
    <3>2. i \in Item /\ source_id[i] \in SourceConfig
      BY <1>3, SourceRange
    <3>3. source_min_event_importance(source_id[i]) = 65
      BY <2>3, <3>2, ImportanceRange DEF Spared
    <3>4. Admitted(x)
      BY <3>1, <3>3 DEF Admitted, MeetsThreshold
    <3>5. QED
      BY <3>1, <3>4 DEF ItemsOf
  <2> HIDE DEF admitted
  <2>4. QED
    BY <1>1, <2>1, <2>2, <2>3, SameSources DEF StagesInv, DisposedSoFar, ledgerVars, Existing
<1>7. AdmittedSoFar'
  <2>1. \A e \in Existing' : run_events'[e].decision = "none"
    BY <1>1 DEF StagesInv, FreshRun, ledgerVars, Existing
  <2>2. QED
    BY <1>1, <2>1, SameSources DEF AdmittedSoFar
<1>8. MergeLosesNothing'
  BY <1>1 DEF MergeLosesNothing
<1>9. QED
  BY <1>4, <1>5, <1>6, <1>7, <1>8 DEF StagesInv

\* An event is filed under row e, new or not: its items are disposed of, and
\* one of them vouches for the row.
LEMMA FileStep ==
  ASSUME LedgerTypeOK, StagesInv, NEW x \in todo, NEW e \in Id, NEW isNew \in BOOLEAN,
         stage = "deduplicate", Record(Filed(x), e, isNew), Weigh(x, e),
         Existing' = Existing \cup {e},
         todo' = todo \ {x},
         UNCHANGED <<stage, batch, answer, taken, by_rules, assessment, counters>>
  PROVE  StagesInv'
<1>1. StagesTypeOK /\ x \in Stated /\ x.items \subseteq batch /\ batch \subseteq Item
  BY DEF StagesInv, StagesTypeOK
<1>2. Filed(x) \in Extracted /\ Filed(x).items = x.items
  BY <1>1, FiledType
<1>3. /\ \A f \in Id \ {e} : sources'[f] = sources[f] /\ run_events'[f] = run_events[f]
      /\ Existing \subseteq Id
  BY <1>2, RecordType, ExistingInId
<1>4. /\ sources'[e] = sources[e] \cup x.items
      /\ run_events'[e].decision # "none"
      /\ \A i \in x.items : disposition'[i] \in {"accepted", "duplicate"}
      /\ \A i \in Item \ x.items : disposition'[i] = disposition[i]
  <2>1. run_events'[e].decision = Decide(Filed(x), e, isNew)
    BY DEF Record, LedgerTypeOK
  <2>2. Decide(Filed(x), e, isNew) \in {"new", "update", "duplicate"}
    BY <1>2, DecideType
  <2>3. sources'[e] = sources[e] \cup x.items
    BY <1>2 DEF Record, LedgerTypeOK
  <2>4. /\ \A i \in x.items : disposition'[i] \in {"accepted", "duplicate"}
        /\ \A i \in Item \ x.items : disposition'[i] = disposition[i]
    BY <1>1, <1>2 DEF Record
  <2>5. QED
    BY <2>1, <2>2, <2>3, <2>4
<1>5. /\ importance' \in [Id -> 0..100]
      /\ importance'[e] >= x.importance /\ importance'[e] >= importance[e]
      /\ \A f \in Id \ {e} : importance'[f] = importance[f]
  <2>1. importance[e] \in 0..100 /\ x.importance \in 0..100
    BY <1>1 DEF StagesTypeOK, Stated
  <2>2. Larger(importance[e], x.importance) \in 0..100
    BY <2>1 DEF Larger
  <2>3. /\ Larger(importance[e], x.importance) >= x.importance
        /\ Larger(importance[e], x.importance) >= importance[e]
    BY <2>1 DEF Larger
  <2>4. QED
    BY <1>1, <2>2, <2>3 DEF Weigh, StagesTypeOK
<1>6. StagesTypeOK'
  BY <1>1, <1>5 DEF StagesTypeOK, counters, assessment
<1>7. FreshRun' /\ MergeLosesNothing'
  BY DEF StagesInv, FreshRun, MergeLosesNothing
<1>8. DisposedSoFar'
  <2>1. ASSUME NEW i \in Item, disposition'[i] \in {"accepted", "duplicate"}
        PROVE  \E f \in Existing' : i \in sources'[f] /\ run_events'[f].decision # "none"
    <3>1. CASE i \in x.items
      BY <1>4, <3>1
    <3>2. CASE i \notin x.items
      <4>1. PICK f \in Existing : i \in sources[f] /\ run_events[f].decision # "none"
        BY <1>4, <2>1, <3>2 DEF StagesInv, DisposedSoFar
      <4>2. QED
        BY <1>3, <1>4, <4>1
    <3>3. QED
      BY <3>1, <3>2
  <2>2. ASSUME NEW i \in batch, i \in ItemsOf(todo)
        PROVE  i \in ItemsOf(todo') \/ i \in x.items
    BY <2>2 DEF ItemsOf
  <2>3. \A i \in batch : disposition'[i] = "candidate" => i \in ItemsOf(todo')
    BY <1>1, <1>4, <2>2 DEF StagesInv, DisposedSoFar
  <2>4. by_rules => \A i \in batch : Spared(i) =>
          disposition'[i] \in {"accepted", "duplicate"} \/ i \in ItemsOf(todo')
    BY <1>1, <1>4, <2>2 DEF StagesInv, DisposedSoFar
  <2>5. QED
    BY <2>1, <2>3, <2>4, SameSources DEF DisposedSoFar
<1>9. AdmittedSoFar'
  <2>1. \A y \in todo' : Admitted(y)
    BY DEF StagesInv, AdmittedSoFar
  <2>2. Vouched(e)'
    <3>1. PICK s \in {source_id[i] : i \in x.items} :
            x.importance >= source_min_event_importance(s)
      BY DEF StagesInv, AdmittedSoFar, Admitted, MeetsThreshold
    <3>2. PICK i \in x.items : s = source_id[i]
      BY <3>1
    <3>3. source_id[i] \in SourceConfig
      BY <1>1, SourceRange
    <3>4. source_min_event_importance(source_id[i]) \in 0..100
      BY <3>3, ImportanceRange
    <3>5. x.importance \in 0..100 /\ importance'[e] \in 0..100
      BY <1>1, <1>5 DEF Stated
    <3>6. importance'[e] >= source_min_event_importance(source_id[i])
      BY <1>5, <3>1, <3>2, <3>4, <3>5
    <3>7. QED
      BY <1>1, <1>4, <3>6, SameSources DEF Vouched
  <2>3. ASSUME NEW f \in Existing \ {e}, run_events'[f].decision # "none"
        PROVE  Vouched(f)'
    BY <1>3, <1>5, <2>3, SameSources DEF StagesInv, AdmittedSoFar, Vouched
  <2>4. QED
    BY <2>1, <2>2, <2>3, SameSources DEF AdmittedSoFar
<1>10. QED
  BY <1>6, <1>7, <1>8, <1>9 DEF StagesInv

LEMMA DeduplicateStep ==
  ASSUME LedgerInv, StagesInv, NEW x \in todo, Deduplicate(x)
  PROVE  StagesInv'
<1>1. /\ LedgerTypeOK /\ stage = "deduplicate" /\ todo' = todo \ {x}
      /\ UNCHANGED <<stage, batch, answer, taken, by_rules, assessment, counters>>
  BY DEF LedgerInv, Deduplicate
<1>2. CASE InsertEvent(Filed(x)) /\ Weigh(x, lastEvent')
  <2>1. /\ lastEvent < MaxEvents /\ lastEvent' = lastEvent + 1
        /\ Record(Filed(x), lastEvent', TRUE)
    BY <1>2 DEF InsertEvent
  <2>2. lastEvent' \in Id /\ Existing' = Existing \cup {lastEvent'}
    BY <1>1, <2>1, InsertRange
  <2>3. QED
    BY <1>1, <1>2, <2>1, <2>2, FileStep
<1>3. ASSUME NEW e \in Existing, MergeEvent(Filed(x), e), Weigh(x, e)
      PROVE  StagesInv'
  <2>1. Record(Filed(x), e, FALSE) /\ lastEvent' = lastEvent
    BY <1>3 DEF MergeEvent
  <2>2. e \in Id /\ Existing' = Existing \cup {e}
    BY <1>1, <1>3, <2>1, ExistingInId DEF Existing
  <2>3. QED
    BY <1>1, <1>3, <2>1, <2>2, FileStep
<1>4. QED
  BY <1>2, <1>3 DEF Deduplicate

LEMMA CollectStep ==
  ASSUME StagesInv, Collect
  PROVE  StagesInv'
<1>1. /\ stage = "deduplicate" /\ stage' = "done" /\ todo = {}
      /\ UNCHANGED <<ledger, batch, answer, taken, by_rules, todo, assessment, importance,
                  counters>>
  BY DEF Collect
<1>2. StagesTypeOK'
  BY <1>1 DEF StagesInv, StagesTypeOK, Stage, counters, assessment
<1>3. FreshRun' /\ MergeLosesNothing'
  BY <1>1 DEF StagesInv, FreshRun, MergeLosesNothing
<1>4. DisposedSoFar' /\ AdmittedSoFar'
  BY <1>1, SameSources DEF StagesInv, DisposedSoFar, AdmittedSoFar, Vouched, ledger, ledgerVars,
     runVars, Existing
<1>5. QED
  BY <1>2, <1>3, <1>4 DEF StagesInv

LEMMA EndRunStep ==
  ASSUME StagesInv, EndRun
  PROVE  StagesInv'
<1>1. /\ stage' = "idle" /\ batch' = {} /\ todo' = {} /\ answer' = <<>> /\ taken' = 0
      /\ by_rules' = FALSE
      /\ UNCHANGED <<ledger, assessment, importance, counters>>
  BY DEF EndRun
<1>2. taken' \in 0..Len(answer')
  BY <1>1
<1>3. StagesTypeOK'
  BY <1>1, <1>2 DEF StagesInv, StagesTypeOK, Stage, counters, assessment
<1>4. FreshRun' /\ MergeLosesNothing' /\ AdmittedSoFar'
  BY <1>1 DEF FreshRun, MergeLosesNothing, AdmittedSoFar
<1>5. DisposedSoFar'
  BY <1>1, SameSources DEF StagesInv, DisposedSoFar, ledger, ledgerVars, runVars, Existing
<1>6. QED
  BY <1>3, <1>4, <1>5 DEF StagesInv

\* Ignoring, restoring and forcing leave alone what the stages rest on.
LEMMA UserEventStep ==
  ASSUME StagesInv, UserEventAction
  PROVE  StagesInv'
<1>1. UNCHANGED <<lastEvent, sources, run_events, disposition, stageVars,
                      assessment, importance, counters>>
  BY DEF UserEventAction, event_action, runVars
<1>2. StagesTypeOK'
  BY <1>1 DEF StagesInv, StagesTypeOK, stageVars, counters, assessment
<1>3. FreshRun' /\ MergeLosesNothing'
  BY <1>1 DEF StagesInv, FreshRun, MergeLosesNothing, stageVars, Existing, About
<1>4. DisposedSoFar' /\ AdmittedSoFar'
  BY <1>1, SameSources DEF StagesInv, DisposedSoFar, AdmittedSoFar, Vouched, stageVars, Existing
<1>5. QED
  BY <1>2, <1>3, <1>4 DEF StagesInv

LEMMA UpgradeStep ==
  ASSUME StagesInv, Upgrade
  PROVE  StagesInv'
<1>1. /\ upgrades < MaxUpgrades /\ upgrades' = upgrades + 1 /\ grade' \in [Item -> Grade]
      /\ UNCHANGED <<ledger, stageVars, source_id, importance, runs>>
  BY DEF Upgrade, Grade
<1>2. StagesTypeOK'
  BY <1>1, StagesAssumption DEF StagesInv, StagesTypeOK, stageVars
<1>3. FreshRun' /\ MergeLosesNothing'
  BY <1>1 DEF StagesInv, FreshRun, MergeLosesNothing, stageVars, ledger, ledgerVars, runVars,
     Existing, About
<1>4. DisposedSoFar' /\ AdmittedSoFar'
  BY <1>1, SameSources DEF StagesInv, DisposedSoFar, AdmittedSoFar, Vouched, stageVars, ledger,
     ledgerVars, runVars, Existing
<1>5. QED
  BY <1>2, <1>3, <1>4 DEF StagesInv

LEMMA StagesStep ==
  ASSUME LedgerInv, StagesInv, [Next]_vars
  PROVE  StagesInv'
<1>1. CASE UNCHANGED vars
  <2>1. UNCHANGED <<lastEvent, sources, run_events, disposition, stageVars, assessment,
                    importance, counters>>
    BY <1>1 DEF vars, ledger, ledgerVars, runVars
  <2>2. StagesTypeOK' /\ FreshRun'
    BY <2>1 DEF StagesInv, StagesTypeOK, FreshRun, stageVars, counters, assessment, Existing
  <2>3. MergeLosesNothing' /\ DisposedSoFar' /\ AdmittedSoFar'
    BY <2>1, SameSources DEF StagesInv, MergeLosesNothing, About, DisposedSoFar,
          AdmittedSoFar, Vouched,
       stageVars, Existing
  <2>4. QED
    BY <2>2, <2>3 DEF StagesInv
<1>2. ASSUME NEW verdict \in [Item -> {"none", "accepted", "rejected"}],
             NEW from \in Provenance, NEW candidates \in SUBSET Item,
             BeginStages(verdict, from, candidates)
      PROVE  StagesInv'
  BY <1>2, BeginStagesStep
<1>3. ASSUME NEW stated \in Answers, AskAgent(stated)
      PROVE  StagesInv'
  BY <1>3, AskAgentStep
<1>4. CASE MergeStated
  BY <1>4, MergeStatedStep
<1>5. CASE FinishMerge
  BY <1>5, FinishMergeStep
<1>6. ASSUME NEW claimOf \in [Item -> Material], NEW weighty \in SUBSET Item,
             ExtractByRules(claimOf, weighty)
      PROVE  StagesInv'
  BY <1>6, ExtractByRulesStep
<1>7. CASE Filter
  BY <1>7, FilterStep
<1>8. ASSUME NEW x \in todo, Deduplicate(x)
      PROVE  StagesInv'
  BY <1>8, DeduplicateStep
<1>9. CASE Collect
  BY <1>9, CollectStep
<1>10. CASE EndRun
  BY <1>10, EndRunStep
<1>11. CASE UserEventAction
  BY <1>11, UserEventStep
<1>12. CASE Upgrade
  BY <1>12, UpgradeStep
<1>13. QED
  BY <1>1, <1>2, <1>3, <1>4, <1>5, <1>6, <1>7, <1>8, <1>9, <1>10, <1>11, <1>12 DEF Next

-----------------------------------------------------------------------------
\* The invariant of the ledger and that of the stages hold together.
THEOREM StagesInvariant == Spec => [](LedgerInv /\ StagesInv)
<1>1. Init => LedgerInv /\ StagesInv
  BY LedgerInitOK, StagesInitOK DEF Init
<1>2. LedgerInv /\ StagesInv /\ [Next]_vars => (LedgerInv /\ StagesInv)'
  <2> SUFFICES ASSUME LedgerInv, StagesInv, [Next]_vars
               PROVE  LedgerInv' /\ StagesInv'
    OBVIOUS
  <2>1. [LedgerNext]_ledger
    BY StagesLedgerStep DEF StagesInv
  <2>2. QED
    BY <2>1, LedgerStep, StagesStep
<1>3. QED
  BY <1>1, <1>2, PTL DEF Spec

\* The stages implement the ledger: whatever a run does between extraction and
\* edition is a sequence of the ledger's operations, so all that is proved of
\* LedgerSpec holds here.
THEOREM StagesImplementLedger == Spec => LedgerSpec
<1>1. Init => LedgerInit
  BY DEF Init
<1>2. StagesInv /\ [Next]_vars => [LedgerNext]_ledger
  BY StagesLedgerStep DEF StagesInv
<1>3. QED
  BY <1>1, <1>2, StagesInvariant, PTL DEF Spec, LedgerSpec

\* Types, with every event to be filed citing candidates of the run only.
THEOREM StagesTypesHold == Spec => []StagesTypeOK
<1>1. StagesInv => StagesTypeOK
  BY DEF StagesInv
<1>2. QED
  BY <1>1, StagesInvariant, PTL

\* Whatever the agent repeats, splits or makes up, the loop of extract_events
\* keeps all that cites a given item, once for each key, and adds nothing.
THEOREM MergeLosesNothingHolds == Spec => []MergeLosesNothing
<1>1. StagesInv => MergeLosesNothing
  BY DEF StagesInv
<1>2. QED
  BY <1>1, StagesInvariant, PTL

\* No candidate of a run is left without a disposition that says what became
\* of it, and one said to be accepted or known is in an event the run decided.
THEOREM EveryItemDisposedHolds == Spec => []EveryItemDisposed
<1>1. ASSUME StagesInv PROVE EveryItemDisposed
  <2> SUFFICES ASSUME stage = "done", NEW i \in batch
               PROVE  /\ disposition[i] # "candidate"
                      /\ disposition[i] \in {"accepted", "duplicate"} =>
                           \E e \in Existing : i \in sources[e] /\ run_events[e].decision # "none"
    BY DEF EveryItemDisposed
  <2>1. todo = {} /\ i \in Item
    BY <1>1 DEF StagesInv, FreshRun, StagesTypeOK
  <2>2. i \notin ItemsOf(todo)
    BY <2>1 DEF ItemsOf
  <2>3. QED
    BY <1>1, <2>1, <2>2 DEF StagesInv, DisposedSoFar
<1>2. QED
  BY <1>1, StagesInvariant, PTL

\* The gate of the extraction and the gate of the edition never disagree about
\* a run's own events, whatever the thresholds of the sources.
THEOREM FreshPassesGateHolds == Spec => []FreshPassesGate
<1>1. ASSUME LedgerInv, StagesInv PROVE FreshPassesGate
  <2> SUFFICES ASSUME stage = "done", NEW e \in RunEvents, sources[e] \cap Replaced = {}
               PROVE  Passes(e)
    BY DEF FreshPassesGate
  <2>1. e \in Existing /\ run_events[e].decision # "none"
    BY DEF RunEvents
  <2>2. PICK i \in sources[e] \cap batch :
          importance[e] >= source_min_event_importance(source_id[i])
    BY <1>1, <2>1 DEF StagesInv, AdmittedSoFar, Vouched
  <2>3. Vouches(source_id[i], grade[i])
    BY <2>2 DEF Replaced, Vouches
  <2>4. QED
    BY <2>2, <2>3 DEF Passes, MeetsThreshold
<1>2. QED
  BY <1>1, StagesInvariant, PTL

\* Without the agent no candidate of an official source or a paper is lost.
THEOREM OutageSparesOfficialHolds == Spec => []OutageSparesOfficial
<1>1. ASSUME StagesInv PROVE OutageSparesOfficial
  <2> SUFFICES ASSUME stage = "done", by_rules, NEW i \in batch, Spared(i)
               PROVE  disposition[i] \in {"accepted", "duplicate"}
    BY DEF OutageSparesOfficial
  <2>1. i \notin ItemsOf(todo)
    BY <1>1 DEF StagesInv, FreshRun, ItemsOf
  <2>2. QED
    BY <1>1, <2>1 DEF StagesInv, DisposedSoFar
<1>2. QED
  BY <1>1, StagesInvariant, PTL

-----------------------------------------------------------------------------
\* No step makes an event weigh less.
LEMMA WeightStep ==
  ASSUME LedgerInv, StagesInv, [Next]_vars, NEW e \in Id
  PROVE  importance[e] \in Int /\ importance'[e] \in Int /\ importance'[e] >= importance[e]
<1>1. importance \in [Id -> 0..100]
  BY DEF StagesInv, StagesTypeOK
<1>2. ASSUME NEW x \in todo, NEW f \in Id, Weigh(x, f)
      PROVE  importance'[e] >= importance[e]
  <2>1. importance[e] \in 0..100 /\ x.importance \in 0..100
    BY <1>1 DEF StagesInv, StagesTypeOK, Stated
  <2>2. importance'[e] = importance[e] \/ importance'[e] = Larger(importance[e], x.importance)
    BY <1>1, <1>2 DEF Weigh
  <2>3. QED
    BY <2>1, <2>2 DEF Larger
<1>3. ASSUME NEW x \in todo, Deduplicate(x)
      PROVE  \E f \in Id : Weigh(x, f)
  <2>1. LedgerTypeOK
    BY DEF LedgerInv
  <2>2. CASE InsertEvent(Filed(x)) /\ Weigh(x, lastEvent')
    BY <2>1, <2>2, InsertRange DEF InsertEvent
  <2>3. CASE \E f \in Existing : Weigh(x, f)
    BY <2>1, <2>3, ExistingInId
  <2>4. QED
    BY <1>3, <2>2, <2>3 DEF Deduplicate
<1>4. (\E x \in todo : Deduplicate(x)) \/ UNCHANGED importance
  BY DEF Next, vars, BeginStages, AskAgent, MergeStated, FinishMerge, ExtractByRules, Filter,
     Collect, EndRun, UserEventAction, Upgrade
<1>5. importance'[e] >= importance[e]
  BY <1>1, <1>2, <1>3, <1>4
<1>6. importance' \in [Id -> 0..100]
  BY StagesStep DEF StagesInv, StagesTypeOK
<1>7. QED
  BY <1>1, <1>5, <1>6

\* What the gate of the edition lets through it goes on letting through, until
\* an item of the event is stored with another grade or from another source.
THEOREM GateKeptHolds == Spec => GateKept
<1>1. ASSUME LedgerInv, StagesInv, [Next]_vars, NEW e \in Existing, Passes(e), ~Passes(e)'
      PROVE  \E i \in sources[e] : grade'[i] # grade[i] \/ source_id'[i] # source_id[i]
  <2> SUFFICES ASSUME \A i \in sources[e] : grade'[i] = grade[i] /\ source_id'[i] = source_id[i]
               PROVE  FALSE
    OBVIOUS
  <2>1. e \in Id /\ sources[e] \subseteq Item
    BY <1>1, ExistingInId DEF LedgerInv, LedgerTypeOK
  <2>2. [LedgerNext]_ledger
    BY <1>1, StagesLedgerStep DEF StagesInv
  <2>3. sources[e] \subseteq sources'[e]
    BY <1>1, <2>1, <2>2, NewsStep
  <2>4. importance[e] \in Int /\ importance'[e] \in Int /\ importance'[e] >= importance[e]
    BY <1>1, <2>1, WeightStep
  <2>5. PICK i \in sources[e] : /\ Vouches(source_id[i], grade[i])
                                /\ importance[e] >= source_min_event_importance(source_id[i])
    BY <1>1 DEF Passes, MeetsThreshold
  <2>6. source_min_event_importance(source_id[i]) \in 0..100
    <3>1. source_id[i] \in SourceConfig
      BY <1>1, <2>1, SourceRange DEF StagesInv
    <3>2. QED
      BY <3>1, ImportanceRange
  <2>7. source_id'[i] = source_id[i] /\ importance'[e] >= source_min_event_importance(source_id[i])
    BY <2>4, <2>5, <2>6
  <2>8. i \in sources'[e] /\ Vouches(source_id'[i], grade'[i])
    BY <2>3, <2>5
  <2>9. Passes(e)'
    BY <2>7, <2>8 DEF Passes, MeetsThreshold
  <2>10. QED
    BY <1>1, <2>9
<1>2. LedgerInv /\ StagesInv /\ [Next]_vars =>
        [\A e \in Existing :
           Passes(e) /\ ~Passes(e)' => \E i \in sources[e] :
             grade'[i] # grade[i] \/ source_id'[i] # source_id[i]]_vars
  BY <1>1
<1>3. QED
  BY <1>2, StagesInvariant, PTL DEF Spec, GateKept
=============================================================================
