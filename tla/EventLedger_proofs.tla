------------------------- MODULE EventLedger_proofs -------------------------
(***************************************************************************)
(* Proofs about EventLedger, for any keys, items, claims and bound.        *)
(***************************************************************************)
EXTENDS EventLedger, TLAPS

\* Decide and NewMaterial stay in their types.
LEMMA DecideType ==
  ASSUME NEW x \in Extracted, NEW e, NEW isNew \in BOOLEAN
  PROVE  /\ Decide(x, e, isNew) \in {"new", "update", "duplicate"}
         /\ NewMaterial(x, e) \subseteq x.claims \cap Material
         /\ NewMaterial(x, e) \in SUBSET Claim
  BY DEF Decide, NewMaterial, Extracted

\* Every record of an event extracted in a run is filed in the tables'
\* types, and leaves the rows of all other events alone.
LEMMA RecordType ==
  ASSUME LedgerTypeOK, NEW x \in Extracted, NEW e \in Id, NEW isNew \in BOOLEAN,
         Record(x, e, isNew)
  PROVE  /\ alias' \in [Key -> 0..MaxEvents]
         /\ sources' \in [Id -> SUBSET Item]
         /\ claims' \in [Id -> SUBSET Claim]
         /\ run_events' \in [Id -> [decision : Decision, delta : SUBSET Claim]]
         /\ disposition' \in [Item -> Disposition]
         /\ \A f \in Id \ {e} :
              sources'[f] = sources[f] /\ claims'[f] = claims[f]
                /\ run_events'[f] = run_events[f]
  <1>0. x.key \in Key /\ x.items \in SUBSET Item /\ x.claims \in SUBSET Claim
    BY DEF Extracted
  <1>1. Id \subseteq 0..MaxEvents
    BY LedgerAssumption DEF Id
  <1>2. alias' \in [Key -> 0..MaxEvents]
    BY <1>0, <1>1 DEF Record, LedgerTypeOK
  <1>3. sources' \in [Id -> SUBSET Item] /\ claims' \in [Id -> SUBSET Claim]
    BY <1>0 DEF Record, LedgerTypeOK
  <1>4. [decision |-> Decide(x, e, isNew), delta |-> NewMaterial(x, e)]
          \in [decision : Decision, delta : SUBSET Claim]
    BY DecideType DEF Decision
  <1>5. run_events' \in [Id -> [decision : Decision, delta : SUBSET Claim]]
    BY <1>4 DEF Record, LedgerTypeOK
  <1>6. disposition' \in [Item -> Disposition]
    BY DEF Record, LedgerTypeOK, Disposition
  <1>7. \A f \in Id \ {e} :
          sources'[f] = sources[f] /\ claims'[f] = claims[f]
            /\ run_events'[f] = run_events[f]
    BY DEF Record, LedgerTypeOK
  <1> QED BY <1>2, <1>3, <1>5, <1>6, <1>7

\* The decision recorded for e: its delta is among the claims now filed, and
\* empty when the event is a duplicate.
LEMMA RecordDelta ==
  ASSUME LedgerTypeOK, NEW x \in Extracted, NEW e \in Id, NEW isNew \in BOOLEAN,
         Record(x, e, isNew)
  PROVE  /\ run_events'[e].delta \subseteq claims'[e] \cap Material
         /\ run_events'[e].decision = "duplicate" => run_events'[e].delta = {}
  <1>1. run_events'[e] = [decision |-> Decide(x, e, isNew), delta |-> NewMaterial(x, e)]
    BY DEF Record, LedgerTypeOK
  <1>2. claims'[e] = claims[e] \cup x.claims
    BY DEF Record, LedgerTypeOK
  <1>3. NewMaterial(x, e) \subseteq claims'[e] \cap Material
    BY <1>2, DecideType
  <1>4. Decide(x, e, isNew) = "duplicate" => NewMaterial(x, e) = {}
    BY DEF Decide
  <1> QED BY <1>1, <1>3, <1>4

\* The rows before the new one, and the new one.
LEMMA InsertRange ==
  ASSUME LedgerTypeOK, lastEvent < MaxEvents, lastEvent' = lastEvent + 1
  PROVE  /\ lastEvent' \in Id /\ lastEvent' \in 0..MaxEvents /\ lastEvent' # 0
         /\ lastEvent' \notin Existing
         /\ Existing' = Existing \cup {lastEvent'}
         /\ Existing \subseteq Id
  BY LedgerAssumption DEF LedgerTypeOK, Id, Existing

\* Rows that exist are rows of the table.
LEMMA ExistingInId ==
  ASSUME LedgerTypeOK
  PROVE  Existing \subseteq Id /\ 0 \notin Existing
  BY LedgerAssumption DEF LedgerTypeOK, Id, Existing

\* An event that resolves to no row has a key that no alias and no event has.
LEMMA FreshKey ==
  ASSUME LedgerInv, NEW x \in Extracted, Resolves(x, 0)
  PROVE  alias[x.key] = 0 /\ \A f \in Existing : event_key[f] # x.key
  <1>1. 0 \notin Existing
    BY ExistingInId DEF LedgerInv
  <1>2. Cited(x) \subseteq Existing
    BY DEF Cited
  <1>3. Cited(x) = {}
    BY <1>1, <1>2 DEF Resolves
  <1>4. alias[x.key] = 0
    BY <1>3 DEF Resolves
  <1>5. \A f \in Existing : event_key[f] # x.key
    BY <1>4, <1>1 DEF LedgerInv, AliasesResolve
  <1> QED BY <1>4, <1>5

-----------------------------------------------------------------------------
\* The empty ledger.
LEMMA LedgerInitOK == LedgerInit => LedgerInv
  BY LedgerAssumption
  DEF LedgerInit, LedgerInv, LedgerTypeOK, AliasesResolve, NothingDangling, DeltaRecorded,
      Existing, Id, Decision, Undecided, Disposition

LEMMA InsertEventStep ==
  ASSUME LedgerInv, NEW x \in Extracted, InsertEvent(x)
  PROVE  LedgerInv'
  <1> DEFINE n == lastEvent'
  <1>0. x.key \in Key
    BY DEF Extracted
  <1>1. LedgerTypeOK /\ AliasesResolve /\ NothingDangling /\ DeltaRecorded
    BY DEF LedgerInv
  <1>2. lastEvent < MaxEvents /\ lastEvent' = lastEvent + 1 /\ Resolves(x, 0)
          /\ event_key' = [event_key EXCEPT ![n] = x.key] /\ Record(x, n, TRUE)
    BY DEF InsertEvent
  <1>3. /\ n \in Id /\ n \in 0..MaxEvents /\ n # 0 /\ n \notin Existing
        /\ Existing' = Existing \cup {n} /\ Existing \subseteq Id
    BY <1>1, <1>2, InsertRange
  <1>4. alias[x.key] = 0 /\ \A f \in Existing : event_key[f] # x.key
    BY <1>2, FreshKey
  <1>5. /\ alias' \in [Key -> 0..MaxEvents]
        /\ sources' \in [Id -> SUBSET Item]
        /\ claims' \in [Id -> SUBSET Claim]
        /\ run_events' \in [Id -> [decision : Decision, delta : SUBSET Claim]]
        /\ disposition' \in [Item -> Disposition]
        /\ \A f \in Id \ {n} :
              sources'[f] = sources[f] /\ claims'[f] = claims[f]
                /\ run_events'[f] = run_events[f]
    BY <1>1, <1>2, <1>3, RecordType
  <1>6. event_key' \in [Id -> Key \cup {NoKey}]
    BY <1>0, <1>1, <1>2 DEF LedgerTypeOK
  <1>7. ignored' \subseteq Existing' /\ force_next' \subseteq Existing'
    BY <1>1, <1>2, <1>3 DEF Record, LedgerTypeOK
  <1>8. LedgerTypeOK'
    BY <1>3, <1>5, <1>6, <1>7 DEF LedgerTypeOK
  <1>9. alias' = [alias EXCEPT ![x.key] = n]
    BY <1>2, <1>4 DEF Record
  <1>10. AliasesResolve'
    <2>1. \A k \in Key : alias'[k] # 0 => alias'[k] \in Existing'
      BY <1>0, <1>1, <1>3, <1>9 DEF LedgerTypeOK, AliasesResolve
    <2>2. event_key'[n] = x.key /\ alias'[x.key] = n
      BY <1>0, <1>1, <1>2, <1>3, <1>9 DEF LedgerTypeOK
    <2>3. \A e \in Existing : event_key'[e] = event_key[e] /\ event_key[e] # x.key
      BY <1>1, <1>2, <1>3, <1>4 DEF LedgerTypeOK
    <2>4. \A e \in Existing : event_key'[e] \in Key /\ alias'[event_key'[e]] = e
      BY <2>3, <1>0, <1>1, <1>9 DEF LedgerTypeOK, AliasesResolve
    <2> QED BY <2>1, <2>2, <2>4, <1>0, <1>3 DEF AliasesResolve
  <1>11. NothingDangling'
    BY <1>1, <1>3, <1>5 DEF NothingDangling, Undecided
  <1>12. DeltaRecorded'
    <2>1. /\ run_events'[n].delta \subseteq claims'[n] \cap Material
          /\ run_events'[n].decision = "duplicate" => run_events'[n].delta = {}
      BY <1>1, <1>2, <1>3, RecordDelta
    <2> QED BY <2>1, <1>1, <1>3, <1>5 DEF DeltaRecorded
  <1> QED BY <1>8, <1>10, <1>11, <1>12 DEF LedgerInv

LEMMA MergeEventStep ==
  ASSUME LedgerInv, NEW x \in Extracted, NEW e \in Existing, MergeEvent(x, e)
  PROVE  LedgerInv'
  <1>0. x.key \in Key
    BY DEF Extracted
  <1>1. LedgerTypeOK /\ AliasesResolve /\ NothingDangling /\ DeltaRecorded
    BY DEF LedgerInv
  <1>2. Record(x, e, FALSE) /\ UNCHANGED <<lastEvent, event_key>> /\ Existing' = Existing
    BY DEF MergeEvent, Existing
  <1>3. e \in Id /\ e # 0 /\ Existing \subseteq Id
    BY <1>1, ExistingInId
  <1>5. /\ alias' \in [Key -> 0..MaxEvents]
        /\ sources' \in [Id -> SUBSET Item]
        /\ claims' \in [Id -> SUBSET Claim]
        /\ run_events' \in [Id -> [decision : Decision, delta : SUBSET Claim]]
        /\ disposition' \in [Item -> Disposition]
        /\ \A f \in Id \ {e} :
              sources'[f] = sources[f] /\ claims'[f] = claims[f]
                /\ run_events'[f] = run_events[f]
    BY <1>1, <1>2, <1>3, RecordType
  <1>6. ignored' \subseteq Existing' /\ force_next' \subseteq Existing'
    BY <1>1, <1>2 DEF Record, LedgerTypeOK
  <1>7. LedgerTypeOK'
    BY <1>1, <1>2, <1>5, <1>6 DEF LedgerTypeOK
  <1>8. alias' = [alias EXCEPT ![x.key] = IF @ = 0 THEN e ELSE @]
    BY <1>2 DEF Record
  <1>9. AliasesResolve'
    <2>1. \A k \in Key : alias'[k] # 0 => alias'[k] \in Existing
      BY <1>0, <1>1, <1>8 DEF LedgerTypeOK, AliasesResolve
    <2>2. \A f \in Existing : f # 0
      BY <1>1, ExistingInId
    <2>3. \A f \in Existing : event_key[f] \in Key /\ alias'[event_key[f]] = f
      BY <1>0, <1>1, <1>8, <2>2 DEF LedgerTypeOK, AliasesResolve
    <2> QED BY <2>1, <2>3, <1>2 DEF AliasesResolve
  <1>10. NothingDangling'
    BY <1>1, <1>2, <1>3, <1>5 DEF NothingDangling, Undecided
  <1>11. DeltaRecorded'
    <2>1. /\ run_events'[e].delta \subseteq claims'[e] \cap Material
          /\ run_events'[e].decision = "duplicate" => run_events'[e].delta = {}
      BY <1>1, <1>2, <1>3, RecordDelta
    <2> QED BY <2>1, <1>1, <1>2, <1>3, <1>5 DEF DeltaRecorded
  <1> QED BY <1>7, <1>9, <1>10, <1>11 DEF LedgerInv

LEMMA BeginRunStep ==
  ASSUME LedgerInv, BeginRun
  PROVE  LedgerInv'
  <1>1. Undecided \in [decision : Decision, delta : SUBSET Claim]
    BY DEF Undecided, Decision
  <1>2. UNCHANGED ledgerVars /\ Existing' = Existing
    BY DEF BeginRun, ledgerVars, Existing
  <1>3. /\ run_events' \in [Id -> [decision : Decision, delta : SUBSET Claim]]
        /\ disposition' \in [Item -> Disposition]
        /\ \A e \in Id : run_events'[e] = Undecided
    BY <1>1 DEF BeginRun, Disposition
  <1>4. LedgerTypeOK'
    BY <1>2, <1>3 DEF LedgerInv, LedgerTypeOK, ledgerVars
  <1>5. AliasesResolve'
    BY <1>2 DEF LedgerInv, AliasesResolve, ledgerVars
  <1>6. NothingDangling'
    BY <1>2, <1>3 DEF LedgerInv, NothingDangling, ledgerVars
  <1>7. DeltaRecorded'
    BY <1>2, <1>3, ExistingInId DEF LedgerInv, DeltaRecorded, Undecided, ledgerVars
  <1> QED BY <1>4, <1>5, <1>6, <1>7 DEF LedgerInv

LEMMA RejectItemsStep ==
  ASSUME LedgerInv, NEW refused, NEW unreferenced, reject_items(refused, unreferenced)
  PROVE  LedgerInv'
  <1>1. UNCHANGED <<ledgerVars, run_events>> /\ Existing' = Existing
    BY DEF reject_items, ledgerVars, Existing
  <1>2. disposition' \in [Item -> Disposition]
    BY DEF reject_items, LedgerInv, LedgerTypeOK, Disposition
  <1> QED
    BY <1>1, <1>2
    DEF LedgerInv, LedgerTypeOK, AliasesResolve, NothingDangling, DeltaRecorded, ledgerVars

LEMMA EventActionStep ==
  ASSUME LedgerInv, event_action
  PROVE  LedgerInv'
  <1>1. /\ UNCHANGED <<lastEvent, event_key, alias, sources, claims, run_events, disposition>>
        /\ Existing' = Existing
    BY DEF event_action, runVars, Existing
  <1>2. ignored' \subseteq Existing /\ force_next' \subseteq Existing
    BY DEF event_action, Ignore, Restore, ForceNext, LedgerInv, LedgerTypeOK
  <1> QED
    BY <1>1, <1>2
    DEF LedgerInv, LedgerTypeOK, AliasesResolve, NothingDangling, DeltaRecorded

LEMMA LedgerStep ==
  ASSUME LedgerInv, [LedgerNext]_ledger
  PROVE  LedgerInv'
  <1>1. CASE UNCHANGED ledger
    BY <1>1
    DEF ledger, ledgerVars, runVars, LedgerInv, LedgerTypeOK, AliasesResolve,
        NothingDangling, DeltaRecorded, Existing
  <1>2. ASSUME NEW x \in Extracted, upsert_event(x)
        PROVE  LedgerInv'
    BY <1>2, InsertEventStep, MergeEventStep DEF upsert_event
  <1>3. CASE BeginRun
    BY <1>3, BeginRunStep
  <1>4. CASE event_action
    BY <1>4, EventActionStep
  <1>5. ASSUME NEW refused, NEW unreferenced, reject_items(refused, unreferenced)
        PROVE  LedgerInv'
    BY <1>5, RejectItemsStep
  <1> QED BY <1>1, <1>2, <1>3, <1>4, <1>5 DEF LedgerNext

\* The ledger is consistent after any sequence of extractions and user
\* actions: aliases lead to their events, deltas are recorded claims.
THEOREM LedgerInvariant == LedgerSpec => []LedgerInv
  <1>1. LedgerInit => LedgerInv
    BY LedgerInitOK
  <1>2. LedgerInv /\ [LedgerNext]_ledger => LedgerInv'
    BY LedgerStep
  <1> QED BY <1>1, <1>2, PTL DEF LedgerSpec

\* The UNIQUE constraint of events.event_key is never met by the INSERT of
\* upsert_event, however the keys of the extraction drift.
THEOREM KeysUniqueHolds == LedgerSpec => []KeysUnique
  <1>1. LedgerInv => KeysUnique
    BY DEF LedgerInv, AliasesResolve, KeysUnique
  <1> QED BY <1>1, LedgerInvariant, PTL

\* What the tables hold is well typed.
THEOREM LedgerTypesHold == LedgerSpec => []LedgerTypeOK
  <1>1. LedgerInv => LedgerTypeOK
    BY DEF LedgerInv
  <1> QED BY <1>1, LedgerInvariant, PTL

\* The three lookups of upsert_event agree: a key that an event was created
\* with or found under leads to an event for ever.
THEOREM AliasesResolveHolds == LedgerSpec => []AliasesResolve
  <1>1. LedgerInv => AliasesResolve
    BY DEF LedgerInv
  <1> QED BY <1>1, LedgerInvariant, PTL

\* What a run reports as new about an event is recorded and material.
THEOREM DeltaRecordedHolds == LedgerSpec => []DeltaRecorded
  <1>1. LedgerInv => DeltaRecorded
    BY DEF LedgerInv
  <1> QED BY <1>1, LedgerInvariant, PTL

-----------------------------------------------------------------------------
\* What one step of the ledger does to the claims and deltas of an event.
LEMMA NewsStep ==
  ASSUME LedgerInv, [LedgerNext]_ledger, NEW e \in Id
  PROVE  /\ claims[e] \subseteq claims'[e]
         /\ sources[e] \subseteq sources'[e]
         /\ run_events'[e] # run_events[e] => run_events'[e].delta \cap claims[e] = {}
  <1>0. LedgerTypeOK
    BY DEF LedgerInv
  <1>1. CASE UNCHANGED ledger
    BY <1>1 DEF ledger, ledgerVars, runVars
  <1>2. ASSUME NEW x \in Extracted, NEW f \in Id, NEW isNew \in BOOLEAN, Record(x, f, isNew)
        PROVE  /\ claims[e] \subseteq claims'[e]
               /\ sources[e] \subseteq sources'[e]
               /\ run_events'[e] # run_events[e] => run_events'[e].delta \cap claims[e] = {}
    <2>1. CASE e # f
      BY <2>1, <1>0, <1>2, RecordType
    <2>2. CASE e = f
      BY <2>2, <1>0, <1>2 DEF Record, NewMaterial, LedgerTypeOK
    <2> QED BY <2>1, <2>2
  <1>3. ASSUME NEW x \in Extracted, upsert_event(x)
        PROVE  \E f \in Id, isNew \in BOOLEAN : Record(x, f, isNew)
    BY <1>0, <1>3, InsertRange, ExistingInId DEF upsert_event, InsertEvent, MergeEvent
  <1>4. CASE BeginRun
    BY <1>4 DEF BeginRun, ledgerVars, Undecided
  <1>5. CASE event_action
    BY <1>5 DEF event_action, runVars
  <1>6. ASSUME NEW refused, NEW unreferenced, reject_items(refused, unreferenced)
        PROVE  UNCHANGED <<sources, claims, run_events>>
    BY <1>6 DEF reject_items, ledgerVars
  <1> QED BY <1>1, <1>2, <1>3, <1>4, <1>5, <1>6 DEF LedgerNext

\* A claim is news at most once, and no item or claim of an event is ever
\* taken from it, over any number of runs.
THEOREM NewsOnceHolds == LedgerSpec => NewsOnce
  <1>1. LedgerInv /\ [LedgerNext]_ledger =>
          [\A e \in Id :
             /\ claims[e] \subseteq claims'[e]
             /\ sources[e] \subseteq sources'[e]
             /\ run_events'[e] # run_events[e] => run_events'[e].delta \cap claims[e] = {}]_ledger
    BY NewsStep
  <1> QED BY <1>1, LedgerInvariant, PTL DEF LedgerSpec, NewsOnce
=============================================================================
