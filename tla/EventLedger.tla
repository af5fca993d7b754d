----------------------------- MODULE EventLedger -----------------------------
(***************************************************************************)
(* The event ledger of db.py: events, their aliases, source items and      *)
(* claims, and what the current run has decided about each event           *)
(* (run_events).  upsert_event is one immediate transaction, so one action *)
(* here; the user's ignore, restore and force-next come in between, and    *)
(* before the events of a run are filed, the items of those that are not.  *)
(***************************************************************************)
EXTENDS Naturals, FiniteSets

CONSTANTS
  Key,         \* event keys as the extraction produces them
  Item,        \* source items
  Claim,       \* claims, one for each claim hash
  Material,    \* the material claims among them
  NoKey,       \* key of an event row that does not exist yet
  MaxEvents    \* bound: rows ever inserted in events

ASSUME LedgerAssumption ==
  /\ MaxEvents \in Nat
  /\ Material \subseteq Claim
  /\ NoKey \notin Key

VARIABLES
  lastEvent,   \* events.id of the row inserted last
  event_key,   \* events.event_key
  ignored,     \* events whose status is "ignored"
  force_next,  \* events whose force_next is 1
  alias,       \* event_aliases: event of each alias key, 0 for no row
  sources,     \* event_sources: items of each event
  claims,      \* claims of each event
  run_events,  \* run_events of the current run: decision and delta
  disposition  \* run_items.disposition of the current run

ledgerVars == <<lastEvent, event_key, ignored, force_next, alias, sources, claims>>
runVars == <<run_events, disposition>>
ledger == <<ledgerVars, runVars>>

Id == 1..MaxEvents
Existing == 1..lastEvent
Decision == {"none", "new", "update", "duplicate"}
\* The outcome of the model's extraction: an ExtractedEvent.
Extracted == [key : Key, items : (SUBSET Item) \ {{}}, claims : SUBSET Claim]
Undecided == [decision |-> "none", delta |-> {}]
\* What becomes of a candidate once it is extracted.
Disposition == {"candidate", "accepted", "duplicate",
                "quality_rejected_event", "editorial_rejected"}

LedgerTypeOK ==
  /\ lastEvent \in 0..MaxEvents
  /\ event_key \in [Id -> Key \cup {NoKey}]
  /\ ignored \subseteq Existing
  /\ force_next \subseteq Existing
  /\ alias \in [Key -> 0..MaxEvents]
  /\ sources \in [Id -> SUBSET Item]
  /\ claims \in [Id -> SUBSET Claim]
  /\ run_events \in [Id -> [decision : Decision, delta : SUBSET Claim]]
  /\ disposition \in [Item -> Disposition]

LedgerInit ==
  /\ lastEvent = 0
  /\ event_key = [e \in Id |-> NoKey]
  /\ ignored = {}
  /\ force_next = {}
  /\ alias = [k \in Key |-> 0]
  /\ sources = [e \in Id |-> {}]
  /\ claims = [e \in Id |-> {}]
  /\ run_events = [e \in Id |-> Undecided]
  /\ disposition = [i \in Item |-> "candidate"]

-----------------------------------------------------------------------------
\* upsert_event: the events that share a source item with x.
Cited(x) == {e \in Existing : sources[e] \cap x.items # {}}

\* Faulty variant: events are found by source item only.
ResolvesBySource(x, e) ==
  IF Cited(x) # {}
  THEN e \in Cited(x) /\ \A f \in Cited(x) : e <= f
  ELSE e = 0

\* upsert_event: the row that x belongs to: by source item (the oldest such
\* event), else by alias, else by event_key; 0 when it is a new event.
Resolves(x, e) ==
  IF Cited(x) # {}
  THEN e \in Cited(x) /\ \A f \in Cited(x) : e <= f
  ELSE IF alias[x.key] # 0
  THEN e = alias[x.key]
  ELSE IF \E f \in Existing : event_key[f] = x.key
  THEN e \in Existing /\ event_key[e] = x.key
  ELSE e = 0

\* Faulty variants: immaterial claims count; known claims count again.
NewClaims(x, e) == x.claims \ claims[e]
AllMaterial(x, e) == x.claims \cap Material

\* The material claims of x that event e does not have yet.
NewMaterial(x, e) == (x.claims \cap Material) \ claims[e]

\* Faulty variant: a decision of its own for a forced event.
DecideForced(x, e, isNew) ==
  IF isNew THEN "new"
  ELSE IF e \in force_next THEN "forced"
  ELSE IF NewMaterial(x, e) # {} THEN "update"
  ELSE "duplicate"

\* A placeholder stands for the delta of a forced event without a new claim;
\* it is no claim, so the delta stays empty here.
Decide(x, e, isNew) ==
  IF isNew THEN "new"
  ELSE IF NewMaterial(x, e) # {} \/ e \in force_next THEN "update"
  ELSE "duplicate"

\* Faulty variant: INSERT OR REPLACE moves an alias to the event at hand.
RecordMovingAlias(x, e, isNew) ==
  /\ alias' = [alias EXCEPT ![x.key] = e]
  /\ sources' = [sources EXCEPT ![e] = @ \cup x.items]
  /\ claims' = [claims EXCEPT ![e] = @ \cup x.claims]
  /\ force_next' = force_next \ {e}
  /\ run_events' = [run_events EXCEPT
       ![e] = [decision |-> Decide(x, e, isNew), delta |-> NewMaterial(x, e)]]
  /\ UNCHANGED <<disposition, ignored>>

\* The part of upsert_event after the row of the event exists.  The row of
\* run_events is overwritten: the last event of the run that resolves to e
\* decides.
Record(x, e, isNew) ==
  /\ alias' = [alias EXCEPT ![x.key] = IF @ = 0 THEN e ELSE @]
  /\ sources' = [sources EXCEPT ![e] = @ \cup x.items]
  /\ claims' = [claims EXCEPT ![e] = @ \cup x.claims]
  /\ force_next' = force_next \ {e}
  /\ run_events' = [run_events EXCEPT
       ![e] = [decision |-> Decide(x, e, isNew), delta |-> NewMaterial(x, e)]]
  /\ disposition' = [i \in Item |->
       IF i \notin x.items THEN disposition[i]
       ELSE IF Decide(x, e, isNew) = "duplicate" THEN "duplicate" ELSE "accepted"]
  /\ UNCHANGED ignored

InsertEvent(x) ==
  /\ Resolves(x, 0)
  /\ lastEvent < MaxEvents
  /\ lastEvent' = lastEvent + 1
  /\ event_key' = [event_key EXCEPT ![lastEvent'] = x.key]
  /\ Record(x, lastEvent', TRUE)

MergeEvent(x, e) ==
  /\ Resolves(x, e)
  /\ Record(x, e, FALSE)
  /\ UNCHANGED <<lastEvent, event_key>>

upsert_event(x) == InsertEvent(x) \/ \E e \in Existing : MergeEvent(x, e)

\* A run begins: nothing is decided under its run_id.
BeginRun ==
  /\ run_events' = [e \in Id |-> Undecided]
  /\ disposition' = [i \in Item |-> "candidate"]
  /\ UNCHANGED ledgerVars

\* set_run_item_disposition for the items of refused events, and for those
\* that no event refers to.
reject_items(refused, unreferenced) ==
  /\ disposition' = [i \in Item |->
       IF i \in unreferenced THEN "editorial_rejected"
       ELSE IF i \in refused THEN "quality_rejected_event"
       ELSE disposition[i]]
  /\ UNCHANGED <<ledgerVars, run_events>>

\* event_action of the control API.
Ignore(e) == ignored' = ignored \cup {e} /\ UNCHANGED force_next
Restore(e) == ignored' = ignored \ {e} /\ UNCHANGED force_next
ForceNext(e) == ignored' = ignored \ {e} /\ force_next' = force_next \cup {e}

event_action ==
  /\ \E e \in Existing : Ignore(e) \/ Restore(e) \/ ForceNext(e)
  /\ UNCHANGED <<lastEvent, event_key, alias, sources, claims, runVars>>

\* run_events(run_id): what the run has for the edition.
RunEvents == {e \in Existing \ ignored : run_events[e].decision \in {"new", "update"}}

LedgerNext ==
  \/ \E x \in Extracted : upsert_event(x)
  \/ BeginRun
  \/ \E refused, unreferenced \in SUBSET Item : reject_items(refused, unreferenced)
  \/ event_action

LedgerSpec == LedgerInit /\ [][LedgerNext]_ledger

-----------------------------------------------------------------------------
(* Properties. *)

\* The INSERT of upsert_event never meets the UNIQUE constraint of event_key:
\* no two events share a key, although keys drift and events are found by
\* their sources first.
KeysUnique ==
  \A e, f \in Existing : event_key[e] = event_key[f] => e = f

\* Every alias leads to an event, and the key an event was created with leads
\* to that event for ever: the lookup by event_key can never find what the
\* lookup by alias did not.
AliasesResolve ==
  /\ \A k \in Key : alias[k] # 0 => alias[k] \in Existing
  /\ \A e \in Existing : event_key[e] \in Key /\ alias[event_key[e]] = e

\* Rows not inserted yet own nothing: no item, claim or decision is filed
\* under an event that does not exist.
NothingDangling ==
  \A e \in Id \ Existing :
    /\ sources[e] = {} /\ claims[e] = {}
    /\ run_events[e] = Undecided

\* Every decision is accounted for: its delta is material and recorded, and
\* an event that was found and gained nothing is told apart from news.
DeltaRecorded ==
  \A e \in Existing :
    /\ run_events[e].delta \subseteq claims[e] \cap Material
    /\ run_events[e].decision = "duplicate" => run_events[e].delta = {}

LedgerInv == LedgerTypeOK /\ AliasesResolve /\ NothingDangling /\ DeltaRecorded

\* A fact is news once: what a step adds to a run's delta was not a claim of
\* the event before, so no later run can report it again; nothing is unlearnt.
NewsOnce ==
  [][\A e \in Id :
       /\ claims[e] \subseteq claims'[e]
       /\ sources[e] \subseteq sources'[e]
       /\ run_events'[e] # run_events[e] => run_events'[e].delta \cap claims[e] = {}]_ledger

\* "An event is silently dropped when it has no new material fact" and new
\* facts "are treated as progress updates" (README.md): an event for which the
\* run has found a new material fact is still among its new and updated events
\* when the run has recorded more.
NewsKept ==
  [][\A e \in Id :
       run_events[e].delta # {} /\ run_events'[e].decision # "none"
       => run_events'[e].decision \in {"new", "update"}]_ledger

\* No two events of a run meet in one row: what the run has once decided to be
\* new or an update stays so, with or without a new fact, until the next run.
KeepsDecisions ==
  \A e \in Id :
    run_events[e].decision \in {"new", "update"} /\ run_events'[e].decision # "none"
    => run_events'[e].decision \in {"new", "update"}

DecisionsKept == [][KeepsDecisions]_ledger
=============================================================================
