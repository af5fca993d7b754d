---------------------------- MODULE EditionEntries ----------------------------
(***************************************************************************)
(* What an edition says of its events: the values that run_pipeline        *)
(* carries from _combine_with_existing_edition through the agent's         *)
(* rewrites and build_draft to the files and to edition_items.  Every      *)
(* action is one of DailyEdition, with what it does to these values.       *)
(***************************************************************************)
EXTENDS DailyEdition, Sequences

CONSTANTS
  Rewrites,    \* the item_rewrites that an agent may answer with: sequences of event ids
  ForcedNote   \* the delta "manual: force next edition"

ASSUME EntriesAssumption ==
  /\ Rewrites \subseteq Seq(Id)
  /\ ForcedNote \notin Claim

VARIABLES
  values,      \* the selected events of the run, as dicts
  entries,     \* the items committed for each date: edition_items, and the
               \* files that were written from the same list
  by_rules     \* the run had material, and its events come from rules

page == <<values, entries, by_rules>>
allVars == <<vars, page>>

\* "focus" stands for focus and related, which only the profile tells apart.
Type == {"new", "update", "focus"}
Entry == [item_type : Type \cup {"none"},
          delta : SUBSET (Claim \cup {ForcedNote}),
          text : {"none", "ledger", "agent"}]
NoEntry == [item_type |-> "none", delta |-> {}, text |-> "none"]
NoEntries == [e \in Id |-> NoEntry]

EntriesTypeOK ==
  /\ values \in [Id -> Entry]
  /\ entries \in [Date -> [Id -> Entry]]
  /\ \A d \in Date : {e \in Id : entries[d][e].item_type # "none"} = editions[d].items
  /\ by_rules \in BOOLEAN

EntriesInit ==
  /\ Init
  /\ values = NoEntries
  /\ entries = [d \in Date |-> NoEntries]
  /\ by_rules = FALSE

-----------------------------------------------------------------------------
\* delta_json of the current run: a forced event without a new fact gets a note.
Delta(e) ==
  IF run_events[e].decision = "update" /\ run_events[e].delta = {}
  THEN {ForcedNote} ELSE run_events[e].delta

\* Faulty variant: what the edition says already takes precedence.
ValueKept(e) ==
  IF run.rebuild
  THEN [item_type |-> "focus", delta |-> {}, text |-> "none"]
  ELSE IF entries[run.date][e].item_type # "none"
  THEN [entries[run.date][e] EXCEPT !.text = "none"]
  ELSE [item_type |-> run_events[e].decision, delta |-> Delta(e), text |-> "none"]

\* Faulty variant: all that the run knows of the event is called new.
ValueWithClaims(e) ==
  IF run.rebuild
  THEN [item_type |-> "focus", delta |-> {}, text |-> "none"]
  ELSE [item_type |-> IF e \in run.fresh THEN run_events[e].decision
                      ELSE entries[run.date][e].item_type,
        delta |-> claims[e] \cap Material, text |-> "none"]

\* _combine_with_existing_edition: a rebuild calls an event focus or related; any
\* other run takes the ledger's decision and delta, or, for an event that only the
\* edition of the date has, its type without a delta.
Value(e) ==
  IF run.rebuild
  THEN [item_type |-> "focus", delta |-> {}, text |-> "none"]
  ELSE IF e \in run.fresh
  THEN [item_type |-> run_events[e].decision, delta |-> Delta(e), text |-> "none"]
  ELSE [item_type |-> entries[run.date][e].item_type, delta |-> {}, text |-> "none"]

CombineValues(S) ==
  /\ Combine(S)
  /\ values' = [e \in Id |-> IF e \in S THEN Value(e) ELSE NoEntry]
  /\ UNCHANGED <<entries, by_rules>>

\* Faulty variant: rewrites for some of the events will do.
KnownRewrites(rewrites) == {rewrites[n] : n \in DOMAIN rewrites} \subseteq run.selected

\* synthesize_edition: each event is rewritten, and no event twice.
ValidRewrites(rewrites) ==
  /\ {rewrites[n] : n \in DOMAIN rewrites} = run.selected
  /\ Len(rewrites) = Cardinality(run.selected)

\* build_draft: the agent's text where it gave one, else the ledger's.
Texts(rewrites) ==
  values' = [e \in Id |->
    IF e \notin run.selected THEN NoEntry
    ELSE [values[e] EXCEPT !.text =
            IF e \in {rewrites[n] : n \in DOMAIN rewrites} THEN "agent" ELSE "ledger"]]

SynthesizeByAgent(rewrites) ==
  /\ Synthesize(TRUE)
  /\ ValidRewrites(rewrites)
  /\ Texts(rewrites)
  /\ UNCHANGED <<entries, by_rules>>

\* No agent, or an answer that is not valid.
SynthesizeByRules ==
  /\ Synthesize(FALSE)
  /\ Texts(<<>>)
  /\ UNCHANGED <<entries, by_rules>>

\* Faulty variant: the rows of the edition before are not deleted.
CommitEntriesOnTop ==
  /\ Commit
  /\ entries' = [entries EXCEPT ![run.date] =
       [e \in Id |-> IF values[e] = NoEntry THEN @[e] ELSE values[e]]]
  /\ UNCHANGED <<values, by_rules>>

\* The files are written from the values, edition_items from the same list.
CommitEntries ==
  /\ Commit
  /\ entries' = [entries EXCEPT ![run.date] = values]
  /\ UNCHANGED <<values, by_rules>>

\* The local variables of a run that is over are gone.
Forget == values' = NoEntries /\ by_rules' = FALSE /\ UNCHANGED entries

ExtractMaterial(B, llm) ==
  /\ Extract(B, llm)
  /\ by_rules' = (B # {} /\ ~llm)
  /\ UNCHANGED <<values, entries>>

EntriesNext ==
  \/ \E d \in Date, P \in SUBSET Existing : StartRun(d, P) /\ UNCHANGED page
  \/ \E B \in Batches, llm \in BOOLEAN : ExtractMaterial(B, llm)
  \/ \E x \in todo : Deduplicate(x) /\ UNCHANGED page
  \/ Collect /\ UNCHANGED page
  \/ \E S \in SUBSET Combined : CombineValues(S)
  \/ Skip /\ Forget
  \/ Draft /\ UNCHANGED page
  \/ \E rewrites \in Rewrites : SynthesizeByAgent(rewrites)
  \/ SynthesizeByRules
  \/ CommitEntries
  \/ ClearRebuild /\ Forget
  \/ Fail /\ Forget
  \/ Die /\ Forget
  \/ UserEventAction /\ UNCHANGED page
  \/ SaveSettings /\ UNCHANGED page

EntriesSpec == EntriesInit /\ [][EntriesNext]_allVars

-----------------------------------------------------------------------------
(* Properties. *)

\* "Include an event in the briefing only when it is new or contains a material
\* update" (README.md): no two editions show one fact of an event as new, however
\* runs fail, dates are rerun and events are forced.
FactsShownOnce ==
  \A d, f \in Date : d # f =>
    \A e \in Id : entries[d][e].delta \cap entries[f][e].delta \subseteq {ForcedNote}

\* What a run finds out about an event the edition shows, as the kind of news
\* that the ledger has recorded and with the facts that make it news, also when
\* an earlier run of the date has put the event into the edition.
NewsShown ==
  phase = "clear" /\ ~run.rebuild =>
    \A e \in run.fresh \cap run.selected :
      /\ entries[run.date][e].item_type = run_events[e].decision
      /\ run_events[e].delta \subseteq entries[run.date][e].delta
      /\ run_events[e].decision = "update" => entries[run.date][e].delta # {}

\* "Every event_id must appear exactly once" (prompts/write_edition.md): no
\* edition is ready with an event whose text the agent has not written.
ReadyIsRewritten ==
  \A d \in Date : editions[d].status = "ready" =>
    \A e \in editions[d].items : entries[d][e].text = "agent"

\* Why they hold, as an inductive invariant.  Nothing is selected before a run
\* combines; from then to the commit, the values are those of the selection,
\* with the news of the run among them.
ValuesOfRun ==
  /\ phase \in {"idle", "extract", "dedup", "combine"} => values = NoEntries
  /\ phase = "combine" => \A e \in run.fresh : run_events[e].decision \in {"new", "update"}
  /\ phase \in {"draft", "synthesize", "commit"} =>
       /\ \A e \in Id : values[e].item_type # "none" <=> e \in run.selected
       /\ ~run.rebuild => \A e \in run.fresh \cap run.selected :
            values[e].item_type = run_events[e].decision /\ values[e].delta = Delta(e)
  /\ phase = "commit" /\ run.synthesis => \A e \in run.selected : values[e].text = "agent"

\* Every fact shown is a claim, so it is no news any more: what the run at hand
\* has found out is not shown for another date.
FactsOfRun ==
  \A e \in Id :
    /\ values[e].delta \subseteq run_events[e].delta \cup {ForcedNote}
    /\ \A d \in Date :
         /\ entries[d][e].delta \subseteq claims[e] \cup {ForcedNote}
         /\ d # run.date => run_events[e].delta \cap entries[d][e].delta = {}

EntriesInv ==
  /\ EntriesTypeOK /\ ValuesOfRun /\ FactsOfRun
  /\ FactsShownOnce /\ NewsShown /\ ReadyIsRewritten

\* "ready: event extraction and briefing synthesis both used Pi" (README.md):
\* an edition whose events come from the fallback rules is not ready.
ReadyUsedModel ==
  phase = "clear" /\ editions[run.date].status = "ready" /\ run.selected # {} => ~by_rules
=============================================================================
