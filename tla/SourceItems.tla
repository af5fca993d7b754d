----------------------------- MODULE SourceItems -----------------------------
(***************************************************************************)
(* The discovery and fetch stages of pipeline.py over the table of source  *)
(* items in db.py: which candidates of a run are handed to the model, and  *)
(* which are set aside as poor or as seen before.  Runs come one after the *)
(* other (the run lock), and any of them may end at any point.             *)
(***************************************************************************)
EXTENDS Naturals, FiniteSets

CONSTANTS
  Source,         \* configured sources
  Url,            \* canonical URLs; source_items holds one row for each
  Content,        \* normalised contents, one for each content_hash
  NoRow,          \* a URL that has no row yet
  PerSource,      \* per_source_cap
  MaxCandidates,  \* config.max_candidates
  WritesFail,     \* may the database fail between two statements of an item
  MaxRuns         \* bound: runs ever begun

ASSUME ItemsAssumption ==
  /\ PerSource \in Nat
  /\ MaxCandidates \in Nat
  /\ MaxRuns \in Nat
  /\ IsFiniteSet(Source)

\* What the fetched text is worth: less than 80 characters of evidence,
\* enough but below the quality line of its source, or accepted.
Grade == {"thin", "poor", "good"}

\* What a candidate brings once its page is fetched.
Candidate == [source : Source, content : Content, grade : Grade]
ASSUME NoRowAssumption == NoRow \notin Candidate

VARIABLES
  stage,        \* stage of the current run; "idle" when no run is on
  runs,         \* runs begun so far
  toCollect,    \* enabled sources whose collector has not been called yet
  succeeded,    \* sources whose collector has returned
  discovered,   \* candidates in hand, numbered within their source
  row,          \* source_items: source, content hash and metadata.quality
  disposition,  \* run_items of the current run, "none" for no row
  batch_item_ids, \* the items that _fetch_and_store has met
  seen,         \* source_seen
  readable,     \* source_readable
  failing,      \* sources whose consecutive_failures is not 0
  sent,         \* history: contents handed to the model, under which URL
  unsent,       \* history: contents given up by a gate or a failed run
  churn         \* history: contents of a URL replaced, or stored unjudged

runVars == <<toCollect, succeeded, batch_item_ids, seen, readable>>
history == <<sent, unsent, churn>>
vars == <<stage, runs, discovered, row, disposition, failing, runVars, history>>

Slot == Source \X (1..PerSource)
Disposition == {"none", "candidate", "insufficient_content", "quality_rejected",
                "duplicate_exact", "duplicate_content"}
Stored == {u \in Url : row[u] # NoRow}
RunItems == {u \in Url : disposition[u] # "none"}
Candidates == {u \in Url : disposition[u] = "candidate"}
SentContents == {p[2] : p \in sent}

ItemsTypeOK ==
  /\ stage \in {"idle", "discover", "fetch", "extract"}
  /\ runs \in 0..MaxRuns
  /\ toCollect \subseteq Source
  /\ succeeded \subseteq Source
  /\ discovered \subseteq Slot
  /\ row \in [Url -> Candidate \cup {NoRow}]
  /\ disposition \in [Url -> Disposition]
  /\ batch_item_ids \subseteq Url
  /\ seen \subseteq Source
  /\ readable \subseteq Source
  /\ failing \subseteq Source
  /\ sent \subseteq Url \X Content
  /\ unsent \subseteq Content
  /\ churn \subseteq Url \X Content

Init ==
  /\ stage = "idle"
  /\ runs = 0
  /\ toCollect = {} /\ succeeded = {} /\ discovered = {}
  /\ row = [u \in Url |-> NoRow]
  /\ disposition = [u \in Url |-> "none"]
  /\ batch_item_ids = {} /\ seen = {} /\ readable = {} /\ failing = {}
  /\ sent = {} /\ unsent = {} /\ churn = {}

-----------------------------------------------------------------------------
(* Discovery. *)

\* The sources are read once, with the ones enabled at that moment.
BeginDiscovery(enabled) ==
  /\ stage = "idle"
  /\ runs < MaxRuns
  /\ stage' = "discover"
  /\ runs' = runs + 1
  /\ toCollect' = enabled
  /\ UNCHANGED <<succeeded, discovered, row, disposition, batch_item_ids, seen, readable, failing,
                 history>>

\* get_collector(source).collect returns; the first PerSource items count.
CollectSucceeds(s, n) ==
  /\ stage = "discover"
  /\ s \in toCollect
  /\ toCollect' = toCollect \ {s}
  /\ succeeded' = succeeded \cup {s}
  /\ failing' = failing \ {s}
  /\ discovered' = discovered \cup ({s} \X (1..n))
  /\ UNCHANGED <<stage, runs, row, disposition, batch_item_ids, seen, readable, history>>

CollectFails(s) ==
  /\ stage = "discover"
  /\ s \in toCollect
  /\ toCollect' = toCollect \ {s}
  /\ failing' = failing \cup {s}
  /\ UNCHANGED <<stage, runs, succeeded, discovered, row, disposition, batch_item_ids, seen,
                 readable, history>>

\* The newest MaxCandidates of all sources; without a source that answered
\* the run fails (RunFails) instead.
CloseDiscovery(kept) ==
  /\ stage = "discover"
  /\ toCollect = {}
  /\ succeeded # {}
  /\ \/ kept = discovered /\ Cardinality(discovered) <= MaxCandidates
     \/ Cardinality(discovered) > MaxCandidates /\ Cardinality(kept) = MaxCandidates
  /\ discovered' = kept
  /\ stage' = "fetch"
  /\ UNCHANGED <<runs, row, disposition, failing, runVars, history>>

-----------------------------------------------------------------------------
(* Fetch.  The pages are fetched by a pool and stored in the order in which *)
(* they arrive; redirects may lead two candidates to one canonical URL.     *)

\* A page that could not be prepared, or whose URL is refused.
SkipCandidate(slot) ==
  /\ stage = "fetch"
  /\ slot \in discovered
  /\ discovered' = discovered \ {slot}
  /\ \E noted \in SUBSET {slot[1]} : seen' = seen \cup noted
  /\ UNCHANGED <<stage, runs, toCollect, succeeded, row, disposition, batch_item_ids, readable,
                 failing, history>>

\* add_source_item: what it returns as "changed".
Changed(u, c) == row[u] = NoRow \/ row[u].content # c.content

\* Faulty variant: the item itself counts as its own duplicate.
DuplicateOfAny(u, c) == \E v \in Stored \cup {u} : v = u \/ row[v].content = c.content

\* Faulty variant: only the run's own items are compared.
DuplicateInBatch(u, c) == \E v \in batch_item_ids \ {u} : row[v].content = c.content

\* content_duplicate: another row has this content.
ContentDuplicate(u, c) == \E v \in Stored \ {u} : row[v].content = c.content

\* Faulty variant: one word for every kind of duplicate.
JudgeCoarsely(u, c) ==
  IF c.grade # "good" THEN "quality_rejected"
  ELSE IF ~Changed(u, c) \/ ContentDuplicate(u, c) THEN "duplicate" ELSE "candidate"

\* The disposition of the first copy of an item in the run.
Judge(u, c) ==
  CASE c.grade = "thin" -> "insufficient_content"
    [] c.grade = "poor" -> "quality_rejected"
    [] c.grade = "good" /\ ~Changed(u, c) -> "duplicate_exact"
    [] c.grade = "good" /\ Changed(u, c) /\ ContentDuplicate(u, c) -> "duplicate_content"
    [] OTHER -> "candidate"

\* add_source_item leaves the row with what came last; the content that was
\* there before is gone, and its hash with it.
add_source_item(u, c) == row' = [row EXCEPT ![u] = c]
Replaced(u, c) == IF u \in Stored /\ Changed(u, c) THEN {<<u, row[u].content>>} ELSE {}

\* Faulty variant: readable means accepted.
StoreFirstCountingAccepted(u, c) ==
  /\ u \notin batch_item_ids
  /\ batch_item_ids' = batch_item_ids \cup {u}
  /\ add_source_item(u, c)
  /\ disposition' = [disposition EXCEPT ![u] = Judge(u, c)]
  /\ readable' = IF c.grade = "good" THEN readable \cup {c.source} ELSE readable
  /\ unsent' = IF c.grade = "good" THEN unsent ELSE unsent \cup {c.content}
  /\ churn' = churn \cup Replaced(u, c)

StoreFirst(u, c) ==
  /\ u \notin batch_item_ids
  /\ batch_item_ids' = batch_item_ids \cup {u}
  /\ add_source_item(u, c)
  /\ disposition' = [disposition EXCEPT ![u] = Judge(u, c)]
  /\ readable' = IF c.grade = "thin" THEN readable ELSE readable \cup {c.source}
  /\ unsent' = IF c.grade = "good" THEN unsent ELSE unsent \cup {c.content}
  /\ churn' = churn \cup Replaced(u, c)

\* A later copy of an item of the run: the row takes its text and its quality,
\* the disposition stays that of the first copy.
StoreAgain(u, c) ==
  /\ u \in batch_item_ids
  /\ add_source_item(u, c)
  /\ unsent' = unsent \cup {row[u].content, c.content}
  /\ churn' = churn \cup Replaced(u, c) \cup {<<u, c.content>>}
  /\ UNCHANGED <<batch_item_ids, disposition, readable>>

\* The database fails between add_source_item and the disposition, and the
\* error is logged and swallowed: the item stays the candidate that
\* add_source_item has made it.
StoreUnjudged(u, c) ==
  /\ WritesFail
  /\ u \notin batch_item_ids
  /\ batch_item_ids' = batch_item_ids \cup {u}
  /\ Judge(u, c) # "candidate"
  /\ add_source_item(u, c)
  /\ disposition' = [disposition EXCEPT ![u] = "candidate"]
  /\ readable' = IF c.grade = "thin" THEN readable ELSE readable \cup {c.source}
  /\ churn' = churn \cup Replaced(u, c) \cup {<<u, c.content>>}
  /\ UNCHANGED unsent

StoreCandidate(slot, u, c) ==
  /\ stage = "fetch"
  /\ slot \in discovered
  /\ c.source = slot[1]
  /\ discovered' = discovered \ {slot}
  /\ seen' = seen \cup {c.source}
  /\ StoreFirst(u, c) \/ StoreAgain(u, c) \/ StoreUnjudged(u, c)
  /\ UNCHANGED <<stage, runs, toCollect, succeeded, failing, sent>>

\* A source none of whose articles was readable counts as failing.
FinishFetch ==
  /\ stage = "fetch"
  /\ discovered = {}
  /\ stage' = "extract"
  /\ failing' = failing \cup (seen \ readable)
  /\ batch_item_ids' = {}
  /\ UNCHANGED <<runs, discovered, row, disposition, toCollect, succeeded, seen, readable, history>>

\* The process or the pipeline object of the run is gone, with its lists.
ForgetRun ==
  /\ toCollect' = {} /\ succeeded' = {} /\ discovered' = {}
  /\ batch_item_ids' = {} /\ seen' = {} /\ readable' = {}
  /\ disposition' = [u \in Url |-> "none"]

\* run_source_items(candidates_only): the candidates go to the model, with
\* the text their rows have by now.
Extract ==
  /\ stage = "extract"
  /\ stage' = "idle"
  /\ sent' = sent \cup {<<u, row[u].content>> : u \in Candidates}
  /\ ForgetRun
  /\ UNCHANGED <<runs, row, failing, unsent, churn>>

\* The run fails, is cancelled or killed; the items stay as they are.
RunFails ==
  /\ stage # "idle"
  /\ stage' = "idle"
  /\ unsent' = unsent \cup {row[u].content : u \in Candidates}
  /\ ForgetRun
  /\ UNCHANGED <<runs, row, failing, sent, churn>>

Next ==
  \/ \E enabled \in SUBSET Source : BeginDiscovery(enabled)
  \/ \E s \in Source : (\E n \in 0..PerSource : CollectSucceeds(s, n)) \/ CollectFails(s)
  \/ \E kept \in SUBSET discovered : CloseDiscovery(kept)
  \/ \E slot \in discovered : SkipCandidate(slot)
  \/ \E slot \in discovered, u \in Url, c \in Candidate : StoreCandidate(slot, u, c)
  \/ FinishFetch
  \/ Extract
  \/ RunFails

Spec == Init /\ [][Next]_vars

-----------------------------------------------------------------------------
(* Properties. *)

\* A content that is stored has been handed to the model, is about to be in
\* this run, or was given up for a reason that has a name: it did not pass a
\* gate, its run failed, or a later copy in one batch replaced it.  What the
\* duplicate checks of _fetch_and_store set aside is never lost by them alone,
\* nor is an item whose disposition could not be written.
Accounted(h) ==
  \/ h \in SentContents \cup unsent
  \/ \E u \in Candidates : row[u].content = h
NothingLost == \A u \in Stored : Accounted(row[u].content)

\* "Identical content under different URLs is not sent to the model twice"
\* (README.md), as far as the table remembers: two URLs are sent with one
\* content only after one of their rows was given another content, or took
\* this one from a later copy in a batch, or could not be judged.
SentOnceWhileStored ==
  \A p, q \in sent : p[2] = q[2] /\ p[1] # q[1] => p \in churn \/ q \in churn

\* The inductive strengthening of the two: what the model was or will be given,
\* and the rows that still hold it.
Handed == sent \cup {<<u, row[u].content>> : u \in Candidates}
HandedStored ==
  \A p \in Handed \ churn : p[1] \in Stored /\ row[p[1]].content = p[2]
HandedOnce ==
  \A p, q \in Handed : p[2] = q[2] /\ p[1] # q[1] => p \in churn \/ q \in churn
\* While items are stored, the ones met are those with a row in run_items.
BatchOfRun ==
  /\ stage \in {"idle", "discover"} => RunItems = {}
  /\ batch_item_ids = IF stage = "fetch" THEN RunItems ELSE {}
ItemsInv ==
  /\ ItemsTypeOK
  /\ BatchOfRun
  /\ RunItems \subseteq Stored
  /\ NothingLost
  /\ HandedStored
  /\ HandedOnce

\* A source is marked failing after the fetch only if "no article exposed
\* enough primary-source content" (pipeline.py): not the one whose readable
\* article was the first copy that the run stored under its URL and is in the row
\* still.  A source whose readable articles came as later copies only is counted
\* as one that has shown none, and the code does mark it failing.
ReadableSourceHealthy ==
  stage = "extract" =>
    \A u \in RunItems :
      disposition[u] # "insufficient_content" /\ <<u, row[u].content>> \notin churn
      => row[u].source \notin failing

\* Why it holds: a source whose article was readable has answered in this run,
\* and one that has answered is marked failing by the end of the fetch only.
SourcesInv ==
  /\ stage \in {"idle", "discover"} => readable = {}
  /\ stage = "idle" => succeeded = {} /\ discovered = {}
  /\ toCollect \cap succeeded = {}
  /\ \A slot \in discovered : slot[1] \in succeeded
  /\ readable \subseteq succeeded
  /\ stage # "extract" => succeeded \cap failing = {}
  /\ readable \cap failing = {}
  /\ \A u \in RunItems :
       disposition[u] # "insufficient_content" /\ <<u, row[u].content>> \notin churn
       => row[u].source \in readable

\* Every candidate must pass the quality policy before it is handed to the
\* model (AGENTS.zh-CN.md): what the rows of the candidates hold by then did.
OnlyGatedReachesModel ==
  stage = "extract" => \A u \in Candidates : row[u].grade = "good"
=============================================================================
