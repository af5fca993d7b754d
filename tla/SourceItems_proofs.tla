------------------------- MODULE SourceItems_proofs -------------------------
(***************************************************************************)
(* Proofs about SourceItems, for any sources, URLs, contents and bounds.   *)
(***************************************************************************)
EXTENDS SourceItems, TLAPS

\* A stored row is a candidate's row, with a content of its own.
LEMMA RowType ==
  ASSUME ItemsTypeOK, NEW u \in Stored
  PROVE  u \in Url /\ row[u] \in Candidate /\ row[u].content \in Content
  BY DEF ItemsTypeOK, Stored, Candidate

\* A first copy has no row in run_items.
LEMMA FirstIsNew ==
  ASSUME ItemsTypeOK, BatchOfRun, stage = "fetch", NEW u \in Url, u \notin batch_item_ids
  PROVE  disposition[u] = "none"
  BY DEF BatchOfRun, RunItems

\* Storing a candidate keeps the tables in type and the run's items stored.
LEMMA StoreType ==
  ASSUME ItemsTypeOK, BatchOfRun, RunItems \subseteq Stored, NEW slot \in Slot, NEW u \in Url,
         NEW c \in Candidate, StoreCandidate(slot, u, c)
  PROVE  /\ ItemsTypeOK' /\ (RunItems \subseteq Stored)' /\ BatchOfRun'
         /\ row' = [row EXCEPT ![u] = c]
         /\ Stored' = Stored \cup {u}
  <1>1. c.source \in Source /\ c.content \in Content /\ c # NoRow
    BY NoRowAssumption DEF Candidate
  <1>2. Judge(u, c) \in Disposition \ {"none"}
    BY DEF Judge, Disposition
  <1>3. Replaced(u, c) \subseteq Url \X Content
    BY RowType DEF Replaced
  <1>4. row' = [row EXCEPT ![u] = c]
    BY DEF StoreCandidate, StoreFirst, StoreAgain, StoreUnjudged, add_source_item
  <1>5. row' \in [Url -> Candidate \cup {NoRow}] /\ Stored' = Stored \cup {u}
    BY <1>1, <1>4 DEF ItemsTypeOK, Stored
  <1>6. CASE StoreFirst(u, c)
    <2>1. disposition' = [disposition EXCEPT ![u] = Judge(u, c)]
      BY <1>6 DEF StoreFirst
    <2>2. disposition' \in [Url -> Disposition]
      BY <1>2, <2>1 DEF ItemsTypeOK
    <2>3. (RunItems \subseteq Stored)'
      BY <1>5, <2>1 DEF RunItems, ItemsTypeOK
    <2>4. unsent' \subseteq Content /\ churn' \subseteq Url \X Content
            /\ readable' \subseteq Source /\ batch_item_ids' \subseteq Url
      BY <1>1, <1>3, <1>6 DEF StoreFirst, ItemsTypeOK
    <2>5. BatchOfRun'
      <3>1. /\ stage = "fetch" /\ stage' = stage
            /\ batch_item_ids' = batch_item_ids \cup {u} /\ batch_item_ids = RunItems
        BY <1>6 DEF StoreCandidate, StoreFirst, BatchOfRun
      <3>2. RunItems' = RunItems \cup {u}
        BY <1>2, <2>1 DEF RunItems, ItemsTypeOK
      <3> QED BY <3>1, <3>2 DEF BatchOfRun
    <2> QED
      BY <1>1, <1>4, <1>5, <2>2, <2>3, <2>4, <2>5 DEF StoreCandidate, ItemsTypeOK
  <1>7. CASE StoreAgain(u, c)
    <2>1. row[u].content \in Content
      <3>1. u \in Stored
        BY <1>7 DEF StoreAgain, StoreCandidate, BatchOfRun
      <3> QED BY <3>1, RowType
    <2>2. unsent' \subseteq Content /\ churn' \subseteq Url \X Content
      BY <1>1, <1>3, <1>7, <2>1 DEF StoreAgain, ItemsTypeOK
    <2>3. disposition' = disposition /\ readable' = readable
            /\ batch_item_ids' = batch_item_ids
      BY <1>7 DEF StoreAgain
    <2>4. (RunItems \subseteq Stored)'
      BY <1>5, <2>3 DEF RunItems
    <2>5. BatchOfRun'
      BY <2>3 DEF StoreCandidate, BatchOfRun, RunItems
    <2> QED
      BY <1>1, <1>4, <1>5, <2>2, <2>3, <2>4, <2>5 DEF StoreCandidate, ItemsTypeOK
  <1>8. CASE StoreUnjudged(u, c)
    <2>1. disposition' = [disposition EXCEPT ![u] = "candidate"]
      BY <1>8 DEF StoreUnjudged
    <2>2. disposition' \in [Url -> Disposition]
      BY <2>1 DEF ItemsTypeOK, Disposition
    <2>3. (RunItems \subseteq Stored)'
      BY <1>5, <2>1 DEF RunItems, ItemsTypeOK
    <2>4. unsent' \subseteq Content /\ churn' \subseteq Url \X Content
            /\ readable' \subseteq Source /\ batch_item_ids' \subseteq Url
      BY <1>1, <1>3, <1>8 DEF StoreUnjudged, ItemsTypeOK
    <2>5. BatchOfRun'
      <3>1. /\ stage = "fetch" /\ stage' = stage
            /\ batch_item_ids' = batch_item_ids \cup {u} /\ batch_item_ids = RunItems
        BY <1>8 DEF StoreCandidate, StoreUnjudged, BatchOfRun
      <3>2. RunItems' = RunItems \cup {u}
        BY <1>2, <2>1 DEF RunItems, ItemsTypeOK
      <3> QED BY <3>1, <3>2 DEF BatchOfRun
    <2> QED
      BY <1>1, <1>4, <1>5, <2>2, <2>3, <2>4, <2>5 DEF StoreCandidate, ItemsTypeOK
  <1> QED
    BY <1>6, <1>7, <1>8 DEF StoreCandidate

\* The first copy of an item: a content that is not handed on is known, and one
\* that is handed on is stored under no other URL.
LEMMA FirstCopy ==
  ASSUME ItemsInv, NEW slot \in Slot, NEW u \in Url, NEW c \in Candidate,
         StoreCandidate(slot, u, c), StoreFirst(u, c)
  PROVE  (NothingLost /\ HandedStored /\ HandedOnce)'
  <1> USE DEF ItemsInv
  <1>1. /\ ItemsTypeOK' /\ (RunItems \subseteq Stored)'
        /\ row' = [row EXCEPT ![u] = c] /\ Stored' = Stored \cup {u}
    BY StoreType
  <1>2. row'[u] = c /\ \A v \in Url \ {u} : row'[v] = row[v]
    BY <1>1 DEF ItemsTypeOK
  <1>3. /\ disposition[u] = "none"
        /\ disposition'[u] = Judge(u, c)
        /\ \A v \in Url \ {u} : disposition'[v] = disposition[v]
    BY FirstIsNew DEF StoreFirst, StoreCandidate, ItemsTypeOK
  <1>4. /\ Candidates \subseteq Candidates' /\ Candidates' \subseteq Candidates \cup {u}
        /\ u \notin Candidates
        /\ u \in Candidates' <=> Judge(u, c) = "candidate"
    BY <1>3 DEF Candidates
  <1>5. sent' = sent /\ unsent \subseteq unsent' /\ churn' = churn \cup Replaced(u, c)
    BY DEF StoreCandidate, StoreFirst
  <1>6. \A h : Accounted(h) => Accounted(h)'
    BY <1>2, <1>4, <1>5 DEF Accounted, SentContents, Candidates
  <1>7. Accounted(c.content)'
    <2>1. CASE c.grade # "good"
      BY <2>1 DEF StoreFirst, Accounted
    <2>2. CASE c.grade = "good" /\ ~Changed(u, c)
      <3>1. u \in Stored /\ row[u].content = c.content
        BY <2>2 DEF Changed, Stored
      <3> QED BY <1>6, <3>1 DEF NothingLost
    <2>3. CASE c.grade = "good" /\ Changed(u, c) /\ ContentDuplicate(u, c)
      <3>1. PICK v \in Stored : row[v].content = c.content
        BY <2>3 DEF ContentDuplicate
      <3> QED BY <1>6, <3>1 DEF NothingLost
    <2>4. CASE c.grade = "good" /\ Changed(u, c) /\ ~ContentDuplicate(u, c)
      <3>1. u \in Candidates'
        BY <1>4, <2>4 DEF Judge
      <3> QED BY <1>2, <3>1 DEF Accounted
    <2> QED BY <2>1, <2>2, <2>3, <2>4
  <1>8. NothingLost'
    <2> SUFFICES ASSUME NEW v \in Stored' PROVE Accounted(row[v].content)'
      BY DEF NothingLost
    <2>1. CASE v = u
      BY <1>2, <1>7, <2>1 DEF Accounted
    <2>2. CASE v # u
      <3>1. v \in Stored /\ row'[v] = row[v]
        BY <1>1, <1>2, <2>2 DEF Stored
      <3>2. Accounted(row[v].content)
        BY <3>1 DEF NothingLost
      <3> QED BY <1>6, <3>1, <3>2 DEF Accounted
    <2> QED BY <2>1, <2>2
  <1>9. Handed' \subseteq Handed \cup {<<u, c.content>>}
    BY <1>2, <1>4, <1>5 DEF Handed, Candidates
  <1>10. <<u, c.content>> \in Handed' \ Handed =>
           \A v \in Stored \ {u} : row[v].content # c.content
    <2>1. Judge(u, c) = "candidate" => ~ContentDuplicate(u, c)
      BY DEF Judge, Candidate, Grade, Changed
    <2>2. ASSUME <<u, c.content>> \in Handed' \ Handed PROVE u \in Candidates'
      BY <1>2, <1>5, <2>2 DEF Handed
    <2> QED BY <1>4, <2>1, <2>2 DEF ContentDuplicate
  <1>11. \A p \in Handed \ churn' :
           p[1] \in Stored /\ row'[p[1]].content = p[2] /\ row[p[1]].content = p[2]
    <2> SUFFICES ASSUME NEW p \in Handed, p \notin churn'
                 PROVE  p[1] \in Stored /\ row'[p[1]].content = p[2]
                          /\ row[p[1]].content = p[2]
      OBVIOUS
    <2>1. p[1] \in Stored /\ row[p[1]].content = p[2]
      BY <1>5 DEF HandedStored
    <2>2. p = <<p[1], p[2]>>
      BY DEF Handed, ItemsTypeOK
    <2>3. p[1] = u => ~Changed(u, c)
      BY <1>5, <2>1, <2>2 DEF Replaced
    <2>4. p[1] = u => c.content = p[2]
      BY <2>1, <2>3 DEF Changed
    <2> QED BY <1>2, <2>1, <2>4 DEF Stored
  <1>12. HandedStored'
    BY <1>1, <1>2, <1>9, <1>11 DEF HandedStored
  <1>13. HandedOnce'
    <2>1. ASSUME NEW p \in Handed, NEW q \in Handed, p[2] = q[2], p[1] # q[1]
          PROVE  p \in churn' \/ q \in churn'
      BY <1>5, <2>1 DEF HandedOnce
    <2>2. ASSUME NEW p \in Handed, <<u, c.content>> \in Handed' \ Handed,
                 p[2] = c.content, p[1] # u
          PROVE  p \in churn'
      BY <1>10, <1>11, <2>2
    <2> QED BY <1>9, <2>1, <2>2 DEF HandedOnce
  <1> QED BY <1>8, <1>12, <1>13

\* A later copy: its content and the one it replaces are given up, and what it
\* may hand to the model unjudged is marked.
LEMMA LaterCopy ==
  ASSUME ItemsInv, NEW slot \in Slot, NEW u \in Url, NEW c \in Candidate,
         StoreCandidate(slot, u, c), StoreAgain(u, c)
  PROVE  (NothingLost /\ HandedStored /\ HandedOnce)'
  <1> USE DEF ItemsInv
  <1>1. /\ ItemsTypeOK'
        /\ row' = [row EXCEPT ![u] = c] /\ Stored' = Stored \cup {u}
    BY StoreType
  <1>2. row'[u] = c /\ \A v \in Url \ {u} : row'[v] = row[v]
    BY <1>1 DEF ItemsTypeOK
  <1>3. /\ sent' = sent /\ disposition' = disposition
        /\ unsent' = unsent \cup {row[u].content, c.content}
        /\ churn' = churn \cup Replaced(u, c) \cup {<<u, c.content>>}
    BY DEF StoreCandidate, StoreAgain
  <1>4. Candidates' = Candidates
    BY <1>3 DEF Candidates
  <1>5. \A h : Accounted(h) => Accounted(h)'
    BY <1>2, <1>3, <1>4 DEF Accounted, SentContents, Candidates
  <1>6. NothingLost'
    <2> SUFFICES ASSUME NEW v \in Stored' PROVE Accounted(row[v].content)'
      BY DEF NothingLost
    <2>1. CASE v = u
      BY <1>2, <1>3, <2>1 DEF Accounted
    <2>2. CASE v # u
      <3>1. v \in Stored /\ row'[v] = row[v]
        BY <1>1, <1>2, <2>2 DEF Stored
      <3>2. Accounted(row[v].content)
        BY <3>1 DEF NothingLost
      <3> QED BY <1>5, <3>1, <3>2 DEF Accounted
    <2> QED BY <2>1, <2>2
  <1>7. Handed' \subseteq Handed \cup {<<u, c.content>>}
    BY <1>2, <1>3, <1>4 DEF Handed, Candidates
  <1>8. \A p \in Handed' \ churn' : p \in Handed \ churn
    BY <1>3, <1>7
  <1>9. ASSUME NEW p \in Handed, p \notin churn'
        PROVE  p[1] \in Stored' /\ row'[p[1]].content = p[2]
    <2>1. p[1] \in Stored /\ row[p[1]].content = p[2]
      BY <1>3, <1>9 DEF HandedStored
    <2>2. p = <<p[1], p[2]>>
      BY DEF Handed, ItemsTypeOK
    <2>3. p[1] = u => ~Changed(u, c)
      BY <1>3, <1>9, <2>1, <2>2 DEF Replaced
    <2>4. p[1] = u => c.content = p[2]
      BY <2>1, <2>3 DEF Changed
    <2> QED BY <1>1, <1>2, <2>1, <2>4 DEF Stored
  <1>10. HandedStored'
    BY <1>8, <1>9 DEF HandedStored
  <1>11. HandedOnce'
    BY <1>3, <1>8 DEF HandedOnce
  <1> QED BY <1>6, <1>10, <1>11

\* An item whose disposition could not be written is handed on, marked.
LEMMA UnjudgedCopy ==
  ASSUME ItemsInv, NEW slot \in Slot, NEW u \in Url, NEW c \in Candidate,
         StoreCandidate(slot, u, c), StoreUnjudged(u, c)
  PROVE  (NothingLost /\ HandedStored /\ HandedOnce)'
  <1> USE DEF ItemsInv
  <1>1. /\ ItemsTypeOK'
        /\ row' = [row EXCEPT ![u] = c] /\ Stored' = Stored \cup {u}
    BY StoreType
  <1>2. row'[u] = c /\ \A v \in Url \ {u} : row'[v] = row[v]
    BY <1>1 DEF ItemsTypeOK
  <1>3. /\ disposition[u] = "none"
        /\ disposition'[u] = "candidate"
        /\ \A v \in Url \ {u} : disposition'[v] = disposition[v]
    BY FirstIsNew DEF StoreUnjudged, StoreCandidate, ItemsTypeOK
  <1>4. Candidates' = Candidates \cup {u} /\ u \notin Candidates
    BY <1>3 DEF Candidates
  <1>5. /\ sent' = sent /\ unsent' = unsent
        /\ churn' = churn \cup Replaced(u, c) \cup {<<u, c.content>>}
    BY DEF StoreCandidate, StoreUnjudged
  <1>6. \A h : Accounted(h) => Accounted(h)'
    BY <1>2, <1>4, <1>5 DEF Accounted, SentContents, Candidates
  <1>7. Accounted(c.content)'
    BY <1>2, <1>4 DEF Accounted
  <1>8. NothingLost'
    <2> SUFFICES ASSUME NEW v \in Stored' PROVE Accounted(row[v].content)'
      BY DEF NothingLost
    <2>1. CASE v = u
      BY <1>2, <1>7, <2>1 DEF Accounted
    <2>2. CASE v # u
      <3>1. v \in Stored /\ row'[v] = row[v]
        BY <1>1, <1>2, <2>2 DEF Stored
      <3>2. Accounted(row[v].content)
        BY <3>1 DEF NothingLost
      <3> QED BY <1>6, <3>1, <3>2 DEF Accounted
    <2> QED BY <2>1, <2>2
  <1>9. \A p \in Handed' \ churn' : p \in Handed \ churn
    BY <1>2, <1>4, <1>5 DEF Handed, Candidates
  <1>10. ASSUME NEW p \in Handed, p \notin churn'
        PROVE  p[1] \in Stored' /\ row'[p[1]].content = p[2]
    <2>1. p[1] \in Stored /\ row[p[1]].content = p[2]
      BY <1>5, <1>10 DEF HandedStored
    <2>2. p = <<p[1], p[2]>>
      BY DEF Handed, ItemsTypeOK
    <2>3. p[1] = u => ~Changed(u, c)
      BY <1>5, <1>10, <2>1, <2>2 DEF Replaced
    <2>4. p[1] = u => c.content = p[2]
      BY <2>1, <2>3 DEF Changed
    <2> QED BY <1>1, <1>2, <2>1, <2>4 DEF Stored
  <1>11. HandedStored'
    BY <1>9, <1>10 DEF HandedStored
  <1>12. HandedOnce'
    BY <1>5, <1>9 DEF HandedOnce
  <1> QED BY <1>8, <1>11, <1>12

\* The fetch begins before an item is stored, and ends with its list of items.
LEMMA BatchStep ==
  ASSUME ItemsTypeOK, BatchOfRun,
         \/ \E enabled \in SUBSET Source : BeginDiscovery(enabled)
         \/ \E s \in Source : (\E n \in 0..PerSource : CollectSucceeds(s, n)) \/ CollectFails(s)
         \/ \E kept \in SUBSET discovered : CloseDiscovery(kept)
         \/ \E slot \in discovered : SkipCandidate(slot)
         \/ FinishFetch \/ Extract \/ RunFails \/ UNCHANGED vars
  PROVE  BatchOfRun'
  <1>1. CASE \/ \E enabled \in SUBSET Source : BeginDiscovery(enabled)
             \/ \E s \in Source : \/ \E n \in 0..PerSource : CollectSucceeds(s, n)
                                  \/ CollectFails(s)
             \/ \E slot \in discovered : SkipCandidate(slot)
             \/ UNCHANGED vars
    <2>1. /\ UNCHANGED <<disposition, batch_item_ids>>
          /\ stage' = stage \/ (stage = "idle" /\ stage' = "discover")
      BY <1>1 DEF BeginDiscovery, CollectSucceeds, CollectFails, SkipCandidate, vars, runVars
    <2> QED BY <2>1 DEF BatchOfRun, RunItems
  <1>2. CASE \E kept \in SUBSET discovered : CloseDiscovery(kept)
    <2>1. stage = "discover" /\ stage' = "fetch" /\ UNCHANGED <<disposition, batch_item_ids>>
      BY <1>2 DEF CloseDiscovery, runVars
    <2> QED BY <2>1 DEF BatchOfRun, RunItems
  <1>3. CASE FinishFetch
    BY <1>3 DEF FinishFetch, BatchOfRun, RunItems
  <1>4. CASE Extract \/ RunFails
    BY <1>4 DEF Extract, RunFails, ForgetRun, BatchOfRun, RunItems
  <1> QED BY <1>1, <1>2, <1>3, <1>4

\* A step that leaves the items, the batch and the history alone.
LEMMA Untouched ==
  ASSUME ItemsInv, UNCHANGED <<row, disposition, history>>
  PROVE  (RunItems \subseteq Stored /\ NothingLost /\ HandedStored /\ HandedOnce)'
  BY DEF ItemsInv, history, RunItems, Stored, NothingLost, Accounted, SentContents,
         Candidates, Handed, HandedStored, HandedOnce

\* A run that ends has handed its candidates over, or has given them up.
LEMMA RunEnds ==
  ASSUME ItemsInv, Extract \/ RunFails
  PROVE  ItemsInv'
  <1> USE DEF ItemsInv
  <1>1. /\ row' = row /\ churn' = churn /\ Candidates' = {} /\ RunItems' = {}
        /\ Stored' = Stored
    BY DEF Extract, RunFails, ForgetRun, Candidates, RunItems, Stored
  <1>2. ItemsTypeOK'
    <2>1. \A u \in Candidates : row[u].content \in Content
      BY RowType DEF RunItems, Candidates
    <2>2. {<<u, row[u].content>> : u \in Candidates} \subseteq Url \X Content
      BY <2>1 DEF Candidates
    <2>3. sent' \subseteq Url \X Content /\ unsent' \subseteq Content
      BY <2>1, <2>2 DEF Extract, RunFails, ItemsTypeOK
    <2> QED
      BY <2>3 DEF Extract, RunFails, ForgetRun, ItemsTypeOK, Disposition
  <1>3. Handed' \subseteq Handed
    BY <1>1 DEF Extract, RunFails, Handed
  <1>4. \A h : Accounted(h) => Accounted(h)'
    <2> SUFFICES ASSUME NEW h, Accounted(h) PROVE h \in (SentContents \cup unsent)'
      BY DEF Accounted
    <2>1. SentContents \subseteq SentContents' /\ unsent \subseteq unsent'
      BY DEF Extract, RunFails, SentContents
    <2>2. ASSUME NEW u \in Candidates, row[u].content = h
          PROVE  h \in (SentContents \cup unsent)'
      <3>1. CASE Extract
        <4>1. <<u, h>> \in sent'
          BY <2>2, <3>1 DEF Extract
        <4> QED BY <4>1 DEF SentContents
      <3>2. CASE RunFails
        BY <2>2, <3>2 DEF RunFails
      <3> QED BY <3>1, <3>2
    <2> QED BY <2>1, <2>2 DEF Accounted
  <1>5. NothingLost'
    BY <1>1, <1>4 DEF NothingLost
  <1>6. HandedStored' /\ HandedOnce'
    BY <1>1, <1>3 DEF HandedStored, HandedOnce
  <1>7. BatchOfRun'
    BY BatchStep
  <1> QED BY <1>1, <1>2, <1>5, <1>6, <1>7

\* Every step of the fetch stage keeps the account of contents: the invariant
\* of the module, for any number of sources, pages and runs.
THEOREM ItemsInvariant == Spec => []ItemsInv
  <1>1. Init => ItemsInv
    BY ItemsAssumption DEF Init, ItemsInv, ItemsTypeOK, BatchOfRun, RunItems, Stored, NothingLost,
       Candidates, Handed, HandedStored, HandedOnce, Disposition
  <1>2. ItemsInv /\ [Next]_vars => ItemsInv'
    <2> SUFFICES ASSUME ItemsInv, [Next]_vars PROVE ItemsInv'
      OBVIOUS
    <2>0. ItemsTypeOK
      BY DEF ItemsInv
    <2>1. ASSUME NEW enabled \in SUBSET Source, BeginDiscovery(enabled) PROVE ItemsInv'
      <3>1. ItemsTypeOK'
        BY <2>0, <2>1, ItemsAssumption DEF BeginDiscovery, ItemsTypeOK, history
      <3> QED BY <2>1, <3>1, Untouched, BatchStep DEF BeginDiscovery, ItemsInv
    <2>2. ASSUME NEW s \in Source, NEW n \in 0..PerSource, CollectSucceeds(s, n)
          PROVE  ItemsInv'
      <3>1. {s} \X (1..n) \subseteq Slot
        BY ItemsAssumption DEF Slot
      <3>2. ItemsTypeOK'
        BY <2>0, <2>2, <3>1 DEF CollectSucceeds, ItemsTypeOK, history
      <3> QED BY <2>2, <3>2, Untouched, BatchStep DEF CollectSucceeds, ItemsInv
    <2>3. ASSUME NEW s \in Source, CollectFails(s) PROVE ItemsInv'
      <3>1. ItemsTypeOK'
        BY <2>0, <2>3 DEF CollectFails, ItemsTypeOK, history
      <3> QED BY <2>3, <3>1, Untouched, BatchStep DEF CollectFails, ItemsInv
    <2>4. ASSUME NEW kept \in SUBSET discovered, CloseDiscovery(kept) PROVE ItemsInv'
      <3>1. ItemsTypeOK'
        BY <2>0, <2>4 DEF CloseDiscovery, ItemsTypeOK, runVars, history
      <3> QED BY <2>4, <3>1, Untouched, BatchStep DEF CloseDiscovery, ItemsInv
    <2>5. ASSUME NEW slot \in discovered, SkipCandidate(slot) PROVE ItemsInv'
      <3>1. slot[1] \in Source
        BY <2>0 DEF ItemsTypeOK, Slot
      <3>2. ItemsTypeOK'
        BY <2>0, <2>5, <3>1 DEF SkipCandidate, ItemsTypeOK, history
      <3> QED BY <2>5, <3>2, Untouched, BatchStep DEF SkipCandidate, ItemsInv
    <2>6. ASSUME NEW slot \in discovered, NEW u \in Url, NEW c \in Candidate,
                 StoreCandidate(slot, u, c)
          PROVE  ItemsInv'
      <3>1. slot \in Slot
        BY <2>0 DEF ItemsTypeOK
      <3>2. ItemsTypeOK' /\ (RunItems \subseteq Stored)' /\ BatchOfRun'
        BY <2>6, <3>1, StoreType DEF ItemsInv
      <3>3. (NothingLost /\ HandedStored /\ HandedOnce)'
        BY <2>6, <3>1, FirstCopy, LaterCopy, UnjudgedCopy DEF StoreCandidate
      <3> QED BY <3>2, <3>3 DEF ItemsInv
    <2>7. CASE FinishFetch
      <3>1. ItemsTypeOK'
        BY <2>0, <2>7 DEF FinishFetch, ItemsTypeOK, runVars, history
      <3> QED BY <2>7, <3>1, Untouched, BatchStep DEF FinishFetch, ItemsInv
    <2>8. CASE Extract \/ RunFails
      BY <2>8, RunEnds
    <2>9. CASE UNCHANGED vars
      <3>1. ItemsTypeOK'
        BY <2>0, <2>9 DEF vars, runVars, history, ItemsTypeOK
      <3> QED BY <2>9, <3>1, Untouched, BatchStep DEF vars, ItemsInv
    <2> QED
      BY <2>1, <2>2, <2>3, <2>4, <2>5, <2>6, <2>7, <2>8, <2>9 DEF Next
  <1> QED BY <1>1, <1>2, PTL DEF Spec

\* What the tables and the lists of a run hold is well typed.
THEOREM ItemsTypesHold == Spec => []ItemsTypeOK
  <1>1. ItemsInv => ItemsTypeOK
    BY DEF ItemsInv
  <1> QED BY <1>1, ItemsInvariant, PTL

\* The duplicate checks alone lose no content: what is stored was handed to
\* the model, will be, or was given up by a gate, a failed run or a later copy.
THEOREM NothingLostHolds == Spec => []NothingLost
  <1>1. ItemsInv => NothingLost
    BY DEF ItemsInv
  <1> QED BY <1>1, ItemsInvariant, PTL

\* No content goes to the model under two URLs while both rows keep it.
THEOREM SentOnceHolds == Spec => []SentOnceWhileStored
  <1>1. ItemsInv => SentOnceWhileStored
    BY DEF ItemsInv, HandedOnce, Handed, SentOnceWhileStored
  <1> QED BY <1>1, ItemsInvariant, PTL

-----------------------------------------------------------------------------
(* The health of the sources. *)

\* A step that stores a candidate has the source of every readable article
\* among those that have answered.
LEMMA StoreSources ==
  ASSUME ItemsTypeOK, BatchOfRun, RunItems \subseteq Stored, SourcesInv, NEW slot \in discovered,
         NEW u \in Url, NEW c \in Candidate, StoreCandidate(slot, u, c)
  PROVE  SourcesInv'
  <1> USE DEF SourcesInv
  <1>1. slot \in Slot
    BY DEF ItemsTypeOK
  <1>2. row' = [row EXCEPT ![u] = c]
    BY <1>1, StoreType
  <1>3. row'[u] = c /\ \A v \in Url \ {u} : row'[v] = row[v]
    BY <1>2 DEF ItemsTypeOK
  <1>4. /\ stage = "fetch" /\ stage' = stage /\ c.source \in succeeded
        /\ discovered' \subseteq discovered
        /\ UNCHANGED <<toCollect, succeeded, failing>>
    BY DEF StoreCandidate
  <1>5. readable' \subseteq readable \cup {c.source} /\ readable \subseteq readable'
    BY DEF StoreCandidate, StoreFirst, StoreAgain, StoreUnjudged
  <1>6. readable' \subseteq succeeded' /\ readable' \cap failing' = {}
    BY <1>4, <1>5
  <1>7. churn \subseteq churn'
    BY DEF StoreCandidate, StoreFirst, StoreAgain, StoreUnjudged
  <1>8. ASSUME NEW v \in RunItems', disposition'[v] # "insufficient_content",
               <<v, row'[v].content>> \notin churn'
        PROVE  row'[v].source \in readable'
    <2>1. CASE v # u
      <3>1. disposition'[v] = disposition[v] /\ row'[v] = row[v] /\ v \in Url
        BY <1>3, <2>1
        DEF StoreCandidate, StoreFirst, StoreAgain, StoreUnjudged, RunItems, ItemsTypeOK
      <3>2. v \in RunItems
        BY <3>1 DEF RunItems
      <3> QED BY <1>5, <1>7, <1>8, <3>1, <3>2
    <2>2. CASE v = u
      <3>1. StoreFirst(u, c)
        BY <1>3, <1>8, <2>2 DEF StoreCandidate, StoreAgain, StoreUnjudged
      <3>2. disposition'[u] = Judge(u, c)
        BY <3>1 DEF StoreFirst, ItemsTypeOK
      <3>3. c.grade # "thin"
        BY <1>8, <2>2, <3>2 DEF Judge
      <3> QED BY <1>3, <2>2, <3>1, <3>3 DEF StoreFirst
    <2> QED BY <2>1, <2>2
  <1> QED BY <1>4, <1>6, <1>8

LEMMA SourcesStep ==
  ASSUME ItemsInv, SourcesInv, [Next]_vars
  PROVE  SourcesInv'
  <1>0. ItemsTypeOK /\ BatchOfRun /\ RunItems \subseteq Stored
    BY DEF ItemsInv
  <1>1. ASSUME NEW enabled \in SUBSET Source, BeginDiscovery(enabled) PROVE SourcesInv'
    BY <1>1 DEF BeginDiscovery, SourcesInv, history, RunItems
  <1>2. ASSUME NEW s \in Source, NEW n \in 0..PerSource, CollectSucceeds(s, n)
        PROVE  SourcesInv'
    BY <1>2 DEF CollectSucceeds, SourcesInv, history, RunItems
  <1>3. ASSUME NEW s \in Source, CollectFails(s) PROVE SourcesInv'
    BY <1>3 DEF CollectFails, SourcesInv, history, RunItems
  <1>4. ASSUME NEW kept \in SUBSET discovered, CloseDiscovery(kept) PROVE SourcesInv'
    BY <1>4 DEF CloseDiscovery, SourcesInv, runVars, history, RunItems
  <1>5. ASSUME NEW slot \in discovered, SkipCandidate(slot) PROVE SourcesInv'
    BY <1>5 DEF SkipCandidate, SourcesInv, history, RunItems
  <1>6. ASSUME NEW slot \in discovered, NEW u \in Url, NEW c \in Candidate,
               StoreCandidate(slot, u, c)
        PROVE  SourcesInv'
    BY <1>0, <1>6, StoreSources
  <1>7. CASE FinishFetch
    BY <1>7 DEF FinishFetch, SourcesInv, runVars, history, RunItems
  <1>8. CASE Extract \/ RunFails
    BY <1>8 DEF Extract, RunFails, ForgetRun, SourcesInv, RunItems
  <1>9. CASE UNCHANGED vars
    BY <1>9 DEF vars, runVars, history, SourcesInv, RunItems
  <1> QED
    BY <1>1, <1>2, <1>3, <1>4, <1>5, <1>6, <1>7, <1>8, <1>9 DEF Next

\* A source is not marked failing while its readable article is the first copy
\* stored under its URL and not replaced; of later copies nothing is claimed.
THEOREM ReadableSourceHealthyHolds == Spec => []ReadableSourceHealthy
  <1>1. Init => SourcesInv
    BY DEF Init, SourcesInv, RunItems
  <1>2. ItemsInv /\ SourcesInv /\ [Next]_vars => SourcesInv'
    BY SourcesStep
  <1>3. SourcesInv => ReadableSourceHealthy
    BY DEF SourcesInv, ReadableSourceHealthy
  <1> QED BY <1>1, <1>2, <1>3, ItemsInvariant, PTL DEF Spec
=============================================================================
