--------------------------- MODULE MCEditionEntries ---------------------------
(* Instances of EditionEntries for TLC: two pages that are extracted alone or *)
(* together, one of them again later with a second material claim.           *)
EXTENDS EditionEntries

CONSTANTS k1, k2, i1, i2, m1, m2

First == [key |-> k1, items |-> {i1}, claims |-> {m1}]
Second == [key |-> k2, items |-> {i2}, claims |-> {m1}]
FirstChanged == [key |-> k1, items |-> {i1}, claims |-> {m1, m2}]

\* A run that extracts nothing goes on like one that extracts what is known.
MCBatches == {{First, Second}, {FirstChanged}}

\* Each page has a key of its own, so the theorem ApartKeepsDecisions is about
\* these batches too.
ASSUME PagesOfInstance ==
  PagesApart([t \in Key \cup Item |-> IF t \in {k1, i1} THEN 1 ELSE 2])

\* Answers with an event left out, named twice, or in any order.
MCRewrites == UNION {[1..n -> Id] : n \in 0..2}
=============================================================================
