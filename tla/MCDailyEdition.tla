--------------------------- MODULE MCDailyEdition ---------------------------
(* Instances of DailyEdition for TLC: two pages that are extracted alone or  *)
(* together, one of them again later with a second material claim, or twice  *)
(* in one run, under a second key.                                           *)
EXTENDS DailyEdition

CONSTANTS k1, k2, i1, i2, m1, m2

First == [key |-> k1, items |-> {i1}, claims |-> {m1}]
Second == [key |-> k2, items |-> {i2}, claims |-> {m1}]
FirstChanged == [key |-> k1, items |-> {i1}, claims |-> {m1, m2}]
FirstAgain == [key |-> k2, items |-> {i1}, claims |-> {m1}]

MCBatches == {{First, Second}, {FirstChanged}, {First, FirstAgain}}
=============================================================================
