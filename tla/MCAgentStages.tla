---------------------------- MODULE MCAgentStages ----------------------------
(* An instance of AgentStages for TLC: an item of an official source, one    *)
(* that two community sources have, of which one sets a threshold of its     *)
(* own, and an agent that splits, repeats and mixes them under keys that     *)
(* drift.                                                                    *)
EXTENDS AgentStages, SequencesExt

CONSTANTS k1, k2, k3, i1, i2, m1, n1

Plain(tier) ==
  [kind |-> "rss", tier |-> tier, min_score |-> Unset, min_event_importance |-> Unset,
   min_content_chars |-> 0, min_summary_chars |-> 0, reject_promotional |-> TRUE,
   min_stars |-> 0, min_forks |-> 0, min_description_chars |-> 0,
   min_documentation_signals |-> 0, require_license |-> FALSE]

Strict(source) == [source EXCEPT !.min_event_importance = 95]

MCOrigins ==
  [i \in Item |-> IF i = i1 THEN {Plain("official")}
                 ELSE {Plain("community"), Strict(Plain("community"))}]
MCFallbackKey == [i \in Item |-> IF i = i1 THEN k1 ELSE k3]

MCStated ==
  {[key |-> k1, items |-> {i1}, claims |-> {m1}, importance |-> 70],
   [key |-> k1, items |-> {i2}, claims |-> {n1}, importance |-> 90],
   [key |-> k2, items |-> {i2}, claims |-> {m1}, importance |-> 70],
   [key |-> k2, items |-> {i1, i2}, claims |-> {n1}, importance |-> 70]}

MCAnswers == BoundedSeq(MCStated, 2)
=============================================================================
