---------------------------- MODULE MCSourceItems ----------------------------
(* Instances of SourceItems for TLC: two contents that move between two URLs *)
(* of two sources, over three runs.                                         *)
EXTENDS SourceItems, TLC

\* No definition tells two sources, two URLs or two contents apart.
ItemsSymmetry == Permutations(Source) \cup Permutations(Url) \cup Permutations(Content)
=============================================================================
