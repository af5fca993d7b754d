--------------------------- MODULE MCDailySchedule ---------------------------
(* Instance of DailySchedule for TLC: days of four hours, a catch-up of one, *)
(* and two requests that may overlap.                                       *)
EXTENDS DailySchedule, TLC

ThreadSymmetry == Permutations(Thread)
=============================================================================
