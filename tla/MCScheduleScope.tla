--------------------------- MODULE MCScheduleScope ---------------------------
(* ScheduleScope for TLC.                                                     *)
EXTENDS ScheduleScope, TLC

Symmetry == Permutations(Workers) \cup Permutations(ProjectTypes)
=============================================================================
