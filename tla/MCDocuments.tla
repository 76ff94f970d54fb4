----------------------------- MODULE MCDocuments -----------------------------
(* Documents for TLC, alone.                                                  *)
EXTENDS Documents, TLC

Symmetry == Permutations(Contents) \cup Permutations(Workers)
=============================================================================
