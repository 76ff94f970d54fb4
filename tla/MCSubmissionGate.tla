-------------------------- MODULE MCSubmissionGate --------------------------
(* SubmissionGate for TLC.                                                    *)
EXTENDS SubmissionGate, TLC

Symmetry == Permutations(Artifacts) \cup Permutations(Workers)
=============================================================================
