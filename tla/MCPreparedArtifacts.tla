------------------------- MODULE MCPreparedArtifacts -------------------------
(* PreparedArtifacts for TLC: model values come from the .cfg files.         *)
EXTENDS PreparedArtifacts, TLC

Symmetry == Permutations(Artifacts) \cup Permutations(Workers)
=============================================================================
