-------------------------- MODULE MCArtifactRegistry --------------------------
(***************************************************************************)
(* ArtifactRegistry for TLC.                                               *)
(***************************************************************************)
EXTENDS ArtifactRegistry, TLC

Symmetry == Permutations(Workers) \cup Permutations(Ids) \cup Permutations(Contents)
==============================================================================
