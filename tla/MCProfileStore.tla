---------------------------- MODULE MCProfileStore ----------------------------
(***************************************************************************)
(* ProfileStore for TLC.                                                   *)
(***************************************************************************)
EXTENDS ProfileStore, TLC

Symmetry == Permutations(Workers) \cup Permutations(Schemas) \cup Permutations(Supplied)
===============================================================================
