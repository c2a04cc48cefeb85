---------------------------- MODULE MCMigrations ----------------------------
(***************************************************************************)
(* Migrations for TLC: two processes of two threads.                       *)
(***************************************************************************)
EXTENDS Migrations, TLC

Symmetry == Permutations(Processes) \cup Permutations(Slots)
=============================================================================
