---------------------------- MODULE MCRunLifecycle ----------------------------
(***************************************************************************)
(* RunLifecycle for TLC.                                                   *)
(***************************************************************************)
EXTENDS RunLifecycle, TLC

WorkerSymmetry == Permutations(Workers)
==============================================================================
