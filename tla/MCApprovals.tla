----------------------------- MODULE MCApprovals -----------------------------
(***************************************************************************)
(* Approvals for TLC.  The run checks liveness, so it uses no symmetry.    *)
(***************************************************************************)
EXTENDS Approvals
=============================================================================
