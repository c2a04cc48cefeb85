--------------------------- MODULE MCPolicyEngine ---------------------------
(***************************************************************************)
(* PolicyEngine for TLC: every request there is.                           *)
(***************************************************************************)
EXTENDS PolicyEngine
=============================================================================
