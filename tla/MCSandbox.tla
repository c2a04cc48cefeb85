------------------------------ MODULE MCSandbox -------------------------------
(***************************************************************************)
(* Sandbox for TLC.                                                        *)
(***************************************************************************)
EXTENDS Sandbox
===============================================================================
