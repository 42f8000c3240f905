----------------------------- MODULE MCSandbox ------------------------------
(***************************************************************************)
(* Instances of Sandbox for TLC.                                           *)
(***************************************************************************)
EXTENDS Sandbox

CONSTANTS r1, r2
=============================================================================
