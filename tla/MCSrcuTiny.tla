----------------------------- MODULE MCSrcuTiny -----------------------------
(***************************************************************************)
(* The instance of SrcuTiny for TLC: two readers, one for each index, and  *)
(* two callbacks, so that one can come while the other's grace period is   *)
(* in any of its steps.  SrcuTinyProofs has the safety properties for any  *)
(* number of them.                                                         *)
(***************************************************************************)
EXTENDS SrcuTiny
=============================================================================
