----------------------------- MODULE MCRcuTiny -----------------------------
(***************************************************************************)
(* The instance of RcuTiny for TLC: two callbacks of the sched flavour, so *)
(* that its list is split in two, and one of the bh flavour.               *)
(***************************************************************************)
EXTENDS RcuTiny
=============================================================================
