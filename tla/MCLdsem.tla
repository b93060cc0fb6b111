------------------------------ MODULE MCLdsem ------------------------------
(* Instances of Ldsem for TLC. *)
EXTENDS Ldsem, TLC

TaskSymmetry == Permutations(Tasks)
=============================================================================
