------------------------------ MODULE MCRwsem ------------------------------
(* Instances of Rwsem for TLC. *)
EXTENDS Rwsem, TLC

TaskSymmetry == Permutations(Tasks)
=============================================================================
