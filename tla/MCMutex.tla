------------------------------ MODULE MCMutex ------------------------------
(* Instances of Mutex for TLC. *)
EXTENDS Mutex, TLC

(* All tasks have a context, or none. *)
MCWwSets == {{}, Tasks}

Symmetry == Permutations(Tasks) \cup Permutations(Locks)
=============================================================================
