---------------------------- MODULE MCSemaphore ----------------------------
(***************************************************************************)
(* The instance of Semaphore for TLC: two tasks that compete for one unit  *)
(* with callers that come and go on the fast path, and one up() too many.  *)
(* SemaphoreProofs has the safety properties for any number of tasks.      *)
(***************************************************************************)
EXTENDS Semaphore
=============================================================================
