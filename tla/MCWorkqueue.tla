----------------------------- MODULE MCWorkqueue -----------------------------
(* Instances of Workqueue for TLC. *)
EXTENDS Workqueue, TLC

(* A workqueue with at most max_active works active, and flags.  The pool  *)
(* can create up to nr_workers workers; nr_works works are queued, and     *)
(* nr_callers callers make calls; env is what else happens.                *)
Use(max_active, flags, nr_workers, env, nr_works, nr_callers, calls) ==
  {[attr |-> [max_active |-> max_active,
              cpu_intensive |-> "WQ_CPU_INTENSIVE" \in flags,
              mem_reclaim |-> "WQ_MEM_RECLAIM" \in flags],
    workers |-> nr_workers, env |-> env, works |-> W,
    calls |-> [c \in Callers |-> IF c \in C THEN calls ELSE {}]] :
      W \in kSubset(nr_works, Works), C \in kSubset(nr_callers, Callers)}

MCUses == UNION {
  Use(1, {}, 3, {"sleep", "cancel"}, 2, 1, {"flush_work"}),
  Use(2, {"WQ_CPU_INTENSIVE"}, 3, {"sleep", "delay"}, 2, 1, {"flush_work"}),
  Use(2, {"WQ_MEM_RECLAIM"}, 2, {"sleep", "cancel"}, 2, 1, {"flush_work", "cancel_sync"}),
  Use(1, {}, 2, {"sleep", "delay", "mod"}, 2, 2, {"cancel_sync"}),
  Use(1, {}, 2, {}, 1, 3, {"flush_workqueue"}),
  Use(2, {}, 2, {"cancel"}, 2, 2, {"flush_workqueue"}),
  Use(2, {}, 2, {"sleep"}, 2, 1, {"drain"})
}

(* flush_work() while others cancel. *)
CancelUses == Use(2, {}, 3, {"sleep", "cancel"}, 1, 1, {"flush_work"})

Symmetry == Permutations(Workers) \cup Permutations(Callers) \cup Permutations(Works)
=============================================================================
