------------------------------ MODULE MCTimer ------------------------------
(* Instances of Timer for TLC. *)
EXTENDS Timer, TLC

Idle == [tick |-> FALSE, bh |-> FALSE, tasklets |-> {}, timers |-> {}, delays |-> {},
         opts |-> {}, callers |-> {}, del |-> FALSE, late |-> 0]
One == [Idle EXCEPT !.tick = TRUE, !.timers = {CHOOSE t \in Timers : t \notin IrqSafe}]
Two == [Idle EXCEPT !.tick = TRUE, !.timers = Timers]

MCUses == {
  [Idle EXCEPT !.bh = TRUE, !.tasklets = Tasklets],
  [One EXCEPT !.delays = {-1, 3}, !.opts = {"MOD"}, !.callers = {"task"}, !.del = TRUE],
  (* A tick in the middle of a call. *)
  [One EXCEPT !.delays = {0}, !.opts = {"MOD"}, !.callers = {"task"}, !.late = 1],
  [One EXCEPT !.delays = {0, 1}, !.opts = {"REDUCE", "PENDING_ONLY"}, !.callers = {"irq"},
              !.del = TRUE],
  (* Two in a bucket, whose functions modify and delete each other. *)
  [Two EXCEPT !.delays = {-1}, !.opts = {"MOD"}, !.callers = {"task", "softirq"}, !.del = TRUE]
}
ModUses == {
  [One EXCEPT !.delays = {0, 2}, !.opts = {"MOD"}, !.callers = {"task"}, !.late = 1]
}
=============================================================================
