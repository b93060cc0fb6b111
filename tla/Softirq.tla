------------------------------ MODULE Softirq ------------------------------
(***************************************************************************)
(* Software interrupts, ksoftirqd and tasklets, from kernel/softirq.c, on  *)
(* a uniprocessor without kernel preemption.                               *)
(*                                                                         *)
(* The CPU runs a task or ksoftirqd; softirqs run on top of either, in one *)
(* loop at a time, and hardirqs on top of all that, with interrupts off: a *)
(* hardirq is one step, with what irq_exit() starts.                       *)
(***************************************************************************)
EXTENDS List

CONSTANTS
  Tasklets,
  HiTasklets,           \* those that are scheduled with tasklet_hi_schedule()
  None,
  MAX_SOFTIRQ_RESTART   \* 10 in the code

ASSUME SoftirqAssumption ==
  /\ HiTasklets \subseteq Tasklets /\ MAX_SOFTIRQ_RESTART \in Nat \ {0}
  /\ None \notin Tasklets /\ None \notin {"HI", "TIMER", "TASKLET", "start", "list", "func"}

VARIABLES
  pending,    \* the vectors in local_softirq_pending()
  sirq,       \* the loop of __do_softirq()
  bh,         \* softirqs of the task: "on", "off", or "enabling"
  current,    \* who has the CPU: "task" or "ksoftirqd"
  ksoftirqd,  \* its task state, and where it is in smpboot_thread_fn()
  tasklet     \* vec: lists by vector; sched: with TASKLET_STATE_SCHED;
              \* set: who has set that bit, and has yet to add it to the list;
              \* disabled: with count # 0; kill: tasklet_kill() owns the bit

softirqvars == <<pending, sirq, bh, current, ksoftirqd, tasklet>>

Bit == [HI |-> 0, TIMER |-> 1, TASKLET |-> 6]
Vectors == {"HI", "TIMER", "TASKLET"}
TaskletVecs == {"HI", "TASKLET"}
VecOf(t) == IF t \in HiTasklets THEN "HI" ELSE "TASKLET"

(* No loop: the locals pending, the vector whose action runs, where it is, *)
(* the list of tasklet_action(), and max_restart.                          *)
NoLoop == [on |-> FALSE, todo |-> {}, vec |-> None, at |-> None, list |-> <<>>, restart |-> 0]

SoftirqInit ==
  /\ pending = {} /\ sirq = NoLoop /\ bh = "on"
  /\ current = "task"
  /\ ksoftirqd = [state |-> "INTERRUPTIBLE", at |-> "top"]
  /\ tasklet = [vec |-> [v \in TaskletVecs |-> <<>>], sched |-> {},
                set |-> [c \in {"task", "func"} |-> None], disabled |-> {}, kill |-> {}]

(* Interrupts are off in the parts of a handler under timer_base.lock, and *)
(* in the functions of TIMER_IRQSAFE timers.                               *)
IrqsOn == sirq.at \notin {"collect", "irqsafe"}
InInterrupt == sirq.on \/ bh = "off"
InTask == ~sirq.on /\ current = "task"
Free == InTask /\ bh # "enabling" /\ tasklet.set["task"] = None /\ tasklet.kill = {}

-----------------------------------------------------------------------------
wakeup_softirqd == ksoftirqd' = [ksoftirqd EXCEPT !.state = "RUNNING"]
ksoftirqd_running == ksoftirqd.state = "RUNNING"

(* __do_softirq() up to local_irq_enable(), with vectors p pending. *)
Start(p) ==
  /\ sirq' = [NoLoop EXCEPT !.on = TRUE, !.todo = p, !.restart = MAX_SOFTIRQ_RESTART]
  /\ pending' = {}

(* irq_exit() when p is pending, with invoke_softirq(). *)
IrqExit(p) ==
  IF ~InInterrupt /\ p # {} /\ ~ksoftirqd_running
  THEN Start(p) ELSE pending' = p /\ UNCHANGED sirq

(* raise_softirq() in a task. *)
Raise(v) ==
  /\ pending' = pending \cup {v}
  /\ IF InInterrupt THEN UNCHANGED ksoftirqd ELSE wakeup_softirqd

(* An iteration of the loop over the vectors: the first one's action.      *)
Dispatch ==
  /\ sirq.on /\ sirq.vec = None /\ sirq.todo # {}
  /\ \E v \in sirq.todo :
       /\ \A u \in sirq.todo : Bit[v] <= Bit[u]
       /\ sirq' = [sirq EXCEPT !.vec = v, !.at = "start", !.todo = @ \ {v}]
  /\ UNCHANGED <<pending, bh, current, ksoftirqd, tasklet>>

(* The action returns. *)
Handled == [sirq EXCEPT !.vec = None, !.at = None]

(* Mutant: the limit on restarts is not looked at. *)
MayRestartAlways == TRUE
(* --max_restart; the clock and need_resched() may end the loop earlier.   *)
MayRestart == sirq.restart > 1

(* Mutant: what is left is not handed to ksoftirqd. *)
LeftOverForgotten == UNCHANGED ksoftirqd
LeftOver == wakeup_softirqd

(* All vectors are done: again from restart, or the loop ends. *)
Restart ==
  /\ sirq.on /\ sirq.vec = None /\ sirq.todo = {} /\ pending # {} /\ MayRestart
  /\ sirq' = [sirq EXCEPT !.todo = pending, !.restart = IF @ > 1 THEN @ - 1 ELSE @]
  /\ pending' = {}
  /\ UNCHANGED <<bh, current, ksoftirqd, tasklet>>

SoftirqEnd ==
  /\ sirq.on /\ sirq.vec = None /\ sirq.todo = {}
  /\ sirq' = NoLoop
  /\ \/ pending = {} /\ UNCHANGED ksoftirqd
     \/ pending # {} /\ LeftOver
  /\ UNCHANGED <<pending, bh, current, tasklet>>

-----------------------------------------------------------------------------
(* local_bh_disable(), and local_bh_enable(): softirqs are on again before *)
(* it looks for pending ones.                                              *)
BhDisable ==
  /\ Free /\ bh = "on"
  /\ bh' = "off"
  /\ UNCHANGED <<pending, sirq, current, ksoftirqd, tasklet>>

BhEnable ==
  /\ Free /\ bh = "off"
  /\ bh' = "enabling"
  /\ UNCHANGED <<pending, sirq, current, ksoftirqd, tasklet>>

BhEnabled ==
  /\ InTask /\ bh = "enabling"
  /\ bh' = "on"
  /\ IF pending # {} /\ ~ksoftirqd_running THEN Start(pending) ELSE UNCHANGED <<pending, sirq>>
  /\ UNCHANGED <<current, ksoftirqd, tasklet>>

(* ksoftirqd in smpboot_thread_fn() and run_ksoftirqd(). *)
InKsoftirqd(at) == ~sirq.on /\ current = "ksoftirqd" /\ ksoftirqd.at = at

KsoftirqdTop ==
  /\ InKsoftirqd("top")
  /\ ksoftirqd' = [state |-> "INTERRUPTIBLE", at |-> "check"]
  /\ UNCHANGED <<pending, sirq, bh, current, tasklet>>

ksoftirqd_should_run == pending # {}

KsoftirqdCheck ==
  /\ InKsoftirqd("check")
  /\ ksoftirqd' = IF ksoftirqd_should_run THEN [state |-> "RUNNING", at |-> "run"]
                  ELSE [ksoftirqd EXCEPT !.at = "schedule"]
  /\ UNCHANGED <<pending, sirq, bh, current, tasklet>>

(* schedule(): it is left on the run queue if it was woken meanwhile. *)
KsoftirqdSchedule ==
  /\ InKsoftirqd("schedule")
  /\ ksoftirqd' = [ksoftirqd EXCEPT !.at = "top"]
  /\ current' = IF ksoftirqd_running THEN "ksoftirqd" ELSE "task"
  /\ UNCHANGED <<pending, sirq, bh, tasklet>>

(* cond_resched_rcu_qs() comes after the loop. *)
RunKsoftirqd ==
  /\ InKsoftirqd("run")
  /\ IF pending # {} THEN Start(pending) ELSE UNCHANGED <<pending, sirq>>
  /\ ksoftirqd' = [ksoftirqd EXCEPT !.at = "top"]
  /\ UNCHANGED <<bh, current, tasklet>>

(* The scheduler switches to ksoftirqd, and back when it may.  *)
SwitchTo ==
  /\ Free /\ bh = "on" /\ ksoftirqd_running
  /\ current' = "ksoftirqd"
  /\ UNCHANGED <<pending, sirq, bh, ksoftirqd, tasklet>>

SwitchBack ==
  /\ InKsoftirqd("top") /\ ksoftirqd_running
  /\ current' = "task"
  /\ UNCHANGED <<pending, sirq, bh, ksoftirqd, tasklet>>

-----------------------------------------------------------------------------
(* tasklet_schedule() and tasklet_hi_schedule() of a tasklet whose bit is  *)
(* not set, then __tasklet_schedule() up to raise_softirq_irqoff().  Both  *)
(* at once in a hardirq.                                                   *)
Listed(t) == [tasklet EXCEPT !.sched = @ \cup {t}, !.vec[VecOf(t)] = Append(@, t)]

TaskletSet(c, t) ==
  /\ IF c = "task" THEN Free ELSE sirq.at = "func"
  /\ tasklet.set[c] = None /\ t \notin tasklet.sched
  /\ tasklet' = [tasklet EXCEPT !.sched = @ \cup {t}, !.set[c] = t]
  /\ UNCHANGED <<pending, sirq, bh, current, ksoftirqd>>

TaskletSchedule(c) ==
  /\ IF c = "task" THEN InTask ELSE sirq.at = "func"
  /\ tasklet.set[c] # None
  /\ tasklet' = [Listed(tasklet.set[c]) EXCEPT !.set[c] = None]
  /\ Raise(VecOf(tasklet.set[c]))
  /\ UNCHANGED <<sirq, bh, current>>

TaskletScheduleIrq(t) ==
  /\ IrqsOn /\ t \notin tasklet.sched
  /\ tasklet' = Listed(t)
  /\ IrqExit(pending \cup {VecOf(t)})
  /\ UNCHANGED <<bh, current, ksoftirqd>>

(* tasklet_action(), tasklet_hi_action(): take the list, ... *)
TaskletAction ==
  /\ sirq.vec \in TaskletVecs /\ sirq.at = "start"
  /\ sirq' = [sirq EXCEPT !.at = "list", !.list = tasklet.vec[sirq.vec]]
  /\ tasklet' = [tasklet EXCEPT !.vec[sirq.vec] = <<>>]
  /\ UNCHANGED <<pending, bh, current, ksoftirqd>>

(* ... run each, or keep it for the next time if it is disabled. *)
TaskletNext ==
  /\ sirq.vec \in TaskletVecs /\ sirq.at = "list"
  /\ \/ /\ sirq.list = <<>>
        /\ sirq' = Handled
        /\ UNCHANGED <<pending, tasklet>>
     \/ /\ sirq.list # <<>> /\ Head(sirq.list) \notin tasklet.disabled
        /\ sirq' = [sirq EXCEPT !.at = "func", !.list = Tail(@)]
        /\ tasklet' = [tasklet EXCEPT !.sched = @ \ {Head(sirq.list)}]
        /\ UNCHANGED pending
     \/ /\ sirq.list # <<>> /\ Head(sirq.list) \in tasklet.disabled
        /\ sirq' = [sirq EXCEPT !.list = Tail(@)]
        /\ tasklet' = [tasklet EXCEPT !.vec[sirq.vec] = Append(@, Head(sirq.list))]
        /\ pending' = pending \cup {sirq.vec}
  /\ UNCHANGED <<bh, current, ksoftirqd>>

(* The function of a tasklet returns. *)
TaskletDone ==
  /\ sirq.at = "func" /\ tasklet.set["func"] = None
  /\ sirq' = [sirq EXCEPT !.at = "list"]
  /\ UNCHANGED <<pending, bh, current, ksoftirqd, tasklet>>

(* tasklet_disable(), tasklet_enable(), by one user. *)
TaskletDisable(t) ==
  /\ Free
  /\ tasklet' = [tasklet EXCEPT !.disabled = IF t \in @ THEN @ \ {t} ELSE @ \cup {t}]
  /\ UNCHANGED <<pending, sirq, bh, current, ksoftirqd>>

(* tasklet_kill() takes the SCHED bit when it is clear, and drops it.      *)
TaskletKill(t) ==
  /\ Free /\ bh = "on" /\ t \notin tasklet.sched
  /\ tasklet' = [tasklet EXCEPT !.sched = @ \cup {t}, !.kill = {t}]
  /\ UNCHANGED <<pending, sirq, bh, current, ksoftirqd>>

TaskletKilled ==
  /\ InTask /\ tasklet.kill # {}
  /\ tasklet' = [tasklet EXCEPT !.sched = @ \ tasklet.kill, !.kill = {}]
  /\ UNCHANGED <<pending, sirq, bh, current, ksoftirqd>>

(* What the task, the loop and ksoftirqd do once they have begun. *)
TaskStep == BhEnable \/ BhEnabled \/ TaskletSchedule("task") \/ TaskletKilled
SoftirqStep ==
  \/ Dispatch \/ Restart \/ SoftirqEnd
  \/ TaskletAction \/ TaskletNext \/ TaskletSchedule("func") \/ TaskletDone
KsoftirqdStep == KsoftirqdTop \/ KsoftirqdCheck \/ KsoftirqdSchedule \/ RunKsoftirqd
-----------------------------------------------------------------------------
(* The lists tasklets are on, and the local one of tasklet_action().       *)
(* Several lists ls whose entries have one list_head: what is on them, and *)
(* that nothing is on two of them or twice on one.                         *)
Lists == [l \in TaskletVecs \cup {"loop"} |-> IF l = "loop" THEN sirq.list ELSE tasklet.vec[l]]
Entries(ls) == UNION {Range(ls[l]) : l \in DOMAIN ls}
NoneTwice(ls) ==
  \A l, m \in DOMAIN ls : \A i \in DOMAIN ls[l], j \in DOMAIN ls[m] :
    ls[l][i] = ls[m][j] => l = m /\ i = j

(* Nothing that was raised is forgotten: a pending vector is for the loop, *)
(* for the task that enables softirqs again, or for ksoftirqd, which is    *)
(* awake or about to look for it.  A tasklet with TASKLET_STATE_SCHED is   *)
(* on one list, once, and only those are (the BUG() of tasklet_action()),  *)
(* and the vector of a list is pending or its action has yet to take it.   *)
SoftirqServed ==
  /\ pending # {} => sirq.on \/ bh # "on" \/ ksoftirqd_running \/ ksoftirqd.at = "check"
  /\ Entries(Lists) = tasklet.sched \ (tasklet.kill \cup Range(tasklet.set))
  /\ NoneTwice(Lists)
  /\ \A v \in TaskletVecs : tasklet.vec[v] # <<>> =>
       v \in pending \cup sirq.todo \/ (sirq.vec = v /\ sirq.at = "start")
=============================================================================
