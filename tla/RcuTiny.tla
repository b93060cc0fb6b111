------------------------------ MODULE RcuTiny ------------------------------
(***************************************************************************)
(* Tiny RCU: kernel/rcu/tiny.c, with the places that report quiescent      *)
(* states to it (__schedule(), the tick, the end of __do_softirq()) and    *)
(* the softirq that invokes the callbacks.                                 *)
(*                                                                         *)
(* There is one CPU.  A hardirq handler runs on top of a softirq pass or   *)
(* of a task, a softirq pass on top of a task, and each of these levels    *)
(* may be in a read-side critical section of its own.  Both callback       *)
(* lists are modelled with their pointers: a location is the head of a     *)
(* list, named like the flavour, or the next field of a callback.          *)
(***************************************************************************)
CONSTANTS
  SchedCallbacks, BhCallbacks,  \* what call_rcu_sched() and call_rcu_bh() post
  NULL

Callbacks == SchedCallbacks \cup BhCallbacks
Flavours == {"sched", "bh"}
CallbacksOf(f) == IF f = "sched" THEN SchedCallbacks ELSE BhCallbacks
FlavourOf(c) == IF c \in SchedCallbacks THEN "sched" ELSE "bh"
Modes == {"user", "kernel", "idle"}

ASSUME RcuTinyAssumption ==
  /\ SchedCallbacks \cap BhCallbacks = {}
  /\ NULL \notin Callbacks /\ Flavours \cap Callbacks = {}

Locations == Flavours \cup Callbacks

VARIABLES
  mem,        \* the pointer at each location
  donetail, curtail,
  mode,       \* what the task level runs: "user", "kernel" or "idle"
  need_resched,
  hardirq,    \* a hardirq handler runs
  softirq,    \* where __do_softirq() is
  pending,    \* RCU_SOFTIRQ is raised
  rcp, list, next,  \* locals of __rcu_process_callbacks()
  rd,         \* critical sections: pairs of a level and a flavour
  posted,     \* history: callbacks that were posted and have not begun
  old         \* history: the levels that a queued callback has to wait for

lists == <<mem, donetail, curtail>>
cpu == <<mode, hardirq, softirq>>
locals == <<rcp, list, next>>
vars == <<lists, cpu, need_resched, pending, locals, rd, posted, old>>

Init ==
  /\ mem = [l \in Locations |-> NULL]
  /\ donetail = [f \in Flavours |-> f]
  /\ curtail = [f \in Flavours |-> f]
  /\ mode = "kernel" /\ hardirq = FALSE /\ softirq = "none"
  /\ need_resched = FALSE
  /\ pending = FALSE
  /\ rcp = "sched" /\ list = NULL /\ next = NULL
  /\ rd = {}
  /\ posted = {}
  /\ old = [c \in Callbacks |-> {}]

(* The levels of the CPU, and the one that is running. *)
Levels == {"task", "softirq", "hardirq"}
Level == IF hardirq THEN "hardirq" ELSE IF softirq # "none" THEN "softirq" ELSE "task"
Inside(f) == {l \in Levels : <<l, f>> \in rd}
NoSection(l) == \A f \in Flavours : <<l, f>> \notin rd

(* Mutant: in_softirq() does not see that bottom halves are disabled. *)
in_serving_softirq == softirq # "none"
(* in_softirq(): a pass runs, or the task has bottom halves disabled. *)
in_softirq == softirq # "none" \/ <<"task", "bh">> \in rd
in_interrupt == hardirq \/ in_softirq

(* The callbacks that hang on a pointer: the least set that holds where it *)
(* points to, and with each callback where that one's next points to.      *)
HangOn(p) ==
  {c \in Callbacks :
     \A S \in SUBSET Callbacks :
       p \in S \cup {NULL} /\ (\A d \in S : mem[d] \in S \cup {NULL}) => c \in S}
Grabbed == CASE softirq = "invoke" -> HangOn(list)
             [] softirq = "run" -> HangOn(next)
             [] OTHER -> {}
Queued(f) == HangOn(mem[f]) \cup (IF rcp = f THEN Grabbed ELSE {})
-----------------------------------------------------------------------------
(* Read-side critical sections.  They do not sleep, so they end on the     *)
(* level they began on.  A handler that runs with interrupts on top does   *)
(* not use the bottom half flavour.                                        *)
MayRead(f) ==
  /\ Level = "task" => mode # "user"
  /\ Level = "softirq" => softirq \in {"before", "other", "run"}
  /\ Level = "hardirq" => f = "sched"

ReadLock(f) ==
  /\ MayRead(f)
  /\ <<Level, f>> \notin rd
  /\ rd' = rd \cup {<<Level, f>>}
  /\ UNCHANGED <<lists, cpu, need_resched, pending, locals, posted, old>>

ReadUnlock(f) ==
  /\ <<Level, f>> \in rd
  /\ rd' = rd \ {<<Level, f>>}
  /\ old' = [c \in Callbacks |-> IF FlavourOf(c) = f THEN old[c] \ {Level} ELSE old[c]]
  /\ UNCHANGED <<lists, cpu, need_resched, pending, locals, posted>>

(* Mutant: the idle task is not made to reschedule. *)
KickIdleNot == need_resched
(* force scheduling for rcu_sched_qs() *)
KickIdle == need_resched \/ mode = "idle"

(* __call_rcu(): from any level, also from a callback. *)
Call(c) ==
  LET f == FlavourOf(c) IN
  /\ MayRead("sched")
  /\ c \notin posted
  /\ mem' = [mem EXCEPT ![c] = NULL, ![curtail[f]] = c]
  /\ curtail' = [curtail EXCEPT ![f] = c]
  /\ posted' = posted \cup {c}
  /\ old' = [old EXCEPT ![c] = Inside(f)]
  /\ need_resched' = KickIdle
  /\ UNCHANGED <<donetail, cpu, pending, locals, rd>>
-----------------------------------------------------------------------------
(* The lists on which rcu_qsctr_help() moves callbacks to the done part. *)
Quiescent(fs) == {f \in fs : donetail[f] # curtail[f]}

Raises(fs) == Quiescent(fs) # {}

(* rcu_sched_qs() for both flavours, rcu_bh_qs() for "bh" only. *)
Qs(fs) ==
  /\ donetail' = [f \in Flavours |-> IF f \in Quiescent(fs) THEN curtail[f] ELSE donetail[f]]
  /\ pending' = (pending \/ Raises(fs))

(* Mutant: the tick takes every task for one in user mode. *)
TickReportsAnyTask == IF softirq = "none" THEN Flavours ELSE {}
(* rcu_check_callbacks() *)
TickReports ==
  IF mode = "user" /\ softirq = "none" THEN Flavours ELSE IF ~in_softirq THEN {"bh"} ELSE {}

Tick ==
  /\ hardirq /\ NoSection("hardirq")
  /\ Qs(TickReports)
  /\ UNCHANGED <<mem, curtail, cpu, need_resched, locals, rd, posted, old>>

(* __schedule(), not from a critical section; idle only when it has to.    *)
Schedule(m) ==
  /\ Level = "task" /\ NoSection("task")
  /\ mode # "user" /\ (mode = "idle" => need_resched)
  /\ Qs(Flavours)
  /\ mode' = m
  /\ need_resched' = FALSE
  /\ UNCHANGED <<mem, curtail, hardirq, softirq, locals, rd, posted, old>>

(* System calls and the way back to user mode. *)
Trap ==
  /\ Level = "task" /\ NoSection("task")
  /\ \/ mode = "user" /\ mode' = "kernel"
     \/ mode = "kernel" /\ mode' = "user"
  /\ UNCHANGED <<lists, hardirq, softirq, need_resched, pending, locals, rd, posted, old>>

(* irq_enter(), irq_exit() and a wakeup that a handler does. *)
IrqEnter ==
  /\ ~hardirq
  /\ hardirq' = TRUE
  /\ UNCHANGED <<lists, mode, softirq, need_resched, pending, locals, rd, posted, old>>

IrqWakes ==
  /\ hardirq
  /\ need_resched' = TRUE
  /\ UNCHANGED <<lists, cpu, pending, locals, rd, posted, old>>

IrqExit ==
  /\ hardirq /\ NoSection("hardirq")
  /\ hardirq' = FALSE
  /\ UNCHANGED <<lists, mode, softirq, need_resched, pending, locals, rd, posted, old>>
-----------------------------------------------------------------------------
(* __do_softirq(): on the way out of an interrupt or bottom half section,  *)
(* or in ksoftirqd.  The pending bits are read and reset first, and the    *)
(* handlers of the other softirqs run before that of RCU_SOFTIRQ.          *)
SoftirqStart ==
  /\ ~in_interrupt
  /\ softirq' = IF pending THEN "before" ELSE "other"
  /\ pending' = FALSE
  /\ UNCHANGED <<lists, mode, hardirq, need_resched, locals, rd, posted, old>>

OthersDone ==
  /\ Level = "softirq" /\ softirq \in {"before", "other"} /\ NoSection("softirq")
  /\ softirq' = IF softirq = "before" THEN "splice" ELSE "qs"
  /\ rcp' = "sched"
  /\ UNCHANGED <<lists, mode, hardirq, need_resched, pending, list, next, rd, posted, old>>

SplicedTail == IF curtail[rcp] = donetail[rcp] THEN rcp ELSE curtail[rcp]

(* Move the ready-to-invoke callbacks to the local list. *)
Splice ==
  /\ Level = "softirq" /\ softirq = "splice"
  /\ donetail[rcp] # rcp
  /\ list' = mem[rcp]
  /\ mem' = [mem EXCEPT ![rcp] = mem[donetail[rcp]], ![donetail[rcp]] = NULL]
  /\ curtail' = [curtail EXCEPT ![rcp] = SplicedTail]
  /\ donetail' = [donetail EXCEPT ![rcp] = rcp]
  /\ softirq' = "invoke"
  /\ UNCHANGED <<mode, hardirq, need_resched, pending, rcp, next, rd, posted, old>>

(* next = list->next, and the callback begins. *)
Invoke(c) ==
  /\ Level = "softirq" /\ softirq = "invoke" /\ list = c
  /\ next' = mem[c]
  /\ softirq' = "run"
  /\ posted' = posted \ {c}
  /\ UNCHANGED <<lists, mode, hardirq, need_resched, pending, rcp, list, rd, old>>

(* Mutant: the next callback is looked up when this one has returned. *)
AdvanceLate == mem[list]
Advance == next

(* The callback has returned. *)
Return ==
  /\ Level = "softirq" /\ softirq = "run" /\ NoSection("softirq")
  /\ list' = Advance
  /\ next' = NULL
  /\ softirq' = "invoke"
  /\ UNCHANGED <<lists, mode, hardirq, need_resched, pending, rcp, rd, posted, old>>

(* Nothing is left, or nothing was ready: go on with the other flavour. *)
ListDone ==
  /\ Level = "softirq"
  /\ \/ softirq = "splice" /\ donetail[rcp] = rcp
     \/ softirq = "invoke" /\ list = NULL
  /\ softirq' = IF rcp = "sched" THEN "splice" ELSE "qs"
  /\ rcp' = IF rcp = "sched" THEN "bh" ELSE "sched"
  /\ UNCHANGED <<lists, mode, hardirq, need_resched, pending, list, next, rd, posted, old>>

(* The pass ends with rcu_bh_qs(); another pass may follow. *)
SoftirqEnd ==
  /\ Level = "softirq" /\ softirq = "qs"
  /\ Qs({"bh"})
  /\ softirq' = "none"
  /\ UNCHANGED <<mem, curtail, mode, hardirq, need_resched, locals, rd, posted, old>>

Irq == IrqEnter \/ IrqExit \/ IrqWakes \/ Tick
RunSoftirq ==
  \/ OthersDone \/ Splice \/ Return \/ ListDone \/ SoftirqEnd
  \/ \E c \in Callbacks : Invoke(c)

Next ==
  \/ \E f \in Flavours : ReadLock(f) \/ ReadUnlock(f)
  \/ \E c \in Callbacks : Call(c)
  \/ \E m \in Modes : Schedule(m)
  \/ Trap \/ Irq \/ SoftirqStart \/ RunSoftirq

Spec == Init /\ [][Next]_vars

(* Every level is again and again in no critical section; handlers end,    *)
(* interrupts come to tasks too, and a raised softirq is served.  The CPU  *)
(* does not stay away for ever from the scheduler and ticks in user mode.  *)
FairSpec ==
  /\ Spec
  /\ \A l \in Levels : []<>NoSection(l)
  /\ SF_vars(Level = "task" /\ IrqEnter) /\ SF_vars(IrqExit)
  /\ SF_vars(pending /\ SoftirqStart) /\ SF_vars(RunSoftirq)
  /\ SF_vars((\E m \in Modes : Schedule(m)) \/ (TickReports = Flavours /\ Tick))
-----------------------------------------------------------------------------
(* Types. *)
TypeOK ==
  /\ mem \in [Locations -> Callbacks \cup {NULL}]
  /\ donetail \in [Flavours -> Locations]
  /\ curtail \in [Flavours -> Locations]
  /\ mode \in Modes
  /\ need_resched \in BOOLEAN
  /\ hardirq \in BOOLEAN
  /\ softirq \in {"none", "before", "other", "splice", "invoke", "run", "qs"}
  /\ pending \in BOOLEAN
  /\ rcp \in Flavours
  /\ list \in Callbacks \cup {NULL}
  /\ next \in Callbacks \cup {NULL}
  /\ posted \in SUBSET Callbacks
  /\ rd \subseteq Levels \X Flavours
  /\ old \in [Callbacks -> SUBSET Levels]

(* Both flavours do what RCU promises: a callback is invoked once for      *)
(* every call, and after all the critical sections of its flavour that     *)
(* were there at the call have ended.                                      *)
Sched == INSTANCE GracePeriod WITH
  Readers <- Levels, Callbacks <- SchedCallbacks, inside <- Inside("sched"),
  posted <- posted \cap SchedCallbacks, old <- [c \in SchedCallbacks |-> old[c]]
ImplementsSched == Sched!Spec
Bh == INSTANCE GracePeriod WITH
  Readers <- Levels, Callbacks <- BhCallbacks, inside <- Inside("bh"),
  posted <- posted \cap BhCallbacks, old <- [c \in BhCallbacks |-> old[c]]
ImplementsBh == Bh!Spec

(* No callback is lost from the lists, and none is on them that was        *)
(* invoked, whatever is posted while the softirq takes its part off.       *)
NothingLost ==
  /\ TypeOK
  /\ \A f \in Flavours : Queued(f) = posted \cap CallbacksOf(f)

(* Every callback is invoked in the end. *)
CallbacksInvoked ==
  \A c \in Callbacks : c \in posted ~> c \notin posted
=============================================================================
