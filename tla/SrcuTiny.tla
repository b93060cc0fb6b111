------------------------------ MODULE SrcuTiny ------------------------------
(***************************************************************************)
(* Tiny SRCU: kernel/rcu/srcutiny.c and include/linux/srcutiny.h.          *)
(*                                                                         *)
(* Readers increment and decrement one of two counters; srcu_read_lock()   *)
(* and srcu_read_unlock() run without preemption on the only CPU, and are  *)
(* one step each.  srcu_drive_gp() is a work item; call_srcu() may be      *)
(* called from an interrupt at any point of it.                            *)
(***************************************************************************)
EXTENDS Integers, Sequences, FiniteSets, Functions

CONSTANTS Readers, Callbacks, None

(* srcu_lock_nesting is a pair of shorts: what a short can count. *)
SHRT_MAX == 32767

ASSUME SrcuAssumption ==
  /\ IsFiniteSet(Readers)
  /\ Cardinality(Readers) <= SHRT_MAX
  /\ None \notin {0, 1}

VARIABLES
  srcu_lock_nesting,
  srcu_idx,
  srcu_gp_running,
  srcu_gp_waiting,
  srcu_cb,      \* the callbacks from srcu_cb_head to srcu_cb_tail
  srcu_wq,      \* srcu_drive_gp() is on the wait queue
  work,         \* srcu_work is pending
  pc,           \* where srcu_drive_gp() is
  asleep,       \* its task is not runnable
  idx,          \* its local variables
  lh,
  rd,           \* the index that a reader got from srcu_read_lock()
  kick,         \* callbacks queued by a call_srcu() that has not ended
  posted,       \* history: callbacks that were posted and not invoked
  old           \* history: the readers older than a queued callback

locals == <<pc, asleep, idx, lh>>
vars == <<srcu_lock_nesting, srcu_idx, srcu_gp_running, srcu_gp_waiting, srcu_cb,
          srcu_wq, work, locals, rd, kick, posted, old>>

(* init_srcu_struct_fields() *)
Init ==
  /\ srcu_lock_nesting = [i \in {0, 1} |-> 0]
  /\ srcu_idx = 0
  /\ srcu_gp_running = FALSE
  /\ srcu_gp_waiting = FALSE
  /\ srcu_cb = <<>>
  /\ srcu_wq = FALSE
  /\ work = FALSE
  /\ pc = "idle" /\ asleep = FALSE /\ idx = 0 /\ lh = <<>>
  /\ rd = [r \in Readers |-> None]
  /\ kick = {}
  /\ posted = {}
  /\ old = [c \in Callbacks |-> {}]

Inside == {r \in Readers : rd[r] # None}
Queued == Range(srcu_cb) \cup Range(lh)

ReadLock(r) ==
  /\ rd[r] = None
  /\ rd' = [rd EXCEPT ![r] = srcu_idx]
  /\ srcu_lock_nesting' = [srcu_lock_nesting EXCEPT ![srcu_idx] = @ + 1]
  /\ UNCHANGED <<srcu_idx, srcu_gp_running, srcu_gp_waiting, srcu_cb, srcu_wq, work,
                 locals, kick, posted, old>>

UnlockIdx(r) == rd[r]

(* Mutant: only the last reader of all wakes srcu_drive_gp(). *)
WakesGpIfNoReader(r) == Inside = {r} /\ srcu_gp_waiting
WakesGp(r) == srcu_lock_nesting[UnlockIdx(r)] = 1 /\ srcu_gp_waiting

(* The last reader of its index wakes srcu_drive_gp() when that waits. *)
ReadUnlock(r) ==
  /\ rd[r] # None
  /\ srcu_lock_nesting' = [srcu_lock_nesting EXCEPT ![UnlockIdx(r)] = @ - 1]
  /\ rd' = [rd EXCEPT ![r] = None]
  /\ asleep' = (asleep /\ ~(WakesGp(r) /\ srcu_wq))
  /\ srcu_wq' = (srcu_wq /\ ~WakesGp(r))
  /\ old' = [c \in Callbacks |-> old[c] \ {r}]
  /\ UNCHANGED <<srcu_idx, srcu_gp_running, srcu_gp_waiting, srcu_cb, work,
                 pc, idx, lh, kick, posted>>

(* call_srcu(): queue the callback, then see that the work runs. *)
CallSrcu(c) ==
  /\ c \notin posted /\ c \notin kick
  /\ srcu_cb' = Append(srcu_cb, c)
  /\ kick' = kick \cup {c}
  /\ posted' = posted \cup {c}
  /\ old' = [old EXCEPT ![c] = Inside]
  /\ UNCHANGED <<srcu_lock_nesting, srcu_idx, srcu_gp_running, srcu_gp_waiting,
                 srcu_wq, work, locals, rd>>

CallScheduleWork(c) ==
  /\ c \in kick
  /\ kick' = kick \ {c}
  /\ work' = (work \/ ~srcu_gp_running)
  /\ UNCHANGED <<srcu_lock_nesting, srcu_idx, srcu_gp_running, srcu_gp_waiting, srcu_cb,
                 srcu_wq, locals, rd, posted, old>>

(* srcu_drive_gp() starts, unless it is running or has nothing to do ...   *)
Start ==
  /\ pc = "idle" /\ work
  /\ work' = FALSE
  /\ IF srcu_gp_running \/ srcu_cb = <<>> THEN UNCHANGED <<srcu_gp_running, pc>>
     ELSE srcu_gp_running' = TRUE /\ pc' = "grab"
  /\ UNCHANGED <<srcu_lock_nesting, srcu_idx, srcu_gp_waiting, srcu_cb, srcu_wq,
                 asleep, idx, lh, rd, kick, posted, old>>

(* Mutant: the callbacks are taken with interrupts on, and the head is     *)
(* reset after a call_srcu() at interrupt level added one more.            *)
GrabRacing ==
  /\ pc = "grab"
  /\ \E n \in 0..Len(srcu_cb) : lh' = SubSeq(srcu_cb, 1, n)
  /\ srcu_cb' = <<>>
  /\ pc' = "flip"
  /\ UNCHANGED <<srcu_lock_nesting, srcu_idx, srcu_gp_running, srcu_gp_waiting, srcu_wq,
                 work, asleep, idx, rd, kick, posted, old>>

(* ... takes the callbacks, with interrupts off ...                        *)
Grab ==
  /\ pc = "grab"
  /\ lh' = srcu_cb
  /\ srcu_cb' = <<>>
  /\ pc' = "flip"
  /\ UNCHANGED <<srcu_lock_nesting, srcu_idx, srcu_gp_running, srcu_gp_waiting, srcu_wq,
                 work, asleep, idx, rd, kick, posted, old>>

(* Mutant: new readers stay on the index that is waited for. *)
FlipNot ==
  /\ pc = "flip"
  /\ idx' = 1 - srcu_idx
  /\ pc' = "waiting"
  /\ UNCHANGED <<srcu_lock_nesting, srcu_idx, srcu_gp_running, srcu_gp_waiting, srcu_cb,
                 srcu_wq, work, asleep, lh, rd, kick, posted, old>>

(* ... sends new readers to the other index ...                            *)
Flip ==
  /\ pc = "flip"
  /\ idx' = srcu_idx
  /\ srcu_idx' = 1 - srcu_idx
  /\ pc' = "waiting"
  /\ UNCHANGED <<srcu_lock_nesting, srcu_gp_running, srcu_gp_waiting, srcu_cb, srcu_wq,
                 work, asleep, lh, rd, kick, posted, old>>

SetWaiting ==
  /\ pc = "waiting"
  /\ srcu_gp_waiting' = TRUE
  /\ pc' = IF srcu_lock_nesting[idx] = 0 THEN "waited" ELSE "prepare"
  /\ UNCHANGED <<srcu_lock_nesting, srcu_idx, srcu_gp_running, srcu_cb, srcu_wq, work,
                 asleep, idx, lh, rd, kick, posted, old>>

(* ... and waits for the old ones: the loop of swait_event().              *)
PrepareToSwait ==
  /\ pc = "prepare"
  /\ srcu_wq' = TRUE
  /\ asleep' = TRUE
  /\ pc' = "check"
  /\ UNCHANGED <<srcu_lock_nesting, srcu_idx, srcu_gp_running, srcu_gp_waiting, srcu_cb,
                 work, idx, lh, rd, kick, posted, old>>

Check ==
  /\ pc = "check"
  /\ \/ /\ srcu_lock_nesting[idx] = 0
        /\ asleep' = FALSE
        /\ srcu_wq' = FALSE
        /\ pc' = "waited"
     \/ /\ srcu_lock_nesting[idx] # 0
        /\ pc' = "sleep"
        /\ UNCHANGED <<asleep, srcu_wq>>
  /\ UNCHANGED <<srcu_lock_nesting, srcu_idx, srcu_gp_running, srcu_gp_waiting, srcu_cb,
                 work, idx, lh, rd, kick, posted, old>>

Scheduled ==
  /\ pc = "sleep" /\ ~asleep
  /\ pc' = "prepare"
  /\ UNCHANGED <<srcu_lock_nesting, srcu_idx, srcu_gp_running, srcu_gp_waiting, srcu_cb,
                 srcu_wq, work, asleep, idx, lh, rd, kick, posted, old>>

ClearWaiting ==
  /\ pc = "waited"
  /\ srcu_gp_waiting' = FALSE
  /\ pc' = "invoke"
  /\ UNCHANGED <<srcu_lock_nesting, srcu_idx, srcu_gp_running, srcu_cb, srcu_wq, work,
                 asleep, idx, lh, rd, kick, posted, old>>

(* rhp->func(rhp), the callbacks in their order. *)
Invoke(c) ==
  /\ pc = "invoke" /\ lh # <<>> /\ c = Head(lh)
  /\ lh' = Tail(lh)
  /\ posted' = posted \ {c}
  /\ UNCHANGED <<srcu_lock_nesting, srcu_idx, srcu_gp_running, srcu_gp_waiting, srcu_cb,
                 srcu_wq, work, pc, asleep, idx, rd, kick, old>>

ClearRunning ==
  /\ pc = "invoke" /\ lh = <<>>
  /\ srcu_gp_running' = FALSE
  /\ pc' = "again"
  /\ UNCHANGED <<srcu_lock_nesting, srcu_idx, srcu_gp_waiting, srcu_cb, srcu_wq, work,
                 asleep, idx, lh, rd, kick, posted, old>>

(* Callbacks have come in the meantime: reschedule the work. *)
Again ==
  /\ pc = "again"
  /\ work' = (work \/ srcu_cb # <<>>)
  /\ pc' = "idle"
  /\ UNCHANGED <<srcu_lock_nesting, srcu_idx, srcu_gp_running, srcu_gp_waiting, srcu_cb,
                 srcu_wq, asleep, idx, lh, rd, kick, posted, old>>

(* A wakeup of the worker that has nothing to do with SRCU. *)
StrayWakeup ==
  /\ asleep
  /\ asleep' = FALSE
  /\ UNCHANGED <<srcu_lock_nesting, srcu_idx, srcu_gp_running, srcu_gp_waiting, srcu_cb,
                 srcu_wq, work, pc, idx, lh, rd, kick, posted, old>>

DriveGp ==
  \/ Start \/ Grab \/ Flip \/ SetWaiting \/ PrepareToSwait \/ Check \/ Scheduled
  \/ ClearWaiting \/ ClearRunning \/ Again \/ \E c \in Callbacks : Invoke(c)

Next ==
  \/ \E r \in Readers : ReadLock(r) \/ ReadUnlock(r)
  \/ \E c \in Callbacks : CallSrcu(c) \/ CallScheduleWork(c)
  \/ DriveGp \/ StrayWakeup

Spec == Init /\ [][Next]_vars

(* The worker and the callers keep running, and critical sections end. *)
FairSpec ==
  /\ Spec
  /\ WF_vars(DriveGp)
  /\ \A r \in Readers : WF_vars(ReadUnlock(r))
  /\ \A c \in Callbacks : WF_vars(CallScheduleWork(c))
-----------------------------------------------------------------------------
(* Types. *)
TypeOK ==
  /\ srcu_lock_nesting \in [{0, 1} -> 0 .. SHRT_MAX]
  /\ srcu_idx \in {0, 1}
  /\ srcu_gp_running \in BOOLEAN
  /\ srcu_gp_waiting \in BOOLEAN
  /\ srcu_cb \in Seq(Callbacks)
  /\ srcu_wq \in BOOLEAN
  /\ work \in BOOLEAN
  /\ pc \in {"idle", "grab", "flip", "waiting", "prepare", "check", "sleep", "waited",
             "invoke", "again"}
  /\ asleep \in BOOLEAN
  /\ idx \in {0, 1}
  /\ lh \in Seq(Callbacks)
  /\ rd \in [Readers -> {0, 1, None}]
  /\ kick \in SUBSET Callbacks
  /\ posted \in SUBSET Callbacks
  /\ old \in [Callbacks -> SUBSET Readers]

(* The grace period: while srcu_drive_gp() invokes callbacks, no reader    *)
(* that is older than one of them is left.  One flip of the index is       *)
(* enough for that.                                                        *)
CallbacksAreSafe ==
  pc = "invoke" => \A i \in DOMAIN lh : old[lh[i]] = {}

(* Tiny SRCU does what RCU promises. *)
Promise == INSTANCE GracePeriod WITH inside <- Inside
ImplementsGracePeriod == Promise!Spec

(* The lists hold the callbacks that were posted and not invoked, and each *)
(* of them once.                                                           *)
NothingLost ==
  /\ posted = Queued
  /\ IsInjective(srcu_cb) /\ IsInjective(lh)
  /\ Range(srcu_cb) \cap Range(lh) = {}

(* Every callback is invoked in the end, and so every synchronize_srcu()   *)
(* returns, if the critical sections end.                                  *)
CallbacksInvoked == \A c \in Callbacks : c \in posted ~> c \notin posted
=============================================================================
