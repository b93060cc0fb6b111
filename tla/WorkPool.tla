------------------------------ MODULE WorkPool ------------------------------
(***************************************************************************)
(* Work items, a bound workqueue and the worker pool of its CPU, from      *)
(* kernel/workqueue.c.                                                     *)
(*                                                                         *)
(* Everything pool->lock protects is one record q, and a C function that   *)
(* runs under the lock is an operator from q to q.  The lock is taken with *)
(* interrupts off, so on the only CPU nothing else happens while it is     *)
(* held; a worker that keeps it from one work item to the next is the      *)
(* owner in the variable lock.                                             *)
(***************************************************************************)
EXTENDS Integers, SequencesExt

CONSTANTS
  Works,      \* work_structs, each with the timer of a delayed_work
  Callers,    \* tasks that flush and cancel; each has one wq_barrier on its stack
  Workers,    \* kworker threads, the most the pool can create
  Rescuer,    \* wq->rescuer
  None,
  NR_COLORS   \* WORK_NR_COLORS, 15 in the code

(* With two colours an overflow would find flusher_queue empty, and        *)
(* flush_workqueue() would take the list's head for a flusher.             *)
ASSUME WorkPoolAssumption == NR_COLORS \in Nat /\ NR_COLORS > 2

VARIABLES
  q,     \* what pool->lock protects
  lock,  \* the thread that holds pool->lock between two steps, or None
  pc,    \* where the thread is in the code
  owed   \* history: of each caller, the executions it must wait for

Threads == Workers \cup {Rescuer}
Items == Works \cup Callers     \* a caller stands for its barrier
Colors == 0 .. NR_COLORS - 1
NoColor == NR_COLORS
NextColor(c) == (c + 1) % NR_COLORS

Lists == {"worklist", "delayed_works"} \cup Threads   \* a thread names its ->scheduled

(* The workqueue wq has attributes attr; the first worker is idle. *)
PoolInit(attr, first) ==
  [list |-> [l \in Lists |-> <<>>],
   idle_list |-> <<first>>,
   woken |-> {},            \* idle threads that were woken
   manager |-> None,
   nr_running |-> 0,
   nr_active |-> 0,
   nr_in_flight |-> [c \in Colors |-> 0],
   work_color |-> 0,        \* of the pwq
   flush_color |-> -1,      \* of the pwq
   nr_pwqs_to_flush |-> 0,
   first_flusher |-> None,
   mayday |-> FALSE,        \* the pwq is on wq->maydays
   data |-> [w \in Works |-> [pending |-> FALSE, at |-> "none", canceling |-> FALSE, color |-> 0]],
   linked |-> [x \in Items |-> FALSE],
   timer |-> {},            \* works whose timer is pending
   current |-> [k \in Threads |-> None],
   color |-> [k \in Threads |-> NoColor],   \* the local work_color
   asleep |-> {},           \* threads that sleep in a work function
   done |-> [c \in Callers |-> FALSE],      \* the completion a caller waits for
   attr |-> attr]           \* max_active, cpu_intensive, mem_reclaim

OnList(s, x) == {l \in Lists : x \in ToSet(s.list[l])}
Queued(s, w) == OnList(s, w) # {}
ColorOf(s, x) == IF x \in Works THEN s.data[x].color ELSE NoColor

-----------------------------------------------------------------------------
(* Policy functions. *)
NeedMoreWorker(s) == s.list["worklist"] # <<>> /\ s.nr_running = 0
MayStartWorking(s) == s.idle_list # <<>>
KeepWorking(s) == s.list["worklist"] # <<>> /\ s.nr_running <= 1
NeedToCreateWorker(s) == NeedMoreWorker(s) /\ ~MayStartWorking(s)

(* too_many_workers() when n workers exist. *)
TooManyWorkers(s, n) ==
  LET nr_idle == Len(s.idle_list) + (IF s.manager # None THEN 1 ELSE 0)
  IN nr_idle > 2 /\ (nr_idle - 2) * 4 >= n - nr_idle

WakeUpWorker(s) ==
  IF s.idle_list = <<>> THEN s ELSE [s EXCEPT !.woken = @ \cup {Head(s.idle_list)}]

(* idle_list is a stack. *)
EnterIdle(s, k) == [s EXCEPT !.idle_list = <<k>> \o @]
LeaveIdle(s, k) == [s EXCEPT !.idle_list = Remove(@, k), !.woken = @ \ {k}]

(* A worker with a flag of WORKER_NOT_RUNNING is not counted. *)
Counted(s, k) == k \in Workers /\ ~(s.attr.cpu_intensive /\ s.current[k] # None)

-----------------------------------------------------------------------------
(* move_linked_works(): x, on list l, and all that is linked behind it. *)
MoveLinkedWorks(s, x, l, to) ==
  LET here == s.list[l]
      i == SelectInSeq(here, LAMBDA y : y = x)
      n == SelectInSeq(SubSeq(here, i, Len(here)), LAMBDA y : ~s.linked[y])
      run == SubSeq(here, i, i + n - 1)
  IN [s EXCEPT !.list = [@ EXCEPT ![l] = SubSeq(here, 1, i - 1) \o SubSeq(here, i + n, Len(here)),
                                  ![to] = @ \o run]]

(* pwq_activate_delayed_work() *)
Activate(s, x) ==
  [MoveLinkedWorks(s, x, "delayed_works", "worklist") EXCEPT !.nr_active = @ + 1]

SubmitDelayed(s) ==
  IF s.list["delayed_works"] # <<>> /\ s.nr_active < s.attr.max_active
  THEN Activate(s, Head(s.list["delayed_works"])) ELSE s

(* Mutant: the flusher is woken as soon as one work of its colour is done. *)
FlushTipAny(s, c) == s.flush_color = c

(* The flush is in progress and the last work of its colour is gone. *)
FlushTip(s, c) == s.flush_color = c /\ s.nr_in_flight[c] = 0

(* pwq_dec_nr_in_flight(): a work of colour c has completed or was taken   *)
(* off the queue.                                                          *)
DecNrInFlight(s, c) ==
  IF c = NoColor THEN s
  ELSE LET a == SubmitDelayed([s EXCEPT !.nr_in_flight[c] = @ - 1, !.nr_active = @ - 1])
           b == [a EXCEPT !.flush_color = -1, !.nr_pwqs_to_flush = @ - 1]
       IN IF ~FlushTip(a, c) THEN a
          ELSE IF b.nr_pwqs_to_flush = 0 THEN [b EXCEPT !.done[b.first_flusher] = TRUE]
          ELSE b

(* The end of insert_work(). *)
WakeIfNoneRunning(s) == IF s.nr_running = 0 THEN WakeUpWorker(s) ELSE s

(* __queue_work() of w, whose PENDING bit is ours. *)
QueueWork(s, w) ==
  LET a == [s EXCEPT !.nr_in_flight[s.work_color] = @ + 1,
                     !.data[w] = [@ EXCEPT !.at = "pwq", !.color = s.work_color]]
  IN WakeIfNoneRunning(
       IF s.nr_active < s.attr.max_active
       THEN [a EXCEPT !.nr_active = @ + 1, !.list["worklist"] = Append(@, w)]
       ELSE [a EXCEPT !.list["delayed_works"] = Append(@, w)])

SetPending(s, w) == [s EXCEPT !.data[w].pending = TRUE]

(* __queue_delayed_work(), with or without a delay. *)
QueueDelayed(s, w, delay) ==
  IF delay THEN [s EXCEPT !.timer = @ \cup {w}] ELSE QueueWork(s, w)

(* Dequeue w from list l for good: its data word points to the pool. *)
Unqueue(s, w, l) ==
  [s EXCEPT !.list[l] = Remove(@, w), !.linked[w] = FALSE,
            !.data[w] = [@ EXCEPT !.at = "pool", !.color = 0]]

(* Mutant: a work on delayed_works is taken off that list directly. *)
GrabQueuedDirectly(s, w) ==
  LET l == CHOOSE m \in OnList(s, w) : TRUE
  IN DecNrInFlight(Unqueue(s, w, l), s.data[w].color)

(* The part of try_to_grab_pending() for a queued work: one that is        *)
(* delayed is activated first, so that what is linked to it goes on.       *)
GrabQueued(s, w) ==
  LET l == CHOOSE m \in OnList(s, w) : TRUE
      a == IF l = "delayed_works" THEN Activate(s, w) ELSE s
  IN DecNrInFlight(Unqueue(a, w, IF l = "delayed_works" THEN "worklist" ELSE l), s.data[w].color)

(* try_to_grab_pending(): from the timer, idle, or from a list.  Somebody  *)
(* else is cancelling otherwise: -ENOENT.  -EAGAIN needs a second CPU.     *)
CanGrab(s, w) == w \in s.timer \/ ~s.data[w].pending \/ s.data[w].at = "pwq"
Grab(s, w) ==
  IF w \in s.timer THEN [s EXCEPT !.timer = @ \ {w}]
  ELSE IF ~s.data[w].pending THEN SetPending(s, w)
  ELSE GrabQueued(s, w)

(* find_worker_executing_work() *)
Executing(s, x) == {k \in Threads : s.current[k] = x}

(* insert_wq_barrier() behind w that is queued: linked to it, in front of  *)
(* what was linked to it before.                                           *)
BarrierAfter(s, c, w) ==
  LET l == CHOOSE m \in OnList(s, w) : TRUE
      i == SelectInSeq(s.list[l], LAMBDA y : y = w)
  IN [s EXCEPT !.list[l] = InsertAt(@, i + 1, c),
               !.linked = [@ EXCEPT ![c] = s.linked[w], ![w] = TRUE]]

(* insert_wq_barrier() for a work that thread k executes: it is the next   *)
(* thing k does.                                                           *)
BarrierNext(s, c, k) == [s EXCEPT !.list[k] = <<c>> \o @]

(* Mutant: only a queued work is waited for. *)
HasToFlushQueued(s, w) == s.data[w].at = "pwq"

(* start_flush_work() finds something to wait for, and what it does then.  *)
HasToFlush(s, w) ==
  \/ s.data[w].at = "pwq"
  \/ s.data[w].at = "pool" /\ Executing(s, w) # {}
StartFlushWork(s, c, w) ==
  WakeIfNoneRunning(
    IF s.data[w].at = "pwq" THEN BarrierAfter(s, c, w)
    ELSE BarrierNext(s, c, CHOOSE k \in Executing(s, w) : TRUE))

-----------------------------------------------------------------------------
(* The executions that exist: of w as it is queued, and as it runs. *)
Instances(s) ==
  {<<w, "queued">> : w \in {v \in Works : Queued(s, v)}} \cup
  {<<w, "running">> : w \in {v \in Works : Executing(s, v) # {}}}

(* A queued w is dequeued and runs, or is cancelled; a running one ends.   *)
OwedStarts(x) ==
  owed' = [c \in Callers |->
    IF <<x, "queued">> \in owed[c]
    THEN (owed[c] \ {<<x, "queued">>}) \cup {<<x, "running">>} ELSE owed[c]]
OwedLess(x, what) == owed' = [c \in Callers |-> owed[c] \ {<<x, what>>}]

(* Mutant: nobody looks whether the work is still running elsewhere. *)
CollisionIgnored(s, x) == {}

Collision(s, x) == Executing(s, x)

(* process_one_work() up to the call of the function, for the first work x *)
(* of list l.  A work that another thread is executing is left to it.      *)
ProcessOneWork(k, l) ==
  LET x == Head(q.list[l])
      a == [q EXCEPT !.list[l] = Tail(@), !.linked[x] = FALSE,
                     !.current[k] = x, !.color[k] = ColorOf(q, x)]
      b == IF q.attr.cpu_intensive /\ k \in Workers THEN [a EXCEPT !.nr_running = @ - 1] ELSE a
      c == IF NeedMoreWorker(b) THEN WakeUpWorker(b) ELSE b
  IN IF Collision(q, x) # {} THEN
       /\ q' = MoveLinkedWorks(q, x, l, CHOOSE j \in Collision(q, x) : TRUE)
       /\ UNCHANGED <<lock, pc, owed>>
     ELSE
       /\ q' = IF x \in Works
               THEN [c EXCEPT !.data[x] = [pending |-> FALSE, at |-> "pool",
                                           canceling |-> FALSE, color |-> 0]]
               ELSE c
       /\ lock' = None
       /\ pc' = [pc EXCEPT ![k] = "running"]
       /\ OwedStarts(x)

(* The function of a barrier is complete(). *)
BarrierFunc(k) ==
  /\ lock = None /\ pc[k] = "running" /\ q.current[k] \in Callers
  /\ q' = [q EXCEPT !.done[q.current[k]] = TRUE]
  /\ pc' = [pc EXCEPT ![k] = "ran"]
  /\ UNCHANGED <<lock, owed>>

(* The function returns: the rest of process_one_work(), and the lock is   *)
(* held on to look for more.                                               *)
WorkDone(k) ==
  /\ lock = None /\ k \notin q.asleep
  /\ \/ pc[k] = "ran"
     \/ pc[k] = "running" /\ q.current[k] \in Works
  /\ LET a == IF q.attr.cpu_intensive /\ k \in Workers
              THEN [q EXCEPT !.nr_running = @ + 1] ELSE q
     IN q' = DecNrInFlight([a EXCEPT !.current[k] = None, !.color[k] = NoColor], q.color[k])
  /\ pc' = [pc EXCEPT ![k] = "loop"]
  /\ lock' = k
  /\ OwedLess(q.current[k], "running")

(* Mutant: it looks whether anybody runs before it leaves the count. *)
WorkerSleepingEarly(k) ==
  /\ lock = None /\ pc[k] = "running" /\ q.current[k] \in Works /\ k \notin q.asleep
  /\ LET a == [q EXCEPT !.asleep = @ \cup {k}]
         b == IF NeedMoreWorker(a) THEN WakeUpWorker(a) ELSE a
     IN q' = IF Counted(q, k) THEN [b EXCEPT !.nr_running = @ - 1] ELSE a
  /\ UNCHANGED <<lock, pc, owed>>

(* A work function sleeps: wq_worker_sleeping() wakes another worker if    *)
(* this was the last one running.                                          *)
WorkerSleeping(k) ==
  /\ lock = None /\ pc[k] = "running" /\ q.current[k] \in Works /\ k \notin q.asleep
  /\ LET a == [q EXCEPT !.asleep = @ \cup {k}]
         b == [a EXCEPT !.nr_running = @ - 1]
     IN q' = IF ~Counted(q, k) THEN a
             ELSE IF NeedMoreWorker(b) THEN WakeUpWorker(b) ELSE b
  /\ UNCHANGED <<lock, pc, owed>>

WorkerWakingUp(k) ==
  /\ lock = None /\ k \in q.asleep
  /\ q' = [q EXCEPT !.asleep = @ \ {k},
                    !.nr_running = IF Counted(q, k) THEN @ + 1 ELSE @]
  /\ UNCHANGED <<lock, pc, owed>>

-----------------------------------------------------------------------------
(* worker_thread() from "recheck", for worker k that is not on the idle    *)
(* list in s: sleep again, manage the pool, or start working.              *)
Recheck(s, k) ==
  IF ~NeedMoreWorker(s) THEN
    /\ q' = EnterIdle(s, k) /\ lock' = None
    /\ pc' = [pc EXCEPT ![k] = "idle"]
  ELSE IF ~MayStartWorking(s) /\ s.manager = None THEN
    /\ q' = [s EXCEPT !.manager = k] /\ lock' = None
    /\ pc' = [pc EXCEPT ![k] = "manage"]
  ELSE
    /\ q' = [s EXCEPT !.nr_running = @ + 1] /\ lock' = k
    /\ pc' = [pc EXCEPT ![k] = "loop"]

WokeUp(k) ==
  /\ lock = None /\ pc[k] = "idle" /\ k \in q.woken
  /\ Recheck(LeaveIdle(q, k), k)
  /\ UNCHANGED owed

(* The loop of worker_thread(), with process_scheduled_works(): first what *)
(* is on ->scheduled, then the worklist; in the end the worker goes idle.  *)
WorkerLoop(k) ==
  /\ pc[k] = "loop" /\ lock = k /\ k \in Workers
  /\ \/ /\ q.list[k] # <<>>
        /\ ProcessOneWork(k, k)
     \/ /\ q.list[k] = <<>> /\ KeepWorking(q)
        /\ LET x == Head(q.list["worklist"]) IN
             IF q.linked[x] THEN
               /\ q' = MoveLinkedWorks(q, x, "worklist", k)
               /\ UNCHANGED <<lock, pc, owed>>
             ELSE ProcessOneWork(k, "worklist")
     \/ /\ q.list[k] = <<>> /\ ~KeepWorking(q)
        /\ q' = EnterIdle([q EXCEPT !.nr_running = @ - 1], k)
        /\ lock' = None
        /\ pc' = [pc EXCEPT ![k] = "idle"]
        /\ UNCHANGED owed

(* maybe_create_worker(): n is created, starts idle and is woken.  Or      *)
(* creation keeps failing, until no worker is needed any more.             *)
CreateWorker(k, n) ==
  /\ lock = None /\ pc[k] = "manage" /\ pc[n] = "none"
  /\ q' = [EnterIdle(q, n) EXCEPT !.woken = @ \cup {n}]
  /\ pc' = [pc EXCEPT ![k] = "managed", ![n] = "idle"]
  /\ UNCHANGED <<lock, owed>>

CreationNotNeeded(k) ==
  /\ lock = None /\ pc[k] = "manage" /\ ~NeedToCreateWorker(q)
  /\ pc' = [pc EXCEPT ![k] = "managed"]
  /\ UNCHANGED <<q, lock, owed>>

(* ... and the lock is taken again: the new worker may be busy already.    *)
ManageWorkers(k) ==
  /\ lock = None /\ pc[k] = "managed"
  /\ IF NeedToCreateWorker(q)
     THEN pc' = [pc EXCEPT ![k] = "manage"] /\ UNCHANGED <<q, lock>>
     ELSE Recheck([q EXCEPT !.manager = None], k)
  /\ UNCHANGED owed

(* idle_worker_timeout(): the worker that has been idle longest is told to *)
(* die, and is woken for it.                                               *)
NrWorkers == Cardinality({k \in Workers : pc[k] \notin {"none", "dying"}})
IdleWorkerTimeout ==
  /\ lock = None /\ TooManyWorkers(q, NrWorkers)
  /\ LET k == Last(q.idle_list) IN
       /\ q' = LeaveIdle(q, k)
       /\ pc' = [pc EXCEPT ![k] = "dying"]
  /\ UNCHANGED <<lock, owed>>

WorkerDies(k) ==
  /\ lock = None /\ pc[k] = "dying"
  /\ pc' = [pc EXCEPT ![k] = "none"]
  /\ UNCHANGED <<q, lock, owed>>

-----------------------------------------------------------------------------
(* pool_mayday_timeout(), armed while the manager tries to create a worker *)
MaydayTimeout ==
  /\ lock = None /\ \E k \in Workers : pc[k] \in {"manage", "managed"}
  /\ NeedToCreateWorker(q) /\ q.attr.mem_reclaim /\ ~q.mayday
  /\ q' = [q EXCEPT !.mayday = TRUE, !.woken = @ \cup {Rescuer}]
  /\ UNCHANGED <<lock, pc, owed>>

(* rescuer_thread(): sleep unless the pwq is on wq->maydays, ... *)
RescuerCheck ==
  /\ lock = None /\ pc[Rescuer] = "idle" /\ Rescuer \in q.woken
  /\ q' = [q EXCEPT !.mayday = FALSE, !.woken = IF q.mayday THEN @ ELSE @ \ {Rescuer}]
  /\ pc' = [pc EXCEPT ![Rescuer] = IF q.mayday THEN "attach" ELSE "idle"]
  /\ UNCHANGED <<lock, owed>>

(* ... leave the pool, with a regular worker awake if one is needed, ...   *)
RescuerLeave(s) ==
  /\ q' = IF NeedMoreWorker(s) THEN WakeUpWorker(s) ELSE s
  /\ pc' = [pc EXCEPT ![Rescuer] = "idle"]
  /\ lock' = None

(* ... take over the whole worklist, which is this workqueue's, ...        *)
RescuerSlurp ==
  /\ lock = None /\ pc[Rescuer] = "attach"
  /\ LET all == q.list["worklist"] IN
       IF all = <<>> THEN RescuerLeave(q)
       ELSE /\ q' = [q EXCEPT !.list = [@ EXCEPT ![Rescuer] = all, !["worklist"] = <<>>]]
            /\ pc' = [pc EXCEPT ![Rescuer] = "loop"]
            /\ lock' = Rescuer
  /\ UNCHANGED owed

(* ... and process it; if that has made more work, come again.             *)
RescuerLoop ==
  /\ pc[Rescuer] = "loop" /\ lock = Rescuer
  /\ \/ /\ q.list[Rescuer] # <<>>
        /\ ProcessOneWork(Rescuer, Rescuer)
     \/ /\ q.list[Rescuer] = <<>>
        /\ RescuerLeave(IF NeedToCreateWorker(q) THEN [q EXCEPT !.mayday = TRUE] ELSE q)
        /\ UNCHANGED owed

(* The steps of the threads themselves. *)
WorkerStep(k) ==
  \/ WokeUp(k) \/ WorkerLoop(k) \/ WorkDone(k) \/ BarrierFunc(k) \/ WorkerWakingUp(k)
  \/ CreationNotNeeded(k) \/ ManageWorkers(k) \/ WorkerDies(k)

RescuerStep ==
  \/ RescuerCheck \/ RescuerSlurp \/ RescuerLoop
  \/ WorkDone(Rescuer) \/ BarrierFunc(Rescuer) \/ WorkerWakingUp(Rescuer)
=============================================================================
