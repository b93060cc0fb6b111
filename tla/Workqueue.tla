------------------------------ MODULE Workqueue ------------------------------
(***************************************************************************)
(* What tasks and interrupts do with a workqueue: queue, delay, modify and *)
(* cancel works, wait for one work, for all that were queued, or for the   *)
(* workqueue to be empty.  On one CPU a bound workqueue has one pwq.       *)
(***************************************************************************)
EXTENDS WorkPool

CONSTANT Uses   \* the ways in which the workqueue is set up and used

(* A delayed work whose timer ends while the workqueue is drained would be *)
(* refused with a WARN_ON_ONCE(), so nobody does that.                     *)
ASSUME WorkqueueAssumption ==
  \A u \in Uses : "delay" \in u.env => \A c \in Callers : "drain" \notin u.calls[c]

VARIABLES
  use,           \* one of Uses, chosen in the beginning
  wq,            \* what wq->mutex protects, and the mutex itself
  call,          \* the call each caller is in, with its local variables
  cancel_waitq   \* the callers that wait for another one's cancellation

vars == <<q, lock, pc, owed, use, wq, call, cancel_waitq>>

NoCall == [pc |-> "idle", work |-> None, color |-> -1, drain |-> FALSE,
           prep |-> None, wait |-> FALSE, asleep |-> FALSE, void |-> FALSE]

Init ==
  /\ use \in Uses
  /\ \E first \in Workers :
       /\ q = PoolInit(use.attr, first)
       /\ pc = [k \in Threads |-> IF k \in {first, Rescuer} THEN "idle" ELSE "none"]
  /\ lock = None
  /\ owed = [c \in Callers |-> {}]
  /\ wq = [work_color |-> 0, flush_color |-> 0, flusher_queue |-> <<>>,
           flusher_overflow |-> <<>>, mutex |-> None, nr_drainers |-> 0]
  /\ call = [c \in Callers |-> NoCall]
  /\ cancel_waitq = <<>>

-----------------------------------------------------------------------------
(* From any context: queue_work_on(), queue_delayed_work_on(),             *)
(* mod_delayed_work_on(), cancel_delayed_work() and the timer.             *)

(* History: when w is taken off the queue, so is what the barriers behind  *)
(* it wait for.                                                            *)
Voided(w) ==
  [c \in Callers |-> [call[c] EXCEPT
     !.void = @ \/ (call[c].pc = "flush_wait" /\ call[c].work = w /\ Queued(q, w))]]

(* While a drain is in progress only a work of the workqueue may queue.    *)
MayQueue ==
  \/ wq.nr_drainers = 0
  \/ \E k \in Threads : pc[k] = "running" /\ k \notin q.asleep /\ q.current[k] \in Works

Queue(w) ==
  /\ lock = None /\ w \in use.works /\ ~q.data[w].pending /\ MayQueue
  /\ \E delay \in BOOLEAN :
       /\ delay => "delay" \in use.env
       /\ q' = QueueDelayed(SetPending(q, w), w, delay)
  /\ UNCHANGED <<lock, pc, owed, use, wq, call, cancel_waitq>>

ModDelayedWork(w) ==
  /\ "mod" \in use.env /\ lock = None /\ CanGrab(q, w) /\ MayQueue
  /\ \E delay \in BOOLEAN : q' = QueueDelayed(Grab(q, w), w, delay)
  /\ call' = Voided(w) /\ OwedLess(w, "queued")
  /\ UNCHANGED <<lock, pc, use, wq, cancel_waitq>>

CancelWork(w) ==
  /\ "cancel" \in use.env /\ lock = None /\ q.data[w].pending /\ CanGrab(q, w)
  /\ q' = [Grab(q, w) EXCEPT !.data[w].pending = FALSE]
  /\ call' = Voided(w) /\ OwedLess(w, "queued")
  /\ UNCHANGED <<lock, pc, use, wq, cancel_waitq>>

DelayedWorkTimerFn(w) ==
  /\ lock = None /\ w \in q.timer
  /\ q' = QueueWork([q EXCEPT !.timer = @ \ {w}], w)
  /\ UNCHANGED <<lock, pc, owed, use, wq, call, cancel_waitq>>

-----------------------------------------------------------------------------
Goto(c, l) == call' = [call EXCEPT ![c].pc = l]

(* A task of the kernel runs, with no pool->lock held. *)
At(c, l) == lock = None /\ call[c].pc = l
MayCall(c, what) == At(c, "idle") /\ what \in use.calls[c]

Return(c) ==
  /\ At(c, "return")
  /\ call' = [call EXCEPT ![c] = NoCall]
  /\ owed' = [owed EXCEPT ![c] = {}]
  /\ UNCHANGED <<q, lock, pc, use, wq, cancel_waitq>>

(* flush_work(), and flush_delayed_work(), which queues a delayed work     *)
(* at once.                                                                *)
FlushWork(c, w) ==
  /\ MayCall(c, "flush_work")
  /\ call' = [call EXCEPT ![c] = [@ EXCEPT !.pc = "flush", !.work = w]]
  /\ q' = IF w \in q.timer THEN QueueWork([q EXCEPT !.timer = @ \ {w}], w) ELSE q
  /\ UNCHANGED <<lock, pc, owed, use, wq, cancel_waitq>>

(* start_flush_work(), for cancel_work_sync() too.  The caller must wait   *)
(* for all of its work that is queued or running now.                      *)
StartFlush(c) ==
  LET w == call[c].work
      there == call[c].pc = "flush"
  IN
  /\ lock = None /\ call[c].pc \in {"flush", "cancel_flush"}
  /\ owed' = [owed EXCEPT ![c] = {i \in Instances(q) : i[1] = w}]
  /\ IF HasToFlush(q, w)
     THEN q' = StartFlushWork(q, c, w) /\ Goto(c, IF there THEN "flush_wait" ELSE "cancel_wait")
     ELSE Goto(c, IF there THEN "return" ELSE "clear") /\ UNCHANGED q
  /\ UNCHANGED <<lock, pc, use, wq, cancel_waitq>>

FlushWait(c) ==
  /\ lock = None /\ call[c].pc \in {"flush_wait", "cancel_wait"} /\ q.done[c]
  /\ q' = [q EXCEPT !.done[c] = FALSE]
  /\ Goto(c, IF call[c].pc = "flush_wait" THEN "return" ELSE "clear")
  /\ UNCHANGED <<lock, pc, owed, use, wq, cancel_waitq>>

-----------------------------------------------------------------------------
(* cancel_work_sync() and cancel_delayed_work_sync(): own the PENDING bit, *)
(* mark the work so that nobody else tries, ...                            *)
CancelWorkSync(c, w) ==
  /\ MayCall(c, "cancel_sync")
  /\ call' = [call EXCEPT ![c] = [@ EXCEPT !.pc = "grab", !.work = w]]
  /\ UNCHANGED <<q, lock, pc, owed, use, wq, cancel_waitq>>

CancelGrab(c) ==
  LET w == call[c].work IN
  /\ At(c, "grab")
  /\ \/ /\ CanGrab(q, w)
        /\ q' = [Grab(q, w) EXCEPT !.data[w].canceling = TRUE]
        /\ call' = [Voided(w) EXCEPT ![c].pc = "cancel_flush"]
        /\ OwedLess(w, "queued")
     \/ /\ ~CanGrab(q, w)
        /\ Goto(c, "prepare")
        /\ UNCHANGED <<q, owed>>
  /\ UNCHANGED <<lock, pc, use, wq, cancel_waitq>>

(* ... or wait for the one who has: prepare_to_wait_exclusive(), look      *)
(* again, schedule(), finish_wait(), try again; ...                        *)
CancelPrepare(c) ==
  /\ At(c, "prepare")
  /\ cancel_waitq' = Append(cancel_waitq, c)
  /\ call' = [call EXCEPT ![c] = [@ EXCEPT !.pc = "check", !.asleep = TRUE]]
  /\ UNCHANGED <<q, lock, pc, owed, use, wq>>

FinishWait(c) ==
  /\ call' = [call EXCEPT ![c] = [@ EXCEPT !.pc = "grab", !.asleep = FALSE]]
  /\ cancel_waitq' = Remove(cancel_waitq, c)

StillCanceling(c) == q.data[call[c].work].canceling

CancelCheck(c) ==
  /\ At(c, "check")
  /\ IF StillCanceling(c)
     THEN Goto(c, "sleep") /\ UNCHANGED cancel_waitq
     ELSE FinishWait(c)
  /\ UNCHANGED <<q, lock, pc, owed, use, wq>>

CancelWoken(c) ==
  /\ At(c, "sleep") /\ ~call[c].asleep
  /\ FinishWait(c)
  /\ UNCHANGED <<q, lock, pc, owed, use, wq>>

(* ... in the end clear_work_data(), and wake one who waits for this work. *)
CancelClear(c) ==
  LET w == call[c].work
      i == SelectInSeq(cancel_waitq, LAMBDA d : call[d].work = w)
  IN
  /\ At(c, "clear")
  /\ q' = [q EXCEPT !.data[w] = [pending |-> FALSE, at |-> "none", canceling |-> FALSE, color |-> 0]]
  /\ call' = [d \in Callers |->
       IF d = c THEN [call[d] EXCEPT !.pc = "return"]
       ELSE IF i # 0 /\ d = cancel_waitq[i] THEN [call[d] EXCEPT !.asleep = FALSE]
       ELSE call[d]]
  /\ cancel_waitq' = IF i = 0 THEN cancel_waitq ELSE RemoveAt(cancel_waitq, i)
  /\ UNCHANGED <<lock, pc, owed, use, wq>>

-----------------------------------------------------------------------------
(* flush_workqueue().  A step that is about to call                        *)
(* flush_workqueue_prep_pwqs() leaves in prep what for: "first" and "next" *)
(* arm the pwq with the colour to flush, "first" and "queue" and           *)
(* "overflow" advance its work_color.                                      *)
Prep(c, what) == [call[c] EXCEPT !.pc = "prep", !.prep = what]

(* The start: take a colour and become the first flusher or queue behind   *)
(* it; without a free colour go to flusher_overflow.                       *)
FlushWorkqueue(c) ==
  LET next == NextColor(wq.work_color) IN
  /\ At(c, "flush_all") /\ wq.mutex = None
  /\ owed' = [owed EXCEPT ![c] = Instances(q)]
  /\ \/ /\ next # wq.flush_color /\ q.first_flusher = None
        /\ wq' = [wq EXCEPT !.mutex = c, !.work_color = next]
        /\ call' = [call EXCEPT ![c] = [Prep(c, "first") EXCEPT !.color = wq.work_color]]
        /\ q' = [q EXCEPT !.first_flusher = c]
     \/ /\ next # wq.flush_color /\ q.first_flusher # None
        /\ wq' = [wq EXCEPT !.mutex = c, !.work_color = next, !.flusher_queue = Append(@, c)]
        /\ call' = [call EXCEPT ![c] = [Prep(c, "queue") EXCEPT !.color = wq.work_color]]
        /\ UNCHANGED q
     \/ /\ next = wq.flush_color
        /\ wq' = [wq EXCEPT !.flusher_overflow = Append(@, c)]
        /\ Goto(c, "flush_all_wait")
        /\ UNCHANGED q
  /\ UNCHANGED <<lock, pc, use, cancel_waitq>>

(* flush_workqueue_prep_pwqs(), with pool->lock.  nr_pwqs_to_flush starts  *)
(* at one, for this function.                                              *)
PrepPwqs(c) ==
  LET what == call[c].prep
      arm == what \in {"first", "next"}
      wait == arm /\ q.nr_in_flight[wq.flush_color] # 0
      a == IF arm THEN [q EXCEPT !.nr_pwqs_to_flush = IF wait THEN 2 ELSE 1] ELSE q
      b == IF wait THEN [a EXCEPT !.flush_color = wq.flush_color] ELSE a
  IN
  /\ At(c, "prep")
  /\ q' = IF what # "next" THEN [b EXCEPT !.work_color = wq.work_color] ELSE b
  /\ call' = [call EXCEPT ![c] = [@ EXCEPT !.pc = "prepped", !.wait = wait]]
  /\ UNCHANGED <<lock, pc, owed, use, wq, cancel_waitq>>

(* Where a flusher goes on, without wq->mutex. *)
Unlocked(c, l) == [call[c] EXCEPT !.pc = l, !.prep = None, !.wait = FALSE]
FlushReturns(c) ==
  [Unlocked(c, IF call[c].drain THEN "drain" ELSE "return") EXCEPT !.color = -1]

(* The next flusher becomes the first. *)
NextFlusher(s, queue) == [s EXCEPT !.first_flusher = Head(queue)]

(* The end of flush_workqueue_prep_pwqs(), and what its caller does then. *)
PrepEnd(c) ==
  LET what == call[c].prep
      wait == call[c].wait
      a == IF what \in {"first", "next"} THEN [q EXCEPT !.nr_pwqs_to_flush = @ - 1] ELSE q
      s == IF what \in {"first", "next"} /\ a.nr_pwqs_to_flush = 0
           THEN [a EXCEPT !.done[a.first_flusher] = TRUE] ELSE a
      unlocked == [wq EXCEPT !.mutex = None]
  IN
  /\ At(c, "prepped")
  /\ \/ /\ what = "first" /\ ~wait      \* nothing to flush
        /\ q' = [s EXCEPT !.first_flusher = None, !.done[c] = FALSE]
        /\ wq' = [unlocked EXCEPT !.flush_color = NextColor(@)]
        /\ call' = [call EXCEPT ![c] = FlushReturns(c)]
     \/ /\ what = "queue" \/ (what = "first" /\ wait)
        /\ q' = s /\ wq' = unlocked
        /\ call' = [call EXCEPT ![c] = Unlocked(c, "flush_all_wait")]
     \/ /\ what = "overflow"
        /\ q' = NextFlusher(s, wq.flusher_queue)
        /\ wq' = [wq EXCEPT !.flusher_queue = Tail(@)]
        /\ call' = [call EXCEPT ![c] = Prep(c, "next")]
     \/ /\ what = "next" /\ wait
        /\ q' = s /\ wq' = unlocked
        /\ call' = [call EXCEPT ![c] = FlushReturns(c)]
     \/ /\ what = "next" /\ ~wait       \* this colour is already done
        /\ q' = s /\ wq' = wq
        /\ call' = [call EXCEPT ![c] = Unlocked(c, "again")]
  /\ UNCHANGED <<lock, pc, owed, use, cancel_waitq>>

(* wait_for_completion().  Only the first flusher has more to do. *)
FlushAllWait(c) ==
  /\ At(c, "flush_all_wait") /\ q.done[c]
  /\ q' = [q EXCEPT !.done[c] = FALSE]
  /\ call' = [call EXCEPT ![c] = IF q.first_flusher = c THEN Unlocked(c, "cascade_lock")
                                 ELSE FlushReturns(c)]
  /\ UNCHANGED <<lock, pc, owed, use, wq, cancel_waitq>>

(* It looks again with the mutex held: the previous first flusher may just *)
(* have found the colour done and gone on in its place.                    *)
CascadeLock(c) ==
  /\ \/ At(c, "cascade_lock") /\ wq.mutex = None
     \/ At(c, "again")
  /\ IF call[c].pc = "again" \/ q.first_flusher = c
     THEN /\ q' = [q EXCEPT !.first_flusher = None]
          /\ wq' = [wq EXCEPT !.mutex = c]
          /\ Goto(c, "cascade")
     ELSE /\ call' = [call EXCEPT ![c] = FlushReturns(c)]
          /\ UNCHANGED <<q, wq>>
  /\ UNCHANGED <<lock, pc, owed, use, cancel_waitq>>

(* Mutant: flushers of other colours are completed as well. *)
SameColorAll(queue) == Len(queue)

(* How many at the head of the queue wait for the colour just flushed. *)
SameColor(queue) ==
  LET i == SelectInSeq(queue, LAMBDA d : call[d].color # wq.flush_color)
  IN IF i = 0 THEN Len(queue) ELSE i - 1

(* One round of the cascade: complete who waits for the same colour, free  *)
(* the colour and give it to the overflowed flushers, or go on with the    *)
(* next flusher.                                                           *)
Cascade(c) ==
  LET n == SameColor(wq.flusher_queue)
      rest == SubSeq(wq.flusher_queue, n + 1, Len(wq.flusher_queue))
      over == wq.flusher_overflow
      s == [q EXCEPT !.done = [d \in Callers |->
              q.done[d] \/ d \in ToSet(SubSeq(wq.flusher_queue, 1, n))]]
      next == NextColor(wq.flush_color)
  IN
  /\ At(c, "cascade")
  /\ \/ /\ over # <<>>
        /\ q' = s
        /\ wq' = [wq EXCEPT !.flush_color = next, !.work_color = NextColor(@),
                            !.flusher_queue = rest \o over, !.flusher_overflow = <<>>]
        /\ call' = [d \in Callers |->
             IF d = c THEN Prep(c, "overflow")
             ELSE IF d \in ToSet(over) THEN [call[d] EXCEPT !.color = wq.work_color] ELSE call[d]]
     \/ /\ over = <<>> /\ rest = <<>>
        /\ q' = s
        /\ wq' = [wq EXCEPT !.flush_color = next, !.flusher_queue = <<>>, !.mutex = None]
        /\ call' = [call EXCEPT ![c] = FlushReturns(c)]
     \/ /\ over = <<>> /\ rest # <<>>
        /\ q' = NextFlusher(s, rest)
        /\ wq' = [wq EXCEPT !.flush_color = next, !.flusher_queue = Tail(rest)]
        /\ call' = [call EXCEPT ![c] = Prep(c, "next")]
  /\ UNCHANGED <<lock, pc, owed, use, cancel_waitq>>

-----------------------------------------------------------------------------
FlushAll(c) ==
  /\ MayCall(c, "flush_workqueue")
  /\ Goto(c, "flush_all")
  /\ UNCHANGED <<q, lock, pc, owed, use, wq, cancel_waitq>>

(* drain_workqueue(): flush until the workqueue is found empty. *)
DrainWorkqueue(c) ==
  /\ MayCall(c, "drain") /\ wq.mutex = None
  /\ wq' = [wq EXCEPT !.nr_drainers = @ + 1]
  /\ call' = [call EXCEPT ![c] = [@ EXCEPT !.pc = "flush_all", !.drain = TRUE]]
  /\ UNCHANGED <<q, lock, pc, owed, use, cancel_waitq>>

Drained(s) == s.nr_active = 0 /\ s.list["delayed_works"] = <<>>

DrainCheck(c) ==
  /\ At(c, "drain") /\ wq.mutex = None
  /\ IF Drained(q)
     THEN /\ wq' = [wq EXCEPT !.nr_drainers = @ - 1]
          /\ owed' = [owed EXCEPT ![c] = Instances(q)]
          /\ Goto(c, "return")
     ELSE /\ Goto(c, "flush_all") /\ UNCHANGED <<wq, owed>>
  /\ UNCHANGED <<q, lock, pc, use, cancel_waitq>>

-----------------------------------------------------------------------------
CallerStep(c) ==
  \/ Return(c) \/ StartFlush(c) \/ FlushWait(c)
  \/ CancelGrab(c) \/ CancelPrepare(c) \/ CancelCheck(c) \/ CancelWoken(c) \/ CancelClear(c)
  \/ FlushWorkqueue(c) \/ PrepPwqs(c) \/ PrepEnd(c) \/ FlushAllWait(c)
  \/ CascadeLock(c) \/ Cascade(c) \/ DrainCheck(c)

PoolStep ==
  /\ \/ \E k \in Workers :
          \/ WorkerStep(k)
          \/ \E n \in Workers : NrWorkers < use.workers /\ CreateWorker(k, n)
     \/ RescuerStep
     \/ \E k \in Threads : "sleep" \in use.env /\ WorkerSleeping(k)
     \/ IdleWorkerTimeout
     \/ MaydayTimeout
  /\ UNCHANGED <<use, wq, call, cancel_waitq>>

Next ==
  \/ PoolStep
  \/ \E w \in Works : Queue(w) \/ ModDelayedWork(w) \/ CancelWork(w) \/ DelayedWorkTimerFn(w)
  \/ \E c \in Callers :
       \/ CallerStep(c) \/ FlushAll(c) \/ DrainWorkqueue(c)
       \/ \E w \in Works : FlushWork(c, w) \/ CancelWorkSync(c, w)

Spec == Init /\ [][Next]_vars

-----------------------------------------------------------------------------
(* The works in flight: queued or running, with the colour they carry. *)
InFlight(c) ==
  Cardinality({w \in Works : Queued(q, w) /\ q.data[w].color = c})
  + Cardinality({k \in Threads : q.current[k] \in Works /\ q.color[k] = c})

(* Who is responsible for the PENDING bit of w: a list, the timer, or who  *)
(* cancels it.                                                             *)
Owners(w) ==
  OnList(q, w) \cup {"timer" : v \in {w} \cap q.timer} \cup
  {c \in Callers : call[c].work = w /\ call[c].pc \in {"cancel_flush", "cancel_wait", "clear"}}

(* PENDING has exactly one owner, and the counts that the pool decides by  *)
(* are exact: works in flight by colour, active works, running workers.    *)
Accounting ==
  /\ \A w \in Works :
       /\ Cardinality(Owners(w)) = IF q.data[w].pending THEN 1 ELSE 0
       /\ Queued(q, w) <=> q.data[w].at = "pwq"
  /\ \A c \in Colors : q.nr_in_flight[c] = InFlight(c)
  /\ q.nr_active = FoldSet(LAMBDA c, n : n + InFlight(c), 0, Colors)
                   - Cardinality(Works \cap ToSet(q.list["delayed_works"]))
  /\ q.nr_active <= q.attr.max_active
  /\ q.list["delayed_works"] # <<>> => q.nr_active = q.attr.max_active
  /\ q.nr_running = Cardinality({k \in Workers :
       pc[k] \in {"loop", "running", "ran"} /\ k \notin q.asleep /\ Counted(q, k)})

(* A work never runs on two threads at a time. *)
NonReentrant == \A w \in Works : Cardinality(Executing(q, w)) <= 1

(* flush_work(): "@work is guaranteed to be idle on return if it hasn't    *)
(* been requeued since flush started."                                     *)
FlushedIsIdle == \A c \in Callers : call[c].pc = "return" => owed[c] = {}

(* flush_work(), flush_workqueue() and drain_workqueue() return only when  *)
(* what was queued or running as they began has run or was cancelled;      *)
(* flush_work() also when somebody cancels the work its barrier is behind. *)
FlushWaits ==
  \A c \in Callers :
    call[c].pc \in {"return", "clear"} /\ ~call[c].void => owed[c] = {}

(* When cancel_work_sync() gives the work back, it is neither queued, on   *)
(* its timer nor running, and nobody could queue it meanwhile.  Who sleeps *)
(* until another one has cancelled the work is not forgotten: there is one *)
(* that cancels it, or is about to try.                                    *)
CancelSync ==
  \A c \in Callers :
    LET w == call[c].work IN
    /\ call[c].pc = "clear" =>
         /\ ~Queued(q, w) /\ w \notin q.timer /\ Executing(q, w) = {}
         /\ q.data[w].canceling /\ q.data[w].pending
    /\ call[c].pc = "sleep" /\ call[c].asleep =>
         \E d \in Callers :
           /\ call[d].work = w
           /\ \/ call[d].pc \in {"grab", "prepare", "check", "cancel_flush", "cancel_wait", "clear"}
              \/ call[d].pc = "sleep" /\ ~call[d].asleep

(* The colours of the flushers, of the workqueue and of its pwq agree: no  *)
(* WARN_ON_ONCE() of flush_workqueue() or flush_workqueue_prep_pwqs() is   *)
(* ever hit.                                                               *)
NoWarning ==
  LET next == NextColor(wq.work_color)
  IN
  /\ wq.mutex = None =>
       /\ next # wq.flush_color => wq.flusher_overflow = <<>>
       /\ q.first_flusher = None => wq.flush_color = wq.work_color
       /\ q.first_flusher # None /\ next # wq.flush_color => wq.flush_color # wq.work_color
  /\ \A c \in Callers :
       /\ call[c].pc = "cascade_lock" /\ wq.mutex = None /\ q.first_flusher = c =>
            wq.flush_color = call[c].color
       /\ call[c].pc = "cascade" =>
            (wq.flusher_overflow # <<>> => wq.flush_color = next)
       /\ call[c].pc = "prep" =>
            /\ call[c].prep \in {"first", "next"} => q.nr_pwqs_to_flush = 0 /\ q.flush_color = -1
            /\ call[c].prep # "next" => wq.work_color = NextColor(q.work_color)
            /\ call[c].prep = "next" =>
                 wq.flush_color = call[q.first_flusher].color /\ wq.flush_color # wq.work_color

(* Workers do not lie around while there is work: if nobody runs, an idle  *)
(* one was woken, or the pool is being managed.  This is so if no work is  *)
(* taken off the queue: what try_to_grab_pending() moves to the worklist   *)
(* wakes nobody.                                                           *)
NoStall ==
  LET cancels == {"cancel", "mod", "cancel_sync"} \cap
                 (use.env \cup UNION {use.calls[c] : c \in Callers})
  IN lock = None /\ NeedMoreWorker(q) /\ cancels = {} =>
       \/ \E k \in Workers : pc[k] = "idle" /\ k \in q.woken
       \/ \E k \in Workers : pc[k] \in {"manage", "managed"}
=============================================================================
