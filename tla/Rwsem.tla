-------------------------------- MODULE Rwsem --------------------------------
(***************************************************************************)
(* The reader/writer semaphore of kernel/locking/rwsem-xadd.c, with the    *)
(* x86 fast paths of arch/x86/include/asm/rwsem.h.                         *)
(*                                                                         *)
(* sem->count is changed by single atomic instructions outside any lock,   *)
(* and by the slow paths under sem->wait_lock.  The latter run with        *)
(* interrupts off on the only CPU, so each is one action; between two      *)
(* actions of a task any other task may take steps.                        *)
(***************************************************************************)
EXTENDS List

CONSTANTS
  Tasks,
  B       \* RWSEM_ACTIVE_MASK + 1, 2^32 in the code

ASSUME RwsemAssumption == IsFiniteSet(Tasks) /\ B \in Nat /\ B > Cardinality(Tasks)

VARIABLES
  count,      \* sem->count
  wait_list,  \* sem->wait_list, who waits and for what ("R" or "W")
  task,       \* waiter.task # NULL, of a reader
  pc,         \* where the task is in the code
  state,      \* task_struct.state
  mode,       \* TASK_UNINTERRUPTIBLE or TASK_KILLABLE, the argument of the slow path
  cnt,        \* the count a queued writer has read, while it waits for the lock
  wake_q,     \* tasks marked for wakeup, not woken yet
  kill        \* a fatal signal is pending for a task in a slow path

vars == <<count, wait_list, task, pc, state, mode, cnt, wake_q, kill>>

WAITING_BIAS == -B
WRITE_BIAS == WAITING_BIAS + 1
Active(c) == c % B

Modes == {"UNINTERRUPTIBLE", "KILLABLE"}
ReadLocs == {"rcheck", "rloop", "rsched", "rsignal"}
WriteLocs == {"wcheck", "wsched", "wread", "wtry", "wsignal"}
Locs == {"idle", "rfail", "reading", "wfail", "wqueue", "writing", "wake", "dwake"}
          \cup ReadLocs \cup WriteLocs

Init ==
  /\ count = 0
  /\ wait_list = <<>>
  /\ task = [t \in Tasks |-> FALSE]
  /\ pc = [t \in Tasks |-> "idle"]
  /\ state = [t \in Tasks |-> "RUNNING"]
  /\ mode = [t \in Tasks |-> "UNINTERRUPTIBLE"]
  /\ cnt = [t \in Tasks |-> 0]
  /\ wake_q = [t \in Tasks |-> {}]
  /\ kill = [t \in Tasks |-> FALSE]

Waiter(t, y) == [task |-> t, type |-> y]

(* Task t is at l and has no wake_up_q() to finish first. *)
At(t, l) == pc[t] = l /\ wake_q[t] = {}
Goto(t, l) == pc' = [pc EXCEPT ![t] = l]
SetState(t, s) == state' = [state EXCEPT ![t] = s]

(* The return from a slow path to l.  What its caller does about a signal  *)
(* is not modelled: kill, like mode, only matters inside a slow path.      *)
Done(t, l) ==
  /\ pc' = [pc EXCEPT ![t] = l]
  /\ mode' = [mode EXCEPT ![t] = "UNINTERRUPTIBLE"]
  /\ kill' = [kill EXCEPT ![t] = FALSE]

(* signal_pending_state() *)
Killed(t) == mode[t] = "KILLABLE" /\ kill[t]

(* Mutant: readers are granted although a writer has stolen the lock. *)
StolenNever(c, wake_type) == FALSE
Stolen(c, wake_type) == wake_type # "READ_OWNED" /\ c < WAITING_BIAS

(* __rwsem_mark_wake() on the count c and the non-empty list l: a writer   *)
(* at the head is only marked; readers at the head are all granted the     *)
(* lock and leave the list, unless a writer has stolen it.  The retry in   *)
(* the code needs a second CPU.                                            *)
MarkWake(c, l, wake_type) ==
  LET i == FirstPos(l, LAMBDA w : w.type = "W")
      n == IF i = 0 THEN Len(l) ELSE i - 1
      readers == {l[j].task : j \in 1 .. n}
  IN IF n = 0 THEN
       [count |-> c, list |-> l, granted |-> {},
        woken |-> IF wake_type = "ANY" THEN {Head(l).task} ELSE {}]
     ELSE IF Stolen(c, wake_type) THEN
       [count |-> c, list |-> l, granted |-> {}, woken |-> {}]
     ELSE
       [count |-> c + n - (IF n = Len(l) THEN WAITING_BIAS ELSE 0),
        list |-> SubSeq(l, n + 1, Len(l)),
        granted |-> readers, woken |-> readers]

NoWake(c, l) == [count |-> c, list |-> l, granted |-> {}, woken |-> {}]

(* wake_q_add(): a task that is on some wake_q already is not added again. *)
Unmarked(S) == S \ UNION {wake_q[u] : u \in Tasks}

(* The effect of result r; waking the marked tasks is left to wake_up_q(). *)
Apply(t, r) ==
  /\ count' = r.count
  /\ wait_list' = r.list
  /\ task' = [u \in Tasks |-> task[u] /\ u \notin r.granted]
  /\ wake_q' = [wake_q EXCEPT ![t] = Unmarked(r.woken)]

(* down_read(), down_read_killable(): increment the count, and enter the   *)
(* slow path when it stays negative.  down_read_trylock() only succeeds,   *)
(* in the same way.                                                        *)
DownRead(t) ==
  /\ At(t, "idle")
  /\ count' = count + 1
  /\ \/ count + 1 >= 0 /\ Goto(t, "reading") /\ UNCHANGED mode
     \/ /\ count + 1 < 0
        /\ Goto(t, "rfail")
        /\ \E m \in Modes : mode' = [mode EXCEPT ![t] = m]
  /\ UNCHANGED <<wait_list, task, state, cnt, wake_q, kill>>

(* __rwsem_down_read_failed_common() up to the unlock: queue, turn the     *)
(* active count into a waiting one, and wake the head of the queue if      *)
(* nobody is active or if only readers are and we are the first waiter.    *)
ReadQueue(t) ==
  /\ At(t, "rfail")
  /\ LET first == wait_list = <<>>
         l == Append(wait_list, Waiter(t, "R"))
         c == count - 1 + (IF first THEN WAITING_BIAS ELSE 0)
         r == IF c = WAITING_BIAS \/ (c > WAITING_BIAS /\ first)
              THEN MarkWake(c, l, "ANY") ELSE NoWake(c, l)
     IN /\ count' = r.count
        /\ wait_list' = r.list
        /\ task' = [u \in Tasks |-> (task[u] \/ u = t) /\ u \notin r.granted]
        /\ wake_q' = [wake_q EXCEPT ![t] = Unmarked(r.woken)]
  /\ Goto(t, "rloop")
  /\ UNCHANGED <<state, mode, cnt, kill>>

(* The wait loop: set the state, look at waiter.task and at the signals,   *)
(* schedule() until something has made the task runnable.                  *)
ReadLoop(t) ==
  /\ At(t, "rloop")
  /\ SetState(t, mode[t])
  /\ Goto(t, "rcheck")
  /\ UNCHANGED <<count, wait_list, task, mode, cnt, wake_q, kill>>

ReadCheck(t) ==
  /\ At(t, "rcheck")
  /\ \/ /\ ~task[t]
        /\ SetState(t, "RUNNING")
        /\ Done(t, "reading")
     \/ /\ task[t]
        /\ Goto(t, IF Killed(t) THEN "rsignal" ELSE "rsched")
        /\ UNCHANGED <<state, mode, kill>>
  /\ UNCHANGED <<count, wait_list, task, cnt, wake_q>>

ReadScheduled(t) ==
  /\ At(t, "rsched") /\ state[t] = "RUNNING"
  /\ Goto(t, "rloop")
  /\ UNCHANGED <<count, wait_list, task, state, mode, cnt, wake_q, kill>>

(* list_del() of t, and the waiting bias goes with the last waiter. *)
Leave(t) == ListDelAt(wait_list, FirstPos(wait_list, LAMBDA w : w.task = t))
CountAfterLeave(t) == IF Leave(t) = <<>> THEN count - WAITING_BIAS ELSE count

(* A killed reader looks at waiter.task again, with the lock: it may have  *)
(* been granted the semaphore meanwhile.                                   *)
ReadSignal(t) ==
  /\ At(t, "rsignal")
  /\ \/ /\ ~task[t]
        /\ Done(t, "reading")
        /\ UNCHANGED <<count, wait_list, task>>
     \/ /\ task[t]
        /\ wait_list' = Leave(t)
        /\ count' = CountAfterLeave(t)
        /\ task' = [task EXCEPT ![t] = FALSE]
        /\ Done(t, "idle")
  /\ SetState(t, "RUNNING")
  /\ UNCHANGED <<cnt, wake_q>>

(* down_write(): add the write bias; the lock is ours if nobody was        *)
(* active, even if others are queued.  down_write_trylock() only succeeds. *)
DownWrite(t) ==
  /\ At(t, "idle")
  /\ count' = count + WRITE_BIAS
  /\ \/ Active(count) = 0 /\ Goto(t, "writing") /\ UNCHANGED mode
     \/ /\ Active(count) # 0
        /\ Goto(t, "wfail")
        /\ \E m \in Modes : mode' = [mode EXCEPT ![t] = m]
  /\ UNCHANGED <<wait_list, task, state, cnt, wake_q, kill>>

WriteUndo(t) ==
  /\ At(t, "wfail")
  /\ count' = count - WRITE_BIAS
  /\ Goto(t, "wqueue")
  /\ UNCHANGED <<wait_list, task, state, mode, cnt, wake_q, kill>>

(* Mutant: the waiting bias is dropped although others are queued. *)
CountWhenTakenAlone(l) == WRITE_BIAS

(* rwsem_try_write_lock() with the local count c, when sem->count is now;  *)
(* the waiting bias stays if others are on the list l.                     *)
TryWriteLock(c, now) == c = WAITING_BIAS /\ now = WAITING_BIAS
CountWhenTaken(l) ==
  IF Len(l) = 1 THEN WRITE_BIAS ELSE WRITE_BIAS + WAITING_BIAS

(* ... then queues: as the first waiter it adds the waiting bias, behind   *)
(* others it wakes the readers in front of it if the lock is read-owned;   *)
(* and it tries to take the lock before it sleeps.                         *)
WriteQueue(t) ==
  /\ At(t, "wqueue")
  /\ LET first == wait_list = <<>>
         l == Append(wait_list, Waiter(t, "W"))
         c == IF first THEN count + WAITING_BIAS ELSE count
         r == IF ~first /\ c > WAITING_BIAS THEN MarkWake(c, l, "READERS")
              ELSE NoWake(c, l)
         woken == [u \in Tasks |-> IF u \in Unmarked(r.woken) THEN "RUNNING" ELSE state[u]]
     IN /\ \/ /\ TryWriteLock(c, r.count)
              /\ count' = CountWhenTaken(r.list)
              /\ wait_list' = wait_list
              /\ state' = woken
              /\ task' = task
              /\ Done(t, "writing")
           \/ /\ ~TryWriteLock(c, r.count)
              /\ count' = r.count
              /\ wait_list' = r.list
              /\ state' = [woken EXCEPT ![t] = mode[t]]
              /\ task' = [u \in Tasks |-> task[u] /\ u \notin r.granted]
              /\ Goto(t, "wcheck")
              /\ UNCHANGED <<mode, kill>>
  /\ UNCHANGED <<cnt, wake_q>>

WriteCheck(t) ==
  /\ At(t, "wcheck")
  /\ Goto(t, IF Killed(t) THEN "wsignal" ELSE "wsched")
  /\ UNCHANGED <<count, wait_list, task, state, mode, cnt, wake_q, kill>>

WriteScheduled(t) ==
  /\ At(t, "wsched") /\ state[t] = "RUNNING"
  /\ SetState(t, mode[t])
  /\ Goto(t, "wread")
  /\ UNCHANGED <<count, wait_list, task, mode, cnt, wake_q, kill>>

WriteRead(t) ==
  /\ At(t, "wread")
  /\ cnt' = [cnt EXCEPT ![t] = IF Active(count) # 0 THEN 0 ELSE count]
  /\ Goto(t, IF Active(count) # 0 THEN "wcheck" ELSE "wtry")
  /\ UNCHANGED <<count, wait_list, task, state, mode, wake_q, kill>>

(* Nobody was active: try again with the lock, and go back to sleep if     *)
(* somebody was faster.                                                    *)
WriteTry(t) ==
  /\ At(t, "wtry")
  /\ \/ /\ TryWriteLock(cnt[t], count)
        /\ count' = CountWhenTaken(wait_list)
        /\ wait_list' = Leave(t)
        /\ SetState(t, "RUNNING")
        /\ Done(t, "writing")
     \/ /\ ~TryWriteLock(cnt[t], count)
        /\ Goto(t, "wcheck")
        /\ UNCHANGED <<count, wait_list, state, mode, kill>>
  /\ cnt' = [cnt EXCEPT ![t] = 0]
  /\ UNCHANGED <<task, wake_q>>

(* Mutant: a killed writer leaves without a look at the queue. *)
WriteSignalSilently(t) ==
  /\ At(t, "wsignal")
  /\ Apply(t, NoWake(CountAfterLeave(t), Leave(t)))
  /\ SetState(t, "RUNNING")
  /\ Done(t, "idle")
  /\ UNCHANGED cnt

(* A killed writer leaves the queue, and wakes who is now at its head. *)
WriteSignal(t) ==
  /\ At(t, "wsignal")
  /\ LET l == Leave(t) IN
       Apply(t, IF l = <<>> THEN NoWake(CountAfterLeave(t), l)
                ELSE MarkWake(count, l, "ANY"))
  /\ SetState(t, "RUNNING")
  /\ Done(t, "idle")
  /\ UNCHANGED cnt

(* up_read() and up_write(): the last active one, with waiters queued,     *)
(* calls rwsem_wake() (the test is in call_rwsem_wake).                    *)
Up(t, bias) ==
  /\ count' = count - bias
  /\ Goto(t, IF count' < 0 /\ Active(count) = 1 THEN "wake" ELSE "idle")
  /\ UNCHANGED <<wait_list, task, state, mode, cnt, wake_q, kill>>

UpRead(t) == At(t, "reading") /\ Up(t, 1)
UpWrite(t) == At(t, "writing") /\ Up(t, WRITE_BIAS)

(* downgrade_write(): the write bias becomes a read bias. *)
DowngradeWrite(t) ==
  /\ At(t, "writing")
  /\ count' = count - WAITING_BIAS
  /\ Goto(t, IF count' < 0 THEN "dwake" ELSE "reading")
  /\ UNCHANGED <<wait_list, task, state, mode, cnt, wake_q, kill>>

(* rwsem_wake() and rwsem_downgrade_wake(), with the lock. *)
Wake(t) ==
  /\ pc[t] \in {"wake", "dwake"} /\ wake_q[t] = {}
  /\ LET w == IF pc[t] = "wake" THEN "ANY" ELSE "READ_OWNED" IN
       Apply(t, IF wait_list = <<>> THEN NoWake(count, wait_list)
                ELSE MarkWake(count, wait_list, w))
  /\ Goto(t, IF pc[t] = "wake" THEN "idle" ELSE "reading")
  /\ UNCHANGED <<state, mode, cnt, kill>>

(* wake_up_q(), after the lock was dropped. *)
WakeUpQ(t) ==
  /\ wake_q[t] # {}
  /\ state' = [u \in Tasks |-> IF u \in wake_q[t] THEN "RUNNING" ELSE state[u]]
  /\ wake_q' = [wake_q EXCEPT ![t] = {}]
  /\ UNCHANGED <<count, wait_list, task, pc, mode, cnt, kill>>

(* Environment: a fatal signal, and wakeups that have nothing to do with   *)
(* the semaphore.                                                          *)
Kill(t) ==
  /\ mode[t] = "KILLABLE" /\ ~kill[t]
  /\ kill' = [kill EXCEPT ![t] = TRUE]
  /\ SetState(t, IF state[t] = "KILLABLE" THEN "RUNNING" ELSE state[t])
  /\ UNCHANGED <<count, wait_list, task, pc, mode, cnt, wake_q>>

StrayWakeup(t) ==
  /\ state[t] # "RUNNING"
  /\ SetState(t, "RUNNING")
  /\ UNCHANGED <<count, wait_list, task, pc, mode, cnt, wake_q, kill>>

(* The steps a task takes by itself once it has called down or up. *)
Slow(t) ==
  \/ ReadQueue(t) \/ ReadLoop(t) \/ ReadCheck(t) \/ ReadScheduled(t) \/ ReadSignal(t)
  \/ WriteUndo(t) \/ WriteQueue(t) \/ WriteCheck(t) \/ WriteScheduled(t)
  \/ WriteRead(t) \/ WriteTry(t) \/ WriteSignal(t)
  \/ Wake(t) \/ WakeUpQ(t)

Next ==
  \E t \in Tasks :
    \/ DownRead(t) \/ DownWrite(t) \/ Slow(t)
    \/ UpRead(t) \/ UpWrite(t) \/ DowngradeWrite(t)
    \/ Kill(t) \/ StrayWakeup(t)

Spec == Init /\ [][Next]_vars

-----------------------------------------------------------------------------
(* Types, and the bounds of the count: it never runs out of its halves.    *)
TypeOK ==
  /\ count \in WRITE_BIAS * Cardinality(Tasks) + WAITING_BIAS .. Cardinality(Tasks)
  /\ wait_list \in Seq([task : Tasks, type : {"R", "W"}])
  /\ task \in [Tasks -> BOOLEAN]
  /\ pc \in [Tasks -> Locs]
  /\ state \in [Tasks -> Modes \cup {"RUNNING"}]
  /\ mode \in [Tasks -> Modes]
  /\ cnt \in [Tasks -> Int]
  /\ wake_q \in [Tasks -> SUBSET Tasks]
  /\ kill \in [Tasks -> BOOLEAN]

(* Who holds the semaphore: a reader from the moment it is granted. *)
Readers ==
  {t \in Tasks : \/ pc[t] \in {"reading", "dwake"}
                 \/ pc[t] \in ReadLocs /\ ~task[t]}
Writers == {t \in Tasks : pc[t] = "writing"}

(* Readers and writers come and go as in RWLock, whatever path they take:  *)
(* in particular downgrade_write() never lets another writer in between.   *)
Lock == INSTANCE RWLock WITH readers <- Readers, writers <- Writers
ImplementsRWLock == Lock!Spec

(* The count is exactly what the comment at the top of rwsem-xadd.c says:  *)
(* one for every holder and every task between the fast path and the slow  *)
(* path, the waiting bias once for every writer among those and once if    *)
(* the list is not empty.                                                  *)
CountExact ==
  /\ TypeOK
  /\ LET trying(l) == {t \in Tasks : pc[t] = l}
     IN count = Cardinality(Readers) + Cardinality(trying("rfail"))
                + WRITE_BIAS * (Cardinality(Writers) + Cardinality(trying("wfail")))
                + (IF wait_list = <<>> THEN 0 ELSE WAITING_BIAS)

Moving(t) ==
  \/ pc[t] \in {"rfail", "wfail", "wqueue", "wake", "rsignal", "wsignal", "wtry", "wread", "wcheck"}
  \/ wake_q[t] # {}
  \/ pc[t] \in {"wsched"} /\ state[t] = "RUNNING"

(* No wakeup is lost.  Whenever tasks are queued, someone holds the        *)
(* semaphore and will call rwsem_wake(), or is on its way to look at the   *)
(* queue, or a queued task is awake.  And a reader that was granted the    *)
(* semaphore is awake, or the task that granted it has it in its wake_q.   *)
NoLostWakeup ==
  /\ wait_list # <<>> /\ Readers = {} /\ Writers = {} => \E t \in Tasks : Moving(t)
  /\ \A t \in Tasks : pc[t] = "rsched" /\ ~task[t] =>
       state[t] = "RUNNING" \/ \E u \in Tasks : t \in wake_q[u]
=============================================================================
