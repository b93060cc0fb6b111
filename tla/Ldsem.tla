-------------------------------- MODULE Ldsem --------------------------------
(***************************************************************************)
(* The line discipline semaphore of drivers/tty/tty_ldsem.c: a             *)
(* reader/writer lock whose waiters give up after a timeout.  Readers and  *)
(* writers wait on lists of their own, every waiter keeps a wait bias in   *)
(* sem->count, and writers are woken first.                                *)
(*                                                                         *)
(* As in Rwsem the count is changed by single atomic instructions, and a   *)
(* section under sem->wait_lock, with interrupts off, is one action.       *)
(***************************************************************************)
EXTENDS List

CONSTANTS
  Tasks,
  B,              \* LDSEM_ACTIVE_MASK + 1, 2^32 in the code
  ReadTimeouts,   \* the timeouts that callers pass: "max" (MAX_SCHEDULE_TIMEOUT),
  WriteTimeouts   \* or "left", a number of jiffies that runs down to 0

ASSUME LdsemAssumption ==
  /\ IsFiniteSet(Tasks) /\ B \in Nat /\ B > Cardinality(Tasks)
  /\ ReadTimeouts \subseteq {"max", "left"} /\ WriteTimeouts \subseteq {"max", "left"}

VARIABLES
  count,         \* sem->count
  wait_readers,  \* sem->wait_readers
  read_wait,     \* sem->read_wait
  write_wait,    \* sem->write_wait
  task,          \* waiter.task # NULL, of a reader
  pc,            \* where the task is in the code
  state,         \* task_struct.state
  timeout,       \* the local variable of a slow path: "max", "left" or "0"
  old            \* the count that the fast path saw, passed to the slow path

vars == <<count, wait_readers, read_wait, write_wait, task, pc, state, timeout, old>>

WAIT_BIAS == -B
WRITE_BIAS == WAIT_BIAS + 1
Active(c) == c % B

Locs == {"idle", "rfail", "rloop", "rcheck", "rsched", "rtimeout", "reading",
         "wfail", "wsched", "writing", "wake"}

(* __init_ldsem() *)
Init ==
  /\ count = 0
  /\ wait_readers = 0
  /\ read_wait = <<>>
  /\ write_wait = <<>>
  /\ task = [t \in Tasks |-> FALSE]
  /\ pc = [t \in Tasks |-> "idle"]
  /\ state = [t \in Tasks |-> "RUNNING"]
  /\ timeout = [t \in Tasks |-> "max"]
  /\ old = [t \in Tasks |-> 0]

Goto(t, l) == pc' = [pc EXCEPT ![t] = l]

(* The return from a slow path to l: its local variables are dead. *)
Done(t, l) ==
  /\ Goto(t, l)
  /\ timeout' = [timeout EXCEPT ![t] = "max"]

(* A fast path that added its bias enters the slow path. *)
Fail(t, l, Timeouts) ==
  /\ Goto(t, l)
  /\ \E o \in Timeouts : timeout' = [timeout EXCEPT ![t] = o]
  /\ old' = [old EXCEPT ![t] = count']

(* Mutant: readers are granted although the count says a writer came in. *)
WakeReadersAlways(c, n) ==
  [count |-> c + n * (1 - WAIT_BIAS), granted |-> TRUE]

(* The count after __ldsem_wake_readers(): n readers become active, unless *)
(* the result is not positive, which is undone.                            *)
WakeReaders(c, n) ==
  LET adjusted == c + n * (1 - WAIT_BIAS)
  IN IF adjusted > 0 THEN [count |-> adjusted, granted |-> TRUE]
     ELSE [count |-> c, granted |-> FALSE]

(* __ldsem_wake() when the count is c, n and readers are the waiting       *)
(* readers and awake the tasks' states: wake the first writer, or grant    *)
(* the lock to all readers and empty their list.                           *)
LdsemWake(c, n, readers, awake) ==
  LET r == WakeReaders(c, n)
      granted == IF write_wait = <<>> /\ readers # <<>> /\ r.granted THEN Range(readers) ELSE {}
      woken == IF write_wait # <<>> THEN {Head(write_wait)} ELSE granted
  IN /\ count' = IF granted # {} THEN r.count ELSE c
     /\ wait_readers' = IF granted # {} THEN 0 ELSE n
     /\ read_wait' = IF granted # {} THEN <<>> ELSE readers
     /\ task' = [u \in Tasks |-> u \in Range(readers) \ granted]
     /\ state' = [u \in Tasks |-> IF u \in woken THEN "RUNNING" ELSE awake[u]]

NoWake(c, n, readers) ==
  /\ count' = c
  /\ wait_readers' = n
  /\ read_wait' = readers
  /\ task' = [u \in Tasks |-> u \in Range(readers)]
  /\ UNCHANGED state

(* ldsem_down_read(): add the read bias, and enter the slow path unless    *)
(* the count is positive.  ldsem_down_read_trylock() only succeeds, in the *)
(* same way.                                                               *)
DownRead(t) ==
  /\ pc[t] = "idle"
  /\ count' = count + 1
  /\ \/ count' > 0 /\ Goto(t, "reading") /\ UNCHANGED <<timeout, old>>
     \/ count' <= 0 /\ Fail(t, "rfail", ReadTimeouts)
  /\ UNCHANGED <<wait_readers, read_wait, write_wait, task, state>>

(* down_read_failed() up to the unlock.  If the count has changed since    *)
(* the fast path and is now positive, the lock is ours.  Otherwise the     *)
(* read bias becomes a wait bias, the reader queues, and if nobody is      *)
(* active any more it wakes who is first.                                  *)
ReadQueue(t) ==
  /\ pc[t] = "rfail"
  /\ old' = [old EXCEPT ![t] = 0]
  /\ \/ /\ count # old[t] /\ count > 0
        /\ Done(t, "reading")
        /\ UNCHANGED <<count, wait_readers, read_wait, task, state>>
     \/ /\ count = old[t] \/ count <= 0
        /\ LET c == count - 1 + WAIT_BIAS
               readers == Append(read_wait, t)
           IN IF Active(c) = 0 THEN LdsemWake(c, wait_readers + 1, readers, state)
              ELSE NoWake(c, wait_readers + 1, readers)
        /\ Goto(t, "rloop")
        /\ UNCHANGED timeout
  /\ UNCHANGED write_wait

(* The wait loop: set the state, look at waiter.task and at the timeout,   *)
(* schedule_timeout() until something has made the task runnable.          *)
ReadLoop(t) ==
  /\ pc[t] = "rloop"
  /\ state' = [state EXCEPT ![t] = "UNINTERRUPTIBLE"]
  /\ Goto(t, "rcheck")
  /\ UNCHANGED <<count, wait_readers, read_wait, write_wait, task, timeout, old>>

ReadCheck(t) ==
  /\ pc[t] = "rcheck"
  /\ \/ /\ ~task[t]
        /\ Done(t, "reading")
        /\ state' = [state EXCEPT ![t] = "RUNNING"]
     \/ /\ task[t] /\ timeout[t] # "0"
        /\ Goto(t, "rsched")
        /\ UNCHANGED <<state, timeout>>
  /\ UNCHANGED <<count, wait_readers, read_wait, write_wait, task, old>>

ReadScheduled(t) ==
  /\ pc[t] = "rsched" /\ state[t] = "RUNNING"
  /\ Goto(t, "rloop")
  /\ UNCHANGED <<count, wait_readers, read_wait, write_wait, task, state, timeout, old>>

(* The loop ends because no time is left. *)
ReadNoTime(t) ==
  /\ pc[t] = "rcheck" /\ task[t] /\ timeout[t] = "0"
  /\ Goto(t, "rtimeout")
  /\ state' = [state EXCEPT ![t] = "RUNNING"]
  /\ UNCHANGED <<count, wait_readers, read_wait, write_wait, task, timeout, old>>

(* The timed out reader looks at waiter.task again, with the lock: it may  *)
(* have been granted the lock meanwhile.  Otherwise it takes its wait bias *)
(* and its list entry back; wait_readers stays as it is.                   *)
ReadTimeout(t) ==
  /\ pc[t] = "rtimeout"
  /\ \/ /\ ~task[t]
        /\ Done(t, "reading")
        /\ UNCHANGED <<count, read_wait, task>>
     \/ /\ task[t]
        /\ count' = count - WAIT_BIAS
        /\ read_wait' = ListDel(read_wait, t)
        /\ task' = [task EXCEPT ![t] = FALSE]
        /\ Done(t, "idle")
  /\ UNCHANGED <<wait_readers, write_wait, state, old>>

(* ldsem_down_write(): add the write bias; the lock is ours if nobody else *)
(* is active, even if others wait.  ldsem_down_write_trylock() only        *)
(* succeeds.                                                               *)
DownWrite(t) ==
  /\ pc[t] = "idle"
  /\ count' = count + WRITE_BIAS
  /\ \/ Active(count') = 1 /\ Goto(t, "writing") /\ UNCHANGED <<timeout, old>>
     \/ Active(count') # 1 /\ Fail(t, "wfail", WriteTimeouts)
  /\ UNCHANGED <<wait_readers, read_wait, write_wait, task, state>>

(* Mutant: the writer looks at nothing and queues. *)
WriteOwnedNever(t) == FALSE

(* The test after a failed ldsem_cmpxchg() of down_write_failed(). *)
WriteOwned(t) == count # old[t] /\ Active(count) = 1

(* down_write_failed() up to schedule_timeout(): if the count has changed  *)
(* and nobody else is active, the lock is ours.  Otherwise only the active *)
(* part is taken back, what remains is the wait bias.                      *)
WriteQueue(t) ==
  /\ pc[t] = "wfail"
  /\ old' = [old EXCEPT ![t] = 0]
  /\ \/ /\ WriteOwned(t)
        /\ Done(t, "writing")
        /\ UNCHANGED <<count, write_wait, state>>
     \/ /\ ~WriteOwned(t)
        /\ count' = count - 1
        /\ write_wait' = Append(write_wait, t)
        /\ state' = [state EXCEPT ![t] = "UNINTERRUPTIBLE"]
        /\ Goto(t, "wsched")
        /\ UNCHANGED timeout
  /\ UNCHANGED <<wait_readers, read_wait, task>>

(* Mutant: a writer that gives up leaves its wait bias behind. *)
GiveUpBias(c) == c

(* The count after a writer has given up. *)
GiveUp(c) == c - WAIT_BIAS

(* writer_trylock(): the active part can go from 0 to 1. *)
WriterTrylock == Active(count) = 0

(* A queued writer is running again: writer_trylock() succeeds if nobody   *)
(* is active; if it fails the writer gives up when its time is over, and   *)
(* else goes back to sleep.                                                *)
WriteScheduled(t) ==
  /\ pc[t] = "wsched" /\ state[t] = "RUNNING"
  /\ \/ /\ WriterTrylock
        /\ count' = count + 1
        /\ write_wait' = ListDel(write_wait, t)
        /\ Done(t, "writing")
        /\ UNCHANGED state
     \/ /\ ~WriterTrylock /\ timeout[t] = "0"
        /\ count' = GiveUp(count)
        /\ write_wait' = ListDel(write_wait, t)
        /\ Done(t, "idle")
        /\ UNCHANGED state
     \/ /\ ~WriterTrylock /\ timeout[t] # "0"
        /\ state' = [state EXCEPT ![t] = "UNINTERRUPTIBLE"]
        /\ UNCHANGED <<count, write_wait, pc, timeout>>
  /\ UNCHANGED <<wait_readers, read_wait, task, old>>

(* ldsem_up_read() and ldsem_up_write(): with waiters, the last one out    *)
(* calls ldsem_wake().                                                     *)
UpRead(t) ==
  /\ pc[t] = "reading"
  /\ count' = count - 1
  /\ Goto(t, IF count' < 0 /\ Active(count') = 0 THEN "wake" ELSE "idle")
  /\ UNCHANGED <<wait_readers, read_wait, write_wait, task, state, timeout, old>>

UpWrite(t) ==
  /\ pc[t] = "writing"
  /\ count' = count - WRITE_BIAS
  /\ Goto(t, IF count' < 0 THEN "wake" ELSE "idle")
  /\ UNCHANGED <<wait_readers, read_wait, write_wait, task, state, timeout, old>>

(* ldsem_wake(), with the lock. *)
Wake(t) ==
  /\ pc[t] = "wake"
  /\ LdsemWake(count, wait_readers, read_wait, state)
  /\ Goto(t, "idle")
  /\ UNCHANGED <<write_wait, timeout, old>>

(* The timer of schedule_timeout() expires: the task runs, with no time    *)
(* left.                                                                   *)
TimerExpires(t) ==
  /\ pc[t] \in {"rsched", "wsched"} /\ timeout[t] = "left"
  /\ timeout' = [timeout EXCEPT ![t] = "0"]
  /\ state' = [state EXCEPT ![t] = "RUNNING"]
  /\ UNCHANGED <<count, wait_readers, read_wait, write_wait, task, pc, old>>

StrayWakeup(t) ==
  /\ state[t] # "RUNNING"
  /\ state' = [state EXCEPT ![t] = "RUNNING"]
  /\ UNCHANGED <<count, wait_readers, read_wait, write_wait, task, pc, timeout, old>>

(* Without ReadNoTime and ReadTimeout, which no caller in the tree can     *)
(* reach: all of them pass MAX_SCHEDULE_TIMEOUT to ldsem_down_read().      *)
Next ==
  \E t \in Tasks :
    \/ DownRead(t) \/ ReadQueue(t) \/ ReadLoop(t) \/ ReadCheck(t)
    \/ ReadScheduled(t) \/ UpRead(t)
    \/ DownWrite(t) \/ WriteQueue(t) \/ WriteScheduled(t) \/ UpWrite(t)
    \/ Wake(t) \/ TimerExpires(t) \/ StrayWakeup(t)

Spec == Init /\ [][Next]_vars

(* What ldsem_down_read() offers: readers with a finite timeout as well. *)
SpecReadTimeout ==
  Init /\ [][Next \/ \E t \in Tasks : ReadNoTime(t) \/ ReadTimeout(t)]_vars

-----------------------------------------------------------------------------
(* Types: the count stays within its halves. *)
TypeOK ==
  /\ count \in WAIT_BIAS * Cardinality(Tasks) .. Cardinality(Tasks)
  /\ wait_readers \in Nat
  /\ read_wait \in Seq(Tasks) /\ write_wait \in Seq(Tasks)
  /\ task \in [Tasks -> BOOLEAN]
  /\ pc \in [Tasks -> Locs]
  /\ state \in [Tasks -> {"RUNNING", "UNINTERRUPTIBLE"}]
  /\ timeout \in [Tasks -> {"max", "left", "0"}]
  /\ old \in [Tasks -> Int]

(* Who holds the semaphore: a reader from the moment it is granted. *)
Readers ==
  {t \in Tasks : \/ pc[t] = "reading"
                 \/ pc[t] \in {"rloop", "rcheck", "rsched", "rtimeout"} /\ ~task[t]}
Writers == {t \in Tasks : pc[t] = "writing"}
Trying(l) == {t \in Tasks : pc[t] = l}

(* Whatever path they take, readers and writers of a line discipline come  *)
(* and go as in RWLock.                                                    *)
Lock == INSTANCE RWLock WITH readers <- Readers, writers <- Writers
ImplementsRWLock == Lock!Spec

(* The active part of sem->count is what the comment in                    *)
(* __ldsem_wake_readers() says: one for every holder, with the tasks that  *)
(* are between the fast path and the slow path.                            *)
ActiveExact ==
  Active(count) = Cardinality(Readers) + Cardinality(Writers)
                  + Cardinality(Trying("rfail")) + Cardinality(Trying("wfail"))

(* The whole count is exact: its active part, and one wait bias for every  *)
(* writer that is active and every task on a list; wait_readers is the     *)
(* length of the readers' list.                                            *)
CountExact ==
  /\ TypeOK
  /\ ActiveExact
  /\ wait_readers = Len(read_wait)
  /\ count - Active(count) =
       WAIT_BIAS * (Cardinality(Writers) + Cardinality(Trying("wfail"))
                    + Len(read_wait) + Len(write_wait))

(* No wakeup is lost: when tasks wait and nobody holds the lock, somebody  *)
(* is between a fast path and the queue, about to call ldsem_wake(), or a  *)
(* queued writer is awake; and a reader that was granted the lock is       *)
(* awake.                                                                  *)
NoLostWakeup ==
  /\ (read_wait # <<>> \/ write_wait # <<>>) /\ Readers \cup Writers = {} =>
       \E t \in Tasks : \/ pc[t] \in {"rfail", "wfail", "wake"}
                        \/ pc[t] = "wsched" /\ state[t] = "RUNNING"
  /\ \A t \in Tasks : pc[t] = "rsched" /\ ~task[t] => state[t] = "RUNNING"
=============================================================================
