------------------------------ MODULE Semaphore ------------------------------
(***************************************************************************)
(* The counting semaphore of kernel/locking/semaphore.c.                   *)
(*                                                                         *)
(* sem->lock makes every section of the code between raw_spin_lock and     *)
(* raw_spin_unlock one atomic step, so one action below is one such        *)
(* section.  A waiter leaves the lock only to sleep in schedule_timeout(). *)
(* Signals, timers and stray wakeups act on it while it sleeps, and after  *)
(* it is woken but before it has the lock back.                            *)
(***************************************************************************)
EXTENDS List

CONSTANTS
  Tasks,      \* tasks that may sleep in down() and its variants
  N,          \* the count the semaphore is initialised with
  MaxExtra    \* bound on up() calls that match no down()

ASSUME SemAssumption ==
  /\ IsFiniteSet(Tasks)
  /\ N \in Nat
  /\ MaxExtra \in Nat

VARIABLES
  count,      \* sem->count
  wait_list,  \* sem->wait_list, the waiters' tasks in queue order
  up,         \* waiter.up of each task's on-stack waiter
  pc,         \* "idle": outside;  "wait": in __down_common after the unlock
  state,      \* task_struct.state
  mode,       \* the state argument __down_common was called with
  timeout,    \* what is left of the timeout argument
  sig,        \* the strongest pending signal of the task
  owned,      \* successful downs not yet matched by an up()
  extra       \* up() calls made without a matching down()

vars == <<count, wait_list, up, pc, state, mode, timeout, sig, owned, extra>>

Modes == {"UNINTERRUPTIBLE", "INTERRUPTIBLE", "KILLABLE"}
Timeouts == {"forever", "left", "expired"}

(* signal_pending_state(): which pending signals end a sleep in state s. *)
SignalEnds(s, signal) ==
  \/ s = "INTERRUPTIBLE" /\ signal # "none"
  \/ s = "KILLABLE" /\ signal = "fatal"

(* The variants of down that may block: down, down_interruptible and       *)
(* down_killable wait forever, only down_timeout has a limit, and it       *)
(* sleeps uninterruptibly.                                                 *)
Calls == (Modes \X {"forever"}) \cup ({"UNINTERRUPTIBLE"} \X {"left", "expired"})

Granted == {t \in Tasks : up[t]}

Init ==
  /\ count = N
  /\ wait_list = <<>>
  /\ up = [t \in Tasks |-> FALSE]
  /\ pc = [t \in Tasks |-> "idle"]
  /\ state = [t \in Tasks |-> "RUNNING"]
  /\ mode = [t \in Tasks |-> "UNINTERRUPTIBLE"]
  /\ timeout = [t \in Tasks |-> "forever"]
  /\ sig = [t \in Tasks |-> "none"]
  /\ owned = 0
  /\ extra = 0

DownFast ==
  /\ count > 0
  /\ count' = count - 1
  /\ owned' = owned + 1
  /\ UNCHANGED <<wait_list, up, pc, state, mode, timeout, sig, extra>>

(* Mutant: list_add() instead of list_add_tail(), newest waiter first. *)
DownBlockAtHead(t) ==
  /\ pc[t] = "idle"
  /\ count <= 0
  /\ \E c \in Calls :
       /\ ~SignalEnds(c[1], sig[t])
       /\ c[2] # "expired"
       /\ mode' = [mode EXCEPT ![t] = c[1]]
       /\ state' = [state EXCEPT ![t] = c[1]]
       /\ timeout' = [timeout EXCEPT ![t] = c[2]]
  /\ wait_list' = <<t>> \o wait_list
  /\ up' = [up EXCEPT ![t] = FALSE]
  /\ pc' = [pc EXCEPT ![t] = "wait"]
  /\ UNCHANGED <<count, sig, owned, extra>>

(* down_*() that finds count = 0 and goes to sleep in __down_common. *)
DownBlock(t) ==
  /\ pc[t] = "idle"
  /\ count <= 0
  /\ \E c \in Calls :
       /\ ~SignalEnds(c[1], sig[t])
       /\ c[2] # "expired"
       /\ mode' = [mode EXCEPT ![t] = c[1]]
       /\ state' = [state EXCEPT ![t] = c[1]]
       /\ timeout' = [timeout EXCEPT ![t] = c[2]]
  /\ wait_list' = Append(wait_list, t)
  /\ up' = [up EXCEPT ![t] = FALSE]
  /\ pc' = [pc EXCEPT ![t] = "wait"]
  /\ UNCHANGED <<count, sig, owned, extra>>

(* A waiter that runs again takes sem->lock and looks at waiter.up first.  *)
WaitSucceed(t) ==
  /\ pc[t] = "wait" /\ state[t] = "RUNNING"
  /\ up[t]
  /\ up' = [up EXCEPT ![t] = FALSE]
  /\ pc' = [pc EXCEPT ![t] = "idle"]
  /\ owned' = owned + 1
  /\ UNCHANGED <<count, wait_list, state, mode, timeout, sig, extra>>

(* Mutant: signals and the timeout are looked at before waiter.up. *)
WaitFailIgnoringGrant(t) ==
  /\ pc[t] = "wait" /\ state[t] = "RUNNING"
  /\ SignalEnds(mode[t], sig[t]) \/ timeout[t] = "expired"
  /\ wait_list' = ListDel(wait_list, t)
  /\ up' = [up EXCEPT ![t] = FALSE]
  /\ pc' = [pc EXCEPT ![t] = "idle"]
  /\ UNCHANGED <<count, state, mode, timeout, sig, owned, extra>>

(* Mutant: the list_del() of the failing waiter is forgotten. *)
WaitFailStillQueued(t) ==
  /\ pc[t] = "wait" /\ state[t] = "RUNNING"
  /\ ~up[t]
  /\ SignalEnds(mode[t], sig[t]) \/ timeout[t] = "expired"
  /\ pc' = [pc EXCEPT ![t] = "idle"]
  /\ UNCHANGED <<count, wait_list, up, state, mode, timeout, sig, owned, extra>>

(* No grant, and a signal or the timeout ends the wait: the waiter takes   *)
(* itself off the list and returns -EINTR or -ETIME.                       *)
WaitFail(t) ==
  /\ pc[t] = "wait" /\ state[t] = "RUNNING"
  /\ ~up[t]
  /\ SignalEnds(mode[t], sig[t]) \/ timeout[t] = "expired"
  /\ \E i \in DOMAIN wait_list :
       wait_list[i] = t /\ wait_list' = ListDelAt(wait_list, i)
  /\ pc' = [pc EXCEPT ![t] = "idle"]
  /\ UNCHANGED <<count, up, state, mode, timeout, sig, owned, extra>>

(* Neither: once more round the for (;;) loop. *)
WaitAgain(t) ==
  /\ pc[t] = "wait" /\ state[t] = "RUNNING"
  /\ ~up[t]
  /\ ~SignalEnds(mode[t], sig[t])
  /\ timeout[t] # "expired"
  /\ state' = [state EXCEPT ![t] = mode[t]]
  /\ UNCHANGED <<count, wait_list, up, pc, mode, timeout, sig, owned, extra>>

(* Mutant: up() always increments the count and only wakes the waiter. *)
UpCountAndWake ==
  /\ \/ owned > 0 /\ owned' = owned - 1 /\ extra' = extra
     \/ extra < MaxExtra /\ extra' = extra + 1 /\ owned' = owned
  /\ count' = count + 1
  /\ state' = IF wait_list = <<>> THEN state
              ELSE [state EXCEPT ![Head(wait_list)] = "RUNNING"]
  /\ UNCHANGED <<wait_list, up, pc, mode, timeout, sig>>

(* up(): with nobody queued the count goes up, otherwise __up() takes the  *)
(* first waiter off the list, marks it and wakes it; the count is not      *)
(* touched, the unit goes to that waiter.                                  *)
Up ==
  /\ \/ owned > 0 /\ owned' = owned - 1 /\ extra' = extra
     \/ extra < MaxExtra /\ extra' = extra + 1 /\ owned' = owned
  /\ \/ /\ wait_list = <<>>
        /\ count' = count + 1
        /\ UNCHANGED <<wait_list, up, state>>
     \/ /\ wait_list # <<>>
        /\ wait_list' = Tail(wait_list)
        /\ up' = [up EXCEPT ![Head(wait_list)] = TRUE]
        /\ state' = [state EXCEPT ![Head(wait_list)] = "RUNNING"]
        /\ UNCHANGED count
  /\ UNCHANGED <<pc, mode, timeout, sig>>

(* Environment: a signal arrives, and wakes a sleeper whose state admits   *)
(* it; the timer of schedule_timeout() fires; something else wakes the     *)
(* task; a task outside the semaphore has handled its signals.             *)
Signal(t) ==
  /\ \E s \in {"signal", "fatal"} :
       /\ sig[t] # "fatal" /\ sig[t] # s
       /\ sig' = [sig EXCEPT ![t] = s]
       /\ state' = [state EXCEPT ![t] =
                      IF SignalEnds(@, s) THEN "RUNNING" ELSE @]
  /\ UNCHANGED <<count, wait_list, up, pc, mode, timeout, owned, extra>>

TimerFires(t) ==
  /\ pc[t] = "wait" /\ timeout[t] = "left"
  /\ timeout' = [timeout EXCEPT ![t] = "expired"]
  /\ state' = [state EXCEPT ![t] = "RUNNING"]
  /\ UNCHANGED <<count, wait_list, up, pc, mode, sig, owned, extra>>

StrayWakeup(t) ==
  /\ state[t] # "RUNNING"
  /\ state' = [state EXCEPT ![t] = "RUNNING"]
  /\ UNCHANGED <<count, wait_list, up, pc, mode, timeout, sig, owned, extra>>

HandleSignals(t) ==
  /\ pc[t] = "idle" /\ sig[t] # "none"
  /\ sig' = [sig EXCEPT ![t] = "none"]
  /\ UNCHANGED <<count, wait_list, up, pc, state, mode, timeout, owned, extra>>

Wait(t) == WaitSucceed(t) \/ WaitFail(t) \/ WaitAgain(t)

Next ==
  \/ DownFast
  \/ Up
  \/ \E t \in Tasks :
       \/ DownBlock(t) \/ Wait(t)
       \/ Signal(t) \/ TimerFires(t) \/ StrayWakeup(t) \/ HandleSignals(t)

Spec == Init /\ [][Next]_vars

(* A runnable task gets the CPU and the spinlock; whoever owns a unit      *)
(* gives it back.  Nobody has to call down() or to send a signal.          *)
Fairness ==
  /\ WF_vars(Up /\ owned' < owned)
  /\ \A t \in Tasks : WF_vars(Wait(t))

FairSpec == Spec /\ Fairness
-----------------------------------------------------------------------------
TypeOK ==
  /\ count \in Nat
  /\ wait_list \in Seq(Tasks)
  /\ up \in [Tasks -> BOOLEAN]
  /\ pc \in [Tasks -> {"idle", "wait"}]
  /\ state \in [Tasks -> Modes \cup {"RUNNING"}]
  /\ mode \in [Tasks -> Modes]
  /\ timeout \in [Tasks -> Timeouts]
  /\ sig \in [Tasks -> {"none", "signal", "fatal"}]
  /\ owned \in Nat
  /\ extra \in Nat

(* No unit is lost or made: what is in count, what __up() has handed to    *)
(* waiters that have not run yet, and what tasks own add up to the initial *)
(* count and the unmatched up() calls.  A timeout or a signal that races   *)
(* with __up() must not drop the unit it hands over.                       *)
UnitsConserved ==
  count + Cardinality(Granted) + owned = N + extra

(* Nobody sleeps on a semaphore that has units left: count and the wait    *)
(* list are never non-empty together (up() gives the unit to the list or   *)
(* to the count, __down_common queues only when the count is 0).           *)
NoWaiterLeftBehind == count > 0 => wait_list = <<>>

(* A queued waiter is asleep or on its way through __down_common, it is    *)
(* queued once, and the waiters that were granted the semaphore are off    *)
(* the list and awake: no task can sleep with nobody left to wake it.      *)
QueueMatchesWaiters ==
  /\ IsInjective(wait_list)
  /\ \A t \in Tasks : Contains(wait_list, t) <=> (pc[t] = "wait" /\ ~up[t])
  /\ \A t \in Tasks : up[t] => pc[t] = "wait" /\ state[t] = "RUNNING"

(* Every sleeper is served: as long as owners keep calling up(), whoever   *)
(* waits in __down_common returns, although fast-path callers compete.     *)
WaitersServed == \A t \in Tasks : (pc[t] = "wait") ~> (pc[t] = "idle")
=============================================================================
