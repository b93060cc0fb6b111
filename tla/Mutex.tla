-------------------------------- MODULE Mutex --------------------------------
(***************************************************************************)
(* The mutexes and wound/wait mutexes of kernel/locking/mutex.c, without   *)
(* optimistic spinning.                                                    *)
(*                                                                         *)
(* lock->owner is one word, changed by single atomic operations outside    *)
(* lock->wait_lock.  wait_lock is an ordinary spinlock, so it is a         *)
(* variable here: tasks interleave at every atomic operation on the owner  *)
(* word, also while one of them is inside the lock.                        *)
(*                                                                         *)
(* The tasks of WwTasks take locks with an acquire context, in any order,  *)
(* and release all they hold when they are told -EDEADLK; the others call  *)
(* mutex_lock() or ww_mutex_lock(lock, NULL) and hold one lock at a time.  *)
(***************************************************************************)
EXTENDS List

CONSTANTS
  Tasks, Locks, None,
  WwSets,         \* the choices for WwTasks
  Modes, WwModes  \* the sleeping states of the tasks without and with a context

ASSUME MutexAssumption ==
  /\ IsFiniteSet(Tasks) /\ IsFiniteSet(Locks)
  /\ WwSets \subseteq SUBSET Tasks /\ None \notin Tasks
  /\ Modes \cup WwModes \subseteq {"INTERRUPTIBLE", "UNINTERRUPTIBLE"}

VARIABLES
  owner,      \* the task in lock->owner
  flags,      \* the low bits of lock->owner
  wait_list,
  wait_lock,  \* who is inside lock->wait_lock
  ctx,        \* the task whose context is ww->ctx
  acquired,   \* ww_ctx->acquired
  ages,       \* the contexts by stamp, the oldest first
  pc,         \* where the task is in the code
  lk,         \* the lock that it locks or unlocks
  first,      \* the local variable of __mutex_lock_common()
  state,      \* task_struct.state
  mode,       \* the state that the task sleeps in
  sig,        \* a signal is pending for a task in the slow path
  handoff,    \* the unlocking task has seen MUTEX_FLAG_HANDOFF
  wake_q,     \* tasks that the task will wake after it drops wait_lock
  held,       \* the locks that the task holds, for all it knows
  backoff     \* it was told -EDEADLK and has to release them

word == <<owner, flags>>
ww == <<ctx, acquired, ages>>
sleep == <<state, mode, sig>>
caller == <<held, backoff>>
vars == <<word, wait_list, wait_lock, ww, pc, lk, first, sleep, handoff, wake_q, caller>>

(* The tasks that have a context: the same ones throughout a behaviour. *)
WwTasks == Range(ages)

Flags == {"WAITERS", "HANDOFF", "PICKUP"}
Locs == {"idle", "fctx", "fcheck", "fwake", "slow", "queue", "flag", "top", "sched",
         "first", "hand", "try", "acq", "ufast", "uslow", "uwake", "uwakeq"}

Init ==
  /\ owner = [l \in Locks |-> None]
  /\ flags = [l \in Locks |-> {}]
  /\ wait_list = [l \in Locks |-> <<>>]
  /\ wait_lock = [l \in Locks |-> None]
  /\ ctx = [l \in Locks |-> None]
  /\ acquired = [t \in Tasks |-> 0]
  /\ \E S \in WwSets : ages \in Bijection(1 .. Cardinality(S), S)
  /\ pc = [t \in Tasks |-> "idle"]
  /\ lk = [t \in Tasks |-> None]
  /\ first = [t \in Tasks |-> FALSE]
  /\ state = [t \in Tasks |-> "RUNNING"]
  /\ mode = [t \in Tasks |-> "UNINTERRUPTIBLE"]
  /\ sig = [t \in Tasks |-> FALSE]
  /\ handoff = [t \in Tasks |-> FALSE]
  /\ wake_q = [t \in Tasks |-> {}]
  /\ held = [t \in Tasks |-> {}]
  /\ backoff = [t \in Tasks |-> FALSE]

Goto(t, l) == pc' = [pc EXCEPT ![t] = l]
SetState(t, s) == state' = [state EXCEPT ![t] = s]
Woken(S) == state' = [u \in Tasks |-> IF u \in S THEN "RUNNING" ELSE state[u]]

(* wait_lock of l is free for t, or t is inside it already. *)
Inside(t, l) == wait_lock[l] \in {None, t}
Enter(t, l) == Inside(t, l) /\ wait_lock' = [wait_lock EXCEPT ![l] = t]
EnterAndLeave(t, l) == Inside(t, l) /\ wait_lock' = [wait_lock EXCEPT ![l] = None]

(* A lock call of t returns; what only matters inside it is forgotten. *)
Return(t) ==
  /\ Goto(t, "idle")
  /\ lk' = [lk EXCEPT ![t] = None]
  /\ first' = [first EXCEPT ![t] = FALSE]
  /\ mode' = [mode EXCEPT ![t] = "UNINTERRUPTIBLE"]
  /\ sig' = [sig EXCEPT ![t] = FALSE]
Got(t, l) == held' = [held EXCEPT ![t] = @ \cup {l}] /\ UNCHANGED backoff

(* __mutex_trylock(): the lock is free, or has been handed to t. *)
CanTake(t, l) == owner[l] = None \/ (owner[l] = t /\ "PICKUP" \in flags[l])
Take(t, l) ==
  /\ owner' = [owner EXCEPT ![l] = t]
  /\ flags' = [flags EXCEPT ![l] =
                 @ \ (IF owner[l] = None THEN {"HANDOFF"} ELSE {"HANDOFF", "PICKUP"})]

(* __ww_ctx_stamp_after() *)
StampAfter(a, b) ==
  \E i, j \in DOMAIN ages : ages[i] = a /\ ages[j] = b /\ i > j

(* Mutant: nobody is told to back off. *)
MustBackOffNever(l, a) == {}

(* u is the first waiter with a context. *)
FirstContext(u, l) ==
  \E i \in DOMAIN wait_list[l] :
    wait_list[l][i] = u /\ \A j \in DOMAIN wait_list[l] : j < i => wait_list[l][j] \notin WwTasks

(* __ww_mutex_wakeup_for_backoff(): the first waiter with a context, if it *)
(* has to back off now that a holds the lock.                              *)
MustBackOff(l, a) ==
  {u \in WwTasks : FirstContext(u, l) /\ acquired[u] > 0 /\ StampAfter(u, a)}

(* ww_mutex_lock_acquired(), and ww->ctx = ww_ctx *)
SetContext(t, l) ==
  /\ acquired' = IF t \in WwTasks THEN [acquired EXCEPT ![t] = @ + 1] ELSE acquired
  /\ ctx' = IF t \in WwTasks THEN [ctx EXCEPT ![l] = t] ELSE ctx
  /\ UNCHANGED ages

(* A call of mutex_lock(), ww_mutex_lock() or an interruptible variant: an *)
(* uncontended lock is taken at once, else the slow path begins.           *)
Lock(t, l) ==
  /\ pc[t] = "idle" /\ ~backoff[t]
  /\ t \in WwTasks \/ held[t] = {}
  /\ \/ /\ owner[l] = None /\ flags[l] = {}
        /\ owner' = [owner EXCEPT ![l] = t]
        /\ \/ t \in WwTasks /\ Goto(t, "fctx") /\ lk' = [lk EXCEPT ![t] = l] /\ UNCHANGED held
           \/ t \notin WwTasks /\ held' = [held EXCEPT ![t] = {l}] /\ UNCHANGED <<pc, lk>>
        /\ UNCHANGED mode
     \/ /\ ~(owner[l] = None /\ flags[l] = {})
        /\ Goto(t, "slow")
        /\ lk' = [lk EXCEPT ![t] = l]
        /\ \E m \in IF t \in WwTasks THEN WwModes ELSE Modes : mode' = [mode EXCEPT ![t] = m]
        /\ UNCHANGED <<owner, held>>
  /\ UNCHANGED <<flags, wait_list, wait_lock, ww, first, state, sig, handoff, wake_q, backoff>>

(* mutex_trylock(), when it succeeds. *)
TryLock(t, l) ==
  /\ pc[t] = "idle" /\ t \notin WwTasks /\ held[t] = {}
  /\ CanTake(t, l)
  /\ Take(t, l)
  /\ Got(t, l)
  /\ UNCHANGED <<wait_list, wait_lock, ww, pc, lk, first, sleep, handoff, wake_q>>

(* ww_mutex_set_context_fastpath(): first the context is published ...     *)
FastSetContext(t) ==
  /\ pc[t] = "fctx"
  /\ SetContext(t, lk[t])
  /\ Goto(t, "fcheck")
  /\ UNCHANGED <<word, wait_list, wait_lock, lk, first, sleep, handoff, wake_q, caller>>

(* ... then the flag tells whether somebody may have to see it.            *)
FastCheckWaiters(t) ==
  /\ pc[t] = "fcheck"
  /\ IF "WAITERS" \in flags[lk[t]]
     THEN Goto(t, "fwake") /\ UNCHANGED <<lk, first, mode, sig, caller>>
     ELSE Return(t) /\ Got(t, lk[t])
  /\ UNCHANGED <<word, wait_list, wait_lock, ww, state, handoff, wake_q>>

FastWake(t) ==
  /\ pc[t] = "fwake"
  /\ EnterAndLeave(t, lk[t])
  /\ Woken(MustBackOff(lk[t], t))
  /\ Return(t) /\ Got(t, lk[t])
  /\ UNCHANGED <<word, wait_list, ww, handoff, wake_q>>

(* __mutex_lock_common() begins: -EALREADY, or a trylock. *)
SlowTry(t) ==
  /\ pc[t] = "slow"
  /\ LET l == lk[t] IN
     \/ /\ t \in WwTasks /\ ctx[l] = t
        /\ Return(t)
        /\ UNCHANGED <<word, caller>>
     \/ /\ ~(t \in WwTasks /\ ctx[l] = t)
        /\ CanTake(t, l)
        /\ Take(t, l)
        /\ \/ t \in WwTasks /\ Goto(t, "fctx") /\ UNCHANGED <<lk, first, mode, sig, caller>>
           \/ t \notin WwTasks /\ Return(t) /\ Got(t, l)
     \/ /\ ~(t \in WwTasks /\ ctx[l] = t)
        /\ ~CanTake(t, l)
        /\ Goto(t, "queue")
        /\ UNCHANGED <<word, lk, first, mode, sig, caller>>
  /\ UNCHANGED <<wait_list, wait_lock, ww, state, handoff, wake_q>>

(* -EDEADLK: the caller has to release what it holds. *)
Refuse(t) == backoff' = [backoff EXCEPT ![t] = held[t] # {}] /\ UNCHANGED held

(* __ww_mutex_add_waiter(): where t joins the list q (behind the last      *)
(* older context), and the younger waiters it passes that hold locks.      *)
Older(t, q) == {i \in DOMAIN q : q[i] \in WwTasks /\ StampAfter(t, q[i])}
Younger(t, q) == {i \in DOMAIN q : q[i] \in WwTasks /\ StampAfter(q[i], t)}
Passed(t, q) == {i \in Younger(t, q) : \A j \in Older(t, q) : j < i}
(* Mutant: waiters are queued in the order they come. *)
AddWaiterAtTail(t, q) == Append(q, t)

AddWaiter(t, q) ==
  IF t \notin WwTasks \/ Passed(t, q) = {} THEN Append(q, t)
  ELSE ListAddAt(q, CHOOSE i \in Passed(t, q) : \A j \in Passed(t, q) : i <= j, t)

(* Inside wait_lock: try again, else join the waiters or back off at once. *)
Queue(t) ==
  /\ pc[t] = "queue"
  /\ LET l == lk[t]
         q == wait_list[l]
     IN
     \/ /\ CanTake(t, l)
        /\ Take(t, l)
        /\ EnterAndLeave(t, l)
        /\ Woken(IF t \in WwTasks THEN MustBackOff(l, t) ELSE {})
        /\ SetContext(t, l)
        /\ Return(t) /\ Got(t, l)
        /\ UNCHANGED wait_list
     \/ /\ ~CanTake(t, l)
        /\ Woken(IF t \in WwTasks
                 THEN {u \in {q[i] : i \in Passed(t, q)} : acquired[u] > 0} ELSE {})
        /\ IF t \in WwTasks /\ acquired[t] > 0 /\ Older(t, q) # {}
           THEN EnterAndLeave(t, l) /\ Return(t) /\ Refuse(t) /\ UNCHANGED wait_list
           ELSE /\ Enter(t, l)
                /\ wait_list' = [wait_list EXCEPT ![l] = AddWaiter(t, q)]
                /\ Goto(t, "flag")
                /\ UNCHANGED <<lk, first, mode, sig, caller>>
        /\ UNCHANGED <<word, ww>>
  /\ UNCHANGED <<handoff, wake_q>>

IsFirst(t, l) == wait_list[l] # <<>> /\ Head(wait_list[l]) = t
SetFlag(l, f) == flags' = [flags EXCEPT ![l] = @ \cup {f}] /\ UNCHANGED owner

SetWaiters(t) ==
  /\ pc[t] = "flag"
  /\ IF IsFirst(t, lk[t]) THEN SetFlag(lk[t], "WAITERS") ELSE UNCHANGED word
  /\ SetState(t, mode[t])
  /\ Goto(t, "top")
  /\ UNCHANGED <<wait_list, wait_lock, ww, lk, first, mode, sig, handoff, wake_q, caller>>

(* Mutant: the holder's stamp is not compared. *)
MustDieForAny(t, l) ==
  /\ t \in WwTasks /\ acquired[t] > 0
  /\ \/ ctx[l] # None
     \/ \E i, j \in DOMAIN wait_list[l] :
          wait_list[l][j] = t /\ i < j /\ wait_list[l][i] \in WwTasks

(* __ww_mutex_lock_check_stamp(): an older context holds the lock, or      *)
(* waits in front of t.                                                    *)
MustDie(t, l) ==
  /\ t \in WwTasks /\ acquired[t] > 0
  /\ \/ ctx[l] # None /\ StampAfter(t, ctx[l])
     \/ \E i, j \in DOMAIN wait_list[l] :
          wait_list[l][j] = t /\ i < j /\ wait_list[l][i] \in WwTasks

(* signal_pending_state() *)
Interrupted(t) == mode[t] = "INTERRUPTIBLE" /\ sig[t]

(* Mutant: the signal is looked at before the trylock. *)
LoopTakesUnlessSignalled(t, l) == CanTake(t, l) /\ ~Interrupted(t)
LoopTakes(t, l) == CanTake(t, l)

(* The top of the wait loop, inside wait_lock: take the lock, or give up   *)
(* for a signal or for an older context, or sleep.                         *)
LoopTop(t) ==
  /\ pc[t] = "top"
  /\ LET l == lk[t] IN
     \/ /\ LoopTakes(t, l)
        /\ Enter(t, l)
        /\ Take(t, l)
        /\ Goto(t, "acq")
        /\ UNCHANGED <<wait_list, lk, first, sleep, caller>>
     \/ /\ ~LoopTakes(t, l)
        /\ Interrupted(t) \/ MustDie(t, l)
        /\ EnterAndLeave(t, l)
        /\ wait_list' = [wait_list EXCEPT ![l] = ListDel(@, t)]
        /\ SetState(t, "RUNNING")
        /\ Return(t)
        /\ IF Interrupted(t) THEN UNCHANGED caller ELSE Refuse(t)
        /\ UNCHANGED word
     \/ /\ ~LoopTakes(t, l) /\ ~Interrupted(t) /\ ~MustDie(t, l)
        /\ EnterAndLeave(t, l)
        /\ Goto(t, "sched")
        /\ UNCHANGED <<word, wait_list, lk, first, sleep, caller>>
  /\ UNCHANGED <<ww, handoff, wake_q>>

(* schedule() returns; a waiter that finds itself first asks for a handoff,*)
(* a context checks its place every time (so its `first' is dead).         *)
CheckFirst(t) ==
  /\ pc[t] = "sched" /\ state[t] = "RUNNING"
  /\ LET look == t \in WwTasks \/ ~first[t]
         f == IsFirst(t, lk[t])
     IN /\ first' = [first EXCEPT ![t] = t \notin WwTasks /\ (@ \/ f)]
        /\ Goto(t, IF look /\ f THEN "hand" ELSE "try")
        /\ SetState(t, IF look /\ f THEN "RUNNING" ELSE mode[t])
  /\ UNCHANGED <<word, wait_list, wait_lock, ww, lk, mode, sig, handoff, wake_q, caller>>

AskHandoff(t) ==
  /\ pc[t] = "hand"
  /\ SetFlag(lk[t], "HANDOFF")
  /\ SetState(t, mode[t])
  /\ Goto(t, "try")
  /\ UNCHANGED <<wait_list, wait_lock, ww, lk, first, mode, sig, handoff, wake_q, caller>>

(* Mutant: the task goes back to sleep without another try. *)
WaiterTryLater(t) ==
  /\ pc[t] = "try"
  /\ Goto(t, "sched")
  /\ UNCHANGED <<word, wait_list, wait_lock, ww, lk, first, sleep, handoff, wake_q, caller>>

WaiterTry(t) ==
  /\ pc[t] = "try"
  /\ IF CanTake(t, lk[t]) THEN Take(t, lk[t]) /\ Goto(t, "acq")
     ELSE Goto(t, "top") /\ UNCHANGED word
  /\ UNCHANGED <<wait_list, wait_lock, ww, lk, first, sleep, handoff, wake_q, caller>>

(* "acquired:", the last waiter clears the flags. *)
Acquired(t) ==
  /\ pc[t] = "acq"
  /\ LET l == lk[t]
         q == ListDel(wait_list[l], t)
     IN /\ EnterAndLeave(t, l)
        /\ wait_list' = [wait_list EXCEPT ![l] = q]
        /\ flags' = [flags EXCEPT ![l] = IF q = <<>> THEN {} ELSE @]
        /\ SetContext(t, l)
        /\ Got(t, l)
  /\ SetState(t, "RUNNING")
  /\ Return(t)
  /\ UNCHANGED <<owner, handoff, wake_q>>

(* ww_mutex_unlock() and mutex_unlock(): a context is detached first. *)
Unlock(t, l) ==
  /\ pc[t] = "idle" /\ l \in held[t]
  /\ acquired' = IF ctx[l] = None THEN acquired
                 ELSE [acquired EXCEPT ![ctx[l]] = IF @ > 0 THEN @ - 1 ELSE @]
  /\ ctx' = [ctx EXCEPT ![l] = None]
  /\ held' = [held EXCEPT ![t] = @ \ {l}]
  /\ backoff' = [backoff EXCEPT ![t] = @ /\ held[t] # {l}]
  /\ lk' = [lk EXCEPT ![t] = l]
  /\ Goto(t, "ufast")
  /\ UNCHANGED <<word, wait_list, wait_lock, ages, first, sleep, handoff, wake_q>>

Unlocked(t) == Goto(t, "idle") /\ lk' = [lk EXCEPT ![t] = None]

UnlockFast(t) ==
  /\ pc[t] = "ufast"
  /\ IF owner[lk[t]] = t /\ flags[lk[t]] = {}
     THEN owner' = [owner EXCEPT ![lk[t]] = None] /\ Unlocked(t)
     ELSE Goto(t, "uslow") /\ UNCHANGED <<owner, lk>>
  /\ UNCHANGED <<flags, wait_list, wait_lock, ww, first, sleep, handoff, wake_q, caller>>

(* Mutant: the lock is released although a handoff was asked for. *)
HandoffWantedNever(l) == FALSE
HandoffWanted(l) == "HANDOFF" \in flags[l]

(* __mutex_unlock_slowpath(): release the owner word, unless a handoff was *)
(* asked for, and see to the waiters.                                      *)
UnlockSlow(t) ==
  /\ pc[t] = "uslow"
  /\ LET l == lk[t] IN
     IF HandoffWanted(l)
     THEN handoff' = [handoff EXCEPT ![t] = TRUE] /\ Goto(t, "uwake") /\ UNCHANGED <<owner, lk>>
     ELSE /\ owner' = [owner EXCEPT ![l] = None]
          /\ IF "WAITERS" \in flags[l] THEN Goto(t, "uwake") /\ UNCHANGED lk ELSE Unlocked(t)
          /\ UNCHANGED handoff
  /\ UNCHANGED <<flags, wait_list, wait_lock, ww, first, sleep, wake_q, caller>>

(* wake_q_add(): a task that is on some wake_q already is not added again. *)
Unmarked(S) == S \ UNION {wake_q[u] : u \in Tasks}

(* Mutant: the owner word is read again, when it may be another task's. *)
HandsOffRereading(t, l) == "HANDOFF" \in flags[l]
HandsOff(t, l) == handoff[t]

(* Inside wait_lock: mark the first waiter, and __mutex_handoff() to it.   *)
UnlockWaiters(t) ==
  /\ pc[t] = "uwake"
  /\ LET l == lk[t]
         q == wait_list[l]
         next == IF q = <<>> THEN None ELSE Head(q)
     IN /\ EnterAndLeave(t, l)
        /\ wake_q' = [wake_q EXCEPT ![t] = Unmarked({next} \ {None})]
        /\ IF HandsOff(t, l)
           THEN /\ owner' = [owner EXCEPT ![l] = next]
                /\ flags' = [flags EXCEPT ![l] =
                     (@ \cap {"WAITERS"}) \cup (IF next = None THEN {} ELSE {"PICKUP"})]
           ELSE UNCHANGED word
  /\ handoff' = [handoff EXCEPT ![t] = FALSE]
  /\ Goto(t, "uwakeq")
  /\ UNCHANGED <<wait_list, ww, lk, first, sleep, caller>>

WakeUpQ(t) ==
  /\ pc[t] = "uwakeq"
  /\ Woken(wake_q[t])
  /\ wake_q' = [wake_q EXCEPT ![t] = {}]
  /\ Unlocked(t)
  /\ UNCHANGED <<word, wait_list, wait_lock, ww, first, mode, sig, handoff, caller>>

(* ww_acquire_init() of a task that holds nothing: the youngest stamp. *)
AcquireInit(t) ==
  /\ pc[t] = "idle" /\ t \in WwTasks /\ held[t] = {}
  /\ ages' = Append(ListDel(ages, t), t)
  /\ acquired' = [acquired EXCEPT ![t] = 0]
  /\ UNCHANGED <<word, wait_list, wait_lock, ctx, pc, lk, first, sleep, handoff, wake_q, caller>>

(* Environment: a signal, and wakeups that have nothing to do with locks. *)
Signal(t) ==
  /\ mode[t] = "INTERRUPTIBLE" /\ ~sig[t]
  /\ sig' = [sig EXCEPT ![t] = TRUE]
  /\ SetState(t, IF state[t] = "INTERRUPTIBLE" THEN "RUNNING" ELSE state[t])
  /\ UNCHANGED <<word, wait_list, wait_lock, ww, pc, lk, first, mode, handoff, wake_q, caller>>

StrayWakeup(t) ==
  /\ state[t] # "RUNNING"
  /\ SetState(t, "RUNNING")
  /\ UNCHANGED <<word, wait_list, wait_lock, ww, pc, lk, first, mode, sig, handoff, wake_q, caller>>

Next ==
  \E t \in Tasks :
    \/ \E l \in Locks : Lock(t, l) \/ TryLock(t, l) \/ Unlock(t, l)
    \/ FastSetContext(t) \/ FastCheckWaiters(t) \/ FastWake(t)
    \/ SlowTry(t) \/ Queue(t) \/ SetWaiters(t) \/ LoopTop(t) \/ CheckFirst(t)
    \/ AskHandoff(t) \/ WaiterTry(t) \/ Acquired(t)
    \/ UnlockFast(t) \/ UnlockSlow(t) \/ UnlockWaiters(t) \/ WakeUpQ(t)
    \/ AcquireInit(t) \/ Signal(t) \/ StrayWakeup(t)

Spec == Init /\ [][Next]_vars
-----------------------------------------------------------------------------
(* Types.                                                                  *)
TypeOK ==
  /\ owner \in [Locks -> Tasks \cup {None}]
  /\ flags \in [Locks -> SUBSET Flags]
  /\ wait_list \in [Locks -> Seq(Tasks)]
  /\ wait_lock \in [Locks -> Tasks \cup {None}]
  /\ ctx \in [Locks -> WwTasks \cup {None}]
  /\ acquired \in [Tasks -> Nat]
  /\ ages \in Seq(Tasks) /\ WwTasks \in WwSets
  /\ pc \in [Tasks -> Locs]
  /\ lk \in [Tasks -> Locks \cup {None}]
  /\ first \in [Tasks -> BOOLEAN]
  /\ state \in [Tasks -> {"RUNNING", "INTERRUPTIBLE", "UNINTERRUPTIBLE"}]
  /\ mode \in [Tasks -> {"INTERRUPTIBLE", "UNINTERRUPTIBLE"}]
  /\ sig \in [Tasks -> BOOLEAN]
  /\ handoff \in [Tasks -> BOOLEAN]
  /\ wake_q \in [Tasks -> SUBSET Tasks]
  /\ held \in [Tasks -> SUBSET Locks]
  /\ backoff \in [Tasks -> BOOLEAN]

(* The task has the lock, from the successful trylock to the release. *)
HasLock(t, l) ==
  \/ l \in held[t]
  \/ lk[t] = l /\ pc[t] \in {"fctx", "fcheck", "fwake", "acq", "ufast", "uslow"}

(* Every task that has the lock is the one in the owner word, and nobody   *)
(* else can pick it up: whatever fast path, steal or handoff it came by.   *)
(* ww->ctx is the context of the task that has the lock, if any, and       *)
(* ww_ctx->acquired, on which the order of waiters depends, counts them.   *)
MutualExclusion ==
  /\ TypeOK
  /\ \A t \in Tasks, l \in Locks : HasLock(t, l) => owner[l] = t /\ "PICKUP" \notin flags[l]
  /\ \A l \in Locks : ctx[l] # None => HasLock(ctx[l], l)
  /\ \A t \in Tasks : acquired[t] = Cardinality({l \in Locks : ctx[l] = t})

Asleep(t) ==
  pc[t] = "sched" /\ state[t] # "RUNNING" /\ \A u \in Tasks : t \notin wake_q[u]

(* A lock that was handed to a waiter is not lost: the waiter is still on  *)
(* the list, and awake or about to be woken.  A signal that arrives at the *)
(* same time does not make it leave without the lock.                      *)
PickupWillHappen ==
  \A l \in Locks : "PICKUP" \in flags[l] =>
    /\ Contains(wait_list[l], owner[l])
    /\ ~Asleep(owner[l])

(* Once the first waiter has asked for a handoff from the owner, the lock  *)
(* goes to the first waiter and cannot be stolen.                          *)
HandoffHonoured ==
  [][\A l \in Locks :
       /\ owner[l] # None /\ "HANDOFF" \in flags[l]
       /\ owner'[l] # owner[l]
       => owner'[l] = (IF wait_list[l] = <<>> THEN None ELSE Head(wait_list[l]))]_vars

(* No wakeup is lost: a free lock with waiters has a waiter that is awake, *)
(* or an unlocking task that will wake one.                                *)
NoLostWakeup ==
  \A l \in Locks : wait_list[l] # <<>> /\ owner[l] = None =>
    \/ \E t \in Range(wait_list[l]) : ~Asleep(t)
    \/ \E t \in Tasks : pc[t] = "uwake" /\ lk[t] = l

(* The waiters with a context are in the order of their stamps, as the     *)
(* comments of __ww_mutex_lock_check_stamp() and of                        *)
(* __ww_mutex_wakeup_for_backoff() assume.                                 *)
WaitListOrdered ==
  \A l \in Locks : \A i, j \in DOMAIN wait_list[l] :
    /\ i < j
    /\ wait_list[l][i] \in WwTasks /\ wait_list[l][j] \in WwTasks
    => StampAfter(wait_list[l][j], wait_list[l][i])

(* Tasks with contexts that take locks in any order never wait for each    *)
(* other in a circle.                                                      *)
NoDeadlock ==
  \A S \in SUBSET Tasks :
    S # {} => ~ \A t \in S : Asleep(t) /\ owner[lk[t]] \in S

(* A task is only told to back off for an older context that has or wants  *)
(* the same lock: so the oldest one never is.                              *)
BacksOffForOlder ==
  [][\A t \in WwTasks : backoff'[t] /\ ~backoff[t] =>
       \E u \in WwTasks : /\ StampAfter(t, u)
                          /\ ctx[lk[t]] = u \/ Contains(wait_list[lk[t]], u)]_vars
=============================================================================
