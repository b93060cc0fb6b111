------------------------------ MODULE RcuSync ------------------------------
(***************************************************************************)
(* kernel/rcu/sync.c: updaters keep readers off their fast path, at the    *)
(* price of one grace period for a series of updates.                      *)
(*                                                                         *)
(* The grace periods are those that RCU promises (GracePeriod): sync()     *)
(* returns and the callback runs when the readers that were in a critical  *)
(* section at the call have left it.                                       *)
(***************************************************************************)
EXTENDS Naturals, FiniteSets

CONSTANTS
  Updaters,
  Readers,
  Cb         \* rcu_sync_func(), among those who wait for a grace period

ASSUME RssAssumption == IsFiniteSet(Updaters) /\ Cb \notin Updaters

VARIABLES
  gp_state, gp_count, cb_state,
  gp_wait,   \* updaters on the wait queue
  cb_head,   \* the callback is queued
  upc,       \* where an updater is
  asleep,    \* updaters that are not runnable
  dtor,      \* where rcu_sync_dtor() is
  bug,       \* a BUG_ON() has triggered
  section,   \* readers in an RCU critical section
  fast,      \* readers in a section that have found rcu_sync_is_idle()
  older,     \* readers that an updater in sync(), or the callback, waits for
  stale      \* history: readers in a section since before the last exit

sync == <<gp_state, gp_count, cb_state, cb_head>>
queue == <<gp_wait, asleep>>
rcu == <<section, fast, older, stale>>
rssvars == <<sync, queue, upc, dtor, bug, rcu>>

GP_IDLE == 0
GP_PENDING == 1
GP_PASSED == 2
CB_IDLE == 0
CB_PENDING == 1
CB_REPLAY == 2

(* rcu_sync_init(), perhaps with rcu_sync_enter_start(). *)
RssInit ==
  /\ \/ /\ gp_state = GP_IDLE /\ gp_count = 0
        /\ upc = [u \in Updaters |-> "out"]
     \/ /\ gp_state = GP_PASSED /\ gp_count = 1
        /\ \E s \in Updaters : upc = [u \in Updaters |-> IF u = s THEN "in" ELSE "out"]
  /\ cb_state = CB_IDLE /\ cb_head = FALSE
  /\ gp_wait = {} /\ asleep = {}
  /\ dtor = "no" /\ bug = FALSE
  /\ section = {} /\ fast = {} /\ stale = {}
  /\ older = [u \in Updaters \cup {Cb} |-> {}]

Goto(u, l) == upc' = [upc EXCEPT ![u] = l]
-----------------------------------------------------------------------------
(* The readers. *)
ReadLock(r) ==
  /\ r \notin section
  /\ section' = section \cup {r}
  /\ UNCHANGED <<sync, queue, upc, dtor, bug, fast, older, stale>>

rcu_sync_is_idle == gp_state = GP_IDLE

TakeFastPath(r) ==
  /\ r \in section \ fast
  /\ rcu_sync_is_idle
  /\ fast' = fast \cup {r}
  /\ UNCHANGED <<sync, queue, upc, dtor, bug, section, older, stale>>

ReadUnlock(r) ==
  /\ r \in section
  /\ section' = section \ {r}
  /\ fast' = fast \ {r}
  /\ older' = [u \in DOMAIN older |-> older[u] \ {r}]
  /\ stale' = stale \ {r}
  /\ UNCHANGED <<sync, queue, upc, dtor, bug>>
-----------------------------------------------------------------------------
(* rcu_sync_enter(): the section under rss_lock. *)
Enter(u) ==
  LET need_wait == gp_count > 0
      need_sync == gp_state = GP_IDLE
  IN
  /\ upc[u] = "out" /\ dtor = "no"
  /\ gp_count' = gp_count + 1
  /\ gp_state' = IF need_sync THEN GP_PENDING ELSE gp_state
  /\ bug' = (bug \/ (need_wait /\ need_sync))
  /\ Goto(u, IF need_sync THEN "sync" ELSE IF need_wait THEN "wait" ELSE "check")
  /\ older' = [older EXCEPT ![u] = IF need_sync THEN section ELSE {}]
  /\ UNCHANGED <<cb_state, cb_head, queue, dtor, section, fast, stale>>

(* Mutant: GP_PASSED is not waited for. *)
SyncedEarly(u) == TRUE
Synced(u) == older[u] = {}

(* sync() returns: GP_PASSED, then wake_up_all(). *)
EnterSynced(u) ==
  /\ upc[u] = "sync" /\ Synced(u)
  /\ gp_state' = GP_PASSED
  /\ Goto(u, "wake")
  /\ UNCHANGED <<gp_count, cb_state, cb_head, queue, dtor, bug, rcu>>

EnterWakesAll(u) ==
  /\ upc[u] = "wake"
  /\ asleep' = asleep \ gp_wait
  /\ gp_wait' = gp_wait \ asleep
  /\ Goto(u, "in")
  /\ UNCHANGED <<sync, dtor, bug, rcu>>

(* The loop of wait_event(). *)
WaitCheckFirst(u) ==
  /\ upc[u] = "wait"
  /\ Goto(u, IF gp_state = GP_PASSED THEN "in" ELSE "prepare")
  /\ UNCHANGED <<sync, queue, dtor, bug, rcu>>

WaitPrepare(u) ==
  /\ upc[u] = "prepare"
  /\ gp_wait' = gp_wait \cup {u}
  /\ asleep' = asleep \cup {u}
  /\ Goto(u, "recheck")
  /\ UNCHANGED <<sync, dtor, bug, rcu>>

WaitRecheck(u) ==
  /\ upc[u] = "recheck"
  /\ \/ /\ gp_state = GP_PASSED
        /\ gp_wait' = gp_wait \ {u}
        /\ asleep' = asleep \ {u}
        /\ Goto(u, "in")
     \/ /\ gp_state # GP_PASSED
        /\ Goto(u, "sleep")
        /\ UNCHANGED queue
  /\ UNCHANGED <<sync, dtor, bug, rcu>>

WaitScheduled(u) ==
  /\ upc[u] = "sleep" /\ u \notin asleep
  /\ Goto(u, "prepare")
  /\ UNCHANGED <<sync, queue, dtor, bug, rcu>>

StrayWakeup(u) ==
  /\ u \in asleep
  /\ asleep' = asleep \ {u}
  /\ UNCHANGED <<sync, gp_wait, upc, dtor, bug, rcu>>

(* A callback is pending from rcu_sync_exit(): no wait at all. *)
EnterAtOnce(u) ==
  /\ upc[u] = "check"
  /\ bug' = (bug \/ gp_state # GP_PASSED)
  /\ Goto(u, "in")
  /\ UNCHANGED <<sync, queue, dtor, rcu>>

(* call(&rsp->cb_head, rcu_sync_func) *)
Call == cb_head' = TRUE /\ older' = [older EXCEPT ![Cb] = section]
NoCall == UNCHANGED <<cb_head, older>>

(* Mutant: an exit that finds the callback pending leaves it at that. *)
ExitReplayNot == cb_state
ExitReplay == IF cb_state = CB_PENDING THEN CB_REPLAY ELSE cb_state

Exit(u) ==
  /\ upc[u] = "in"
  /\ gp_count' = gp_count - 1
  /\ \/ /\ gp_count = 1
        /\ \/ cb_state = CB_IDLE /\ cb_state' = CB_PENDING /\ Call
           \/ cb_state # CB_IDLE /\ cb_state' = ExitReplay /\ NoCall
        /\ stale' = section
     \/ /\ gp_count # 1
        /\ UNCHANGED <<cb_state, stale>> /\ NoCall
  /\ Goto(u, "out")
  /\ UNCHANGED <<gp_state, queue, dtor, bug, section, fast>>

(* Mutant: the callback of an exit that was followed by an enter is not    *)
(* dropped.                                                                *)
FuncDropsNot == FALSE
FuncDrops == gp_count > 0

(* Mutant: the callback ends without opening the fast path. *)
StateAfterFuncKept == gp_state
StateAfterFunc == GP_IDLE

(* rcu_sync_func(), a grace period after it was queued. *)
Func ==
  /\ cb_head /\ older[Cb] = {}
  /\ bug' = (bug \/ gp_state # GP_PASSED \/ cb_state = CB_IDLE)
  /\ \/ /\ FuncDrops
        /\ cb_state' = CB_IDLE /\ cb_head' = FALSE
        /\ UNCHANGED <<gp_state, older>>
     \/ /\ ~FuncDrops /\ cb_state = CB_REPLAY
        /\ cb_state' = CB_PENDING /\ Call
        /\ UNCHANGED gp_state
     \/ /\ ~FuncDrops /\ cb_state # CB_REPLAY
        /\ cb_state' = CB_IDLE /\ gp_state' = StateAfterFunc /\ cb_head' = FALSE
        /\ UNCHANGED older
  /\ dtor' = IF dtor = "barrier" THEN "waited" ELSE dtor
  /\ UNCHANGED <<gp_count, queue, upc, section, fast, stale>>

DtorState == IF cb_state = CB_REPLAY THEN CB_PENDING ELSE cb_state

(* rcu_sync_dtor(), when nobody will enter any more: wait() returns after  *)
(* the callback that is queued has run once.                               *)
Dtor ==
  /\ dtor = "no" /\ \A u \in Updaters : upc[u] = "out"
  /\ bug' = (bug \/ gp_count # 0)
  /\ cb_state' = DtorState
  /\ dtor' = IF cb_state = CB_IDLE THEN "freed" ELSE "barrier"
  /\ UNCHANGED <<gp_state, gp_count, cb_head, queue, upc, rcu>>

DtorWaited ==
  /\ dtor = "waited"
  /\ bug' = (bug \/ cb_state # CB_IDLE)
  /\ dtor' = "freed"
  /\ UNCHANGED <<sync, queue, upc, rcu>>

(* The memory is used for a new rcu_sync. *)
Reuse ==
  /\ dtor = "freed" /\ section = {}
  /\ dtor' = "no"
  /\ gp_state' = GP_IDLE /\ gp_count' = 0 /\ cb_state' = CB_IDLE
  /\ UNCHANGED <<cb_head, queue, upc, bug, rcu>>

Updater(u) ==
  \/ EnterSynced(u) \/ EnterWakesAll(u) \/ EnterAtOnce(u)
  \/ WaitCheckFirst(u) \/ WaitPrepare(u) \/ WaitRecheck(u) \/ WaitScheduled(u)

RssNext ==
  \/ \E u \in Updaters : Enter(u) \/ Updater(u) \/ Exit(u) \/ StrayWakeup(u)
  \/ \E r \in Readers : ReadLock(r) \/ TakeFastPath(r) \/ ReadUnlock(r)
  \/ Func \/ Dtor \/ DtorWaited \/ Reuse

RssSpec == RssInit /\ [][RssNext]_rssvars
-----------------------------------------------------------------------------
UpdaterLocs == {"out", "sync", "wake", "wait", "prepare", "recheck", "sleep", "check", "in"}

(* Types. *)
RssTypeOK ==
  /\ gp_state \in {GP_IDLE, GP_PENDING, GP_PASSED}
  /\ gp_count \in Nat
  /\ cb_state \in {CB_IDLE, CB_PENDING, CB_REPLAY}
  /\ cb_head \in BOOLEAN
  /\ gp_wait \in SUBSET Updaters
  /\ asleep \in SUBSET Updaters
  /\ upc \in [Updaters -> UpdaterLocs]
  /\ dtor \in {"no", "barrier", "waited", "freed"}
  /\ bug \in BOOLEAN
  /\ section \in SUBSET Readers
  /\ fast \in SUBSET section
  /\ older \in [Updaters \cup {Cb} -> SUBSET section]
  /\ stale \in SUBSET section

(* What rcu_sync_enter() is for: when it has returned, no reader is on the *)
(* fast path, and none gets on it before the matching rcu_sync_exit().     *)
FastPathClosed ==
  \A u \in Updaters : upc[u] = "in" => gp_state = GP_PASSED /\ fast = {}

(* The fast path opens a full grace period after the last rcu_sync_exit(): *)
(* all the readers of that time are gone, although one callback serves     *)
(* many exits.                                                             *)
OpenAfterGracePeriod == dtor = "no" /\ gp_state = GP_IDLE => stale = {}

(* None of the BUG_ON()s of sync.c triggers, and a freed rcu_sync has no   *)
(* callback queued that would use its memory.                              *)
NoBug == ~bug /\ (dtor = "freed" => ~cb_head)

(* When the updates end, readers get their fast path back. *)
FastPathReopens ==
  (<>[](gp_count = 0)) => <>[](gp_state = GP_IDLE \/ dtor # "no")
=============================================================================
