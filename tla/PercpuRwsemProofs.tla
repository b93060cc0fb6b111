------------------------- MODULE PercpuRwsemProofs -------------------------
(***************************************************************************)
(* Proofs about RcuSync, for every finite set of updaters and every set of *)
(* readers, and then about PercpuRwsem: it uses rcu_sync as RcuSync says,  *)
(* so what holds of that holds of it, and with that it is a reader/writer  *)
(* lock.                                                                   *)
(***************************************************************************)
EXTENDS PercpuRwsem, FiniteSetTheorems, TLAPS

Busy == {u \in Updaters : upc[u] # "out"}

(* gp_count counts the updaters, and is zero while the fast path is open   *)
(* or the rcu_sync is being destroyed.                                     *)
CountInv ==
  /\ gp_count = Cardinality(Busy)
  /\ gp_state = GP_IDLE \/ dtor # "no" => Busy = {}

(* One updater at most is in sync(), exactly while GP_PENDING; whoever is  *)
(* past it has GP_PASSED; and a callback is queued while its state says    *)
(* so, which is in GP_PASSED only.                                         *)
StateInv ==
  /\ gp_state = GP_PENDING => \E u \in Updaters : upc[u] = "sync"
  /\ \A u \in Updaters : upc[u] = "sync" => gp_state = GP_PENDING
  /\ \A u, v \in Updaters : upc[u] = "sync" /\ upc[v] = "sync" => u = v
  /\ \A u \in Updaters : upc[u] \in {"wake", "check", "in"} => gp_state = GP_PASSED
  /\ cb_state # CB_IDLE => gp_state = GP_PASSED
  /\ cb_head <=> cb_state # CB_IDLE
  /\ dtor = "barrier" => cb_state = CB_PENDING
  /\ dtor \in {"waited", "freed"} => cb_state = CB_IDLE

(* The readers on the fast path are among those that sync() waits for. *)
FastInv ==
  /\ gp_state = GP_PASSED => fast = {}
  /\ \A u \in Updaters : upc[u] = "sync" => fast \subseteq older[u]

(* The readers from before the last exit are among those that the callback *)
(* waits for, or the callback will be queued again, or an updater inside   *)
(* will queue another one.                                                 *)
StaleInv ==
  dtor = "no" =>
    \/ stale = {}
    \/ Busy # {}
    \/ cb_state = CB_REPLAY
    \/ cb_state = CB_PENDING /\ stale \subseteq older[Cb]

RssInv == RssTypeOK /\ CountInv /\ StateInv /\ FastInv /\ StaleInv /\ ~bug

(* gp_count counts a finite set. *)
LEMMA BusyFacts ==
  /\ IsFiniteSet(Busy)
  /\ Cardinality(Busy) \in Nat
  /\ Cardinality(Busy) = 0 <=> Busy = {}
BY RssAssumption, FS_Subset, FS_CardinalityType, FS_EmptySet, ZenonT(30) DEF Busy

(* Steps that move an updater between places inside and leave the rest. *)
LEMMA MoveInside ==
  ASSUME RssTypeOK, NEW u \in Updaters, NEW l \in UpdaterLocs \ {"out"},
         upc[u] # "out", Goto(u, l)
  PROVE  /\ upc' \in [Updaters -> UpdaterLocs]
         /\ upc'[u] = l
         /\ \A v \in Updaters \ {u} : upc'[v] = upc[v]
         /\ Busy' = Busy
BY ZenonT(30) DEF RssTypeOK, Goto, Busy

(* The invariant holds at the start, and every step preserves it. *)
LEMMA RssInitInv == RssInit => RssInv
<1> SUFFICES ASSUME RssInit PROVE RssInv
  BY ZenonT(30)
<1> USE RssAssumption DEF RssInit, GP_IDLE, GP_PENDING, GP_PASSED, CB_IDLE, CB_PENDING, CB_REPLAY
<1>1. RssTypeOK
  <2>1. upc \in [Updaters -> UpdaterLocs]
    BY ZenonT(30) DEF UpdaterLocs
  <2>2. older \in [Updaters \cup {Cb} -> SUBSET section]
    BY ZenonT(30)
  <2>3. /\ gp_state \in {GP_IDLE, GP_PENDING, GP_PASSED}
        /\ gp_count \in Nat
        /\ cb_state \in {CB_IDLE, CB_PENDING, CB_REPLAY}
    OBVIOUS
  <2>4. /\ cb_head \in BOOLEAN /\ bug \in BOOLEAN
        /\ dtor \in {"no", "barrier", "waited", "freed"}
    BY ZenonT(30)
  <2>5. /\ gp_wait \in SUBSET Updaters /\ asleep \in SUBSET Updaters
        /\ section \in SUBSET Readers /\ fast \in SUBSET section /\ stale \in SUBSET section
    BY ZenonT(30)
  <2> QED
    BY <2>1, <2>2, <2>3, <2>4, <2>5, ZenonT(30) DEF RssTypeOK
<1>2. CASE gp_count = 0
  <2>1. Busy = {}
    BY <1>2 DEF Busy
  <2> QED
    BY <1>1, <1>2, <2>1, FS_EmptySet DEF RssInv, CountInv, StateInv, FastInv, StaleInv
<1>3. CASE gp_count = 1
  <2>1. PICK s \in Updaters : upc = [u \in Updaters |-> IF u = s THEN "in" ELSE "out"]
    BY <1>3
  <2>2. Busy = {s}
    BY <2>1, ZenonT(30) DEF Busy
  <2>3. Cardinality(Busy) = 1
    BY <2>2, FS_Singleton, ZenonT(30)
  <2> QED
    BY <1>1, <1>3, <2>1, <2>2, <2>3 DEF RssInv, CountInv, StateInv, FastInv, StaleInv
<1> QED
  BY <1>2, <1>3, ZenonT(30)

(* A reader of the rcu_sync structure keeps the invariant. *)
LEMMA ReaderSteps ==
  ASSUME RssInv, NEW r \in Readers, ReadLock(r) \/ TakeFastPath(r) \/ ReadUnlock(r)
  PROVE  RssInv'
<1> USE DEF RssInv, RssTypeOK, sync, queue
<1>1. Busy' = Busy
  BY ZenonT(30) DEF ReadLock, TakeFastPath, ReadUnlock, Busy
<1>2. CASE ReadLock(r)
  BY <1>1, <1>2, ZenonT(30) DEF ReadLock, CountInv, StateInv, FastInv, StaleInv
<1>3. CASE TakeFastPath(r)
  <2>1. gp_state = GP_IDLE
    BY <1>3, ZenonT(30) DEF TakeFastPath, rcu_sync_is_idle
  <2>2. \A u \in Updaters : upc[u] # "sync"
    BY <2>1, ZenonT(30) DEF CountInv, Busy
  <2> QED
    BY <1>1, <1>3, <2>1, <2>2 DEF TakeFastPath, CountInv, StateInv, FastInv, StaleInv, GP_IDLE, GP_PASSED
<1>4. CASE ReadUnlock(r)
  BY <1>1, <1>4 DEF ReadUnlock, CountInv, StateInv, FastInv, StaleInv
<1> QED
  BY <1>2, <1>3, <1>4, ZenonT(30)

(* rcu_sync_enter() up to its first wait. *)
LEMMA EnterStep ==
  ASSUME RssInv, NEW u \in Updaters, Enter(u)
  PROVE  RssInv'
<1> USE DEF RssInv, GP_IDLE, GP_PENDING, GP_PASSED, CB_IDLE, CB_PENDING, CB_REPLAY
<1>1. /\ upc[u] = "out" /\ dtor = "no" /\ dtor' = "no"
      /\ gp_count' = gp_count + 1
      /\ upc' = [upc EXCEPT ![u] = IF gp_state = GP_IDLE THEN "sync" ELSE IF gp_count > 0 THEN "wait" ELSE "check"]
      /\ gp_state' = IF gp_state = GP_IDLE THEN GP_PENDING ELSE gp_state
      /\ older' = [older EXCEPT ![u] = IF gp_state = GP_IDLE THEN section ELSE {}]
      /\ bug' = (bug \/ (gp_count > 0 /\ gp_state = GP_IDLE))
      /\ UNCHANGED <<cb_state, cb_head, gp_wait, asleep, section, fast, stale>>
  BY ZenonT(30) DEF Enter, Goto, queue
<1>2. Busy' = Busy \cup {u} /\ u \notin Busy
  BY <1>1, ZenonT(30) DEF Busy, RssTypeOK
<1>3. Cardinality(Busy') = Cardinality(Busy) + 1 /\ Busy' # {}
  BY <1>2, BusyFacts, FS_AddElement, ZenonT(30)
<1>4. RssTypeOK'
  BY <1>1 DEF RssTypeOK, UpdaterLocs
<1>5. CountInv'
  BY <1>1, <1>3 DEF CountInv, RssTypeOK
<1>6. StateInv'
  <2>1. CASE gp_state = GP_IDLE
    <3>1. \A v \in Updaters : upc[v] = "out"
      BY <2>1, ZenonT(30) DEF CountInv, Busy
    <3> QED
      BY <1>1, <2>1, <3>1 DEF StateInv, RssTypeOK
  <2>2. CASE gp_state # GP_IDLE
    <3>1. gp_count = 0 => gp_state = GP_PASSED
      BY <2>2, BusyFacts, ZenonT(30) DEF CountInv, StateInv, Busy, RssTypeOK
    <3> QED
      BY <1>1, <2>2, <3>1 DEF StateInv, RssTypeOK
  <2> QED
    BY <2>1, <2>2, ZenonT(30)
<1>7. FastInv'
  <2>1. CASE gp_state = GP_IDLE
    <3>1. \A v \in Updaters : upc[v] = "out"
      BY <2>1, ZenonT(30) DEF CountInv, Busy
    <3> QED
      BY <1>1, <2>1, <3>1, RssAssumption DEF FastInv, RssTypeOK
  <2>2. CASE gp_state # GP_IDLE
    BY <1>1, <2>2, ZenonT(30) DEF FastInv, RssTypeOK
  <2> QED
    BY <2>1, <2>2, ZenonT(30)
<1>8. StaleInv'
  BY <1>1, <1>3, ZenonT(30) DEF StaleInv
<1>9. ~bug'
  BY <1>1, BusyFacts DEF CountInv, RssTypeOK
<1> QED
  BY <1>4, <1>5, <1>6, <1>7, <1>8, <1>9, ZenonT(30)

(* The rest of rcu_sync_enter(), and a wakeup from elsewhere. *)
LEMMA UpdaterSteps ==
  ASSUME RssInv, NEW u \in Updaters, Updater(u) \/ StrayWakeup(u)
  PROVE  RssInv'
<1> USE DEF RssInv, sync, queue, rcu, GP_IDLE, GP_PENDING, GP_PASSED, CB_IDLE, CB_PENDING, CB_REPLAY
<1>1. CASE EnterSynced(u)
  <2>1. /\ upc[u] = "sync" /\ older[u] = {}
        /\ gp_state' = GP_PASSED
        /\ Goto(u, "wake")
        /\ UNCHANGED <<gp_count, cb_state, cb_head, queue, dtor, bug, rcu>>
    BY <1>1, ZenonT(30) DEF EnterSynced, Synced
  <2>2. /\ upc' \in [Updaters -> UpdaterLocs]
        /\ upc'[u] = "wake"
        /\ \A v \in Updaters \ {u} : upc'[v] = upc[v]
        /\ Busy' = Busy
    BY <2>1, MoveInside, ZenonT(30) DEF UpdaterLocs
  <2>3. fast = {}
    BY <2>1, ZenonT(30) DEF FastInv
  <2>4. RssTypeOK'
    BY <2>1, <2>2, ZenonT(30) DEF RssTypeOK
  <2>5. CountInv'
    BY <2>1, <2>2 DEF CountInv
  <2>6. StateInv'
    BY <2>1, <2>2 DEF StateInv
  <2>7. FastInv' /\ StaleInv'
    BY <2>1, <2>2, <2>3, ZenonT(30) DEF FastInv, StaleInv
  <2> QED
    BY <2>1, <2>4, <2>5, <2>6, <2>7, ZenonT(30)
<1>2. ASSUME NEW l \in UpdaterLocs \ {"out", "sync"}, Goto(u, l),
             upc[u] \notin {"out", "sync"},
             l \in {"wake", "check", "in"} => gp_state = GP_PASSED,
             gp_wait' \in SUBSET Updaters, asleep' \in SUBSET Updaters,
             UNCHANGED <<sync, dtor, bug, rcu>>
      PROVE  RssInv'
  <2>1. /\ upc' \in [Updaters -> UpdaterLocs]
        /\ upc'[u] = l
        /\ \A v \in Updaters \ {u} : upc'[v] = upc[v]
        /\ Busy' = Busy
    BY <1>2, MoveInside, ZenonT(30)
  <2>2. RssTypeOK'
    BY <1>2, <2>1, ZenonT(30) DEF RssTypeOK
  <2>3. CountInv'
    BY <1>2, <2>1, ZenonT(30) DEF CountInv
  <2>4. StateInv'
    BY <1>2, <2>1, ZenonT(30) DEF StateInv
  <2>5. FastInv' /\ StaleInv'
    BY <1>2, <2>1, ZenonT(30) DEF FastInv, StaleInv
  <2> QED
    BY <1>2, <2>2, <2>3, <2>4, <2>5, ZenonT(30)
<1>3. CASE EnterWakesAll(u)
  BY <1>2, <1>3, ZenonT(30) DEF EnterWakesAll, UpdaterLocs, RssTypeOK, StateInv
<1>4. CASE EnterAtOnce(u)
  <2>1. gp_state = GP_PASSED
    BY <1>4, ZenonT(30) DEF EnterAtOnce, StateInv
  <2>2. bug' = bug
    BY <1>4, <2>1, ZenonT(30) DEF EnterAtOnce, RssTypeOK
  <2> QED
    BY <1>2, <1>4, <2>1, <2>2, ZenonT(30) DEF EnterAtOnce, UpdaterLocs, RssTypeOK
<1>5. CASE WaitCheckFirst(u)
  BY <1>2, <1>5, ZenonT(30) DEF WaitCheckFirst, UpdaterLocs, RssTypeOK
<1>6. CASE WaitPrepare(u)
  BY <1>2, <1>6, ZenonT(30) DEF WaitPrepare, UpdaterLocs, RssTypeOK
<1>7. CASE WaitRecheck(u)
  BY <1>2, <1>7, ZenonT(30) DEF WaitRecheck, UpdaterLocs, RssTypeOK
<1>8. CASE WaitScheduled(u)
  BY <1>2, <1>8, ZenonT(30) DEF WaitScheduled, UpdaterLocs, RssTypeOK
<1>9. CASE StrayWakeup(u)
  <2>1. Busy' = Busy
    BY <1>9, ZenonT(30) DEF StrayWakeup, Busy
  <2> QED
    BY <1>9, <2>1, ZenonT(30) DEF StrayWakeup, RssTypeOK, CountInv, StateInv, FastInv, StaleInv
<1> QED
  BY <1>1, <1>3, <1>4, <1>5, <1>6, <1>7, <1>8, <1>9, ZenonT(30) DEF Updater

(* rcu_sync_exit() *)
LEMMA ExitStep ==
  ASSUME RssInv, NEW u \in Updaters, Exit(u)
  PROVE  RssInv'
<1> USE DEF RssInv, GP_IDLE, GP_PENDING, GP_PASSED, CB_IDLE, CB_PENDING, CB_REPLAY
<1>1. /\ upc[u] = "in"
      /\ gp_count' = gp_count - 1
      /\ upc' = [upc EXCEPT ![u] = "out"]
      /\ UNCHANGED <<gp_state, gp_wait, asleep, dtor, bug, section, fast>>
  BY ZenonT(30) DEF Exit, Goto, queue
<1>2. Busy' = Busy \ {u} /\ u \in Busy
  BY <1>1, ZenonT(30) DEF Busy, RssTypeOK
<1>3. Cardinality(Busy') = Cardinality(Busy) - 1
  BY <1>2, BusyFacts, FS_RemoveElement, ZenonT(30)
<1>4. gp_state = GP_PASSED /\ dtor = "no"
  BY <1>1, <1>2, ZenonT(30) DEF StateInv, CountInv, RssTypeOK
<1>5. gp_count = Cardinality(Busy) /\ gp_count' \in Nat
  BY <1>1, <1>2, BusyFacts DEF CountInv
<1>6. gp_count' = Cardinality(Busy')
  BY <1>1, <1>3, <1>5, ZenonT(30)
<1>7. CountInv'
  BY <1>1, <1>4, <1>6 DEF CountInv
<1>8. CASE gp_count = 1 /\ cb_state = CB_IDLE
  <2>1. /\ cb_state' = CB_PENDING /\ cb_head' = TRUE
        /\ older' = [older EXCEPT ![Cb] = section]
        /\ stale' = section
    BY <1>8, ZenonT(30) DEF Exit, Call
  <2>2. RssTypeOK'
    BY <1>1, <1>5, <2>1, ZenonT(30) DEF RssTypeOK, UpdaterLocs
  <2>3. StateInv'
    BY <1>1, <1>4, <2>1 DEF StateInv, RssTypeOK
  <2>4. FastInv'
    BY <1>1, <1>4, <2>1, RssAssumption, ZenonT(30) DEF FastInv, RssTypeOK
  <2>5. StaleInv'
    BY <1>1, <2>1, ZenonT(30) DEF StaleInv, RssTypeOK
  <2> QED
    BY <1>1, <1>7, <2>2, <2>3, <2>4, <2>5, ZenonT(30)
<1>9. CASE gp_count = 1 /\ cb_state # CB_IDLE
  <2>1. /\ cb_state' = CB_REPLAY
        /\ cb_head' = cb_head /\ older' = older
        /\ stale' = section
    BY <1>9, ZenonT(30) DEF Exit, NoCall, ExitReplay, RssTypeOK
  <2>2. RssTypeOK'
    BY <1>1, <1>5, <2>1, ZenonT(30) DEF RssTypeOK, UpdaterLocs
  <2>3. StateInv'
    BY <1>1, <1>4, <1>9, <2>1 DEF StateInv, RssTypeOK
  <2>4. FastInv' /\ StaleInv'
    BY <1>1, <1>4, <2>1, ZenonT(30) DEF FastInv, StaleInv, RssTypeOK
  <2> QED
    BY <1>1, <1>7, <2>2, <2>3, <2>4, ZenonT(30)
<1>10. CASE gp_count # 1
  <2>1. UNCHANGED <<cb_state, cb_head, older, stale>>
    BY <1>10, ZenonT(30) DEF Exit, NoCall
  <2>2. Busy' # {}
    BY <1>1, <1>3, <1>5, <1>6, <1>10, BusyFacts, FS_EmptySet
  <2>3. RssTypeOK'
    BY <1>1, <1>5, <2>1, ZenonT(30) DEF RssTypeOK, UpdaterLocs
  <2>4. StateInv'
    BY <1>1, <1>4, <2>1, ZenonT(30) DEF StateInv, RssTypeOK
  <2>5. FastInv' /\ StaleInv'
    BY <1>1, <1>4, <2>1, <2>2, ZenonT(30) DEF FastInv, StaleInv, RssTypeOK
  <2> QED
    BY <1>1, <1>7, <2>3, <2>4, <2>5, ZenonT(30)
<1> QED
  BY <1>8, <1>9, <1>10, ZenonT(30)

(* rcu_sync_func(), the callback. *)
LEMMA FuncStep ==
  ASSUME RssInv, Func
  PROVE  RssInv'
<1> USE DEF RssInv, GP_IDLE, GP_PENDING, GP_PASSED, CB_IDLE, CB_PENDING, CB_REPLAY
<1>1. /\ cb_head /\ older[Cb] = {}
      /\ bug' = (bug \/ gp_state # GP_PASSED \/ cb_state = CB_IDLE)
      /\ dtor' = IF dtor = "barrier" THEN "waited" ELSE dtor
      /\ UNCHANGED <<gp_count, gp_wait, asleep, upc, section, fast, stale>>
  BY ZenonT(30) DEF Func, queue
<1>2. gp_state = GP_PASSED /\ cb_state # CB_IDLE /\ fast = {} /\ dtor \in {"no", "barrier"}
  BY <1>1, ZenonT(30) DEF StateInv, FastInv, RssTypeOK
<1>3. Busy' = Busy /\ ~bug'
  BY <1>1, <1>2, ZenonT(30) DEF Busy
<1>4. gp_count \in Nat /\ (gp_count = 0 <=> Busy = {})
  BY BusyFacts, ZenonT(30) DEF CountInv
<1>5. dtor' = "no" <=> dtor = "no"
  BY <1>1, ZenonT(30)
<1>6. CASE gp_count > 0
  <2>1. /\ cb_state' = CB_IDLE /\ cb_head' = FALSE
        /\ UNCHANGED <<gp_state, older>>
    BY <1>6, ZenonT(30) DEF Func, FuncDrops
  <2>2. dtor = "no"
    BY <1>4, <1>6 DEF CountInv
  <2>3. RssTypeOK'
    BY <1>1, <1>3, <2>1, <2>2, ZenonT(30) DEF RssTypeOK
  <2>4. CountInv'
    BY <1>1, <1>2, <1>3, <2>1, <2>2, ZenonT(30) DEF CountInv
  <2>5. StateInv'
    BY <1>1, <1>2, <2>1, <2>2, ZenonT(30) DEF StateInv
  <2>6. FastInv' /\ StaleInv'
    BY <1>1, <1>2, <1>3, <1>4, <1>6, <2>1 DEF FastInv, StaleInv
  <2> QED
    BY <1>3, <2>3, <2>4, <2>5, <2>6, ZenonT(30)
<1>7. CASE gp_count = 0 /\ cb_state = CB_REPLAY
  <2>1. /\ cb_state' = CB_PENDING /\ cb_head' = TRUE
        /\ older' = [older EXCEPT ![Cb] = section]
        /\ gp_state' = gp_state
    BY <1>7 DEF Func, FuncDrops, Call
  <2>2. dtor = "no"
    BY <1>2, <1>7 DEF StateInv
  <2>3. RssTypeOK'
    BY <1>1, <1>2, <1>3, <2>1, <2>2, ZenonT(30) DEF RssTypeOK
  <2>4. older'[Cb] = section /\ \A v \in Updaters : older'[v] = older[v]
    BY <2>1, RssAssumption, ZenonT(30) DEF RssTypeOK
  <2> QED
    BY <1>1, <1>2, <1>3, <2>1, <2>2, <2>3, <2>4 DEF RssTypeOK, CountInv, StateInv, FastInv, StaleInv
<1>8. CASE gp_count = 0 /\ cb_state # CB_REPLAY
  <2>1. /\ cb_state' = CB_IDLE /\ gp_state' = GP_IDLE /\ cb_head' = FALSE
        /\ older' = older
    BY <1>8 DEF Func, FuncDrops, StateAfterFunc
  <2>2. Busy = {}
    BY <1>4, <1>8, ZenonT(30)
  <2>3. \A v \in Updaters : upc[v] = "out"
    BY <2>2, ZenonT(30) DEF Busy
  <2>4. RssTypeOK'
    BY <1>1, <1>2, <1>3, <2>1, ZenonT(30) DEF RssTypeOK
  <2>5. CountInv' /\ StateInv' /\ FastInv'
    BY <1>1, <1>2, <1>3, <2>1, <2>2, <2>3, ZenonT(30) DEF CountInv, StateInv, FastInv
  <2>6. StaleInv'
    BY <1>1, <1>2, <1>3, <1>5, <1>8, <2>1, <2>2, ZenonT(30) DEF StaleInv
  <2> QED
    BY <1>3, <2>4, <2>5, <2>6, ZenonT(30)
<1> QED
  BY <1>4, <1>6, <1>7, <1>8

(* rcu_sync_dtor(), which waits for the callback, and the next use of the  *)
(* structure.                                                              *)
LEMMA DtorSteps ==
  ASSUME RssInv, Dtor \/ DtorWaited \/ Reuse
  PROVE  RssInv'
<1> USE DEF RssInv, sync, queue, rcu, GP_IDLE, GP_PENDING, GP_PASSED, CB_IDLE, CB_PENDING, CB_REPLAY
<1>1. Busy' = Busy
  BY ZenonT(30) DEF Dtor, DtorWaited, Reuse, Busy
<1>2. CASE Dtor
  <2>1. Busy = {} /\ gp_count = 0
    BY <1>2, BusyFacts, ZenonT(30) DEF Dtor, Busy, CountInv
  <2>2. \A u \in Updaters : upc[u] = "out"
    BY <1>2, ZenonT(30) DEF Dtor
  <2> QED
    BY <1>1, <1>2, <2>1, <2>2 DEF Dtor, DtorState, RssTypeOK, CountInv, StateInv, FastInv, StaleInv
<1>3. CASE DtorWaited
  BY <1>1, <1>3, ZenonT(30) DEF DtorWaited, RssTypeOK, CountInv, StateInv, FastInv, StaleInv
<1>4. CASE Reuse
  <2>1. Busy = {} /\ \A u \in Updaters : upc[u] = "out"
    BY <1>4, ZenonT(30) DEF Reuse, Busy, CountInv
  <2>2. ~cb_head /\ stale = {} /\ fast = {}
    BY <1>4, ZenonT(30) DEF Reuse, StateInv, RssTypeOK
  <2> QED
    BY <1>1, <1>4, <2>1, <2>2, FS_EmptySet, ZenonT(30) DEF Reuse, RssTypeOK, CountInv, StateInv, FastInv, StaleInv
<1> QED
  BY <1>2, <1>3, <1>4, ZenonT(30)

(* Every step of rcu_sync keeps the invariant. *)
LEMMA RssInductive == RssInv /\ [RssNext]_rssvars => RssInv'
<1> SUFFICES ASSUME RssInv, [RssNext]_rssvars
             PROVE  RssInv'
  BY ZenonT(30)
<1>1. CASE UNCHANGED rssvars
  <2>1. Busy' = Busy
    BY <1>1, ZenonT(30) DEF rssvars, Busy
  <2> QED
    BY <1>1, <2>1, ZenonT(30) DEF rssvars, sync, queue, rcu, RssInv, RssTypeOK, CountInv, StateInv, FastInv, StaleInv
<1>2. CASE RssNext
  BY <1>2, ReaderSteps, EnterStep, UpdaterSteps, ExitStep, FuncStep, DtorSteps, ZenonT(30) DEF RssNext
<1> QED
  BY <1>1, <1>2, ZenonT(30)

(* So it always holds. *)
LEMMA RssInvariance == RssSpec => []RssInv
BY RssInitInv, RssInductive, PTL DEF RssSpec

(* It implies the properties. *)
LEMMA RssInvImplies == RssInv => FastPathClosed /\ OpenAfterGracePeriod /\ NoBug
<1> SUFFICES ASSUME RssInv PROVE FastPathClosed /\ OpenAfterGracePeriod /\ NoBug
  BY ZenonT(30)
<1> USE DEF RssInv, GP_IDLE, GP_PENDING, GP_PASSED, CB_IDLE, CB_PENDING, CB_REPLAY
<1>1. FastPathClosed
  BY ZenonT(30) DEF StateInv, FastInv, FastPathClosed
<1>2. OpenAfterGracePeriod
  BY DEF StateInv, CountInv, StaleInv, OpenAfterGracePeriod
<1>3. NoBug
  BY ZenonT(30) DEF StateInv, NoBug
<1> QED
  BY <1>1, <1>2, <1>3, ZenonT(30)

(* When rcu_sync_enter() has returned no reader is on the fast path, for   *)
(* any number of updaters and readers.                                     *)
THEOREM FastPathIsClosed == RssSpec => []FastPathClosed
BY RssInvariance, RssInvImplies, PTL

(* The fast path opens a full grace period after the last rcu_sync_exit(), *)
(* for any number of updaters and readers.                                 *)
THEOREM OpensAfterGracePeriod == RssSpec => []OpenAfterGracePeriod
BY RssInvariance, RssInvImplies, PTL

(* No BUG_ON() of sync.c triggers, and no callback outlives its rcu_sync.  *)
THEOREM NoBugTriggers == RssSpec => []NoBug
BY RssInvariance, RssInvImplies, PTL
-----------------------------------------------------------------------------
(* Places in the code: the reader is counted, has the lock, is in rw_sem;  *)
(* the writer is in rw_sem, keeps readers out, has the lock.               *)
CountedLocs == {"idle", "try_idle", "block", "try_block", "undo", "try_undo",
                "enable", "rwsem_up", "reading", "up", "up_fast", "up_slow"}
HolderLocs == {"enable", "rwsem_up", "reading", "up", "up_fast", "up_slow"}
RwReaderLocs == {"rwsem_inc", "rwsem_up"}
BlockLocs == {"assign", "state", "check", "sched", "clear", "writing"}
RwWriterLocs == BlockLocs \cup {"block", "up_write"}

Counted == {r \in Readers : rpc[r] \in CountedLocs}

PcInv ==
  /\ rpc \in [Readers -> ReaderLocs]
  /\ wpc \in [Updaters -> WriterLocs]

(* rw_sem has a writer or readers; a writer that is in it, or has been, is *)
(* inside rcu_sync_enter() and rcu_sync_exit().                            *)
RwInv ==
  /\ \A r \in Readers : r \in rwReaders <=> rpc[r] \in RwReaderLocs
  /\ \A w \in Updaters : w \in rwWriters <=> wpc[w] \in RwWriterLocs
  /\ \A r \in Readers, w \in Updaters : ~(r \in rwReaders /\ w \in rwWriters)
  /\ \A v, w \in Updaters : v \in rwWriters /\ w \in rwWriters => v = w
  /\ \A w \in Updaters : wpc[w] \in RwWriterLocs \cup {"exit"} => upc[w] = "in"

BlockInv == \A w \in Updaters : wpc[w] \in BlockLocs => readers_block

ReadCountInv == read_count = Cardinality(Counted)

(* A writer that has the lock excludes readers that have it. *)
ExclInv ==
  \A r \in Readers, w \in Updaters :
    ~(rpc[r] \in HolderLocs /\ wpc[w] \in {"clear", "writing"})

PInv == PcInv /\ RwInv /\ BlockInv /\ ReadCountInv /\ ExclInv

(* Every step of the semaphore is a step of rcu_sync, or leaves it alone.  *)
LEMMA RcuSyncSteps == [Next]_vars => [RssNext]_rssvars
<1> SUFFICES ASSUME [Next]_vars
             PROVE  [RssNext]_rssvars
  BY ZenonT(30)
<1>1. ASSUME NEW r \in Readers, NEW try \in Try, DownRead(r, try)
      PROVE  RssNext
  BY <1>1, ZenonT(30) DEF DownRead, RssNext
<1>2. ASSUME NEW r \in Readers, RwsemDownRead(r) \/ Reader(r)
      PROVE  RssNext \/ UNCHANGED rssvars
  <2>1. CASE RwsemDownRead(r) \/ IncReadCount(r) \/ SlowRead(r) \/ CheckBlock(r) \/ Undo(r)
    BY <2>1, ZenonT(30) DEF RwsemDownRead, IncReadCount, SlowRead, CheckBlock, Undo
  <2>2. CASE RwsemIncReadCount(r) \/ RwsemUpRead(r) \/ DecReadCount(r)
    BY <2>2, ZenonT(30) DEF RwsemIncReadCount, RwsemUpRead, DecReadCount
  <2>3. CASE FastRead(r)
    BY <2>3, ZenonT(30) DEF FastRead, RssNext
  <2>4. CASE UndoWake(r) \/ PreemptEnable(r) \/ UpReadDone(r)
    BY <2>4, ZenonT(30) DEF UndoWake, PreemptEnable, UpReadDone, RssNext
  <2>5. CASE UpRead(r)
    BY <2>5, ZenonT(30) DEF UpRead, RssNext
  <2>6. CASE UpReadIdle(r)
    BY <2>6, ZenonT(30) DEF UpReadIdle, RssNext
  <2> QED
    BY <1>2, <2>1, <2>2, <2>3, <2>4, <2>5, <2>6, ZenonT(30) DEF Reader
<1>3. ASSUME NEW w \in Updaters,
             DownWrite(w) \/ RwsemDownWrite(w) \/ Writer(w) \/ WStrayWakeup(w)
      PROVE  RssNext \/ UNCHANGED rssvars
  <2>1. CASE DownWrite(w)
    BY <2>1, ZenonT(30) DEF DownWrite, RssNext
  <2>2. CASE UpWriteExit(w)
    BY <2>2, ZenonT(30) DEF UpWriteExit, RssNext
  <2>3. CASE RwsemDownWrite(w) \/ BlockReaders(w) \/ AssignWriter(w) \/ SetState(w) \/ CheckReaders(w)
    BY <2>3, ZenonT(30) DEF RwsemDownWrite, BlockReaders, AssignWriter, SetState, CheckReaders
  <2>4. CASE WriterScheduled(w) \/ ClearWriter(w) \/ UnblockReaders(w) \/ RwsemUpWrite(w) \/ WStrayWakeup(w)
    BY <2>4, ZenonT(30) DEF WriterScheduled, ClearWriter, UnblockReaders, RwsemUpWrite, WStrayWakeup
  <2> QED
    BY <1>3, <2>1, <2>2, <2>3, <2>4, ZenonT(30) DEF Writer
<1>4. CASE InRcuSync
  BY <1>4, ZenonT(30) DEF InRcuSync, RssNext
<1>5. CASE FreeAndInit
  BY <1>5, ZenonT(30) DEF FreeAndInit, RssNext
<1>6. CASE UNCHANGED vars
  BY <1>6, ZenonT(30) DEF vars
<1> QED
  BY <1>1, <1>2, <1>3, <1>4, <1>5, <1>6, ZenonT(30) DEF Next

(* The semaphore uses rcu_sync as RcuSync says it may be used. *)
THEOREM UsesRcuSync == Spec => RssSpec
<1>1. Init => RssInit
  BY ZenonT(30) DEF Init
<1> QED
  BY <1>1, RcuSyncSteps, PTL DEF Spec, RssSpec

(* The readers that read_count counts are finitely many. *)
LEMMA CountedFinite == IsFiniteSet(Counted) /\ Cardinality(Counted) \in Nat
BY PercpuAssumption, FS_Subset, FS_CardinalityType, ZenonT(30) DEF Counted

(* A step of a reader from one place to another that keeps what its places *)
(* say about the count and rw_sem.                                         *)
LEMMA ReaderMoves ==
  ASSUME PInv, NEW r \in Readers, NEW to \in ReaderLocs,
         rpc' = [rpc EXCEPT ![r] = to],
         \/ read_count' = read_count /\ (rpc[r] \in CountedLocs <=> to \in CountedLocs)
         \/ read_count' = read_count + 1 /\ rpc[r] \notin CountedLocs /\ to \in CountedLocs
         \/ read_count' = read_count - 1 /\ rpc[r] \in CountedLocs /\ to \notin CountedLocs,
         rpc[r] \in RwReaderLocs <=> to \in RwReaderLocs,
         to \in HolderLocs => rpc[r] \in HolderLocs \/ WriteHolders = {},
         UNCHANGED <<readers_block, rwReaders, rwWriters, wpc, upc>>
  PROVE  PInv'
<1> USE DEF PInv
<1>1. rpc'[r] = to /\ \A s \in Readers : s # r => rpc'[s] = rpc[s]
  BY ZenonT(30) DEF PcInv
<1>2. PcInv'
  BY ZenonT(30) DEF PcInv
<1>3. RwInv'
  BY <1>1, ZenonT(30) DEF RwInv
<1>4. BlockInv'
  BY ZenonT(30) DEF BlockInv
<1>5. ReadCountInv'
  <2>1. CASE read_count' = read_count /\ (rpc[r] \in CountedLocs <=> to \in CountedLocs)
    <3>1. Counted' = Counted
      BY <1>1, <2>1, ZenonT(30) DEF Counted
    <3> QED
      BY <2>1, <3>1, ZenonT(30) DEF ReadCountInv
  <2>2. CASE read_count' = read_count + 1 /\ rpc[r] \notin CountedLocs /\ to \in CountedLocs
    <3>1. Counted' = Counted \cup {r} /\ r \notin Counted
      BY <1>1, <2>2, ZenonT(30) DEF Counted
    <3>2. Cardinality(Counted') = Cardinality(Counted) + 1
      BY <3>1, CountedFinite, FS_AddElement, ZenonT(30)
    <3> QED
      BY <2>2, <3>2, ZenonT(30) DEF ReadCountInv
  <2>3. CASE read_count' = read_count - 1 /\ rpc[r] \in CountedLocs /\ to \notin CountedLocs
    <3>1. Counted' = Counted \ {r} /\ r \in Counted
      BY <1>1, <2>3, ZenonT(30) DEF Counted
    <3>2. Cardinality(Counted') = Cardinality(Counted) - 1
      BY <3>1, CountedFinite, FS_RemoveElement, ZenonT(30)
    <3> QED
      BY <2>3, <3>2, ZenonT(30) DEF ReadCountInv
  <2> QED
    BY <2>1, <2>2, <2>3, ZenonT(30)
<1>6. ExclInv'
  BY <1>1, ZenonT(30) DEF ExclInv, WriteHolders
<1> QED
  BY <1>2, <1>3, <1>4, <1>5, <1>6, ZenonT(30)

(* Who has the semaphore for writing has rw_sem, is inside rcu_sync and    *)
(* keeps readers out: so no reader can get it.                             *)
LEMMA NoReaderGetsIn ==
  ASSUME RssInv, PInv, NEW w \in WriteHolders
  PROVE  /\ w \in Updaters /\ w \in rwWriters
         /\ readers_block
         /\ ~rcu_sync_is_idle
<1>1. w \in Updaters /\ wpc[w] \in {"clear", "writing"}
  BY ZenonT(30) DEF WriteHolders
<1>2. w \in rwWriters /\ upc[w] = "in"
  BY <1>1, ZenonT(30) DEF PInv, RwInv, RwWriterLocs, BlockLocs
<1>3. gp_state = GP_PASSED
  BY <1>1, <1>2, ZenonT(30) DEF RssInv, StateInv
<1> QED
  BY <1>1, <1>2, <1>3 DEF PInv, BlockInv, BlockLocs, rcu_sync_is_idle, GP_PASSED, GP_IDLE

(* The paths of percpu_down_read(), its trylock and percpu_up_read() keep  *)
(* the invariant of the semaphore.                                         *)
LEMMA RwsemReaderSteps ==
  ASSUME RssInv, PInv, NEW r \in Readers, NEW try,
         DownRead(r, try) \/ Reader(r) \/ RwsemDownRead(r)
  PROVE  PInv'
<1> USE DEF ReaderLocs, CountedLocs, RwReaderLocs, HolderLocs, RGoto
<1>0. rpc[r] \in ReaderLocs
  BY ZenonT(30) DEF PInv, PcInv
<1>1. CASE DownRead(r, try)
  <2>1. UNCHANGED upc
    BY <1>1, ZenonT(30) DEF DownRead, ReadLock
  <2> QED
    BY <1>1, <2>1, ReaderMoves, ZenonT(30) DEF DownRead
<1>2. CASE IncReadCount(r)
  BY <1>2, ReaderMoves, ZenonT(30) DEF IncReadCount, rssvars
<1>3. CASE FastRead(r)
  <2>1. UNCHANGED upc /\ rcu_sync_is_idle
    BY <1>3, ZenonT(30) DEF FastRead, TakeFastPath
  <2>2. WriteHolders = {}
    BY <2>1, NoReaderGetsIn, ZenonT(30)
  <2> QED
    BY <1>3, <2>1, <2>2, ReaderMoves, ZenonT(30) DEF FastRead
<1>4. CASE SlowRead(r)
  BY <1>4, ReaderMoves, ZenonT(30) DEF SlowRead, rssvars
<1>5. CASE CheckBlock(r)
  <2>1. ~readers_block => WriteHolders = {}
    BY NoReaderGetsIn, SMTT(30)
  <2> QED
    BY <1>5, <2>1, ReaderMoves, ZenonT(30) DEF CheckBlock, rssvars
<1>6. CASE Undo(r)
  BY <1>6, ReaderMoves, SMTT(30) DEF Undo, rssvars
<1>7. CASE UndoWake(r)
  <2>1. UNCHANGED upc
    BY <1>7, ZenonT(30) DEF UndoWake, ReadUnlock
  <2> QED
    BY <1>7, <2>1, ReaderMoves, ZenonT(30) DEF UndoWake
<1>8. CASE RwsemIncReadCount(r)
  <2>1. r \in rwReaders
    BY <1>8, ZenonT(30) DEF RwsemIncReadCount, PInv, RwInv
  <2>2. WriteHolders = {}
    BY <2>1, NoReaderGetsIn, ZenonT(30) DEF PInv, RwInv
  <2> QED
    BY <1>8, <2>2, ReaderMoves, ZenonT(30) DEF RwsemIncReadCount, rssvars
<1>9. CASE PreemptEnable(r)
  <2>1. UNCHANGED upc
    BY <1>9, ZenonT(30) DEF PreemptEnable, ReadUnlock
  <2> QED
    BY <1>9, <2>1, ReaderMoves, ZenonT(30) DEF PreemptEnable
<1>10. CASE UpRead(r)
  <2>1. UNCHANGED upc
    BY <1>10, ZenonT(30) DEF UpRead, ReadLock
  <2> QED
    BY <1>10, <2>1, ReaderMoves, ZenonT(30) DEF UpRead
<1>11. CASE UpReadIdle(r)
  <2>1. UNCHANGED upc
    BY <1>11, SMTT(30) DEF UpReadIdle, TakeFastPath, rssvars
  <2> QED
    BY <1>11, <2>1, ReaderMoves, ZenonT(30) DEF UpReadIdle
<1>12. CASE DecReadCount(r)
  BY <1>12, ReaderMoves, SMTT(30) DEF DecReadCount, rssvars
<1>13. CASE UpReadDone(r)
  <2>1. UNCHANGED upc
    BY <1>13, ZenonT(30) DEF UpReadDone, ReadUnlock
  <2> QED
    BY <1>13, <2>1, ReaderMoves, ZenonT(30) DEF UpReadDone
<1>14. ASSUME NEW to \in {"rwsem_inc", "reading"},
              rpc' = [rpc EXCEPT ![r] = to],
              to = "rwsem_inc" => /\ rpc[r] = "rwsem" /\ rwWriters = {}
                                  /\ rwReaders' = rwReaders \cup {r},
              to = "reading" => rpc[r] = "rwsem_up" /\ rwReaders' = rwReaders \ {r},
              UNCHANGED <<rssvars, read_count, readers_block, rwWriters, wpc>>
       PROVE  PInv'
  <2> USE DEF PInv
  <2>1. rpc'[r] = to /\ \A s \in Readers : s # r => rpc'[s] = rpc[s]
    BY <1>14, ZenonT(30) DEF PcInv
  <2>2. PcInv' /\ BlockInv'
    BY <1>14, ZenonT(30) DEF PcInv, BlockInv
  <2>3. RwInv'
    BY <1>14, <2>1, ZenonT(30) DEF RwInv, rssvars
  <2>4. Counted' = Counted
    BY <1>14, <2>1, ZenonT(30) DEF Counted
  <2>5. ReadCountInv' /\ ExclInv'
    BY <1>14, <2>1, <2>4, ZenonT(30) DEF ReadCountInv, ExclInv
  <2> QED
    BY <2>2, <2>3, <2>5, ZenonT(30)
<1>15. CASE RwsemDownRead(r) \/ RwsemUpRead(r)
  BY <1>14, <1>15, ZenonT(30) DEF RwsemDownRead, RwsemUpRead
<1> QED
  BY <1>1, <1>2, <1>3, <1>4, <1>5, <1>6, <1>7, <1>8, <1>9, <1>10, <1>11, <1>12, <1>13, <1>15, ZenonT(30) DEF Reader

(* A step of a writer from one place to another that keeps what its places *)
(* say about rw_sem.                                                       *)
LEMMA WriterMoves ==
  ASSUME PInv, NEW w \in Updaters, NEW to \in WriterLocs,
         wpc' = [wpc EXCEPT ![w] = to],
         wpc[w] \in RwWriterLocs <=> to \in RwWriterLocs,
         to \in RwWriterLocs \cup {"exit"} => upc'[w] = "in",
         \A v \in Updaters : v # w => upc'[v] = upc[v],
         to \in BlockLocs => readers_block',
         readers_block' # readers_block => \A v \in Updaters : v # w => wpc[v] \notin BlockLocs,
         to \in {"clear", "writing"} => wpc[w] \in {"clear", "writing"} \/ ReadHolders = {},
         UNCHANGED <<read_count, rwReaders, rwWriters, rpc>>
  PROVE  PInv'
<1> USE DEF PInv
<1>1. wpc'[w] = to /\ \A v \in Updaters : v # w => wpc'[v] = wpc[v]
  BY ZenonT(30) DEF PcInv
<1>2. PcInv'
  BY ZenonT(30) DEF PcInv
<1>3. RwInv'
  BY <1>1 DEF RwInv
<1>4. BlockInv'
  BY <1>1 DEF BlockInv
<1>5. ReadCountInv'
  BY ZenonT(30) DEF ReadCountInv, Counted
<1>6. ExclInv'
  BY <1>1, ZenonT(30) DEF ExclInv, ReadHolders, HolderLocs
<1> QED
  BY <1>2, <1>3, <1>4, <1>5, <1>6, ZenonT(30)

(* When readers_active_check() is true no reader has the semaphore. *)
LEMMA CheckedReaders ==
  ASSUME PInv, readers_active_check
  PROVE  ReadHolders = {}
<1>1. Cardinality(Counted) = 0
  BY ZenonT(30) DEF PInv, ReadCountInv, readers_active_check
<1>2. Counted = {}
  BY <1>1, CountedFinite, FS_EmptySet, ZenonT(30)
<1> QED
  BY <1>2, ZenonT(30) DEF Counted, CountedLocs, ReadHolders

(* So do percpu_down_write() and percpu_up_write(). *)
LEMMA RwsemWriterSteps ==
  ASSUME RssInv, PInv, NEW w \in Updaters,
         DownWrite(w) \/ RwsemDownWrite(w) \/ Writer(w) \/ WStrayWakeup(w)
  PROVE  PInv'
<1> USE DEF WriterLocs, RwWriterLocs, BlockLocs, WGoto
<1>0. wpc[w] \in RwWriterLocs \cup {"exit"} => upc[w] = "in"
  BY ZenonT(30) DEF PInv, RwInv
<1>1. wpc[w] \in BlockLocs => readers_block
  BY ZenonT(30) DEF PInv, BlockInv
<1>2. wpc[w] \in RwWriterLocs => \A v \in Updaters : v # w => wpc[v] \notin BlockLocs
  BY ZenonT(30) DEF PInv, RwInv
<1>3. CASE DownWrite(w)
  <2>1. \A v \in Updaters : v # w => upc'[v] = upc[v]
    BY <1>3, ZenonT(30) DEF DownWrite, Enter, Goto, RssInv, RssTypeOK
  <2> QED
    BY <1>3, <2>1, WriterMoves, ZenonT(30) DEF DownWrite
<1>4. CASE BlockReaders(w)
  BY <1>0, <1>2, <1>4, WriterMoves, ZenonT(30) DEF BlockReaders, rssvars
<1>5. CASE AssignWriter(w) \/ SetState(w)
  BY <1>0, <1>1, <1>5, WriterMoves, ZenonT(30) DEF AssignWriter, SetState, rssvars
<1>6. CASE CheckReaders(w)
  BY <1>0, <1>1, <1>6, CheckedReaders, WriterMoves, ZenonT(30) DEF CheckReaders, rssvars
<1>7. CASE WriterScheduled(w) \/ ClearWriter(w)
  BY <1>0, <1>1, <1>7, WriterMoves, ZenonT(30) DEF WriterScheduled, ClearWriter, rssvars
<1>8. CASE UnblockReaders(w)
  BY <1>0, <1>2, <1>8, WriterMoves, ZenonT(30) DEF UnblockReaders, rssvars
<1>9. CASE UpWriteExit(w)
  <2>1. \A v \in Updaters : v # w => upc'[v] = upc[v]
    BY <1>9, ZenonT(30) DEF UpWriteExit, Exit, Goto, RssInv, RssTypeOK
  <2> QED
    BY <1>9, <2>1, WriterMoves, ZenonT(30) DEF UpWriteExit
<1>10. CASE RwsemDownWrite(w)
  <2> USE DEF PInv
  <2>1. /\ wpc[w] = "enter" /\ upc[w] = "in" /\ rwReaders = {} /\ rwWriters = {}
        /\ wpc' = [wpc EXCEPT ![w] = "block"] /\ rwWriters' = {w}
        /\ UNCHANGED <<upc, read_count, readers_block, rwReaders, rpc>>
    BY <1>10, ZenonT(30) DEF RwsemDownWrite, rssvars
  <2>2. wpc'[w] = "block" /\ \A v \in Updaters : v # w => wpc'[v] = wpc[v]
    BY <2>1, ZenonT(30) DEF PcInv
  <2>3. PcInv' /\ BlockInv'
    BY <2>1, <2>2, ZenonT(30) DEF PcInv, BlockInv
  <2>4. RwInv'
    BY <2>1, <2>2, ZenonT(30) DEF RwInv
  <2>5. ReadCountInv' /\ ExclInv'
    BY <2>1, <2>2, ZenonT(30) DEF ReadCountInv, Counted, ExclInv
  <2> QED
    BY <2>3, <2>4, <2>5, ZenonT(30)
<1>11. CASE RwsemUpWrite(w)
  <2> USE DEF PInv
  <2>1. /\ wpc[w] = "up_write"
        /\ wpc' = [wpc EXCEPT ![w] = "exit"] /\ rwWriters' = {}
        /\ UNCHANGED <<upc, read_count, readers_block, rwReaders, rpc>>
    BY <1>11, ZenonT(30) DEF RwsemUpWrite, rssvars
  <2>2. wpc'[w] = "exit" /\ \A v \in Updaters : v # w => wpc'[v] = wpc[v]
    BY <2>1, ZenonT(30) DEF PcInv
  <2>3. PcInv' /\ BlockInv'
    BY <2>1, <2>2, ZenonT(30) DEF PcInv, BlockInv
  <2>4. RwInv'
    BY <2>1, <2>2, ZenonT(30) DEF RwInv
  <2>5. ReadCountInv' /\ ExclInv'
    BY <2>1, <2>2, ZenonT(30) DEF ReadCountInv, Counted, ExclInv
  <2> QED
    BY <2>3, <2>4, <2>5, ZenonT(30)
<1>12. CASE WStrayWakeup(w)
  BY <1>12, SMTT(30) DEF WStrayWakeup, rssvars, PInv, PcInv, RwInv, BlockInv, ReadCountInv, Counted, ExclInv
<1> QED
  BY <1>3, <1>4, <1>5, <1>6, <1>7, <1>8, <1>9, <1>10, <1>11, <1>12, ZenonT(30) DEF Writer

(* The steps inside rcu_sync do not take an updater out of it. *)
LEMMA RcuSyncKeepsIn ==
  ASSUME RssInv, InRcuSync \/ FreeAndInit, NEW v \in Updaters, upc[v] = "in"
  PROVE  upc'[v] = "in"
<1>1. CASE Func \/ Dtor \/ DtorWaited \/ Reuse
  BY <1>1, ZenonT(30) DEF Func, Dtor, DtorWaited, Reuse
<1>2. ASSUME NEW w \in Updaters, StrayWakeup(w)
      PROVE  upc'[v] = "in"
  BY <1>2, ZenonT(30) DEF StrayWakeup
<1>3. ASSUME NEW w \in Updaters, Updater(w)
      PROVE  upc'[v] = "in"
  BY <1>3, ZenonT(30) DEF Updater, EnterSynced, EnterWakesAll, EnterAtOnce, WaitCheckFirst, WaitPrepare,
     WaitRecheck, WaitScheduled, Goto, RssInv, RssTypeOK
<1> QED
  BY <1>1, <1>2, <1>3, ZenonT(30) DEF InRcuSync, FreeAndInit

(* The invariant of the semaphore holds at the start. *)
LEMMA PInitInv == Init => PInv
<1> SUFFICES ASSUME Init PROVE PInv
  BY ZenonT(30)
<1> USE DEF Init
<1>1. PcInv /\ BlockInv
  BY ZenonT(30) DEF PcInv, BlockInv, ReaderLocs, WriterLocs, BlockLocs
<1>2. RwInv
  BY ZenonT(30) DEF RwInv, RwReaderLocs, RwWriterLocs, BlockLocs
<1>3. Counted = {}
  BY ZenonT(30) DEF Counted, CountedLocs
<1>4. ReadCountInv
  BY <1>3, FS_EmptySet, ZenonT(30) DEF ReadCountInv
<1>5. ExclInv
  BY ZenonT(30) DEF ExclInv
<1> QED
  BY <1>1, <1>2, <1>4, <1>5, ZenonT(30) DEF PInv

(* Every step of rcu_sync and of the semaphore keeps it. *)
LEMMA PInductive == RssInv /\ PInv /\ [Next]_vars => PInv'
<1> SUFFICES ASSUME RssInv, PInv, [Next]_vars
             PROVE  PInv'
  BY SMTT(30)
<1>1. CASE InRcuSync \/ FreeAndInit
  <2>1. UNCHANGED percpu
    BY <1>1, ZenonT(30) DEF InRcuSync, FreeAndInit
  <2>2. \A v \in Updaters : upc[v] = "in" => upc'[v] = "in"
    BY <1>1, RcuSyncKeepsIn, ZenonT(30)
  <2> QED
    BY <2>1, <2>2, ZenonT(30) DEF percpu, PInv, PcInv, RwInv, BlockInv, ReadCountInv, Counted, ExclInv
<1>2. CASE UNCHANGED vars
  BY <1>2, ZenonT(30) DEF vars, rssvars, percpu, PInv, PcInv, RwInv, BlockInv, ReadCountInv, Counted, ExclInv
<1>3. ASSUME NEW r \in Readers, NEW try \in Try, DownRead(r, try)
      PROVE  PInv'
  BY <1>3, RwsemReaderSteps, ZenonT(30)
<1>4. ASSUME NEW r \in Readers, RwsemDownRead(r) \/ Reader(r)
      PROVE  PInv'
  BY <1>4, RwsemReaderSteps, ZenonT(30)
<1> QED
  BY <1>1, <1>2, <1>3, <1>4, RwsemWriterSteps, ZenonT(30) DEF Next

(* The invariants of rcu_sync and of the semaphore always hold. *)
LEMMA PInvariance == Spec => [](RssInv /\ PInv)
BY UsesRcuSync, RssInvariance, PInitInv, PInductive, PTL DEF Spec

(* A step that moves one reader adds it to those that have the semaphore,  *)
(* takes it away or leaves them alone.                                     *)
LEMMA ReaderSimulation ==
  ASSUME PInv, PInv', NEW r \in Readers, NEW to,
         rpc' = [rpc EXCEPT ![r] = to], wpc' = wpc
  PROVE  [Lock!Next]_<<ReadHolders, WriteHolders>>
<1>1. rpc'[r] = to /\ \A s \in Readers : s # r => rpc'[s] = rpc[s]
  BY ZenonT(30) DEF PInv, PcInv
<1>2. WriteHolders' = WriteHolders
  BY ZenonT(30) DEF WriteHolders
<1>3. CASE to \in HolderLocs /\ rpc[r] \notin HolderLocs
  <2>1. ReadHolders' = ReadHolders \cup {r}
    BY <1>1, <1>3, ZenonT(30) DEF ReadHolders, HolderLocs
  <2>2. WriteHolders = {}
    BY <1>1, <1>3, ZenonT(30) DEF PInv, ExclInv, WriteHolders
  <2> QED
    BY <1>2, <2>1, <2>2, ZenonT(30) DEF Lock!Next, Lock!AcquireRead
<1>4. CASE to \notin HolderLocs /\ rpc[r] \in HolderLocs
  <2>1. r \in ReadHolders /\ ReadHolders' = ReadHolders \ {r}
    BY <1>1, <1>4, ZenonT(30) DEF ReadHolders, HolderLocs
  <2> QED
    BY <1>2, <2>1, ZenonT(30) DEF Lock!Next, Lock!ReleaseRead
<1>5. CASE to \in HolderLocs <=> rpc[r] \in HolderLocs
  <2>1. ReadHolders' = ReadHolders
    BY <1>1, <1>5, ZenonT(30) DEF ReadHolders, HolderLocs
  <2> QED
    BY <1>2, <2>1, ZenonT(30)
<1> QED
  BY <1>3, <1>4, <1>5, ZenonT(30)

(* The same for one writer. *)
LEMMA WriterSimulation ==
  ASSUME PInv, PInv', NEW w \in Updaters, NEW to,
         wpc' = [wpc EXCEPT ![w] = to], rpc' = rpc
  PROVE  [Lock!Next]_<<ReadHolders, WriteHolders>>
<1> DEFINE Has(l) == l \in {"clear", "writing"}
<1>1. wpc'[w] = to /\ \A v \in Updaters : v # w => wpc'[v] = wpc[v]
  BY ZenonT(30) DEF PInv, PcInv
<1>2. ReadHolders' = ReadHolders
  BY ZenonT(30) DEF ReadHolders
<1>3. CASE Has(to) /\ ~Has(wpc[w])
  <2>1. \A v \in Updaters : Has(wpc'[v]) => v = w
    BY <1>1, <1>3 DEF PInv, RwInv, RwWriterLocs, BlockLocs
  <2>2. WriteHolders = {} /\ WriteHolders' = {w}
    BY <1>1, <1>3, <2>1, ZenonT(30) DEF WriteHolders
  <2>3. ReadHolders = {}
    BY <1>1, <1>3, ZenonT(30) DEF PInv, ExclInv, ReadHolders, HolderLocs
  <2> QED
    BY <1>2, <2>2, <2>3, ZenonT(30) DEF Lock!Next, Lock!AcquireWrite
<1>4. CASE ~Has(to) /\ Has(wpc[w])
  <2>1. w \in WriteHolders /\ WriteHolders' = WriteHolders \ {w}
    BY <1>1, <1>4, ZenonT(30) DEF WriteHolders
  <2> QED
    BY <1>2, <2>1, ZenonT(30) DEF Lock!Next, Lock!ReleaseWrite
<1>5. CASE Has(to) <=> Has(wpc[w])
  <2>1. WriteHolders' = WriteHolders
    BY <1>1, <1>5, ZenonT(30) DEF WriteHolders
  <2> QED
    BY <1>2, <2>1, ZenonT(30)
<1> QED
  BY <1>3, <1>4, <1>5, ZenonT(30)

(* Every step is a step of the reader/writer lock or leaves the holders    *)
(* alone.                                                                  *)
LEMMA LockSimulation ==
  PInv /\ PInv' /\ [Next]_vars => [Lock!Next]_<<ReadHolders, WriteHolders>>
<1> SUFFICES ASSUME PInv, PInv', [Next]_vars
             PROVE  [Lock!Next]_<<ReadHolders, WriteHolders>>
  BY ZenonT(30)
<1>1. ASSUME NEW r \in Readers, NEW try \in Try, DownRead(r, try)
      PROVE  [Lock!Next]_<<ReadHolders, WriteHolders>>
  BY <1>1, ReaderSimulation, ZenonT(30) DEF DownRead, RGoto
<1>2. ASSUME NEW r \in Readers, RwsemDownRead(r) \/ Reader(r)
      PROVE  [Lock!Next]_<<ReadHolders, WriteHolders>>
  <2>1. wpc' = wpc /\ \E to \in ReaderLocs : rpc' = [rpc EXCEPT ![r] = to]
    BY <1>2, ZenonT(30) DEF Reader, RwsemDownRead, IncReadCount, FastRead, SlowRead, CheckBlock, Undo, UndoWake,
       RwsemIncReadCount, RwsemUpRead, PreemptEnable, UpRead, UpReadIdle, DecReadCount, UpReadDone,
       RGoto, ReaderLocs
  <2> QED
    BY <2>1, ReaderSimulation, ZenonT(60)
<1>3. ASSUME NEW w \in Updaters, DownWrite(w) \/ RwsemDownWrite(w) \/ Writer(w)
      PROVE  [Lock!Next]_<<ReadHolders, WriteHolders>>
  <2>1. rpc' = rpc /\ \E to \in WriterLocs : wpc' = [wpc EXCEPT ![w] = to]
    BY <1>3, ZenonT(30) DEF Writer, DownWrite, RwsemDownWrite, BlockReaders, AssignWriter, SetState, CheckReaders,
       WriterScheduled, ClearWriter, UnblockReaders, RwsemUpWrite, UpWriteExit, WGoto, WriterLocs
  <2> QED
    BY <2>1, WriterSimulation, ZenonT(60)
<1>4. CASE UNCHANGED <<rpc, wpc>>
  BY <1>4, ZenonT(30) DEF ReadHolders, WriteHolders
<1>5. ASSUME NEW w \in Updaters, WStrayWakeup(w)
      PROVE  UNCHANGED <<rpc, wpc>>
  BY <1>5, ZenonT(30) DEF WStrayWakeup
<1>6. ASSUME InRcuSync \/ FreeAndInit \/ UNCHANGED vars
      PROVE  UNCHANGED <<rpc, wpc>>
  BY <1>6, ZenonT(30) DEF InRcuSync, FreeAndInit, percpu, vars
<1> QED
  BY <1>1, <1>2, <1>3, <1>4, <1>5, <1>6, ZenonT(30) DEF Next

(* The percpu semaphore is a reader/writer lock, for any number of readers *)
(* and writers: the readers that only count themselves, those that look at *)
(* readers_block and those that wait for rw_sem, against writers that wait *)
(* for the count.                                                          *)
THEOREM Refinement == Spec => ImplementsRWLock
<1>1. Init => Lock!Init
  BY ZenonT(30) DEF Init, Lock!Init, ReadHolders, WriteHolders
<1> QED
  BY <1>1, PInvariance, LockSimulation, PTL DEF Spec, ImplementsRWLock, Lock!Spec

(* While a writer is between rcu_sync_enter() and rcu_sync_exit() no       *)
(* reader of the semaphore is on its fast path.                            *)
THEOREM WritersCloseFastPath == Spec => []FastPathClosed
BY UsesRcuSync, FastPathIsClosed, PTL
-----------------------------------------------------------------------------
(* The places from which a reader wakes the writer next, and those where   *)
(* the task in the rcuwait is the writer.                                  *)
WakeLocs == {"undo_wake", "try_wake", "up_wake"}
WaitLocs == {"state", "check", "sched", "clear"}

(* While a writer sleeps there are readers it waits for, or one is about   *)
(* to wake it; one that leaves without a wakeup is on the fast path.       *)
WakeInv ==
  /\ readers_block \in BOOLEAN
  /\ rwReaders \in SUBSET Readers /\ rwWriters \in SUBSET Updaters
  /\ writer \in Updaters \cup {None} /\ wsleep \in SUBSET Updaters
  /\ \A w \in Updaters : wpc[w] \in WaitLocs => writer = w
  /\ \A r \in Readers : rpc[r] \in {"up_fast", "up_done"} => r \in fast
  /\ \A w \in Updaters : wpc[w] = "sched" /\ w \in wsleep =>
       read_count > 0 \/ \E r \in Readers : rpc[r] \in WakeLocs

(* While a writer is in the wait no reader is on the fast path. *)
LEMMA NoFastReader ==
  ASSUME RssInv, PInv, WakeInv, NEW w \in Updaters, wpc[w] = "sched"
  PROVE  /\ writer = w /\ w \in rwWriters
         /\ \A r \in Readers : rpc[r] \notin {"up_fast", "up_done"}
<1>1. upc[w] = "in" /\ w \in rwWriters
  BY ZenonT(30) DEF PInv, RwInv, RwWriterLocs, BlockLocs
<1>2. fast = {}
  BY <1>1, ZenonT(30) DEF RssInv, StateInv, FastInv
<1> QED
  BY <1>1, <1>2, ZenonT(30) DEF WakeInv, WaitLocs

(* A reader that stops being counted wakes the writer, or leaves somebody  *)
(* who will.                                                               *)
LEMMA WakeReaderSteps ==
  ASSUME RssInv, PInv, WakeInv, NEW r \in Readers, NEW try,
         DownRead(r, try) \/ Reader(r) \/ RwsemDownRead(r)
  PROVE  WakeInv'
<1> USE DEF RGoto
<1>0. rpc \in [Readers -> ReaderLocs] /\ read_count \in Nat
  BY CountedFinite, SMTT(30) DEF PInv, PcInv, ReadCountInv
<1>1. /\ UNCHANGED <<readers_block, rwWriters, writer, wpc>>
      /\ rwReaders' \in SUBSET (rwReaders \cup {r})
      /\ wsleep' \in SUBSET wsleep
      /\ \E to \in ReaderLocs : rpc' = [rpc EXCEPT ![r] = to]
  BY ZenonT(30) DEF Reader, DownRead, RwsemDownRead, IncReadCount, FastRead, SlowRead, CheckBlock, Undo,
     UndoWake, RwsemIncReadCount, RwsemUpRead, PreemptEnable, UpRead, UpReadIdle, DecReadCount,
     UpReadDone, ReaderLocs
<1>2. \A s \in Readers : s # r => rpc'[s] = rpc[s]
  BY <1>0, <1>1, ZenonT(30)
<1>3. ASSUME NEW s \in Readers, rpc'[s] \in {"up_fast", "up_done"}
      PROVE  s \in fast'
  <2>1. fast \ {r} \subseteq fast'
    BY ZenonT(60) DEF Reader, DownRead, RwsemDownRead, IncReadCount, FastRead, SlowRead, CheckBlock, Undo,
       UndoWake, RwsemIncReadCount, RwsemUpRead, PreemptEnable, UpRead, UpReadIdle, DecReadCount,
       UpReadDone, ReadLock, ReadUnlock, TakeFastPath, rssvars, rcu
  <2>2. CASE s # r
    BY <1>2, <1>3, <2>1, <2>2, ZenonT(30) DEF WakeInv
  <2>3. CASE s = r
    <3>1. UpReadIdle(r) \/ DecReadCount(r)
      BY <1>0, <1>3, <2>3, ZenonT(30) DEF Reader, DownRead, RwsemDownRead, IncReadCount, FastRead, SlowRead,
         CheckBlock, Undo, UndoWake, RwsemIncReadCount, RwsemUpRead, PreemptEnable, UpRead, UpReadDone
    <3>2. CASE UpReadIdle(r)
      BY <1>0, <1>3, <2>3, <3>2, ZenonT(30) DEF UpReadIdle, TakeFastPath
    <3>3. CASE DecReadCount(r)
      BY <1>0, <1>3, <2>3, <3>3, SMTT(30) DEF DecReadCount, WakeInv, rssvars, rcu
    <3> QED
      BY <3>1, <3>2, <3>3, SMTT(30)
  <2> QED
    BY <2>2, <2>3, ZenonT(30)
<1>4. ASSUME NEW w \in Updaters, wpc'[w] = "sched", w \in wsleep'
      PROVE  read_count' > 0 \/ \E s \in Readers : rpc'[s] \in WakeLocs
  <2>1. wpc[w] = "sched" /\ w \in wsleep
    BY <1>1, <1>4, ZenonT(30)
  <2>2. writer = w /\ rpc[r] \notin {"up_fast", "up_done"}
    BY <2>1, NoFastReader, ZenonT(30)
  <2>3. read_count > 0 \/ \E s \in Readers : rpc[s] \in WakeLocs
    BY <2>1, ZenonT(30) DEF WakeInv
  <2>4. CASE IncReadCount(r) \/ RwsemIncReadCount(r)
    BY <1>0, <2>4 DEF IncReadCount, RwsemIncReadCount
  <2>5. CASE Undo(r) \/ DecReadCount(r)
    BY <1>0, <2>2, <2>5, ZenonT(30) DEF Undo, DecReadCount, WakeLocs
  <2>6. CASE UndoWake(r)
    BY <1>4, <2>2, <2>6, ZenonT(30) DEF UndoWake
  <2>7. CASE UpReadDone(r)
    BY <1>4, <2>2, <2>7, ZenonT(30) DEF UpReadDone, WokenByReader
  <2>8. CASE read_count' = read_count /\ rpc[r] \notin WakeLocs
    BY <1>2, <2>3, <2>8, SMTT(30)
  <2>9. ASSUME DownRead(r, try) \/ RwsemDownRead(r) \/ FastRead(r) \/ SlowRead(r) \/ CheckBlock(r)
               \/ RwsemUpRead(r) \/ PreemptEnable(r) \/ UpRead(r) \/ UpReadIdle(r)
        PROVE  read_count' = read_count /\ rpc[r] \notin WakeLocs
    BY <2>9, ZenonT(30) DEF DownRead, RwsemDownRead, FastRead, SlowRead, CheckBlock, RwsemUpRead,
       PreemptEnable, UpRead, UpReadIdle, WakeLocs
  <2> QED
    BY <2>4, <2>5, <2>6, <2>7, <2>8, <2>9, ZenonT(30) DEF Reader
<1> QED
  BY <1>1, <1>3, <1>4, ZenonT(30) DEF WakeInv

(* A writer looks at the count after it has published itself as the one    *)
(* to wake.                                                                *)
LEMMA WakeWriterSteps ==
  ASSUME RssInv, PInv, WakeInv, NEW w \in Updaters,
         DownWrite(w) \/ RwsemDownWrite(w) \/ Writer(w) \/ WStrayWakeup(w)
  PROVE  WakeInv'
<1> USE DEF WGoto
<1>0. wpc \in [Updaters -> WriterLocs] /\ read_count \in Nat
  BY CountedFinite, ZenonT(30) DEF PInv, PcInv, ReadCountInv
<1>1. /\ UNCHANGED <<rpc, read_count, rwReaders, fast>>
      /\ readers_block' \in {readers_block, TRUE, FALSE}
      /\ rwWriters' \in {rwWriters, {w}, {}}
      /\ writer' \in {writer, w, None}
      /\ wsleep' \in {wsleep, wsleep \cup {w}, wsleep \ {w}}
      /\ \A v \in Updaters : v # w => wpc'[v] = wpc[v]
  BY <1>0, ZenonT(30) DEF DownWrite, RwsemDownWrite, Writer, WStrayWakeup, BlockReaders, AssignWriter, SetState,
     CheckReaders, WriterScheduled, ClearWriter, UnblockReaders, RwsemUpWrite, UpWriteExit,
     Enter, Exit, rssvars, rcu
<1>2. ASSUME NEW v \in Updaters, v # w, wpc[v] \in WaitLocs
      PROVE  writer' = writer
  <2>1. wpc[w] \notin RwWriterLocs
    BY <1>2, ZenonT(60) DEF PInv, RwInv, RwWriterLocs, BlockLocs, WaitLocs
  <2> QED
    BY <2>1, ZenonT(30) DEF DownWrite, RwsemDownWrite, Writer, WStrayWakeup, BlockReaders, AssignWriter, SetState,
       CheckReaders, WriterScheduled, ClearWriter, UnblockReaders, RwsemUpWrite, UpWriteExit,
       RwWriterLocs, BlockLocs
<1>3. ASSUME wpc'[w] \in WaitLocs
      PROVE  writer' = w
  <2>1. CASE AssignWriter(w)
    BY <2>1, ZenonT(30) DEF AssignWriter
  <2>2. CASE SetState(w) \/ CheckReaders(w) \/ WriterScheduled(w) \/ WStrayWakeup(w)
    <3>1. writer' = writer /\ wpc[w] \in WaitLocs
      BY <1>3, <2>2, ZenonT(30) DEF SetState, CheckReaders, WriterScheduled, WStrayWakeup, WaitLocs
    <3> QED
      BY <3>1, ZenonT(30) DEF WakeInv
  <2>3. CASE DownWrite(w) \/ RwsemDownWrite(w) \/ BlockReaders(w) \/ ClearWriter(w)
             \/ UnblockReaders(w) \/ RwsemUpWrite(w) \/ UpWriteExit(w)
    <3>1. wpc'[w] \notin WaitLocs
      BY <1>0, <2>3, ZenonT(30) DEF DownWrite, RwsemDownWrite, BlockReaders, ClearWriter, UnblockReaders,
         RwsemUpWrite, UpWriteExit, WaitLocs
    <3> QED
      BY <1>3, <3>1, SMTT(30)
  <2> QED
    BY <2>1, <2>2, <2>3, ZenonT(30) DEF Writer
<1>4. ASSUME wpc'[w] = "sched", w \in wsleep'
      PROVE  read_count > 0 \/ \E r \in Readers : rpc[r] \in WakeLocs
  <2>1. CheckReaders(w) \/ WStrayWakeup(w)
    BY <1>0, <1>4, ZenonT(30) DEF DownWrite, RwsemDownWrite, Writer, BlockReaders, AssignWriter,
       SetState, WriterScheduled, ClearWriter, UnblockReaders, RwsemUpWrite, UpWriteExit
  <2>2. CASE CheckReaders(w)
    BY <1>0, <1>4, <2>2 DEF CheckReaders, readers_active_check
  <2>3. CASE WStrayWakeup(w)
    BY <1>4, <2>3, ZenonT(30) DEF WStrayWakeup
  <2> QED
    BY <2>1, <2>2, <2>3, SMTT(30)
<1> QED
  BY <1>1, <1>2, <1>3, <1>4, ZenonT(30) DEF WakeInv, WaitLocs

(* Every step keeps the invariant about wakeups. *)
LEMMA WakeInductive == RssInv /\ PInv /\ WakeInv /\ [Next]_vars => WakeInv'
<1> SUFFICES ASSUME RssInv, PInv, WakeInv, [Next]_vars
             PROVE  WakeInv'
  BY ZenonT(30)
<1>1. ASSUME InRcuSync \/ FreeAndInit \/ UNCHANGED vars
      PROVE  WakeInv'
  <2>1. UNCHANGED percpu
    BY <1>1, SMTT(30) DEF InRcuSync, FreeAndInit, vars
  <2>2. UNCHANGED fast
    BY <1>1, ZenonT(30) DEF InRcuSync, FreeAndInit, Func, Updater, StrayWakeup, Dtor, DtorWaited, Reuse,
       EnterSynced, EnterWakesAll, EnterAtOnce, WaitCheckFirst, WaitPrepare, WaitRecheck,
       WaitScheduled, vars, rssvars, rcu
  <2> QED
    BY <2>1, <2>2, ZenonT(30) DEF percpu, WakeInv
<1>2. ASSUME NEW r \in Readers, NEW try \in Try, DownRead(r, try)
      PROVE  WakeInv'
  BY <1>2, WakeReaderSteps, ZenonT(30)
<1>3. ASSUME NEW r \in Readers, RwsemDownRead(r) \/ Reader(r)
      PROVE  WakeInv'
  BY <1>3, WakeReaderSteps, ZenonT(30)
<1> QED
  BY <1>1, <1>2, <1>3, WakeWriterSteps, ZenonT(30) DEF Next

(* No writer sleeps through the last reader, for any number of readers and *)
(* writers: a reader that rcuwait_wake_up() is left to is there as long as *)
(* the writer sleeps with nobody counted.                                  *)
THEOREM NoWriterForgotten == Spec => []WriterIsWoken
<1>1. Init => WakeInv
  BY ZenonT(30) DEF Init, WakeInv, WaitLocs
<1>2. RssInv /\ PInv /\ WakeInv => WriterIsWoken
  <2> SUFFICES ASSUME RssInv, PInv, WakeInv PROVE WriterIsWoken
    BY ZenonT(30)
  <2>1. TypeOK
    BY CountedFinite, ZenonT(30) DEF RssInv, PInv, PcInv, ReadCountInv, WakeInv, TypeOK
  <2> QED
    BY <2>1, NoFastReader, ZenonT(30) DEF WakeInv, WakeLocs, WriterIsWoken
<1> QED
  BY <1>1, <1>2, PInvariance, WakeInductive, PTL DEF Spec
=============================================================================
