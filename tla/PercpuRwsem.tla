---------------------------- MODULE PercpuRwsem ----------------------------
(***************************************************************************)
(* The percpu reader/writer semaphore: kernel/locking/percpu-rwsem.c,      *)
(* include/linux/percpu-rwsem.h and the rcuwait of its writer.             *)
(*                                                                         *)
(* It is built on RcuSync, whose updaters are the writers here.  Its       *)
(* rw_sem is the reader/writer lock that Rwsem implements (RWLock).  The   *)
(* sections with preemption disabled are critical sections of RCU, and     *)
(* other tasks may run between any two of their steps.                     *)
(***************************************************************************)
EXTENDS RcuSync

VARIABLES
  read_count, readers_block,
  writer,               \* the task of the rcuwait, or None
  rwReaders, rwWriters, \* holders of rw_sem
  rpc,                  \* where a reader is
  wpc,                  \* where a writer is, before and after rcu_sync_enter()
  wsleep                \* writers that rcuwait_wait_event() has put to sleep

CONSTANTS
  Try,    \* the calls there are: with TRUE percpu_down_read_trylock()
  None

ASSUME PercpuAssumption == IsFiniteSet(Readers)

percpu == <<read_count, readers_block, writer, rwReaders, rwWriters, rpc, wpc, wsleep>>
vars == <<rssvars, percpu>>

Init ==
  /\ RssInit
  /\ read_count = 0
  /\ readers_block = FALSE
  /\ writer = None
  /\ rwReaders = {} /\ rwWriters = {}
  /\ rpc = [r \in Readers |-> "out"]
  /\ wpc = [w \in Updaters |-> "out"]
  /\ wsleep = {}

RGoto(r, from, to) == rpc[r] = from /\ rpc' = [rpc EXCEPT ![r] = to]
WGoto(w, from, to) == wpc[w] = from /\ wpc' = [wpc EXCEPT ![w] = to]
-----------------------------------------------------------------------------
(* percpu_down_read(), percpu_down_read_trylock(): preempt_disable() ...   *)
DownRead(r, try) ==
  /\ RGoto(r, "out", IF try THEN "try_inc" ELSE "inc")
  /\ ReadLock(r)
  /\ UNCHANGED <<read_count, readers_block, writer, rwReaders, rwWriters, wpc, wsleep>>

(* ... count the reader ... *)
IncReadCount(r) ==
  /\ \/ RGoto(r, "inc", "idle")
     \/ RGoto(r, "try_inc", "try_idle")
  /\ read_count' = read_count + 1
  /\ UNCHANGED <<rssvars, readers_block, writer, rwReaders, rwWriters, wpc, wsleep>>

(* ... and take the fast path when rcu_sync_is_idle() ... *)
FastRead(r) ==
  /\ RGoto(r, "idle", "enable") \/ RGoto(r, "try_idle", "enable")
  /\ TakeFastPath(r)
  /\ UNCHANGED <<read_count, readers_block, writer, rwReaders, rwWriters, wpc, wsleep>>

SlowRead(r) ==
  /\ RGoto(r, "idle", "block") \/ RGoto(r, "try_idle", "try_block")
  /\ ~rcu_sync_is_idle
  /\ UNCHANGED <<rssvars, read_count, readers_block, writer, rwReaders, rwWriters, wpc, wsleep>>

(* ... or, in __percpu_down_read(), look at readers_block; if it is set,   *)
(* __percpu_up_read().                                                     *)
CheckBlock(r) ==
  /\ \/ ~readers_block /\ (RGoto(r, "block", "enable") \/ RGoto(r, "try_block", "enable"))
     \/ readers_block /\ (RGoto(r, "block", "undo") \/ RGoto(r, "try_block", "try_undo"))
  /\ UNCHANGED <<rssvars, read_count, readers_block, writer, rwReaders, rwWriters, wpc, wsleep>>

Undo(r) ==
  /\ RGoto(r, "undo", "undo_wake") \/ RGoto(r, "try_undo", "try_wake")
  /\ read_count' = read_count - 1
  /\ UNCHANGED <<rssvars, readers_block, writer, rwReaders, rwWriters, wpc, wsleep>>

(* rcuwait_wake_up(); then the section ends, for good in the trylock. *)
UndoWake(r) ==
  /\ RGoto(r, "undo_wake", "rwsem") \/ RGoto(r, "try_wake", "out")
  /\ wsleep' = wsleep \ {writer}
  /\ ReadUnlock(r)
  /\ UNCHANGED <<read_count, readers_block, writer, rwReaders, rwWriters, wpc>>

(* __down_read(&sem->rw_sem), count the reader, __up_read(). *)
RwsemDownRead(r) ==
  /\ RGoto(r, "rwsem", "rwsem_inc")
  /\ rwWriters = {}
  /\ rwReaders' = rwReaders \cup {r}
  /\ UNCHANGED <<rssvars, read_count, readers_block, writer, rwWriters, wpc, wsleep>>

RwsemIncReadCount(r) ==
  /\ RGoto(r, "rwsem_inc", "rwsem_up")
  /\ read_count' = read_count + 1
  /\ UNCHANGED <<rssvars, readers_block, writer, rwReaders, rwWriters, wpc, wsleep>>

RwsemUpRead(r) ==
  /\ RGoto(r, "rwsem_up", "reading")
  /\ rwReaders' = rwReaders \ {r}
  /\ UNCHANGED <<rssvars, read_count, readers_block, writer, rwWriters, wpc, wsleep>>

PreemptEnable(r) ==
  /\ RGoto(r, "enable", "reading")
  /\ ReadUnlock(r)
  /\ UNCHANGED <<read_count, readers_block, writer, rwReaders, rwWriters, wpc, wsleep>>

(* percpu_up_read(): without a wakeup when rcu_sync_is_idle(). *)
UpRead(r) ==
  /\ RGoto(r, "reading", "up")
  /\ ReadLock(r)
  /\ UNCHANGED <<read_count, readers_block, writer, rwReaders, rwWriters, wpc, wsleep>>

UpReadIdle(r) ==
  /\ \/ RGoto(r, "up", "up_fast") /\ TakeFastPath(r)
     \/ RGoto(r, "up", "up_slow") /\ ~rcu_sync_is_idle /\ UNCHANGED rssvars
  /\ UNCHANGED <<read_count, readers_block, writer, rwReaders, rwWriters, wpc, wsleep>>

DecReadCount(r) ==
  /\ RGoto(r, "up_fast", "up_done") \/ RGoto(r, "up_slow", "up_wake")
  /\ read_count' = read_count - 1
  /\ UNCHANGED <<rssvars, readers_block, writer, rwReaders, rwWriters, wpc, wsleep>>

(* Mutant: the reader wakes no writer. *)
WokenByReaderNot(r) == {}
WokenByReader(r) == IF rpc[r] = "up_wake" THEN {writer} ELSE {}

UpReadDone(r) ==
  /\ RGoto(r, "up_done", "out") \/ RGoto(r, "up_wake", "out")
  /\ wsleep' = wsleep \ WokenByReader(r)
  /\ ReadUnlock(r)
  /\ UNCHANGED <<read_count, readers_block, writer, rwReaders, rwWriters, wpc>>
-----------------------------------------------------------------------------
(* percpu_down_write(): rcu_sync_enter() ... *)
DownWrite(w) ==
  /\ WGoto(w, "out", "enter")
  /\ Enter(w)
  /\ UNCHANGED <<read_count, readers_block, writer, rwReaders, rwWriters, rpc, wsleep>>

(* ... down_write(&sem->rw_sem) ... *)
RwsemDownWrite(w) ==
  /\ WGoto(w, "enter", "block") /\ upc[w] = "in"
  /\ rwReaders = {} /\ rwWriters = {}
  /\ rwWriters' = {w}
  /\ UNCHANGED <<rssvars, read_count, readers_block, writer, rwReaders, rpc, wsleep>>

(* ... readers_block ... *)
BlockReaders(w) ==
  /\ WGoto(w, "block", "assign")
  /\ readers_block' = TRUE
  /\ UNCHANGED <<rssvars, read_count, writer, rwReaders, rwWriters, rpc, wsleep>>

(* ... and rcuwait_wait_event(). *)
AssignWriter(w) ==
  /\ WGoto(w, "assign", "state")
  /\ writer' = w
  /\ UNCHANGED <<rssvars, read_count, readers_block, rwReaders, rwWriters, rpc, wsleep>>

SetState(w) ==
  /\ WGoto(w, "state", "check")
  /\ wsleep' = wsleep \cup {w}
  /\ UNCHANGED <<rssvars, read_count, readers_block, writer, rwReaders, rwWriters, rpc>>

(* Mutant: the writer does not care for the readers that hold the lock. *)
readers_active_checkNot == TRUE
readers_active_check == read_count = 0

CheckReaders(w) ==
  /\ \/ readers_active_check /\ WGoto(w, "check", "clear")
     \/ ~readers_active_check /\ WGoto(w, "check", "sched")
  /\ UNCHANGED <<rssvars, read_count, readers_block, writer, rwReaders, rwWriters, rpc, wsleep>>

WriterScheduled(w) ==
  /\ WGoto(w, "sched", "state")
  /\ w \notin wsleep
  /\ UNCHANGED <<rssvars, read_count, readers_block, writer, rwReaders, rwWriters, rpc, wsleep>>

ClearWriter(w) ==
  /\ WGoto(w, "clear", "writing")
  /\ writer' = None
  /\ wsleep' = wsleep \ {w}
  /\ UNCHANGED <<rssvars, read_count, readers_block, rwReaders, rwWriters, rpc>>

(* percpu_up_write() *)
UnblockReaders(w) ==
  /\ WGoto(w, "writing", "up_write")
  /\ readers_block' = FALSE
  /\ UNCHANGED <<rssvars, read_count, writer, rwReaders, rwWriters, rpc, wsleep>>

RwsemUpWrite(w) ==
  /\ WGoto(w, "up_write", "exit")
  /\ rwWriters' = {}
  /\ UNCHANGED <<rssvars, read_count, readers_block, writer, rwReaders, rpc, wsleep>>

UpWriteExit(w) ==
  /\ WGoto(w, "exit", "out")
  /\ Exit(w)
  /\ UNCHANGED <<read_count, readers_block, writer, rwReaders, rwWriters, rpc, wsleep>>

WStrayWakeup(w) ==
  /\ w \in wsleep
  /\ wsleep' = wsleep \ {w}
  /\ UNCHANGED <<rssvars, read_count, readers_block, writer, rwReaders, rwWriters, rpc, wpc>>

(* percpu_free_rwsem() and percpu_init_rwsem(), when nobody uses the lock. *)
FreeAndInit ==
  /\ \A r \in Readers : rpc[r] = "out"
  /\ Dtor \/ DtorWaited \/ Reuse
  /\ UNCHANGED percpu

(* What goes on inside rcu_sync_enter(), and its callback. *)
InRcuSync ==
  /\ Func \/ \E w \in Updaters : Updater(w) \/ StrayWakeup(w)
  /\ UNCHANGED percpu

Reader(r) ==
  \/ IncReadCount(r) \/ FastRead(r) \/ SlowRead(r) \/ CheckBlock(r)
  \/ Undo(r) \/ UndoWake(r) \/ RwsemIncReadCount(r)
  \/ RwsemUpRead(r) \/ PreemptEnable(r)
  \/ UpRead(r) \/ UpReadIdle(r) \/ DecReadCount(r) \/ UpReadDone(r)

Writer(w) ==
  \/ BlockReaders(w) \/ AssignWriter(w) \/ SetState(w)
  \/ CheckReaders(w) \/ WriterScheduled(w) \/ ClearWriter(w)
  \/ UnblockReaders(w) \/ RwsemUpWrite(w) \/ UpWriteExit(w)

Next ==
  \/ \E r \in Readers : dtor = "no" /\ \E try \in Try : DownRead(r, try)
  \/ \E r \in Readers : RwsemDownRead(r) \/ Reader(r)
  \/ \E w \in Updaters : DownWrite(w) \/ RwsemDownWrite(w) \/ Writer(w) \/ WStrayWakeup(w)
  \/ InRcuSync \/ FreeAndInit

Spec == Init /\ [][Next]_vars

(* Tasks that have begun go on, and rw_sem lets everybody in some day.     *)
FairSpec ==
  /\ Spec
  /\ \A r \in Readers : WF_vars(Reader(r)) /\ SF_vars(RwsemDownRead(r))
  /\ \A w \in Updaters : WF_vars(Writer(w)) /\ SF_vars(RwsemDownWrite(w))
  /\ \A w \in Updaters : WF_vars(Updater(w) /\ UNCHANGED percpu)
  /\ WF_vars(Func /\ UNCHANGED percpu)
-----------------------------------------------------------------------------
ReaderLocs ==
  {"out", "inc", "try_inc", "idle", "try_idle", "block", "try_block", "undo", "try_undo",
   "undo_wake", "try_wake", "rwsem", "rwsem_inc", "rwsem_up", "enable", "reading",
   "up", "up_fast", "up_slow", "up_done", "up_wake"}
WriterLocs ==
  {"out", "enter", "block", "assign", "state", "check", "sched", "clear", "writing",
   "up_write", "exit"}

(* Types. *)
TypeOK ==
  /\ RssTypeOK
  /\ read_count \in Nat
  /\ readers_block \in BOOLEAN
  /\ writer \in Updaters \cup {None}
  /\ rwReaders \in SUBSET Readers
  /\ rwWriters \in SUBSET Updaters
  /\ rpc \in [Readers -> ReaderLocs]
  /\ wpc \in [Updaters -> WriterLocs]
  /\ wsleep \in SUBSET Updaters

(* The semaphore is a reader/writer lock: a reader has it from its         *)
(* decision to go on until it decrements the count, a writer from the end  *)
(* of its wait until it lets readers in.                                   *)
ReadHolders == {r \in Readers : rpc[r] \in {"enable", "rwsem_up", "reading", "up", "up_fast", "up_slow"}}
WriteHolders == {w \in Updaters : wpc[w] \in {"clear", "writing"}}
Lock == INSTANCE RWLock WITH
  Tasks <- Readers \cup Updaters, readers <- ReadHolders, writers <- WriteHolders
ImplementsRWLock == Lock!Spec

(* A writer does not sleep through the last reader: while it sleeps there  *)
(* is a reader that counts, or one that is about to wake it, and no reader *)
(* leaves by the fast path, which wakes nobody.                            *)
WriterIsWoken ==
  TypeOK /\ \A w \in Updaters : wpc[w] = "sched" /\ w \in wsleep =>
    /\ writer = w
    /\ \/ read_count > 0
       \/ \E r \in Readers : rpc[r] \in {"undo_wake", "try_wake", "up_wake"}
    /\ \A r \in Readers : rpc[r] \notin {"up_fast", "up_done"}

(* Every writer that calls percpu_down_write() gets the semaphore, unless  *)
(* the calls of percpu_down_read_trylock() never end: each counts itself   *)
(* for a while, and the writer may look at read_count just then.           *)
TryingToRead(r) == rpc[r] \in {"try_inc", "try_idle", "try_block", "try_undo", "try_wake"}
WritersGetIn ==
  <>[](\A r \in Readers : ~TryingToRead(r)) =>
    \A w \in Updaters : wpc[w] = "enter" ~> wpc[w] = "writing"
=============================================================================
