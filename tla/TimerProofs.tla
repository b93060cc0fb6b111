---------------------------- MODULE TimerProofs ----------------------------
(***************************************************************************)
(* Proofs about Timer with the softirqs and tasklets of Softirq: for every *)
(* set of tasklets and of timers, every wheel and every limit of restarts, *)
(* nothing that was raised is forgotten.                                   *)
(***************************************************************************)
EXTENDS Timer, TLAPS

(* The lists a tasklet can be on, with any contents. *)
Places == {"HI", "TASKLET", "loop"}
AllLists == [Places -> Seq(Tasklets)]

(* list_add_tail() of an entry that is on no list. *)
AddsTail(L, l, x, M) ==
  /\ L \in AllLists /\ NoneTwice(L) /\ l \in Places /\ x \in Tasklets \ Entries(L)
  /\ M \in AllLists /\ M[l] = Append(L[l], x)
  /\ \A m \in Places : m # l => M[m] = L[m]
(* Adding a tasklet that is on no list to the end of one. *)
LEMMA AddTail ==
  ASSUME NEW L, NEW l, NEW x, NEW M, AddsTail(L, l, x, M)
  PROVE  NoneTwice(M) /\ Entries(M) = Entries(L) \cup {x}
<1> DEFINE a == Append(L[l], x)
<1>1. \A m \in Places : L[m] \in Seq(Tasklets) /\ Len(L[m]) \in Nat /\ DOMAIN L[m] = 1 .. Len(L[m])
  BY DEF AddsTail, AllLists
<1>2. M[l] = a /\ \A m \in Places : m # l => M[m] = L[m]
  BY DEF AddsTail
<1>3. /\ M \in [Places -> Seq(Tasklets)] /\ DOMAIN M = Places /\ DOMAIN L = Places
      /\ l \in Places /\ x \in Tasklets \ Entries(L) /\ NoneTwice(L)
  BY DEF AddsTail, AllLists
<1>4. /\ DOMAIN a = 1 .. Len(L[l]) + 1
      /\ a[Len(L[l]) + 1] = x
      /\ \A i \in 1 .. Len(L[l]) : a[i] = L[l][i]
  BY <1>1
<1>5. \A m \in Places : \A i \in DOMAIN L[m] : L[m][i] # x
  BY <1>3 DEF Entries, Range
<1> HIDE DEF a
<1>6. \A m \in Places : \A i \in DOMAIN M[m] :
        \/ i \in DOMAIN L[m] /\ M[m][i] = L[m][i]
        \/ m = l /\ i = Len(L[l]) + 1 /\ M[m][i] = x
  BY <1>1, <1>2, <1>3, <1>4
<1>7. ASSUME NEW m \in Places, NEW i \in DOMAIN L[m]
      PROVE  i \in DOMAIN M[m] /\ M[m][i] = L[m][i]
  <2>1. CASE m = l
    BY <1>1, <1>2, <1>4, <2>1
  <2>2. CASE m # l
    BY <1>2, <2>2
  <2> QED
    BY <2>1, <2>2
<1>8. Len(L[l]) + 1 \in DOMAIN M[l] /\ M[l][Len(L[l]) + 1] = x
  BY <1>1, <1>2, <1>3, <1>4
<1>n. \A m, n \in Places : \A i \in DOMAIN L[m], j \in DOMAIN L[n] :
        L[m][i] = L[n][j] => m = n /\ i = j
  BY <1>3 DEF NoneTwice
<1>9. NoneTwice(M)
  <2> SUFFICES ASSUME NEW m \in Places, NEW n \in Places, NEW i \in DOMAIN M[m], NEW j \in DOMAIN M[n],
                      M[m][i] = M[n][j]
               PROVE  m = n /\ i = j
    BY <1>3 DEF NoneTwice
  <2> QED
    BY <1>n, <1>5, <1>6
<1>10. Entries(M) = Entries(L) \cup {x}
  BY <1>3, <1>6, <1>7, <1>8 DEF Entries, Range
<1> QED
  BY <1>9, <1>10

(* Taking the first entry off a list. *)
TakesHead(L, l, M) ==
  /\ L \in AllLists /\ NoneTwice(L) /\ l \in Places /\ L[l] # <<>>
  /\ M \in AllLists /\ M[l] = Tail(L[l])
  /\ \A m \in Places : m # l => M[m] = L[m]
(* Taking the first tasklet off a list. *)
LEMMA TakeHead ==
  ASSUME NEW L, NEW l, NEW M, TakesHead(L, l, M)
  PROVE  /\ NoneTwice(M)
         /\ Entries(M) = Entries(L) \ {Head(L[l])}
         /\ Head(L[l]) \in Tasklets /\ Head(L[l]) \in Entries(L)
<1> DEFINE a == Tail(L[l])
<1>1. \A m \in Places : L[m] \in Seq(Tasklets) /\ Len(L[m]) \in Nat /\ DOMAIN L[m] = 1 .. Len(L[m])
  BY DEF TakesHead, AllLists
<1>2. M[l] = a /\ \A m \in Places : m # l => M[m] = L[m]
  BY DEF TakesHead
<1>3. /\ M \in [Places -> Seq(Tasklets)] /\ DOMAIN M = Places /\ DOMAIN L = Places
      /\ l \in Places /\ L[l] # <<>> /\ NoneTwice(L)
  BY DEF TakesHead, AllLists
<1>4. /\ DOMAIN a = 1 .. Len(L[l]) - 1
      /\ \A i \in 1 .. Len(L[l]) - 1 : a[i] = L[l][i + 1]
      /\ Head(L[l]) = L[l][1] /\ 1 \in DOMAIN L[l] /\ Head(L[l]) \in Tasklets
  BY <1>1, <1>3
<1> HIDE DEF a
<1>5. \A m \in Places : \A i \in DOMAIN M[m] :
        /\ i \in Int
        /\ m = l => i + 1 \in DOMAIN L[m] /\ i + 1 # 1 /\ M[m][i] = L[m][i + 1]
        /\ m # l => i \in DOMAIN L[m] /\ M[m][i] = L[m][i]
  BY <1>1, <1>2, <1>3, <1>4
<1>6. \A m \in Places : \A k \in DOMAIN L[m] : m # l \/ k # 1 =>
        LET i == IF m = l THEN k - 1 ELSE k IN i \in DOMAIN M[m] /\ M[m][i] = L[m][k]
  BY <1>1, <1>2, <1>3, <1>4
<1>n. \A m, n \in Places : \A i \in DOMAIN L[m], j \in DOMAIN L[n] :
        L[m][i] = L[n][j] => m = n /\ i = j
  BY <1>3 DEF NoneTwice
<1>7. \A m \in Places : \A i \in DOMAIN M[m] : M[m][i] # Head(L[l])
  BY <1>n, <1>1, <1>3, <1>4, <1>5
<1>8. NoneTwice(M)
  <2> SUFFICES ASSUME NEW m \in Places, NEW n \in Places, NEW i \in DOMAIN M[m], NEW j \in DOMAIN M[n],
                      M[m][i] = M[n][j]
               PROVE  m = n /\ i = j
    BY <1>3 DEF NoneTwice
  <2>1. m = n /\ (m = l => i + 1 = j + 1) /\ (m # l => i = j)
    BY <1>n, <1>5
  <2>2. i \in Int /\ j \in Int
    BY <1>5
  <2> QED
    BY <2>1, <2>2
<1>9. Entries(M) = Entries(L) \ {Head(L[l])}
  <2>1. ASSUME NEW y \in Entries(M) PROVE y \in Entries(L) \ {Head(L[l])}
    BY <1>3, <1>5, <1>7 DEF Entries, Range
  <2>2. ASSUME NEW y \in Entries(L), y # Head(L[l]) PROVE y \in Entries(M)
    <3>1. PICK m \in Places : \E k \in DOMAIN L[m] : y = L[m][k]
      BY <1>3 DEF Entries, Range
    <3>2. PICK k \in DOMAIN L[m] : y = L[m][k]
      BY <3>1
    <3>3. m # l \/ k # 1
      BY <2>2, <3>2, <1>4
    <3> QED
      BY <1>3, <1>6, <3>2, <3>3 DEF Entries, Range
  <2> QED
    BY <2>1, <2>2
<1>10. Head(L[l]) \in Entries(L)
  BY <1>3, <1>4 DEF Entries, Range
<1> QED
  BY <1>3, <1>4, <1>8, <1>9, <1>10

(* list_splice_init() of list k onto the empty list l. *)
TakesList(L, l, k, M) ==
  /\ L \in AllLists /\ NoneTwice(L) /\ l \in Places /\ k \in Places \ {l} /\ L[l] = <<>>
  /\ M \in AllLists /\ M[l] = L[k] /\ M[k] = <<>>
  /\ \A m \in Places : m # l /\ m # k => M[m] = L[m]
(* Moving a whole list to an empty one. *)
LEMMA TakeList ==
  ASSUME NEW L, NEW l, NEW k, NEW M, TakesList(L, l, k, M)
  PROVE  NoneTwice(M) /\ Entries(M) = Entries(L)
<1>1. /\ M \in [Places -> Seq(Tasklets)] /\ DOMAIN M = Places /\ DOMAIN L = Places
      /\ l \in Places /\ k \in Places /\ k # l /\ L[l] = <<>> /\ NoneTwice(L)
  BY DEF TakesList, AllLists
<1>2. M[l] = L[k] /\ M[k] = <<>> /\ \A m \in Places : m # l /\ m # k => M[m] = L[m]
  BY DEF TakesList
<1>3. DOMAIN L[l] = {} /\ DOMAIN M[k] = {}
  BY <1>1, <1>2
<1>4. \A m \in Places : \A i \in DOMAIN M[m] :
        /\ m # k
        /\ m = l => i \in DOMAIN L[k] /\ M[m][i] = L[k][i]
        /\ m # l => i \in DOMAIN L[m] /\ M[m][i] = L[m][i]
  BY <1>1, <1>2, <1>3
<1>5. \A m \in Places : \A i \in DOMAIN L[m] :
        LET o == IF m = k THEN l ELSE m IN i \in DOMAIN M[o] /\ M[o][i] = L[m][i]
  BY <1>1, <1>2, <1>3
<1>n. \A m, n \in Places : \A i \in DOMAIN L[m], j \in DOMAIN L[n] :
        L[m][i] = L[n][j] => m = n /\ i = j
  BY <1>1 DEF NoneTwice
<1>6. NoneTwice(M)
  <2> SUFFICES ASSUME NEW m \in Places, NEW n \in Places, NEW i \in DOMAIN M[m], NEW j \in DOMAIN M[n],
                      M[m][i] = M[n][j]
               PROVE  m = n /\ i = j
    BY <1>1 DEF NoneTwice
  <2>1. PICK p \in Places : /\ i \in DOMAIN L[p] /\ M[m][i] = L[p][i]
                            /\ m # k /\ p = IF m = l THEN k ELSE m
    BY <1>1, <1>4
  <2>2. PICK r \in Places : /\ j \in DOMAIN L[r] /\ M[n][j] = L[r][j]
                            /\ n # k /\ r = IF n = l THEN k ELSE n
    BY <1>1, <1>4
  <2>3. p = r /\ i = j
    <3>1. L[p][i] = L[r][j]
      BY <2>1, <2>2, ZenonT(30)
    <3>2. i \in DOMAIN L[p] /\ j \in DOMAIN L[r]
      BY <2>1, <2>2, ZenonT(30)
    <3>3. \A a \in DOMAIN L[p], b \in DOMAIN L[r] : L[p][a] = L[r][b] => p = r /\ a = b
      BY <1>n, ZenonT(30)
    <3> QED
      BY <3>1, <3>2, <3>3, ZenonT(30)
  <2> QED
    BY <2>1, <2>2, <2>3
<1>7. Entries(M) = Entries(L)
  <2>1. ASSUME NEW y \in Entries(M) PROVE y \in Entries(L)
    <3>1. PICK m \in Places : \E i \in DOMAIN M[m] : y = M[m][i]
      BY <1>1 DEF Entries, Range
    <3>2. \E o \in Places : \E i \in DOMAIN L[o] : y = L[o][i]
      BY <1>1, <1>4, <3>1
    <3> QED
      BY <1>1, <3>2 DEF Entries, Range
  <2>2. ASSUME NEW y \in Entries(L) PROVE y \in Entries(M)
    <3>1. PICK m \in Places : \E i \in DOMAIN L[m] : y = L[m][i]
      BY <1>1 DEF Entries, Range
    <3>2. \E o \in Places : \E i \in DOMAIN M[o] : y = M[o][i]
      BY <1>1, <1>5, <3>1
    <3> QED
      BY <1>1, <3>2 DEF Entries, Range
  <2> QED
    BY <2>1, <2>2
<1> QED
  BY <1>1, <1>6, <1>7

-----------------------------------------------------------------------------
(* The types of the loop and of the tasklets, and of everything. *)
LoopTypes ==
  [on : BOOLEAN, todo : SUBSET Vectors, vec : Vectors \cup {None},
   at : {None, "start", "list", "func", "collect", "fn", "irqsafe"},
   list : Seq(Tasklets), restart : Nat]

TaskletTypes(s) ==
  s \in [vec : [TaskletVecs -> Seq(Tasklets)], sched : SUBSET Tasklets,
         set : [{"task", "func"} -> Tasklets \cup {None}],
         disabled : SUBSET Tasklets, kill : SUBSET Tasklets]

Types ==
  /\ pending \subseteq Vectors
  /\ sirq \in LoopTypes
  /\ bh \in {"on", "off", "enabling"}
  /\ ksoftirqd \in [state : {"RUNNING", "INTERRUPTIBLE"}, at : {"top", "check", "schedule", "run"}]
  /\ TaskletTypes(tasklet)

(* Where the loop is: it has a list only in tasklet_action(). *)
Loop ==
  /\ ~sirq.on => sirq.todo = {} /\ sirq.vec = None
  /\ sirq.vec = None <=> sirq.at = None
  /\ sirq.at \in {"list", "func"} => sirq.vec \in TaskletVecs
  /\ sirq.at \notin {"list", "func"} => sirq.list = <<>>

(* Who has set a SCHED bit, and has yet to add the tasklet to a list or to *)
(* clear the bit, is the only one.                                         *)
Bits ==
  /\ tasklet.kill \subseteq tasklet.sched
  /\ \A c \in {"task", "func"} :
       tasklet.set[c] # None => tasklet.set[c] \in tasklet.sched \ tasklet.kill
  /\ tasklet.set["task"] # None => tasklet.set["task"] # tasklet.set["func"]

(* The parts of SoftirqServed: somebody will look at what is pending, the  *)
(* SCHED bits and the lists agree, a list that is not empty is due.        *)
Awake == pending # {} => sirq.on \/ bh # "on" \/ ksoftirqd_running \/ ksoftirqd.at = "check"
Placed ==
  /\ Entries(Lists) = tasklet.sched \ (tasklet.kill \cup Range(tasklet.set))
  /\ NoneTwice(Lists)
Raised ==
  \A v \in TaskletVecs : tasklet.vec[v] # <<>> =>
    v \in pending \cup sirq.todo \/ (sirq.vec = v /\ sirq.at = "start")

(* The inductive invariant: SoftirqServed needs Bits, for a second caller  *)
(* of tasklet_schedule() would list a tasklet twice, and Loop.             *)
IInv == Types /\ Loop /\ Bits /\ Awake /\ Placed /\ Raised

(* __do_softirq() starts with what is pending. *)
LEMMA Starts ==
  ASSUME IInv, NEW p \in SUBSET Vectors, ~sirq.on, Start(p)
  PROVE  /\ pending' = {} /\ sirq' \in LoopTypes /\ Loop'
         /\ sirq'.on /\ sirq'.todo = p /\ sirq'.list = sirq.list
         /\ sirq.vec = None /\ sirq.at = None /\ sirq.todo = {}
<1>1. sirq' = [on |-> TRUE, todo |-> p, vec |-> None, at |-> None, list |-> <<>>,
               restart |-> MAX_SOFTIRQ_RESTART] /\ pending' = {}
  BY ZenonT(30) DEF Start, NoLoop
<1>2. sirq.vec = None /\ sirq.at = None /\ sirq.todo = {} /\ sirq.list = <<>>
  BY SoftirqAssumption DEF IInv, Loop
<1> QED
  BY <1>1, <1>2, SoftirqAssumption DEF LoopTypes, Loop

(* irq_exit() with p pending forgets nothing. *)
LEMMA IrqExits ==
  ASSUME IInv, NEW p \in SUBSET Vectors, pending \subseteq p, IrqExit(p)
  PROVE  /\ pending' \subseteq Vectors /\ sirq' \in LoopTypes /\ Loop'
         /\ sirq'.list = sirq.list
         /\ pending' # {} => sirq'.on \/ bh = "off" \/ ksoftirqd_running
         /\ p \cup sirq.todo \subseteq pending' \cup sirq'.todo
         /\ sirq.at = "start" => sirq'.at = "start" /\ sirq'.vec = sirq.vec
<1>1. CASE ~InInterrupt /\ p # {} /\ ~ksoftirqd_running
  <2>1. ~sirq.on /\ Start(p)
    BY <1>1 DEF IrqExit, InInterrupt
  <2> QED
    BY <2>1, Starts, SoftirqAssumption
<1>2. CASE ~(~InInterrupt /\ p # {} /\ ~ksoftirqd_running)
  <2>1. pending' = p /\ sirq' = sirq
    BY <1>2 DEF IrqExit
  <2>2. sirq.on \/ bh = "off" \/ p = {} \/ ksoftirqd_running
    BY <1>2 DEF InInterrupt
  <2> QED
    BY <2>1, <2>2 DEF IInv, Types, TaskletTypes, Loop
<1> QED
  BY <1>1, <1>2

(* The lists as functions, for the lemmas above. *)
LEMMA ListsType ==
  ASSUME IInv
  PROVE  /\ Lists \in AllLists
         /\ Lists["HI"] = tasklet.vec["HI"] /\ Lists["TASKLET"] = tasklet.vec["TASKLET"]
         /\ Lists["loop"] = sirq.list
BY DEF IInv, Types, TaskletTypes, LoopTypes, Lists, TaskletVecs, Places, AllLists

(* Steps that change neither the lists nor who is on them. *)
LEMMA SamePlaces ==
  ASSUME IInv, sirq'.list = sirq.list, tasklet'.vec = tasklet.vec,
         tasklet'.sched \ (tasklet'.kill \cup Range(tasklet'.set))
         = tasklet.sched \ (tasklet.kill \cup Range(tasklet.set))
  PROVE  Placed'
<1>1. Lists' = Lists
  BY DEF Lists
<1> QED
  BY <1>1 DEF IInv, Placed

(* The loop of __do_softirq() takes the lowest vector: only its bit is     *)
(* gone.                                                                   *)
LEMMA DispatchStep ==
  ASSUME IInv, Dispatch
  PROVE  IInv'
<1> USE SoftirqAssumption
<1>1. Types'
  <2>1. PICK v \in sirq.todo :
          sirq' = [sirq EXCEPT !.vec = v, !.at = "start", !.todo = @ \ {v}]
    BY ZenonT(30) DEF Dispatch
  <2>2. sirq \in LoopTypes /\ v \in Vectors
    BY DEF IInv, Types, TaskletTypes, LoopTypes
  <2>3. sirq' \in LoopTypes
    BY <2>1, <2>2, ZenonT(30) DEF LoopTypes
  <2> QED
    BY <2>3 DEF Dispatch, IInv, Types, TaskletTypes
<1>2. Loop'
  BY DEF Dispatch, IInv, Types, TaskletTypes, LoopTypes, Vectors, TaskletVecs, Loop
<1>3. Bits'
  BY DEF Dispatch, IInv, Types, TaskletTypes, LoopTypes, Vectors, TaskletVecs, Bits
<1>4. Awake'
  BY DEF Dispatch, IInv, Types, TaskletTypes, LoopTypes, Vectors, TaskletVecs, Loop, Awake,
       ksoftirqd_running
<1>5. Placed'
  <2>1. sirq'.list = sirq.list /\ tasklet'.vec = tasklet.vec
    BY DEF Dispatch, IInv, Types, TaskletTypes, LoopTypes, Vectors, TaskletVecs, Loop
  <2>2. tasklet'.sched \ (tasklet'.kill \cup Range(tasklet'.set))
        = tasklet.sched \ (tasklet.kill \cup Range(tasklet.set))
    BY DEF Dispatch, IInv, Types, TaskletTypes, LoopTypes, Vectors, TaskletVecs, Bits, Range
  <2> QED
    BY <2>1, <2>2, SamePlaces
<1>6. Raised'
  BY DEF Dispatch, IInv, Types, TaskletTypes, LoopTypes, Vectors, TaskletVecs, Loop, Raised
<1> QED
  BY <1>1, <1>2, <1>3, <1>4, <1>5, <1>6 DEF IInv

(* The restart takes what became pending while the handlers ran. *)
LEMMA RestartStep ==
  ASSUME IInv, Restart
  PROVE  IInv'
<1> USE SoftirqAssumption
<1>1. Types'
  <2>1. sirq' = [sirq EXCEPT !.todo = pending, !.restart = IF @ > 1 THEN @ - 1 ELSE @]
    BY DEF Restart
  <2>2. sirq \in LoopTypes /\ pending \subseteq Vectors
    BY DEF IInv, Types, TaskletTypes
  <2>3. (IF sirq.restart > 1 THEN sirq.restart - 1 ELSE sirq.restart) \in Nat
    BY <2>2 DEF LoopTypes
  <2>4. sirq' \in LoopTypes
    BY <2>1, <2>2, <2>3, ZenonT(30) DEF LoopTypes
  <2> QED
    BY <2>4 DEF Restart, IInv, Types, TaskletTypes
<1>2. Loop'
  BY DEF Restart, IInv, Types, TaskletTypes, LoopTypes, Vectors, TaskletVecs, Loop
<1>3. Bits'
  BY DEF Restart, IInv, Types, TaskletTypes, LoopTypes, Vectors, TaskletVecs, Bits
<1>4. Awake'
  BY DEF Restart, IInv, Types, TaskletTypes, LoopTypes, Vectors, TaskletVecs, Loop, Awake,
       ksoftirqd_running
<1>5. Placed'
  <2>1. sirq'.list = sirq.list /\ tasklet'.vec = tasklet.vec
    BY DEF Restart, IInv, Types, TaskletTypes, LoopTypes, Vectors, TaskletVecs, Loop
  <2>2. tasklet'.sched \ (tasklet'.kill \cup Range(tasklet'.set))
        = tasklet.sched \ (tasklet.kill \cup Range(tasklet.set))
    BY DEF Restart, IInv, Types, TaskletTypes, LoopTypes, Vectors, TaskletVecs, Bits, Range
  <2> QED
    BY <2>1, <2>2, SamePlaces
<1>6. Raised'
  BY DEF Restart, IInv, Types, TaskletTypes, LoopTypes, Vectors, TaskletVecs, Loop, Raised
<1> QED
  BY <1>1, <1>2, <1>3, <1>4, <1>5, <1>6 DEF IInv

(* __do_softirq() ends: what is pending is left to ksoftirqd, which it     *)
(* wakes.                                                                  *)
LEMMA SoftirqEndStep ==
  ASSUME IInv, SoftirqEnd
  PROVE  IInv'
<1> USE SoftirqAssumption
<1>1. Types'
  BY DEF SoftirqEnd, IInv, Types, TaskletTypes, LoopTypes, Vectors, TaskletVecs, Loop, NoLoop,
       LeftOver, wakeup_softirqd
<1>2. Loop'
  BY DEF SoftirqEnd, IInv, Types, TaskletTypes, LoopTypes, Vectors, TaskletVecs, Loop, NoLoop,
       LeftOver, wakeup_softirqd
<1>3. Bits'
  BY DEF SoftirqEnd, IInv, Types, TaskletTypes, LoopTypes, Vectors, TaskletVecs, Bits, NoLoop,
       LeftOver, wakeup_softirqd
<1>4. Awake'
  BY DEF SoftirqEnd, IInv, Types, TaskletTypes, LoopTypes, Vectors, TaskletVecs, Loop, Awake,
       ksoftirqd_running, NoLoop, LeftOver, wakeup_softirqd
<1>5. Placed'
  <2>1. sirq'.list = sirq.list /\ tasklet'.vec = tasklet.vec
    BY DEF SoftirqEnd, IInv, Types, TaskletTypes, LoopTypes, Vectors, TaskletVecs, Loop, NoLoop,
         LeftOver, wakeup_softirqd
  <2>2. tasklet'.sched \ (tasklet'.kill \cup Range(tasklet'.set))
        = tasklet.sched \ (tasklet.kill \cup Range(tasklet.set))
    BY DEF SoftirqEnd, IInv, Types, TaskletTypes, LoopTypes, Vectors, TaskletVecs, Bits, NoLoop,
         LeftOver, wakeup_softirqd, Range
  <2> QED
    BY <2>1, <2>2, SamePlaces
<1>6. Raised'
  BY DEF SoftirqEnd, IInv, Types, TaskletTypes, LoopTypes, Vectors, TaskletVecs, Loop, Raised,
       NoLoop, LeftOver, wakeup_softirqd
<1> QED
  BY <1>1, <1>2, <1>3, <1>4, <1>5, <1>6 DEF IInv

(* local_bh_disable() leaves the lists and what is pending alone. *)
LEMMA BhDisableStep ==
  ASSUME IInv, BhDisable
  PROVE  IInv'
<1> USE SoftirqAssumption
<1>1. Types'
  BY DEF BhDisable, IInv, Types, TaskletTypes, LoopTypes, Vectors, TaskletVecs, Loop, Free,
       InTask
<1>2. Loop'
  BY DEF BhDisable, IInv, Types, TaskletTypes, LoopTypes, Vectors, TaskletVecs, Loop, Free,
       InTask
<1>3. Bits'
  BY DEF BhDisable, IInv, Types, TaskletTypes, LoopTypes, Vectors, TaskletVecs, Bits, Free,
       InTask
<1>4. Awake'
  BY DEF BhDisable, IInv, Types, TaskletTypes, LoopTypes, Vectors, TaskletVecs, Loop, Awake,
       ksoftirqd_running, Free, InTask
<1>5. Placed'
  <2>1. sirq'.list = sirq.list /\ tasklet'.vec = tasklet.vec
    BY DEF BhDisable, IInv, Types, TaskletTypes, LoopTypes, Vectors, TaskletVecs, Loop, Free,
         InTask
  <2>2. tasklet'.sched \ (tasklet'.kill \cup Range(tasklet'.set))
        = tasklet.sched \ (tasklet.kill \cup Range(tasklet.set))
    BY DEF BhDisable, IInv, Types, TaskletTypes, LoopTypes, Vectors, TaskletVecs, Bits, Free,
         InTask, Range
  <2> QED
    BY <2>1, <2>2, SamePlaces
<1>6. Raised'
  BY DEF BhDisable, IInv, Types, TaskletTypes, LoopTypes, Vectors, TaskletVecs, Loop, Raised,
       Free, InTask
<1> QED
  BY <1>1, <1>2, <1>3, <1>4, <1>5, <1>6 DEF IInv

(* __local_bh_enable_ip() has yet to look at what is pending. *)
LEMMA BhEnableStep ==
  ASSUME IInv, BhEnable
  PROVE  IInv'
<1> USE SoftirqAssumption
<1>1. Types'
  BY DEF BhEnable, IInv, Types, TaskletTypes, LoopTypes, Vectors, TaskletVecs, Loop, Free,
       InTask
<1>2. Loop'
  BY DEF BhEnable, IInv, Types, TaskletTypes, LoopTypes, Vectors, TaskletVecs, Loop, Free,
       InTask
<1>3. Bits'
  BY DEF BhEnable, IInv, Types, TaskletTypes, LoopTypes, Vectors, TaskletVecs, Bits, Free,
       InTask
<1>4. Awake'
  BY DEF BhEnable, IInv, Types, TaskletTypes, LoopTypes, Vectors, TaskletVecs, Loop, Awake,
       ksoftirqd_running, Free, InTask
<1>5. Placed'
  <2>1. sirq'.list = sirq.list /\ tasklet'.vec = tasklet.vec
    BY DEF BhEnable, IInv, Types, TaskletTypes, LoopTypes, Vectors, TaskletVecs, Loop, Free,
         InTask
  <2>2. tasklet'.sched \ (tasklet'.kill \cup Range(tasklet'.set))
        = tasklet.sched \ (tasklet.kill \cup Range(tasklet.set))
    BY DEF BhEnable, IInv, Types, TaskletTypes, LoopTypes, Vectors, TaskletVecs, Bits, Free,
         InTask, Range
  <2> QED
    BY <2>1, <2>2, SamePlaces
<1>6. Raised'
  BY DEF BhEnable, IInv, Types, TaskletTypes, LoopTypes, Vectors, TaskletVecs, Loop, Raised,
       Free, InTask
<1> QED
  BY <1>1, <1>2, <1>3, <1>4, <1>5, <1>6 DEF IInv

(* ksoftirqd sets its state before it looks for pending vectors. *)
LEMMA KsoftirqdTopStep ==
  ASSUME IInv, KsoftirqdTop
  PROVE  IInv'
<1> USE SoftirqAssumption
<1>1. Types'
  BY DEF KsoftirqdTop, IInv, Types, TaskletTypes, LoopTypes, Vectors, TaskletVecs, Loop,
       InKsoftirqd
<1>2. Loop'
  BY DEF KsoftirqdTop, IInv, Types, TaskletTypes, LoopTypes, Vectors, TaskletVecs, Loop,
       InKsoftirqd
<1>3. Bits'
  BY DEF KsoftirqdTop, IInv, Types, TaskletTypes, LoopTypes, Vectors, TaskletVecs, Bits,
       InKsoftirqd
<1>4. Awake'
  BY DEF KsoftirqdTop, IInv, Types, TaskletTypes, LoopTypes, Vectors, TaskletVecs, Loop, Awake,
       ksoftirqd_running, InKsoftirqd
<1>5. Placed'
  <2>1. sirq'.list = sirq.list /\ tasklet'.vec = tasklet.vec
    BY DEF KsoftirqdTop, IInv, Types, TaskletTypes, LoopTypes, Vectors, TaskletVecs, Loop,
         InKsoftirqd
  <2>2. tasklet'.sched \ (tasklet'.kill \cup Range(tasklet'.set))
        = tasklet.sched \ (tasklet.kill \cup Range(tasklet.set))
    BY DEF KsoftirqdTop, IInv, Types, TaskletTypes, LoopTypes, Vectors, TaskletVecs, Bits,
         InKsoftirqd, Range
  <2> QED
    BY <2>1, <2>2, SamePlaces
<1>6. Raised'
  BY DEF KsoftirqdTop, IInv, Types, TaskletTypes, LoopTypes, Vectors, TaskletVecs, Loop,
       Raised, InKsoftirqd
<1> QED
  BY <1>1, <1>2, <1>3, <1>4, <1>5, <1>6 DEF IInv

(* ksoftirqd looks, and runs or goes on to schedule(). *)
LEMMA KsoftirqdCheckStep ==
  ASSUME IInv, KsoftirqdCheck
  PROVE  IInv'
<1> USE SoftirqAssumption
<1>1. Types'
  BY DEF KsoftirqdCheck, IInv, Types, TaskletTypes, LoopTypes, Vectors, TaskletVecs, Loop,
       InKsoftirqd, ksoftirqd_should_run
<1>2. Loop'
  BY DEF KsoftirqdCheck, IInv, Types, TaskletTypes, LoopTypes, Vectors, TaskletVecs, Loop,
       InKsoftirqd, ksoftirqd_should_run
<1>3. Bits'
  BY DEF KsoftirqdCheck, IInv, Types, TaskletTypes, LoopTypes, Vectors, TaskletVecs, Bits,
       InKsoftirqd, ksoftirqd_should_run
<1>4. Awake'
  BY DEF KsoftirqdCheck, IInv, Types, TaskletTypes, LoopTypes, Vectors, TaskletVecs, Loop,
       Awake, ksoftirqd_running, InKsoftirqd, ksoftirqd_should_run
<1>5. Placed'
  <2>1. sirq'.list = sirq.list /\ tasklet'.vec = tasklet.vec
    BY DEF KsoftirqdCheck, IInv, Types, TaskletTypes, LoopTypes, Vectors, TaskletVecs, Loop,
         InKsoftirqd, ksoftirqd_should_run
  <2>2. tasklet'.sched \ (tasklet'.kill \cup Range(tasklet'.set))
        = tasklet.sched \ (tasklet.kill \cup Range(tasklet.set))
    BY DEF KsoftirqdCheck, IInv, Types, TaskletTypes, LoopTypes, Vectors, TaskletVecs, Bits,
         InKsoftirqd, ksoftirqd_should_run, Range
  <2> QED
    BY <2>1, <2>2, SamePlaces
<1>6. Raised'
  BY DEF KsoftirqdCheck, IInv, Types, TaskletTypes, LoopTypes, Vectors, TaskletVecs, Loop,
       Raised, InKsoftirqd, ksoftirqd_should_run
<1> QED
  BY <1>1, <1>2, <1>3, <1>4, <1>5, <1>6 DEF IInv

(* schedule(): ksoftirqd sleeps only if nobody woke it since it looked. *)
LEMMA KsoftirqdScheduleStep ==
  ASSUME IInv, KsoftirqdSchedule
  PROVE  IInv'
<1> USE SoftirqAssumption
<1>1. Types'
  BY DEF KsoftirqdSchedule, IInv, Types, TaskletTypes, LoopTypes, Vectors, TaskletVecs, Loop,
       InKsoftirqd, ksoftirqd_running
<1>2. Loop'
  BY DEF KsoftirqdSchedule, IInv, Types, TaskletTypes, LoopTypes, Vectors, TaskletVecs, Loop,
       InKsoftirqd, ksoftirqd_running
<1>3. Bits'
  BY DEF KsoftirqdSchedule, IInv, Types, TaskletTypes, LoopTypes, Vectors, TaskletVecs, Bits,
       InKsoftirqd, ksoftirqd_running
<1>4. Awake'
  BY DEF KsoftirqdSchedule, IInv, Types, TaskletTypes, LoopTypes, Vectors, TaskletVecs, Loop,
       Awake, ksoftirqd_running, InKsoftirqd
<1>5. Placed'
  <2>1. sirq'.list = sirq.list /\ tasklet'.vec = tasklet.vec
    BY DEF KsoftirqdSchedule, IInv, Types, TaskletTypes, LoopTypes, Vectors, TaskletVecs, Loop,
         InKsoftirqd, ksoftirqd_running
  <2>2. tasklet'.sched \ (tasklet'.kill \cup Range(tasklet'.set))
        = tasklet.sched \ (tasklet.kill \cup Range(tasklet.set))
    BY DEF KsoftirqdSchedule, IInv, Types, TaskletTypes, LoopTypes, Vectors, TaskletVecs, Bits,
         InKsoftirqd, ksoftirqd_running, Range
  <2> QED
    BY <2>1, <2>2, SamePlaces
<1>6. Raised'
  BY DEF KsoftirqdSchedule, IInv, Types, TaskletTypes, LoopTypes, Vectors, TaskletVecs, Loop,
       Raised, InKsoftirqd, ksoftirqd_running
<1> QED
  BY <1>1, <1>2, <1>3, <1>4, <1>5, <1>6 DEF IInv

(* The scheduler switches from the task to ksoftirqd. *)
LEMMA SwitchToStep ==
  ASSUME IInv, SwitchTo
  PROVE  IInv'
<1> USE SoftirqAssumption
<1>1. Types'
  BY DEF SwitchTo, IInv, Types, TaskletTypes, LoopTypes, Vectors, TaskletVecs, Loop, Free,
       ksoftirqd_running, InTask
<1>2. Loop'
  BY DEF SwitchTo, IInv, Types, TaskletTypes, LoopTypes, Vectors, TaskletVecs, Loop, Free,
       ksoftirqd_running, InTask
<1>3. Bits'
  BY DEF SwitchTo, IInv, Types, TaskletTypes, LoopTypes, Vectors, TaskletVecs, Bits, Free,
       ksoftirqd_running, InTask
<1>4. Awake'
  BY DEF SwitchTo, IInv, Types, TaskletTypes, LoopTypes, Vectors, TaskletVecs, Loop, Awake,
       ksoftirqd_running, Free, InTask
<1>5. Placed'
  <2>1. sirq'.list = sirq.list /\ tasklet'.vec = tasklet.vec
    BY DEF SwitchTo, IInv, Types, TaskletTypes, LoopTypes, Vectors, TaskletVecs, Loop, Free,
         ksoftirqd_running, InTask
  <2>2. tasklet'.sched \ (tasklet'.kill \cup Range(tasklet'.set))
        = tasklet.sched \ (tasklet.kill \cup Range(tasklet.set))
    BY DEF SwitchTo, IInv, Types, TaskletTypes, LoopTypes, Vectors, TaskletVecs, Bits, Free,
         ksoftirqd_running, InTask, Range
  <2> QED
    BY <2>1, <2>2, SamePlaces
<1>6. Raised'
  BY DEF SwitchTo, IInv, Types, TaskletTypes, LoopTypes, Vectors, TaskletVecs, Loop, Raised,
       Free, ksoftirqd_running, InTask
<1> QED
  BY <1>1, <1>2, <1>3, <1>4, <1>5, <1>6 DEF IInv

(* The scheduler switches back to the task. *)
LEMMA SwitchBackStep ==
  ASSUME IInv, SwitchBack
  PROVE  IInv'
<1> USE SoftirqAssumption
<1>1. Types'
  BY DEF SwitchBack, IInv, Types, TaskletTypes, LoopTypes, Vectors, TaskletVecs, Loop,
       InKsoftirqd, ksoftirqd_running
<1>2. Loop'
  BY DEF SwitchBack, IInv, Types, TaskletTypes, LoopTypes, Vectors, TaskletVecs, Loop,
       InKsoftirqd, ksoftirqd_running
<1>3. Bits'
  BY DEF SwitchBack, IInv, Types, TaskletTypes, LoopTypes, Vectors, TaskletVecs, Bits,
       InKsoftirqd, ksoftirqd_running
<1>4. Awake'
  BY DEF SwitchBack, IInv, Types, TaskletTypes, LoopTypes, Vectors, TaskletVecs, Loop, Awake,
       ksoftirqd_running, InKsoftirqd
<1>5. Placed'
  <2>1. sirq'.list = sirq.list /\ tasklet'.vec = tasklet.vec
    BY DEF SwitchBack, IInv, Types, TaskletTypes, LoopTypes, Vectors, TaskletVecs, Loop,
         InKsoftirqd, ksoftirqd_running
  <2>2. tasklet'.sched \ (tasklet'.kill \cup Range(tasklet'.set))
        = tasklet.sched \ (tasklet.kill \cup Range(tasklet.set))
    BY DEF SwitchBack, IInv, Types, TaskletTypes, LoopTypes, Vectors, TaskletVecs, Bits,
         InKsoftirqd, ksoftirqd_running, Range
  <2> QED
    BY <2>1, <2>2, SamePlaces
<1>6. Raised'
  BY DEF SwitchBack, IInv, Types, TaskletTypes, LoopTypes, Vectors, TaskletVecs, Loop, Raised,
       InKsoftirqd, ksoftirqd_running
<1> QED
  BY <1>1, <1>2, <1>3, <1>4, <1>5, <1>6 DEF IInv

(* A tasklet function returns to the loop of tasklet_action(). *)
LEMMA TaskletDoneStep ==
  ASSUME IInv, TaskletDone
  PROVE  IInv'
<1> USE SoftirqAssumption
<1>1. Types'
  BY ZenonT(30) DEF TaskletDone, IInv, Types, TaskletTypes, LoopTypes, Vectors, TaskletVecs, Loop
<1>2. Loop'
  BY DEF TaskletDone, IInv, Types, TaskletTypes, LoopTypes, Vectors, TaskletVecs, Loop
<1>3. Bits'
  BY DEF TaskletDone, IInv, Types, TaskletTypes, LoopTypes, Vectors, TaskletVecs, Bits
<1>4. Awake'
  BY DEF TaskletDone, IInv, Types, TaskletTypes, LoopTypes, Vectors, TaskletVecs, Loop, Awake,
       ksoftirqd_running
<1>5. Placed'
  <2>1. sirq'.list = sirq.list /\ tasklet'.vec = tasklet.vec
    BY DEF TaskletDone, IInv, Types, TaskletTypes, LoopTypes, Vectors, TaskletVecs, Loop
  <2>2. tasklet'.sched \ (tasklet'.kill \cup Range(tasklet'.set))
        = tasklet.sched \ (tasklet.kill \cup Range(tasklet.set))
    BY DEF TaskletDone, IInv, Types, TaskletTypes, LoopTypes, Vectors, TaskletVecs, Bits, Range
  <2> QED
    BY <2>1, <2>2, SamePlaces
<1>6. Raised'
  BY DEF TaskletDone, IInv, Types, TaskletTypes, LoopTypes, Vectors, TaskletVecs, Loop, Raised
<1> QED
  BY <1>1, <1>2, <1>3, <1>4, <1>5, <1>6 DEF IInv

(* tasklet_schedule() sets the SCHED bit: one caller gets to list the      *)
(* tasklet.                                                                *)
LEMMA TaskletSetStep ==
  ASSUME IInv, NEW c \in {"task", "func"}, NEW t \in Tasklets, TaskletSet(c, t)
  PROVE  IInv'
<1> USE SoftirqAssumption
<1>1. Types'
  BY ZenonT(30) DEF TaskletSet, IInv, Types, TaskletTypes, LoopTypes, Vectors, TaskletVecs, Loop, Free,
       InTask
<1>2. Loop'
  BY DEF TaskletSet, IInv, Types, TaskletTypes, LoopTypes, Vectors, TaskletVecs, Loop, Free,
       InTask
<1>3. Bits'
  BY DEF TaskletSet, IInv, Types, TaskletTypes, LoopTypes, Vectors, TaskletVecs, Bits, Free,
       InTask
<1>4. Awake'
  BY DEF TaskletSet, IInv, Types, TaskletTypes, LoopTypes, Vectors, TaskletVecs, Loop, Awake,
       ksoftirqd_running, Free, InTask
<1>5. Placed'
  <2>1. sirq'.list = sirq.list /\ tasklet'.vec = tasklet.vec
    BY DEF TaskletSet, IInv, Types, TaskletTypes, LoopTypes, Vectors, TaskletVecs, Loop, Free,
         InTask
  <2>2. tasklet'.sched \ (tasklet'.kill \cup Range(tasklet'.set))
        = tasklet.sched \ (tasklet.kill \cup Range(tasklet.set))
    BY DEF TaskletSet, IInv, Types, TaskletTypes, LoopTypes, Vectors, TaskletVecs, Bits, Free,
         InTask, Range
  <2> QED
    BY <2>1, <2>2, SamePlaces
<1>6. Raised'
  BY DEF TaskletSet, IInv, Types, TaskletTypes, LoopTypes, Vectors, TaskletVecs, Loop, Raised,
       Free, InTask
<1> QED
  BY <1>1, <1>2, <1>3, <1>4, <1>5, <1>6 DEF IInv

(* tasklet_disable() and tasklet_enable() move no tasklet. *)
LEMMA TaskletDisableStep ==
  ASSUME IInv, NEW t \in Tasklets, TaskletDisable(t)
  PROVE  IInv'
<1> USE SoftirqAssumption
<1>1. Types'
  BY DEF TaskletDisable, IInv, Types, TaskletTypes, LoopTypes, Vectors, TaskletVecs, Loop,
       Free, InTask
<1>2. Loop'
  BY DEF TaskletDisable, IInv, Types, TaskletTypes, LoopTypes, Vectors, TaskletVecs, Loop,
       Free, InTask
<1>3. Bits'
  BY DEF TaskletDisable, IInv, Types, TaskletTypes, LoopTypes, Vectors, TaskletVecs, Bits,
       Free, InTask
<1>4. Awake'
  BY DEF TaskletDisable, IInv, Types, TaskletTypes, LoopTypes, Vectors, TaskletVecs, Loop,
       Awake, ksoftirqd_running, Free, InTask
<1>5. Placed'
  <2>1. sirq'.list = sirq.list /\ tasklet'.vec = tasklet.vec
    BY DEF TaskletDisable, IInv, Types, TaskletTypes, LoopTypes, Vectors, TaskletVecs, Loop,
         Free, InTask
  <2>2. tasklet'.sched \ (tasklet'.kill \cup Range(tasklet'.set))
        = tasklet.sched \ (tasklet.kill \cup Range(tasklet.set))
    BY DEF TaskletDisable, IInv, Types, TaskletTypes, LoopTypes, Vectors, TaskletVecs, Bits,
         Free, InTask, Range
  <2> QED
    BY <2>1, <2>2, SamePlaces
<1>6. Raised'
  BY DEF TaskletDisable, IInv, Types, TaskletTypes, LoopTypes, Vectors, TaskletVecs, Loop,
       Raised, Free, InTask
<1> QED
  BY <1>1, <1>2, <1>3, <1>4, <1>5, <1>6 DEF IInv

(* tasklet_kill() gets the SCHED bit only of a tasklet that is on no list. *)
LEMMA TaskletKillStep ==
  ASSUME IInv, NEW t \in Tasklets, TaskletKill(t)
  PROVE  IInv'
<1> USE SoftirqAssumption
<1>1. Types'
  BY ZenonT(30) DEF TaskletKill, IInv, Types, TaskletTypes, LoopTypes, Vectors, TaskletVecs, Loop, Free,
       InTask
<1>2. Loop'
  BY DEF TaskletKill, IInv, Types, TaskletTypes, LoopTypes, Vectors, TaskletVecs, Loop, Free,
       InTask
<1>3. Bits'
  BY DEF TaskletKill, IInv, Types, TaskletTypes, LoopTypes, Vectors, TaskletVecs, Bits, Free,
       InTask
<1>4. Awake'
  BY DEF TaskletKill, IInv, Types, TaskletTypes, LoopTypes, Vectors, TaskletVecs, Loop, Awake,
       ksoftirqd_running, Free, InTask
<1>5. Placed'
  <2>1. sirq'.list = sirq.list /\ tasklet'.vec = tasklet.vec
    BY DEF TaskletKill, IInv, Types, TaskletTypes, LoopTypes, Vectors, TaskletVecs, Loop, Free,
         InTask
  <2>2. tasklet'.sched \ (tasklet'.kill \cup Range(tasklet'.set))
        = tasklet.sched \ (tasklet.kill \cup Range(tasklet.set))
    BY DEF TaskletKill, IInv, Types, TaskletTypes, LoopTypes, Vectors, TaskletVecs, Bits, Free,
         InTask, Range
  <2> QED
    BY <2>1, <2>2, SamePlaces
<1>6. Raised'
  BY DEF TaskletKill, IInv, Types, TaskletTypes, LoopTypes, Vectors, TaskletVecs, Loop, Raised,
       Free, InTask
<1> QED
  BY <1>1, <1>2, <1>3, <1>4, <1>5, <1>6 DEF IInv

(* tasklet_kill() clears the bit it has set. *)
LEMMA TaskletKilledStep ==
  ASSUME IInv, TaskletKilled
  PROVE  IInv'
<1> USE SoftirqAssumption
<1>1. Types'
  BY ZenonT(30) DEF TaskletKilled, IInv, Types, TaskletTypes, LoopTypes, Vectors, TaskletVecs, Loop,
       InTask
<1>2. Loop'
  BY DEF TaskletKilled, IInv, Types, TaskletTypes, LoopTypes, Vectors, TaskletVecs, Loop,
       InTask
<1>3. Bits'
  BY DEF TaskletKilled, IInv, Types, TaskletTypes, LoopTypes, Vectors, TaskletVecs, Bits,
       InTask
<1>4. Awake'
  BY DEF TaskletKilled, IInv, Types, TaskletTypes, LoopTypes, Vectors, TaskletVecs, Loop,
       Awake, ksoftirqd_running, InTask
<1>5. Placed'
  <2>1. sirq'.list = sirq.list /\ tasklet'.vec = tasklet.vec
    BY DEF TaskletKilled, IInv, Types, TaskletTypes, LoopTypes, Vectors, TaskletVecs, Loop,
         InTask
  <2>2. tasklet'.sched \ (tasklet'.kill \cup Range(tasklet'.set))
        = tasklet.sched \ (tasklet.kill \cup Range(tasklet.set))
    BY DEF TaskletKilled, IInv, Types, TaskletTypes, LoopTypes, Vectors, TaskletVecs, Bits,
         InTask, Range
  <2> QED
    BY <2>1, <2>2, SamePlaces
<1>6. Raised'
  BY DEF TaskletKilled, IInv, Types, TaskletTypes, LoopTypes, Vectors, TaskletVecs, Loop,
       Raised, InTask
<1> QED
  BY <1>1, <1>2, <1>3, <1>4, <1>5, <1>6 DEF IInv

(* __local_bh_enable_ip() runs what is pending before it returns. *)
LEMMA BhEnabledStep ==
  ASSUME IInv, BhEnabled
  PROVE  IInv'
<1> USE SoftirqAssumption
<1>1. tasklet' = tasklet /\ bh' = "on" /\ ksoftirqd' = ksoftirqd
  BY DEF BhEnabled, InKsoftirqd
<1>2. /\ pending' \subseteq Vectors /\ sirq' \in LoopTypes /\ Loop'
      /\ sirq'.list = sirq.list
      /\ pending' # {} => sirq'.on \/ ksoftirqd_running
      /\ pending \cup sirq.todo \subseteq pending' \cup sirq'.todo
      /\ sirq.at = "start" => sirq'.at = "start" /\ sirq'.vec = sirq.vec
  <2>1. ~sirq.on /\ pending \in SUBSET Vectors
    BY DEF BhEnabled, InTask, InKsoftirqd, IInv, Types, TaskletTypes
  <2>2. CASE Start(pending)
    BY <2>1, <2>2, Starts
  <2>3. CASE UNCHANGED <<pending, sirq>> /\ (pending = {} \/ ksoftirqd_running)
    BY <2>3 DEF IInv, Types, TaskletTypes, Loop
  <2> QED
    BY <2>2, <2>3 DEF BhEnabled
<1>3. Types' /\ Bits'
  BY <1>1, <1>2 DEF IInv, Types, TaskletTypes, Bits
<1>4. Awake'
  BY <1>1, <1>2 DEF Awake, ksoftirqd_running
<1>5. Placed'
  BY <1>1, <1>2, SamePlaces
<1>6. Raised'
  BY <1>1, <1>2 DEF IInv, Raised, TaskletVecs
<1> QED
  BY <1>2, <1>3, <1>4, <1>5, <1>6 DEF IInv

(* run_ksoftirqd() starts the loop if something is pending. *)
LEMMA RunKsoftirqdStep ==
  ASSUME IInv, RunKsoftirqd
  PROVE  IInv'
<1> USE SoftirqAssumption
<1>1. tasklet' = tasklet /\ bh' = bh /\ ksoftirqd' = [ksoftirqd EXCEPT !.at = "top"] /\ ksoftirqd.at = "run"
  BY DEF RunKsoftirqd, InKsoftirqd
<1>2. /\ pending' \subseteq Vectors /\ sirq' \in LoopTypes /\ Loop'
      /\ sirq'.list = sirq.list
      /\ pending' # {} => sirq'.on
      /\ pending \cup sirq.todo \subseteq pending' \cup sirq'.todo
      /\ sirq.at = "start" => sirq'.at = "start" /\ sirq'.vec = sirq.vec
  <2>1. ~sirq.on /\ pending \in SUBSET Vectors
    BY DEF RunKsoftirqd, InTask, InKsoftirqd, IInv, Types, TaskletTypes
  <2>2. CASE Start(pending)
    BY <2>1, <2>2, Starts
  <2>3. CASE UNCHANGED <<pending, sirq>> /\ (pending = {})
    BY <2>3 DEF IInv, Types, TaskletTypes, Loop
  <2> QED
    BY <2>2, <2>3 DEF RunKsoftirqd
<1>3. Types' /\ Bits'
  BY <1>1, <1>2, SMTT(30) DEF IInv, Types, TaskletTypes, Bits
<1>4. Awake'
  BY <1>1, <1>2 DEF Awake, ksoftirqd_running
<1>5. Placed'
  BY <1>1, <1>2, SamePlaces
<1>6. Raised'
  BY <1>1, <1>2 DEF IInv, Raised, TaskletVecs
<1> QED
  BY <1>2, <1>3, <1>4, <1>5, <1>6 DEF IInv


(* __tasklet_schedule() of a tasklet that is on no list. *)
LEMMA Listing ==
  ASSUME IInv, NEW x \in Tasklets, x \notin Entries(Lists), sirq'.list = sirq.list,
         tasklet'.vec = [tasklet.vec EXCEPT ![VecOf(x)] = Append(@, x)]
  PROVE  Entries(Lists') = Entries(Lists) \cup {x} /\ NoneTwice(Lists')
<1>1. VecOf(x) \in {"HI", "TASKLET"}
  BY DEF VecOf
<1>2. tasklet.vec \in [{"HI", "TASKLET"} -> Seq(Tasklets)]
  BY DEF IInv, Types, TaskletTypes, TaskletVecs
<1>3. Lists' = [Lists EXCEPT ![VecOf(x)] = Append(@, x)]
  BY <1>1, <1>2, ZenonT(30) DEF Lists, TaskletVecs
<1>4. Lists \in AllLists
  BY ListsType
<1>5. VecOf(x) \in Places /\ NoneTwice(Lists)
  BY <1>1 DEF IInv, Placed, Places
<1>6. /\ Lists' \in AllLists /\ Lists'[VecOf(x)] = Append(Lists[VecOf(x)], x)
      /\ \A m \in Places : m # VecOf(x) => Lists'[m] = Lists[m]
  BY <1>3, <1>4, <1>5 DEF AllLists
<1>7. AddsTail(Lists, VecOf(x), x, Lists')
  BY <1>4, <1>5, <1>6 DEF AddsTail
<1> QED
  BY <1>7, AddTail, ZenonT(30)

(* The rest of tasklet_schedule(): the tasklet goes on its list, the       *)
(* vector is raised.                                                       *)
LEMMA TaskletScheduleStep ==
  ASSUME IInv, NEW c \in {"task", "func"}, TaskletSchedule(c)
  PROVE  IInv'
<1> USE SoftirqAssumption
<1> DEFINE x == tasklet.set[c]
<1>1. /\ x \in Tasklets /\ x \in tasklet.sched \ tasklet.kill
      /\ VecOf(x) \in {"HI", "TASKLET"}
  BY DEF TaskletSchedule, IInv, Types, TaskletTypes, Bits, VecOf
<1>2. /\ tasklet'.vec = [tasklet.vec EXCEPT ![VecOf(x)] = Append(@, x)]
      /\ tasklet'.sched = tasklet.sched
      /\ tasklet'.set = [tasklet.set EXCEPT ![c] = None]
      /\ tasklet'.kill = tasklet.kill
      /\ tasklet'.disabled = tasklet.disabled
      /\ TaskletTypes(tasklet')
  <2>1. tasklet' = [tasklet EXCEPT !.sched = @ \cup {x}, !.vec[VecOf(x)] = Append(@, x),
                                   !.set[c] = None]
    BY DEF TaskletSchedule, Listed
  <2>2. TaskletTypes(tasklet) /\ tasklet.sched \cup {x} = tasklet.sched
    BY <1>1 DEF IInv, Types, TaskletTypes
  <2>3. /\ [tasklet.vec EXCEPT ![VecOf(x)] = Append(@, x)] \in [TaskletVecs -> Seq(Tasklets)]
        /\ [tasklet.set EXCEPT ![c] = None] \in [{"task", "func"} -> Tasklets \cup {None}]
    BY <1>1, <2>2 DEF TaskletTypes, TaskletVecs
  <2> HIDE DEF x
  <2> QED
    BY <2>1, <2>2, <2>3, ZenonT(30) DEF TaskletTypes
<1>3. /\ sirq' = sirq /\ bh' = bh /\ pending' = pending \cup {VecOf(x)}
      /\ \/ InInterrupt /\ ksoftirqd' = ksoftirqd
         \/ ksoftirqd' = [ksoftirqd EXCEPT !.state = "RUNNING"]
  BY DEF TaskletSchedule, Raise, wakeup_softirqd
<1> HIDE DEF x
<1>4. Types' /\ Loop'
  BY <1>1, <1>2, <1>3 DEF IInv, Types, TaskletTypes, Loop, Vectors
<1>5. Bits'
  BY <1>1, <1>2 DEF x, IInv, Types, TaskletTypes, Bits
<1>6. Awake'
  BY <1>3 DEF Awake, IInv, Types, TaskletTypes, InInterrupt, ksoftirqd_running
<1>7. Placed'
  <2>1. x \in Range(tasklet.set)
    BY DEF x, Range, IInv, Types, TaskletTypes
  <2>2. Range(tasklet'.set) = (Range(tasklet.set) \ {x}) \cup {None}
    <3>1. tasklet.set["task"] # tasklet.set["func"]
      BY <1>1 DEF x, IInv, Bits
    <3>2. Range(tasklet.set) = {tasklet.set["task"], tasklet.set["func"]}
      BY DEF Range, IInv, Types, TaskletTypes
    <3>3. Range(tasklet'.set) = {tasklet'.set["task"], tasklet'.set["func"]}
      <4>1. DOMAIN tasklet'.set = {"task", "func"}
        BY <1>2 DEF TaskletTypes
      <4> QED
        BY <4>1 DEF Range
    <3>5. c = "task" => x = tasklet.set["task"] /\ tasklet'.set["task"] = None
                        /\ tasklet'.set["func"] = tasklet.set["func"]
      BY <1>2 DEF x, IInv, Types, TaskletTypes
    <3>6. c = "func" => x = tasklet.set["func"] /\ tasklet'.set["func"] = None
                        /\ tasklet'.set["task"] = tasklet.set["task"]
      BY <1>2 DEF x, IInv, Types, TaskletTypes
    <3> QED
      BY <3>1, <3>2, <3>3, <3>5, <3>6
  <2>3. x \notin Entries(Lists)
    BY <2>1 DEF IInv, Placed
  <2>4. Entries(Lists') = Entries(Lists) \cup {x} /\ NoneTwice(Lists')
    BY <1>1, <1>2, <1>3, <2>3, Listing
  <2>5. None \notin tasklet.sched
    BY DEF IInv, Types, TaskletTypes
  <2> QED
    <3>1. /\ tasklet'.sched = tasklet.sched /\ tasklet'.kill = tasklet.kill
          /\ x \in tasklet.sched /\ x \notin tasklet.kill
          /\ Entries(Lists) = tasklet.sched \ (tasklet.kill \cup Range(tasklet.set))
      BY <1>1, <1>2 DEF IInv, Placed
    <3>2. tasklet.sched \ (tasklet.kill \cup Range(tasklet'.set)) = Entries(Lists) \cup {x}
      BY <3>1, <2>2, <2>5
    <3> QED
      BY <3>1, <3>2, <2>4 DEF Placed
<1>8. Raised'
  BY <1>1, <1>2, <1>3 DEF IInv, Raised, Types, TaskletTypes, TaskletVecs
<1> QED
  BY <1>4, <1>5, <1>6, <1>7, <1>8 DEF IInv

(* tasklet_schedule() in a hardirq, which nothing interrupts here. *)
LEMMA TaskletScheduleIrqStep ==
  ASSUME IInv, NEW t \in Tasklets, TaskletScheduleIrq(t)
  PROVE  IInv'
<1> USE SoftirqAssumption
<1>1. t \notin tasklet.sched /\ VecOf(t) \in {"HI", "TASKLET"}
  BY DEF TaskletScheduleIrq, VecOf
<1>2. /\ tasklet'.vec = [tasklet.vec EXCEPT ![VecOf(t)] = Append(@, t)]
      /\ tasklet'.sched = tasklet.sched \cup {t}
      /\ tasklet'.set = tasklet.set
      /\ tasklet'.kill = tasklet.kill
      /\ TaskletTypes(tasklet')
  <2>1. tasklet' = [tasklet EXCEPT !.sched = @ \cup {t}, !.vec[VecOf(t)] = Append(@, t)]
    BY DEF TaskletScheduleIrq, Listed
  <2>2. TaskletTypes(tasklet)
    BY DEF IInv, Types, TaskletTypes
  <2>3. [tasklet.vec EXCEPT ![VecOf(t)] = Append(@, t)] \in [TaskletVecs -> Seq(Tasklets)]
    BY <1>1, <2>2 DEF TaskletTypes, TaskletVecs
  <2> QED
    BY <2>1, <2>2, <2>3, ZenonT(30) DEF TaskletTypes
<1>3. bh' = bh /\ ksoftirqd' = ksoftirqd
  BY DEF TaskletScheduleIrq
<1>4. /\ pending' \subseteq Vectors /\ sirq' \in LoopTypes /\ Loop'
      /\ sirq'.list = sirq.list
      /\ pending' # {} => sirq'.on \/ bh = "off" \/ ksoftirqd_running
      /\ pending \cup {VecOf(t)} \cup sirq.todo \subseteq pending' \cup sirq'.todo
      /\ sirq.at = "start" => sirq'.at = "start" /\ sirq'.vec = sirq.vec
  <2>1. IrqExit(pending \cup {VecOf(t)}) /\ pending \cup {VecOf(t)} \in SUBSET Vectors
    BY <1>1, ZenonT(30) DEF TaskletScheduleIrq, IInv, Types, TaskletTypes, Vectors
  <2> QED
    BY <2>1, IrqExits
<1>5. Types' /\ Bits'
  BY <1>1, <1>2, <1>3, <1>4 DEF IInv, Types, TaskletTypes, Bits
<1>6. Awake'
  BY <1>3, <1>4 DEF Awake, ksoftirqd_running
<1>7. Placed'
  <2>1. t \notin Entries(Lists) /\ t \notin tasklet.kill \cup Range(tasklet.set)
    BY <1>1 DEF IInv, Placed, Bits, Types, TaskletTypes, Range
  <2>2. Entries(Lists') = Entries(Lists) \cup {t} /\ NoneTwice(Lists')
    BY <1>2, <1>4, <2>1, Listing
  <2> QED
    BY <1>1, <1>2, <2>1, <2>2 DEF IInv, Placed
<1>8. Raised'
  BY <1>1, <1>2, <1>4 DEF IInv, Raised, Types, TaskletTypes, TaskletVecs
<1> QED
  BY <1>4, <1>5, <1>6, <1>7, <1>8 DEF IInv

(* tasklet_action() takes the whole list: no tasklet is lost or doubled. *)
LEMMA TaskletActionStep ==
  ASSUME IInv, TaskletAction
  PROVE  IInv'
<1> USE SoftirqAssumption
<1>1. /\ sirq.vec \in {"HI", "TASKLET"} /\ sirq.at = "start" /\ sirq.list = <<>>
      /\ sirq' = [sirq EXCEPT !.at = "list", !.list = tasklet.vec[sirq.vec]]
      /\ tasklet' = [tasklet EXCEPT !.vec[sirq.vec] = <<>>]
      /\ UNCHANGED <<pending, bh, ksoftirqd>>
  BY DEF TaskletAction, IInv, Loop, TaskletVecs
<1>2. tasklet.vec[sirq.vec] \in Seq(Tasklets)
  BY <1>1 DEF IInv, Types, TaskletTypes, TaskletVecs
<1>3. Types' /\ Loop'
  BY <1>1, <1>2, ZenonT(30) DEF IInv, Types, TaskletTypes, LoopTypes, Loop, TaskletVecs
<1>4. Bits' /\ Awake'
  BY <1>1 DEF IInv, Types, TaskletTypes, LoopTypes, Bits, Awake, ksoftirqd_running
<1>5. Placed'
  <2>1. Lists["loop"] = <<>> /\ Lists[sirq.vec] = tasklet.vec[sirq.vec]
    BY <1>1, ListsType
  <2>2. Lists' = [Lists EXCEPT !["loop"] = Lists[sirq.vec], ![sirq.vec] = <<>>]
    BY <1>1, <2>1 DEF Lists, IInv, Types, TaskletTypes, LoopTypes, TaskletVecs
  <2>3. Entries(Lists') = Entries(Lists) /\ NoneTwice(Lists')
    <3>1. Lists \in AllLists /\ NoneTwice(Lists)
      BY ListsType DEF IInv, Placed
    <3>2. "loop" \in Places /\ sirq.vec \in Places /\ sirq.vec # "loop"
      BY <1>1 DEF Places
    <3>3. /\ Lists' \in AllLists
          /\ Lists'["loop"] = Lists[sirq.vec] /\ Lists'[sirq.vec] = <<>>
          /\ \A m \in Places : m # "loop" /\ m # sirq.vec => Lists'[m] = Lists[m]
      BY <2>2, <3>1, <3>2 DEF AllLists
    <3>4. TakesList(Lists, "loop", sirq.vec, Lists')
      BY <2>1, <3>1, <3>2, <3>3 DEF TakesList
    <3> QED
      BY <3>4, TakeList, ZenonT(30)
  <2> QED
    BY <1>1, <2>3 DEF IInv, Types, TaskletTypes, Placed
<1>6. Raised'
  BY <1>1 DEF IInv, Types, TaskletTypes, LoopTypes, Raised, TaskletVecs
<1> QED
  BY <1>3, <1>4, <1>5, <1>6 DEF IInv

(* An iteration of tasklet_action(): the tasklet runs, or goes back on its *)
(* list.                                                                   *)
LEMMA TaskletNextStep ==
  ASSUME IInv, TaskletNext
  PROVE  IInv'
<1> USE SoftirqAssumption
<1> DEFINE x == Head(sirq.list)
           taken == [Lists EXCEPT !["loop"] = Tail(@)]
<1>1. /\ sirq.vec \in {"HI", "TASKLET"} /\ sirq.at = "list" /\ sirq.on
      /\ sirq \in LoopTypes
      /\ UNCHANGED <<bh, ksoftirqd>>
  BY DEF TaskletNext, IInv, Types, TaskletTypes, Loop, TaskletVecs
<1>2. ASSUME sirq.list = <<>>, sirq' = Handled, UNCHANGED <<pending, tasklet>>
      PROVE  IInv'
  <2>1. /\ sirq' \in LoopTypes /\ sirq'.on /\ sirq'.list = <<>>
        /\ sirq'.vec = None /\ sirq'.at = None /\ sirq'.todo = sirq.todo
    BY <1>1, <1>2, ZenonT(30) DEF Handled, LoopTypes
  <2>2. Types' /\ Loop' /\ Bits' /\ Awake'
    BY <1>1, <1>2, <2>1 DEF IInv, Types, TaskletTypes, Loop, Bits, Awake
  <2>3. Placed'
    BY <1>2, <2>1, SamePlaces
  <2>4. Raised'
    BY <1>1, <1>2, <2>1 DEF IInv, Raised
  <2> QED
    BY <2>2, <2>3, <2>4 DEF IInv
<1>3. ASSUME sirq.list # <<>>
      PROVE  /\ x \in Tasklets /\ Tail(sirq.list) \in Seq(Tasklets)
             /\ x \in tasklet.sched \ (tasklet.kill \cup Range(tasklet.set))
             /\ taken \in AllLists
             /\ NoneTwice(taken)
             /\ Entries(taken) = Entries(Lists) \ {x}
  <2>1. Lists["loop"] # <<>> /\ Lists["loop"] = sirq.list
    BY <1>3, ListsType
  <2>2. sirq.list \in Seq(Tasklets)
    BY <1>1 DEF LoopTypes
  <2>3. "loop" \in Places /\ NoneTwice(Lists)
    BY DEF IInv, Placed, Places
  <2>4. Lists \in AllLists
    BY ListsType
  <2>6. Tail(sirq.list) \in Seq(Tasklets)
    BY <1>3, <2>2
  <2>8. /\ taken \in AllLists /\ taken["loop"] = Tail(Lists["loop"])
        /\ \A m \in Places : m # "loop" => taken[m] = Lists[m]
    BY <2>1, <2>3, <2>4, <2>6 DEF AllLists
  <2>9. x = Head(Lists["loop"])
    BY <2>1
  <2> HIDE DEF taken, x
  <2>5. /\ x \in Tasklets /\ NoneTwice(taken)
        /\ Entries(taken) = Entries(Lists) \ {x} /\ x \in Entries(Lists)
    <3>1. TakesHead(Lists, "loop", taken)
      BY <2>1, <2>3, <2>4, <2>8 DEF TakesHead
    <3> QED
      BY <2>9, <3>1, TakeHead, ZenonT(30)
  <2>7. x \in tasklet.sched \ (tasklet.kill \cup Range(tasklet.set))
    BY <2>5 DEF IInv, Placed
  <2> QED
    BY <2>5, <2>6, <2>7, <2>8
<1>4. ASSUME sirq.list # <<>>, sirq' = [sirq EXCEPT !.at = "func", !.list = Tail(@)],
             tasklet' = [tasklet EXCEPT !.sched = @ \ {x}], pending' = pending
      PROVE  IInv'
  <2>1. /\ sirq' \in LoopTypes /\ sirq'.on /\ sirq'.list = Tail(sirq.list)
        /\ sirq'.vec = sirq.vec /\ sirq'.at = "func" /\ sirq'.todo = sirq.todo
    BY <1>1, <1>3, <1>4, ZenonT(30) DEF LoopTypes
  <2>2. Types' /\ Loop' /\ Awake'
    BY <1>1, <1>4, <2>1 DEF IInv, Types, TaskletTypes, Loop, Awake, TaskletVecs
  <2>3. /\ tasklet'.vec = tasklet.vec /\ tasklet'.sched = tasklet.sched \ {x}
        /\ tasklet'.kill = tasklet.kill /\ tasklet'.set = tasklet.set
    BY <1>4 DEF IInv, Types, TaskletTypes
  <2>4. Bits'
    <3>1. \A c \in {"task", "func"} : tasklet.set[c] \in Range(tasklet.set)
      BY DEF Range, IInv, Types, TaskletTypes
    <3> QED
      BY <1>3, <1>4, <2>3, <3>1 DEF IInv, Bits
  <2>5. Placed'
    <3>1. Lists' = [Lists EXCEPT !["loop"] = Tail(@)]
      BY <2>1, <2>3, ZenonT(30) DEF Lists
    <3> QED
      BY <1>3, <1>4, <2>3, <3>1, ZenonT(30) DEF IInv, Placed
  <2>6. Raised'
    BY <1>1, <1>4, <2>1, <2>3 DEF IInv, Raised
  <2> QED
    BY <2>2, <2>4, <2>5, <2>6 DEF IInv
<1>5. ASSUME sirq.list # <<>>, sirq' = [sirq EXCEPT !.list = Tail(@)],
             tasklet' = [tasklet EXCEPT !.vec[sirq.vec] = Append(@, x)],
             pending' = pending \cup {sirq.vec}
      PROVE  IInv'
  <2>1. /\ sirq' \in LoopTypes /\ sirq'.on /\ sirq'.list = Tail(sirq.list)
        /\ sirq'.vec = sirq.vec /\ sirq'.at = "list" /\ sirq'.todo = sirq.todo
    BY <1>1, <1>3, <1>5, ZenonT(30) DEF LoopTypes
  <2>2. /\ tasklet'.vec = [tasklet.vec EXCEPT ![sirq.vec] = Append(@, x)]
        /\ tasklet'.sched = tasklet.sched
        /\ tasklet'.kill = tasklet.kill /\ tasklet'.set = tasklet.set
        /\ TaskletTypes(tasklet')
    <3>1. TaskletTypes(tasklet)
      BY DEF IInv, Types, TaskletTypes
    <3>2. [tasklet.vec EXCEPT ![sirq.vec] = Append(@, x)] \in [TaskletVecs -> Seq(Tasklets)]
      BY <1>1, <1>3, <1>5, <3>1, SMTT(30) DEF TaskletTypes, TaskletVecs
    <3> HIDE DEF x
    <3> QED
      BY <1>5, <3>1, <3>2, ZenonT(30) DEF TaskletTypes
  <2>3. Types' /\ Loop' /\ Bits' /\ Awake'
    BY <1>1, <1>5, <2>1, <2>2, ZenonT(30) DEF IInv, Types, TaskletTypes, Loop, Bits, Awake,
        Vectors, TaskletVecs
  <2>4. Placed'
    <3> DEFINE put == [taken EXCEPT ![sirq.vec] = Append(@, x)]
    <3>1. Lists' = put
      BY <1>1, <2>1, <2>2, ZenonT(30) DEF Lists, TaskletVecs, IInv, Types, TaskletTypes
    <3>2. /\ taken \in AllLists /\ NoneTwice(taken)
          /\ Entries(taken) = Entries(Lists) \ {x} /\ x \in Tasklets
          /\ sirq.vec \in Places
      BY <1>1, <1>3, <1>5, ZenonT(30) DEF Places
    <3> HIDE DEF taken, x
    <3>3. NoneTwice(put) /\ Entries(put) = Entries(taken) \cup {x}
      <4>1. x \notin Entries(taken)
        BY <3>2
      <4>2. /\ put \in AllLists /\ put[sirq.vec] = Append(taken[sirq.vec], x)
            /\ \A m \in Places : m # sirq.vec => put[m] = taken[m]
        BY <3>2 DEF AllLists
      <4> HIDE DEF put
      <4>3. AddsTail(taken, sirq.vec, x, put)
        BY <3>2, <4>1, <4>2 DEF AddsTail
      <4> QED
        BY <4>3, AddTail, ZenonT(30)
    <3> HIDE DEF put
    <3> QED
      BY <1>3, <1>5, <2>2, <3>1, <3>2, <3>3 DEF IInv, Placed
  <2>5. Raised'
    BY <1>1, <1>5, <2>1, <2>2 DEF IInv, Raised, Types, TaskletTypes, TaskletVecs
  <2> QED
    BY <2>3, <2>4, <2>5 DEF IInv
<1> QED
  BY <1>2, <1>4, <1>5 DEF TaskletNext

(* The handler of TIMER_SOFTIRQ: it touches no tasklet. *)
LEMMA TimerHandler ==
  ASSUME IInv, UNCHANGED <<pending, bh, ksoftirqd, tasklet>>,
         sirq.vec # None, sirq.at \notin {"list", "func"}, sirq.at = "start" => sirq.vec = "TIMER",
         \/ sirq' = sirq \/ sirq' = Handled
         \/ \E a \in {"collect", "fn", "irqsafe"} : sirq' = [sirq EXCEPT !.at = a]
  PROVE  IInv'
<1> USE SoftirqAssumption
<1>1. /\ sirq' \in LoopTypes /\ sirq'.on = sirq.on /\ sirq'.list = sirq.list
      /\ sirq'.todo = sirq.todo
      /\ sirq' = sirq \/ (sirq'.vec = None /\ sirq'.at = None)
         \/ (sirq'.vec = sirq.vec /\ sirq'.at \in {"collect", "fn", "irqsafe"})
  <2>1. sirq \in LoopTypes
    BY DEF IInv, Types, TaskletTypes
  <2>2. CASE sirq' = sirq
    BY <2>1, <2>2
  <2>3. CASE sirq' = Handled
    BY <2>1, <2>3, ZenonT(30) DEF LoopTypes, Handled
  <2>4. ASSUME NEW a \in {"collect", "fn", "irqsafe"}, sirq' = [sirq EXCEPT !.at = a]
        PROVE  /\ sirq' \in LoopTypes /\ sirq'.on = sirq.on /\ sirq'.list = sirq.list
               /\ sirq'.todo = sirq.todo /\ sirq'.vec = sirq.vec
               /\ sirq'.at \in {"collect", "fn", "irqsafe"}
    BY <2>1, <2>4 DEF LoopTypes
  <2> QED
    BY <2>2, <2>3, <2>4
<1>2. Types' /\ Bits' /\ Awake'
  BY <1>1 DEF IInv, Types, TaskletTypes, Bits, Awake, ksoftirqd_running
<1>5. Loop'
  BY <1>1, TimerAssumption DEF IInv, Loop
<1>3. Placed'
  BY <1>1, SamePlaces
<1>4. Raised'
  BY <1>1 DEF IInv, Raised, TaskletVecs
<1> QED
  BY <1>2, <1>3, <1>4, <1>5 DEF IInv

(* A hardirq that leaves p pending. *)
LEMMA IrqStep ==
  ASSUME IInv, UNCHANGED <<bh, ksoftirqd, tasklet>>,
         NEW p \in SUBSET Vectors, pending \subseteq p, IrqExit(p)
  PROVE  IInv'
<1>1. /\ pending' \subseteq Vectors /\ sirq' \in LoopTypes /\ Loop'
      /\ sirq'.list = sirq.list
      /\ pending' # {} => sirq'.on \/ bh = "off" \/ ksoftirqd_running
      /\ p \cup sirq.todo \subseteq pending' \cup sirq'.todo
      /\ sirq.at = "start" => sirq'.at = "start" /\ sirq'.vec = sirq.vec
  BY IrqExits
<1>2. Types' /\ Bits'
  BY <1>1 DEF IInv, Types, TaskletTypes, Bits
<1>3. Awake'
  BY <1>1 DEF Awake, ksoftirqd_running
<1>4. Placed'
  BY <1>1, SamePlaces
<1>5. Raised'
  BY <1>1 DEF IInv, Raised
<1> QED
  BY <1>1, <1>2, <1>3, <1>4, <1>5 DEF IInv

(* The initial states satisfy the invariant. *)
LEMMA InitIInv == Init => IInv /\ use \in Uses
<1> SUFFICES ASSUME Init PROVE IInv /\ use \in Uses
  OBVIOUS
<1> USE SoftirqAssumption
<1>1. /\ sirq = NoLoop /\ pending = {} /\ bh = "on"
      /\ ksoftirqd = [state |-> "INTERRUPTIBLE", at |-> "top"]
      /\ tasklet = [vec |-> [v \in TaskletVecs |-> <<>>], sched |-> {},
                    set |-> [c \in {"task", "func"} |-> None], disabled |-> {}, kill |-> {}]
      /\ use \in Uses
  BY SMTT(30) DEF Init, SoftirqInit
<1>2. Types /\ Loop /\ Bits /\ Awake /\ Raised
  BY <1>1 DEF Types, TaskletTypes, LoopTypes, Loop, Bits, Awake, Raised, NoLoop
<1>3. \A l \in DOMAIN Lists : Lists[l] = <<>>
  BY <1>1 DEF Lists, NoLoop
<1>4. Placed
  BY <1>1, <1>3 DEF Placed, NoneTwice, Entries, Range
<1> QED
  BY <1>1, <1>2, <1>4 DEF IInv

(* Every step keeps the invariant. *)
LEMMA NextIInv == IInv /\ use \in Uses /\ [Next]_vars => IInv' /\ (use \in Uses)'
<1> SUFFICES ASSUME IInv, use \in Uses, [Next]_vars
             PROVE  IInv' /\ use' = use
  OBVIOUS
<1> USE SoftirqAssumption
<1>1. use' = use
  BY SMTT(30) DEF Next, vars, Elsewhere, TimerStep, RunTimerSoftirq, RunTimers, ModTimerLocked, FnDone, Tick,
     TimerIrq, ModTimer, DelTimer
<1>2. ASSUME UNCHANGED softirqvars PROVE IInv'
  BY <1>2, ZenonT(30)
     DEF softirqvars, IInv, Types, TaskletTypes, Loop, Bits, Awake, Placed, Raised, Lists, ksoftirqd_running
<1>3. CASE SoftirqStep
  BY <1>1, <1>3, DispatchStep, RestartStep, SoftirqEndStep, TaskletActionStep, TaskletNextStep,
     TaskletScheduleStep, TaskletDoneStep, ZenonT(30) DEF SoftirqStep
<1>4. CASE KsoftirqdStep
  BY <1>1, <1>4, KsoftirqdTopStep, KsoftirqdCheckStep, KsoftirqdScheduleStep, RunKsoftirqdStep,
     ZenonT(30) DEF KsoftirqdStep
<1>5. CASE Tasks
  <2>1. use.tasklets \subseteq Tasklets
    BY TimerAssumption
  <2>2. CASE TaskStep
    BY <1>1, <2>2, BhEnableStep, BhEnabledStep, TaskletScheduleStep, TaskletKilledStep,
       ZenonT(30) DEF TaskStep
  <2>3. ASSUME NEW t \in use.tasklets,
               \/ TaskletSet("task", t) \/ TaskletSet("func", t) \/ TaskletScheduleIrq(t)
               \/ TaskletDisable(t) \/ TaskletKill(t)
        PROVE  IInv'
    <3>1. t \in Tasklets
      BY <2>1
    <3> QED
      BY <2>3, <3>1, TaskletSetStep, TaskletScheduleIrqStep, TaskletDisableStep, TaskletKillStep
  <2> QED
    BY <1>1, <1>5, <2>2, <2>3, BhDisableStep, SwitchToStep, SwitchBackStep, ZenonT(30) DEF Tasks
<1>6. CASE RunTimerSoftirq
  BY <1>6, TimerHandler DEF RunTimerSoftirq
<1>7. CASE RunTimers
  <2>1. /\ sirq.at \notin {"list", "func"} /\ sirq.at # "start" /\ sirq.vec # None
        /\ UNCHANGED <<pending, bh, ksoftirqd, tasklet>>
        /\ \/ sirq' = sirq \/ sirq' = Handled
           \/ \E a \in {"collect", "fn", "irqsafe"} : sirq' = [sirq EXCEPT !.at = a]
    <3>1. sirq.at = "collect" /\ sirq.vec # None
      BY <1>7, TimerAssumption DEF RunTimers, IInv, Loop
    <3>2. UNCHANGED <<pending, bh, ksoftirqd, tasklet>>
      BY <1>7 DEF RunTimers
    <3>3. \/ sirq' = sirq \/ sirq' = Handled \/ Expire(Head(base.heads))
      BY <1>7 DEF RunTimers
    <3>4. ASSUME NEW t, Expire(t)
          PROVE  \E a \in {"collect", "fn", "irqsafe"} : sirq' = [sirq EXCEPT !.at = a]
      <4>1. CASE t \in IrqSafe
        BY <3>4, <4>1 DEF Expire
      <4>2. CASE t \notin IrqSafe
        BY <3>4, <4>2 DEF Expire
      <4> QED
        BY <4>1, <4>2
    <3> QED
      BY <3>1, <3>2, <3>3, <3>4
  <2> QED
    BY <1>1, <2>1, TimerHandler, ZenonT(30)
<1>8. CASE FnDone
  <2>1. /\ sirq.at \notin {"list", "func"} /\ sirq.at # "start" /\ sirq.vec # None
        /\ UNCHANGED <<pending, bh, ksoftirqd, tasklet>>
        /\ \E a \in {"collect", "fn", "irqsafe"} : sirq' = [sirq EXCEPT !.at = a]
    <3>1. sirq.at \in {"fn", "irqsafe"} /\ sirq.at # None
      BY <1>8, TimerAssumption DEF FnDone
    <3>2. UNCHANGED <<pending, bh, ksoftirqd, tasklet>> /\ sirq' = [sirq EXCEPT !.at = "collect"]
      BY <1>8 DEF FnDone
    <3> QED
      BY <3>1, <3>2 DEF IInv, Loop
  <2> QED
    BY <1>1, <2>1, TimerHandler, ZenonT(30)
<1>9. CASE Tick
  <2>1. /\ UNCHANGED <<bh, ksoftirqd, tasklet>>
        /\ \E p \in {pending, pending \cup {"TIMER"}} : IrqExit(p)
    BY <1>9 DEF Tick, run_local_timers
  <2>2. pending \in SUBSET Vectors /\ pending \cup {"TIMER"} \in SUBSET Vectors
    BY DEF IInv, Types, TaskletTypes, Vectors
  <2> QED
    BY <1>1, <2>1, <2>2, IrqStep, ZenonT(30)
<1>10. CASE TimerIrq
  <2>1. UNCHANGED <<bh, ksoftirqd, tasklet>> /\ IrqExit(pending) /\ pending \in SUBSET Vectors
    BY <1>10, SMTT(30) DEF TimerIrq, IInv, Types, TaskletTypes
  <2> QED
    BY <1>1, <2>1, IrqStep, ZenonT(30)
<1>11. ASSUME \/ \E c \in {"task", "softirq"} : ModTimerLocked(c)
              \/ \E c, m : ModTimer(c, m)
              \/ \E c, t : DelTimer(c, t)
              \/ UNCHANGED vars
       PROVE  IInv'
  BY <1>2, <1>11 DEF ModTimerLocked, ModTimer, DelTimer, vars
<1> QED
  BY <1>1, <1>3, <1>4, <1>5, <1>6, <1>7, <1>8, <1>9, <1>10, <1>11 DEF Next, TimerStep

(* Nothing that raise_softirq() or tasklet_schedule() raised is forgotten, *)
(* whatever interrupts, timers and tasklets do: a pending vector has       *)
(* somebody who will look, a scheduled tasklet is on exactly one list, and *)
(* that list's vector is pending or its action is about to take the list.  *)
THEOREM SoftirqsAreServed == Spec => []SoftirqServed
<1>1. IInv => SoftirqServed
  BY DEF IInv, Awake, Placed, Raised, SoftirqServed
<1> QED
  BY <1>1, InitIInv, NextIInv, PTL DEF Spec
=============================================================================
