----------------------------- MODULE MutexProofs -----------------------------
(***************************************************************************)
(* Proofs about Mutex, for every finite set of tasks and of locks and      *)
(* every choice of the tasks that lock with an acquire context: the        *)
(* inductive invariant, that every step keeps it, and what follows.        *)
(***************************************************************************)
EXTENDS Mutex, TLAPS, FiniteSetTheorems

(* list_del() of the entry at one place of a list: the entries that are    *)
(* behind it move up by one.                                               *)
LEMMA ListDelAtProperties ==
  ASSUME NEW S, NEW s \in Seq(S), NEW i \in 1 .. Len(s)
  PROVE  /\ ListDelAt(s, i) \in Seq(S)
         /\ Len(ListDelAt(s, i)) = Len(s) - 1
         /\ \A j \in 1 .. Len(s) - 1 :
              ListDelAt(s, i)[j] = IF j < i THEN s[j] ELSE s[j + 1]
<1>1. Len(s) \in Nat /\ Len(s) - 1 \in Nat
  OBVIOUS
<1>2. \A j \in 1 .. Len(s) - 1 : s[IF j < i THEN j ELSE j + 1] \in S
  BY <1>1
<1>3. ListDelAt(s, i) \in [1 .. Len(s) - 1 -> S]
  BY <1>2 DEF ListDelAt
<1>4. ListDelAt(s, i) \in Seq(S) /\ Len(ListDelAt(s, i)) = Len(s) - 1
  BY <1>1, <1>3
<1> QED
  BY <1>1, <1>4 DEF ListDelAt

(* __list_add() in front of entry i yields a list again. *)
LEMMA ListAddAtType ==
  ASSUME NEW S, NEW s \in Seq(S), NEW i \in DOMAIN s, NEW x \in S
  PROVE  ListAddAt(s, i, x) \in Seq(S)
<1>1. Len(s) \in Nat /\ i \in 1 .. Len(s) /\ Len(s) + 1 \in Nat
  OBVIOUS
<1>2. \A j \in 1 .. Len(s) + 1 : (j < i => s[j] \in S) /\ (j > i => s[j - 1] \in S)
  BY <1>1
<1>3. ListAddAt(s, i, x) \in [1 .. Len(s) + 1 -> S]
  BY <1>1, <1>2 DEF ListAddAt
<1> QED
  BY <1>1, <1>3

(* list_add_tail() of an entry that is not on the list. *)
LEMMA AppendDistinct ==
  ASSUME NEW S, NEW s \in Seq(S), NEW x \in S, IsInjective(s), ~Contains(s, x)
  PROVE  /\ Append(s, x) \in Seq(S)
         /\ IsInjective(Append(s, x))
         /\ \A y : Contains(Append(s, x), y) <=> y = x \/ Contains(s, y)
<1>1. /\ Append(s, x) \in Seq(S)
      /\ Len(Append(s, x)) = Len(s) + 1
      /\ \A i \in 1 .. Len(s) : Append(s, x)[i] = s[i]
      /\ Append(s, x)[Len(s) + 1] = x
      /\ Len(s) \in Nat
      /\ DOMAIN s = 1 .. Len(s)
      /\ DOMAIN Append(s, x) = 1 .. Len(s) + 1
  OBVIOUS
<1> DEFINE a == Append(s, x)
<1> HIDE DEF a
<1>2. IsInjective(a)
  BY <1>1 DEF a, IsInjective, Contains
<1>3. \A y : Contains(a, y) <=> y = x \/ Contains(s, y)
  BY <1>1 DEF a, Contains
<1> QED
  BY <1>1, <1>2, <1>3 DEF a

(* list_del() of one entry of a list on which no entry is twice. *)
LEMMA ListDelAtDistinct ==
  ASSUME NEW S, NEW s \in Seq(S), NEW i \in 1 .. Len(s), IsInjective(s)
  PROVE  /\ ListDelAt(s, i) \in Seq(S)
         /\ IsInjective(ListDelAt(s, i))
         /\ \A y : Contains(ListDelAt(s, i), y) <=> y # s[i] /\ Contains(s, y)
<1> DEFINE r == ListDelAt(s, i)
<1>1. /\ r \in Seq(S)
      /\ Len(r) = Len(s) - 1
      /\ \A j \in 1 .. Len(s) - 1 : r[j] = IF j < i THEN s[j] ELSE s[j + 1]
  BY ListDelAtProperties
<1>2. /\ Len(s) \in Nat
      /\ DOMAIN s = 1 .. Len(s)
      /\ DOMAIN r = 1 .. Len(s) - 1
  BY <1>1
<1> HIDE DEF r
<1>3. IsInjective(r)
  <2>1. \A a, b \in 1 .. Len(s) : s[a] = s[b] => a = b
    BY <1>2 DEF IsInjective
  <2> SUFFICES ASSUME NEW j \in 1 .. Len(s) - 1, NEW k \in 1 .. Len(s) - 1, r[j] = r[k]
               PROVE  j = k
    BY <1>2 DEF IsInjective
  <2> DEFINE from(n) == IF n < i THEN n ELSE n + 1
  <2>2. /\ from(j) \in 1 .. Len(s) /\ r[j] = s[from(j)]
        /\ from(k) \in 1 .. Len(s) /\ r[k] = s[from(k)]
    BY <1>1, <1>2
  <2>3. from(j) = from(k)
    <3> HIDE DEF from
    <3> QED
      BY <2>1, <2>2, ZenonT(30)
  <2> QED
    BY <2>3, <1>2
<1>4. ASSUME NEW y, Contains(r, y)
      PROVE  y # s[i] /\ Contains(s, y)
  <2>1. PICK j \in 1 .. Len(s) - 1 : r[j] = y
    BY <1>4, <1>1 DEF Contains
  <2>2. PICK k \in 1 .. Len(s) : k # i /\ s[k] = y
    BY <2>1, <1>1, <1>2
  <2> QED
    BY <2>2, <1>2 DEF IsInjective, Contains
<1>5. ASSUME NEW y, y # s[i], Contains(s, y)
      PROVE  Contains(r, y)
  <2>1. PICK j \in 1 .. Len(s) : s[j] = y
    BY <1>5 DEF Contains
  <2>2. CASE j < i
    <3>1. j \in 1 .. Len(s) - 1 /\ r[j] = y
      BY <2>1, <2>2, <1>1, <1>2
    <3> QED
      BY <3>1, <1>1 DEF Contains
  <2>3. CASE j > i
    <3>1. j - 1 \in 1 .. Len(s) - 1 /\ ~(j - 1 < i) /\ (j - 1) + 1 = j
      BY <2>1, <2>3, <1>2
    <3>2. r[j - 1] = y
      BY <2>1, <3>1, <1>1
    <3> QED
      BY <3>1, <3>2, <1>1 DEF Contains
  <2> QED
    BY <2>1, <2>2, <2>3, <1>5, <1>2
<1> QED
  BY <1>1, <1>3, <1>4, <1>5 DEF r

(* Every non-empty set of natural numbers has a least element. *)
LEMMA MinExists ==
  ASSUME NEW I, I \subseteq Nat, I # {}
  PROVE  /\ Min(I) \in I
         /\ \A j \in I : Min(I) <= j
<1> DEFINE R == OpToRel(<, Nat)
<1>1. IsWellFoundedOn(R, Nat)
  BY NatLessThanWellFounded, ZenonT(30)
<1>2. \A j, k \in Nat : j < k => <<j, k>> \in R
  BY DEF OpToRel
<1> HIDE DEF R
<1>3. PICK k \in I : \A j \in I : ~ (<<j, k>> \in R)
  BY <1>1, WFMin, ZenonT(30)
<1>4. ASSUME NEW j \in I PROVE k <= j
  <2>1. j \in Nat /\ k \in Nat
    OBVIOUS
  <2>2. ~ (j < k)
    BY <1>2, <1>3, <2>1, ZenonT(30)
  <2> QED
    BY <2>1, <2>2
<1> QED
  BY <1>4, ZenonT(30) DEF Min

(* list_del() of an entry that is known by its address: the others stay.   *)
LEMMA ListDelProperties ==
  ASSUME NEW S, NEW s \in Seq(S), NEW x
  PROVE  /\ ListDel(s, x) \in Seq(S)
         /\ \A y : Contains(ListDel(s, x), y) => Contains(s, y)
         /\ \A y : y # x /\ Contains(s, y) => Contains(ListDel(s, x), y)
<1>1. CASE ~Contains(s, x)
  BY <1>1 DEF ListDel
<1>2. CASE Contains(s, x)
  <2> DEFINE i == CHOOSE k \in 1 .. Len(s) : s[k] = x
             r == ListDelAt(s, i)
  <2>1. ListDel(s, x) = r
    BY <1>2 DEF ListDel
  <2>2. i \in 1 .. Len(s) /\ s[i] = x
    BY <1>2 DEF Contains
  <2> HIDE DEF i
  <2>3. /\ r \in Seq(S)
        /\ Len(r) = Len(s) - 1
        /\ \A j \in 1 .. Len(s) - 1 : r[j] = IF j < i THEN s[j] ELSE s[j + 1]
        /\ Len(s) \in Nat
    BY <2>2, ListDelAtProperties
  <2> HIDE DEF r
  <2>4. ASSUME NEW y, Contains(r, y)
        PROVE  Contains(s, y)
    BY <2>2, <2>3, <2>4 DEF Contains
  <2>5. ASSUME NEW y, y # x, Contains(s, y)
        PROVE  Contains(r, y)
    <3>1. PICK j \in 1 .. Len(s) : s[j] = y
      BY <2>5 DEF Contains
    <3>2. CASE j < i
      <4>1. j \in 1 .. Len(s) - 1 /\ r[j] = y
        BY <3>1, <3>2, <2>2, <2>3
      <4> QED
        BY <4>1, <2>3 DEF Contains
    <3>3. CASE j > i
      <4>1. j - 1 \in 1 .. Len(s) - 1 /\ ~(j - 1 < i) /\ (j - 1) + 1 = j
        BY <3>1, <3>3, <2>2, <2>3
      <4>2. r[j - 1] = y
        BY <3>1, <4>1, <2>3
      <4> QED
        BY <4>1, <4>2, <2>3 DEF Contains
    <3> QED
      BY <3>1, <3>2, <3>3, <2>2, <2>3, <2>5
  <2> QED
    BY <2>1, <2>3, <2>4, <2>5
<1> QED
  BY <1>1, <1>2

(* The backend of every step that does not name one. A step that needs     *)
(* arithmetic or many functions at once names two, tried in turn.          *)
USE ZenonT(30)

(* A new stamp for a context that exists: no context comes or goes.        *)
LEMMA NewStampKeepsContexts ==
  ASSUME NEW s \in Seq(Tasks), NEW t \in Tasks, t \in Range(s)
  PROVE  /\ Append(ListDel(s, t), t) \in Seq(Tasks)
         /\ Range(Append(ListDel(s, t), t)) = Range(s)
<1> DEFINE r == ListDel(s, t)
           a == Append(r, t)
<1>1. /\ r \in Seq(Tasks)
      /\ \A y : Contains(r, y) => Contains(s, y)
      /\ \A y : y # t /\ Contains(s, y) => Contains(r, y)
  BY ListDelProperties
<1> HIDE DEF r
<1>2. /\ a \in Seq(Tasks)
      /\ Len(a) = Len(r) + 1
      /\ \A i \in 1 .. Len(r) : a[i] = r[i]
      /\ a[Len(r) + 1] = t
      /\ Len(r) \in Nat
  BY <1>1, SMTT(30), Z3T(30)
<1> HIDE DEF a
<1>3. \A y : Contains(a, y) <=> y = t \/ Contains(r, y)
  BY <1>2, SMTT(30), Z3T(30) DEF Contains
<1>4. \A y : /\ Contains(a, y) <=> y \in Range(a)
             /\ Contains(s, y) <=> y \in Range(s)
  BY <1>2, SMTT(30), Z3T(30) DEF Contains, Range
<1>5. Range(a) = Range(s)
  BY <1>1, <1>3, <1>4
<1> QED
  BY <1>2, <1>5 DEF a, r

(* A task in a lock or unlock call has a lock that the call is about. *)
CallHasLock == \A t \in Tasks : pc[t] # "idle" => lk[t] \in Locks

Types == TypeOK /\ CallHasLock

(* Where a task has the lock that its call is about. *)
Holding == {"fctx", "fcheck", "fwake", "acq", "ufast", "uslow"}

(* What makes MutualExclusion inductive: a task that has the lock by its   *)
(* call does not also have it in held, so that one release is the end of   *)
(* it; an unlocking task that saw MUTEX_FLAG_HANDOFF still owns the lock;  *)
(* and a lock is handed to somebody.  The context of a lock belongs to the *)
(* task that has it.                                                       *)
Exclusive ==
  /\ \A t \in Tasks, l \in Locks : HasLock(t, l) => owner[l] = t /\ "PICKUP" \notin flags[l]
  /\ \A t \in Tasks : pc[t] \in Holding \/ handoff[t] => lk[t] \notin held[t]
  /\ \A t \in Tasks : handoff[t] =>
       pc[t] = "uwake" /\ owner[lk[t]] = t /\ "PICKUP" \notin flags[lk[t]]
  /\ \A l \in Locks : "PICKUP" \in flags[l] => owner[l] # None
  /\ \A l \in Locks : ctx[l] # None =>
       l \in held[ctx[l]] \/ (lk[ctx[l]] = l /\ pc[ctx[l]] \in {"fcheck", "fwake"})

CtxLocks(t) == {l \in Locks : ctx[l] = t}
Counted == \A t \in Tasks : acquired[t] = Cardinality(CtxLocks(t))

IInv == Types /\ Exclusive /\ Counted

(* The invariant holds at the start, with every lock free and nobody in a  *)
(* call.                                                                   *)
LEMMA InitIInv == Init => IInv
(* The contexts that exist at the start are those of one of the WwSets.    *)
<1>AgesAreASet.
  ASSUME NEW S \in WwSets, NEW a \in Bijection(1 .. Cardinality(S), S)
  PROVE  a \in Seq(Tasks) /\ Range(a) = S
  <2> USE <1>AgesAreASet
  <2>1. S \subseteq Tasks /\ Cardinality(S) \in Nat
    BY MutexAssumption, FS_Subset, FS_CardinalityType
  <2>2. /\ a \in [1 .. Cardinality(S) -> S]
        /\ \A x \in S : \E i \in 1 .. Cardinality(S) : a[i] = x
    BY DEF Bijection, Injection, Surjection
  <2> QED
    BY <2>1, <2>2, SMTT(30), Z3T(30) DEF Range
<1> SUFFICES ASSUME Init PROVE IInv
  OBVIOUS
<1>1. ages \in Seq(Tasks) /\ WwTasks \in WwSets
  BY <1>AgesAreASet DEF Init, WwTasks
<1>2. \A l \in Locks : wait_list[l] \in Seq(Tasks)
  BY SMTT(30), Z3T(30) DEF Init
<1>3. Types
  BY <1>1, <1>2 DEF Init, Types, TypeOK, CallHasLock, Flags, Locs
<1>4. Exclusive
  BY DEF Init, Exclusive, HasLock, Holding
<1>5. \A t \in Tasks : CtxLocks(t) = {}
  BY MutexAssumption DEF Init, CtxLocks
<1>6. Counted
  BY <1>5, FS_EmptySet DEF Init, Counted
<1> QED
  BY <1>3, <1>4, <1>6 DEF IInv

(* The constants' types, and that a step that keeps the stamps keeps the   *)
(* set of contexts.                                                        *)
LEMMA ConstTypes ==
  /\ \A S \in WwSets : S \subseteq Tasks
  /\ Modes \subseteq {"INTERRUPTIBLE", "UNINTERRUPTIBLE"}
  /\ WwModes \subseteq {"INTERRUPTIBLE", "UNINTERRUPTIBLE"}
  /\ None \notin Tasks
BY MutexAssumption

(* Without a new stamp, no context comes or goes.                          *)
LEMMA SameContexts ==
  ASSUME ages' = ages
  PROVE  WwTasks' = WwTasks
BY DEF WwTasks

-----------------------------------------------------------------------------
(* A task that may take the lock is the only one that can have it soon:    *)
(* nobody has it, and it has no context.                                   *)
LEMMA TakenFromNobody ==
  ASSUME IInv, NEW t \in Tasks, NEW l \in Locks, CanTake(t, l)
  PROVE  ctx[l] = None
BY ConstTypes, SMTT(30), Z3T(30) DEF IInv, Types, TypeOK, Exclusive, HasLock, CanTake

(* Nor has a lock a context before its new owner has set it. *)
LEMMA NoContextYet ==
  ASSUME IInv, NEW t \in Tasks, pc[t] \in {"fctx", "acq"}
  PROVE  lk[t] \in Locks /\ ctx[lk[t]] = None
<1> DEFINE l == lk[t]
<1>1. l \in Locks
  BY DEF IInv, Types, CallHasLock
<1>2. HasLock(t, l) /\ l \notin held[t]
  BY DEF IInv, Exclusive, HasLock, Holding
<1>3. ASSUME ctx[l] # None
      PROVE  FALSE
  <2>1. PICK w \in Tasks : w = ctx[l]
    BY <1>1, <1>3, ConstTypes, SMTT(30), Z3T(30) DEF IInv, Types, TypeOK
  <2>2. l \in held[w] \/ (lk[w] = l /\ pc[w] \in {"fcheck", "fwake"})
    BY <1>1, <1>3, <2>1 DEF IInv, Exclusive
  <2>3. HasLock(w, l)
    BY <2>2 DEF HasLock
  <2>4. w = t
    BY <1>1, <1>2, <2>3, SMTT(30), Z3T(30) DEF IInv, Exclusive
  <2> QED
    BY <1>2, <2>2, <2>4
<1> QED
  BY <1>1, <1>3

(* What Exclusive speaks about, and its types.                             *)
LEMMA ExclusiveTypes ==
  ASSUME IInv
  PROVE  /\ pc \in [Tasks -> Locs] /\ lk \in [Tasks -> Locks \cup {None}]
         /\ owner \in [Locks -> Tasks \cup {None}] /\ flags \in [Locks -> SUBSET Flags]
         /\ handoff \in [Tasks -> BOOLEAN] /\ held \in [Tasks -> SUBSET Locks]
         /\ ctx \in [Locks -> WwTasks \cup {None}] /\ WwTasks \subseteq Tasks
         /\ \A t \in Tasks : pc[t] # "idle" => lk[t] \in Locks
         /\ Exclusive
BY ConstTypes DEF IInv, Types, TypeOK, CallHasLock

(* Every step of the lock and unlock paths keeps it: one step per action   *)
(* for Types and Exclusive, and CountedStep for Counted.                   *)
LEMMA StepIInv == IInv /\ [Next]_vars => IInv'
(* ww_mutex_lock_acquired() counts a lock that had no context before. *)
<1>SetContextCounts.
  ASSUME Types, Counted, NEW t \in Tasks, NEW l \in Locks, ctx[l] = None, SetContext(t, l)
  PROVE  Counted'
  <2> USE <1>SetContextCounts
  <2>1. \A u \in Tasks : IsFiniteSet(CtxLocks(u))
    BY MutexAssumption, FS_Subset DEF CtxLocks
  <2>2. CASE t \notin WwTasks
    BY <2>2 DEF SetContext, Counted, CtxLocks
  <2>3. CASE t \in WwTasks
    <3>1. /\ ctx' = [ctx EXCEPT ![l] = t]
          /\ acquired' = [acquired EXCEPT ![t] = @ + 1]
          /\ ctx \in [Locks -> WwTasks \cup {None}] /\ acquired \in [Tasks -> Nat]
      BY <2>3 DEF SetContext, Types, TypeOK
    <3>2. CtxLocks(t)' = CtxLocks(t) \cup {l} /\ l \notin CtxLocks(t)
      BY <3>1, MutexAssumption, SMTT(30), Z3T(30) DEF CtxLocks
    <3>3. Cardinality(CtxLocks(t)') = Cardinality(CtxLocks(t)) + 1
      BY <2>1, <3>2, FS_AddElement
    <3>4. \A u \in Tasks : u # t => CtxLocks(u)' = CtxLocks(u)
      BY <3>1, MutexAssumption DEF CtxLocks
    <3> QED
      BY <3>1, <3>3, <3>4 DEF Counted
  <2> QED
    BY <2>2, <2>3
(* ww_mutex_unlock() uncounts it. *)
<1>UnlockCounts.
  ASSUME Types, Counted, NEW t \in Tasks, NEW l \in Locks, Unlock(t, l)
  PROVE  Counted'
  <2> USE <1>UnlockCounts
  <2>1. \A u \in Tasks : IsFiniteSet(CtxLocks(u)) /\ Cardinality(CtxLocks(u)) \in Nat
    BY MutexAssumption, FS_Subset, FS_CardinalityType DEF CtxLocks
  <2>2. CASE ctx[l] = None
    <3>1. ctx' = ctx /\ acquired' = acquired
      BY <2>2 DEF Unlock, Types, TypeOK
    <3> QED
      BY <3>1 DEF Counted, CtxLocks
  <2>3. CASE ctx[l] # None
    <3>1. PICK w \in Tasks : w = ctx[l] /\ w # None
      BY <2>3, MutexAssumption, SMTT(30), Z3T(30) DEF Types, TypeOK
    <3>2. /\ ctx' = [ctx EXCEPT ![l] = None]
          /\ acquired' = [acquired EXCEPT ![w] = IF @ > 0 THEN @ - 1 ELSE @]
          /\ ctx \in [Locks -> WwTasks \cup {None}] /\ acquired \in [Tasks -> Nat]
      BY <3>1 DEF Unlock, Types, TypeOK
    <3>3. CtxLocks(w)' = CtxLocks(w) \ {l} /\ l \in CtxLocks(w)
      BY <3>1, <3>2 DEF CtxLocks
    <3>4. /\ Cardinality(CtxLocks(w)') = Cardinality(CtxLocks(w)) - 1
          /\ Cardinality(CtxLocks(w)) > 0
      BY <2>1, <3>3, FS_RemoveElement, FS_EmptySet, SMTT(30), Z3T(30)
    <3>5. \A u \in Tasks : u # w => CtxLocks(u)' = CtxLocks(u)
      BY <3>1, <3>2, MutexAssumption DEF CtxLocks
    <3> QED
      BY <3>2, <3>4, <3>5 DEF Counted
  <2> QED
    BY <2>2, <2>3
(* The list that a task joins is again a list of tasks. *)
<1>AddWaiterType.
  ASSUME NEW q \in Seq(Tasks), NEW t \in Tasks
  PROVE  AddWaiter(t, q) \in Seq(Tasks)
  <2> USE <1>AddWaiterType
  <2>1. Append(q, t) \in Seq(Tasks)
    BY SMTT(30), Z3T(30)
  <2>2. ASSUME NEW i \in DOMAIN q
        PROVE  ListAddAt(q, i, t) \in Seq(Tasks)
    BY ListAddAtType
  <2> DEFINE I == Passed(t, q)
             i == CHOOSE k \in I : \A j \in I : k <= j
  <2>3. CASE I # {}
    <3>1. I \subseteq DOMAIN q
      BY DEF Passed, Younger
    <3>2. I \subseteq Nat
      BY <3>1, SMTT(30), Z3T(30)
    <3>3. \E k \in I : \A j \in I : k <= j
      BY <2>3, <3>2, MinExists
    <3>4. i \in DOMAIN q
      BY <3>1, <3>3
    <3> HIDE DEF i, I
    <3>5. ListAddAt(q, i, t) \in Seq(Tasks)
      BY <3>4, <2>2
    <3> QED
      BY <2>1, <3>5 DEF AddWaiter, i, I
  <2> QED
    BY <2>1, <2>3 DEF AddWaiter
<1>LockKeeps.
  ASSUME IInv, NEW t \in Tasks, NEW l \in Locks, Lock(t, l)
  PROVE  Types' /\ Exclusive'
  <2> USE <1>LockKeeps
  <2> USE ConstTypes
  <2>1. CASE owner[l] = None /\ flags[l] = {} /\ t \in WwTasks
    <3>1. /\ pc[t] = "idle"
          /\ owner' = [owner EXCEPT ![l] = t]
          /\ Goto(t, "fctx") /\ lk' = [lk EXCEPT ![t] = l]
          /\ UNCHANGED <<flags, wait_list, wait_lock, ww, first, sleep, handoff, wake_q, caller>>
      BY <2>1 DEF Lock, ww, sleep, caller
    <3>2. Types'
      BY <2>1, <3>1, SameContexts, SMTT(30), Z3T(30) DEF IInv, Types, TypeOK, CallHasLock, Flags, Locs, ww, sleep,
          caller, Goto
    <3>3. Exclusive'
      BY <2>1, <3>1, ExclusiveTypes, SMTT(30), Z3T(30)
      DEF Exclusive, HasLock, Holding, ww, sleep,
          caller, Goto
    <3> QED
      BY <3>2, <3>3
  <2>2. CASE owner[l] = None /\ flags[l] = {} /\ t \notin WwTasks
    <3>1. /\ pc[t] = "idle"
          /\ owner' = [owner EXCEPT ![l] = t]
          /\ held' = [held EXCEPT ![t] = {l}]
          /\ held[t] = {}
          /\ UNCHANGED <<flags, wait_list, wait_lock, ww, pc, lk, first, sleep, handoff, wake_q, backoff>>
      BY <2>2 DEF Lock, ww, sleep
    <3>2. Types'
      BY <2>2, <3>1, SameContexts, SMTT(30), Z3T(30)
      DEF IInv, Types, TypeOK, CallHasLock, Flags, Locs, ww, sleep
    <3>3. Exclusive'
      BY <2>2, <3>1, ExclusiveTypes, SMTT(30), Z3T(30)
      DEF Exclusive, HasLock, Holding, ww, sleep
    <3> QED
      BY <3>2, <3>3
  <2>3. CASE ~(owner[l] = None /\ flags[l] = {})
    <3>1. /\ pc[t] = "idle"
          /\ Goto(t, "slow") /\ lk' = [lk EXCEPT ![t] = l]
          /\ \E m \in Modes \cup WwModes : mode' = [mode EXCEPT ![t] = m]
          /\ UNCHANGED <<word, wait_list, wait_lock, ww, first, state, sig, handoff, wake_q, caller>>
      BY <2>3 DEF Lock, word, ww, caller
    <3>2. Types'
      BY <2>3, <3>1, SameContexts, SMTT(30), Z3T(30)
      DEF IInv, Types, TypeOK, CallHasLock, Flags, Locs, word, ww,
          caller, Goto
    <3>3. Exclusive'
      BY <2>3, <3>1, ExclusiveTypes, SMTT(30), Z3T(30)
      DEF Exclusive, HasLock, Holding, word, ww,
          caller, Goto
    <3> QED
      BY <3>2, <3>3
  <2> QED
    BY <2>1, <2>2, <2>3
<1>TryLockKeeps.
  ASSUME IInv, NEW t \in Tasks, NEW l \in Locks, TryLock(t, l)
  PROVE  Types' /\ Exclusive'
  <2> USE <1>TryLockKeeps
  <2> USE ConstTypes
  <2>1. Types'
    BY SameContexts, ZenonT(60)
    DEF IInv, Types, TypeOK, CallHasLock, Flags, Locs, TryLock, ww, sleep, Got, Take
  <2>2. Exclusive'
    BY ExclusiveTypes, SMTT(30), Z3T(30)
    DEF Exclusive, HasLock, Holding, TryLock, ww, sleep, Got,
        Take, CanTake
  <2> QED
    BY <2>1, <2>2
<1>FastSetContextKeeps.
  ASSUME IInv, NEW t \in Tasks, FastSetContext(t)
  PROVE  Types' /\ Exclusive'
  <2> USE <1>FastSetContextKeeps
  <2> USE ConstTypes
  <2>1. Types'
    BY SameContexts, SMTT(30), Z3T(30)
    DEF IInv, Types, TypeOK, CallHasLock, Flags, Locs, FastSetContext, word, sleep,
        caller, Goto, SetContext
  <2>2. Exclusive'
    BY ExclusiveTypes, SMTT(30), Z3T(30) DEF Exclusive, HasLock, Holding, FastSetContext, word,
        sleep, caller, Goto, SetContext
  <2> QED
    BY <2>1, <2>2
<1>FastCheckWaitersKeeps.
  ASSUME IInv, NEW t \in Tasks, FastCheckWaiters(t)
  PROVE  Types' /\ Exclusive'
  <2> USE <1>FastCheckWaitersKeeps
  <2> USE ConstTypes
  <2>1. CASE "WAITERS" \in flags[lk[t]]
    <3>1. /\ pc[t] = "fcheck"
          /\ Goto(t, "fwake")
          /\ UNCHANGED <<word, wait_list, wait_lock, ww, lk, first, sleep, handoff, wake_q, caller>>
      BY <2>1 DEF FastCheckWaiters, word, ww, sleep, caller
    <3>2. Types'
      BY <3>1, SameContexts DEF IInv, Types, TypeOK, CallHasLock, Flags, Locs, word, ww, sleep,
          caller, Goto
    <3>3. Exclusive'
      BY <3>1, ExclusiveTypes, SMTT(30), Z3T(30)
      DEF Exclusive, HasLock, Holding, word, ww, sleep,
          caller, Goto
    <3> QED
      BY <3>2, <3>3
  <2>2. CASE "WAITERS" \notin flags[lk[t]]
    <3>1. /\ pc[t] = "fcheck"
          /\ Return(t)
          /\ Got(t, lk[t])
          /\ UNCHANGED <<word, wait_list, wait_lock, ww, state, handoff, wake_q>>
      BY <2>2 DEF FastCheckWaiters, word, ww, caller
    <3>2. Types'
      BY <3>1, SameContexts, SMTT(30), Z3T(30)
      DEF IInv, Types, TypeOK, CallHasLock, Flags, Locs, word, ww, Return,
          Got, Goto
    <3>3. Exclusive'
      BY <3>1, ExclusiveTypes, SMTT(30), Z3T(30)
      DEF Exclusive, HasLock, Holding, word, ww, Return,
          Got, Goto
    <3> QED
      BY <3>2, <3>3
  <2> QED
    BY <2>1, <2>2, ZenonT(60)
<1>FastWakeKeeps.
  ASSUME IInv, NEW t \in Tasks, FastWake(t)
  PROVE  Types' /\ Exclusive'
  <2> USE <1>FastWakeKeeps
  <2> USE ConstTypes
  <2>1. Types'
    BY SameContexts, SMTT(30), Z3T(30)
    DEF IInv, Types, TypeOK, CallHasLock, Flags, Locs, FastWake, word, ww, Woken,
        Return, Got, EnterAndLeave, Goto
  <2>2. Exclusive'
    BY ExclusiveTypes, SMTT(30), Z3T(30) DEF Exclusive, HasLock, Holding, FastWake, word, ww,
        Woken, Return, Got, EnterAndLeave, Goto
  <2> QED
    BY <2>1, <2>2
<1>SlowTryKeeps.
  ASSUME IInv, NEW t \in Tasks, SlowTry(t)
  PROVE  Types' /\ Exclusive'
  <2> USE <1>SlowTryKeeps
  <2> USE ConstTypes
  <2>1. CASE t \in WwTasks /\ ctx[lk[t]] = t
    <3>1. /\ pc[t] = "slow"
          /\ Return(t)
          /\ UNCHANGED <<word, wait_list, wait_lock, ww, state, handoff, wake_q, caller>>
      BY <2>1 DEF SlowTry, word, ww, caller
    <3>2. Types'
      BY <2>1, <3>1, SameContexts DEF IInv, Types, TypeOK, CallHasLock, Flags, Locs, word, ww,
          caller, Return, Goto
    <3>3. Exclusive'
      BY <2>1, <3>1, ExclusiveTypes, SMTT(30), Z3T(30)
      DEF Exclusive, HasLock, Holding, word, ww,
          caller, Return, Goto
    <3> QED
      BY <3>2, <3>3
  <2>2. CASE ~(t \in WwTasks /\ ctx[lk[t]] = t) /\ CanTake(t, lk[t]) /\ t \in WwTasks
    <3>1. /\ pc[t] = "slow"
          /\ CanTake(t, lk[t]) /\ Take(t, lk[t])
          /\ Goto(t, "fctx")
          /\ UNCHANGED <<wait_list, wait_lock, ww, lk, first, sleep, handoff, wake_q, caller>>
      BY <2>2 DEF SlowTry, word, ww, sleep, caller
    <3>2. Types'
      BY <2>2, <3>1, SameContexts, ZenonT(60)
      DEF IInv, Types, TypeOK, CallHasLock, Flags, Locs, ww, sleep,
          caller, Goto, Take
    <3>3. Exclusive'
      BY <2>2, <3>1, ExclusiveTypes, SMTT(30), Z3T(30)
      DEF Exclusive, HasLock, Holding, ww, sleep,
          caller, Goto, Take, CanTake
    <3> QED
      BY <3>2, <3>3
  <2>3. CASE ~(t \in WwTasks /\ ctx[lk[t]] = t) /\ CanTake(t, lk[t]) /\ t \notin WwTasks
    <3>1. /\ pc[t] = "slow"
          /\ CanTake(t, lk[t]) /\ Take(t, lk[t])
          /\ Return(t)
          /\ Got(t, lk[t])
          /\ UNCHANGED <<wait_list, wait_lock, ww, state, handoff, wake_q>>
      BY <2>3 DEF SlowTry, word, ww, caller
    <3>2. Types'
      BY <2>3, <3>1, SameContexts, SMTT(30), Z3T(30)
      DEF IInv, Types, TypeOK, CallHasLock, Flags, Locs, ww, Return,
          Got, Take, Goto
    <3>3. Exclusive'
      BY <2>3, <3>1, ExclusiveTypes, SMTT(30), Z3T(30)
      DEF Exclusive, HasLock, Holding, ww, Return,
          Got, Take, Goto, CanTake
    <3> QED
      BY <3>2, <3>3
  <2>4. CASE ~(t \in WwTasks /\ ctx[lk[t]] = t) /\ ~CanTake(t, lk[t])
    <3>1. /\ pc[t] = "slow"
          /\ Goto(t, "queue")
          /\ UNCHANGED <<word, wait_list, wait_lock, ww, lk, first, sleep, handoff, wake_q, caller>>
      BY <2>4 DEF SlowTry, word, ww, sleep, caller
    <3>2. Types'
      BY <2>4, <3>1, SameContexts DEF IInv, Types, TypeOK, CallHasLock, Flags, Locs, word, ww,
          sleep, caller, Goto
    <3>3. Exclusive'
      BY <2>4, <3>1, ExclusiveTypes, SMTT(30), Z3T(30)
      DEF Exclusive, HasLock, Holding, word, ww,
          sleep, caller, Goto, CanTake
    <3> QED
      BY <3>2, <3>3
  <2> QED
    BY <2>1, <2>2, <2>3, <2>4
<1>QueueKeeps.
  ASSUME IInv, NEW t \in Tasks, Queue(t)
  PROVE  Types' /\ Exclusive'
  <2> USE <1>QueueKeeps
  <2> USE ConstTypes
  <2>1. CASE CanTake(t, lk[t])
    <3>1. /\ pc[t] = "queue"
          /\ CanTake(t, lk[t]) /\ Take(t, lk[t])
          /\ EnterAndLeave(t, lk[t])
          /\ \E S : Woken(S)
          /\ SetContext(t, lk[t])
          /\ Return(t)
          /\ Got(t, lk[t])
          /\ UNCHANGED <<wait_list, handoff, wake_q>>
      BY <2>1 DEF Queue, word, ww, caller
    <3>2. Types'
      BY <3>1, SameContexts, SMTT(30), Z3T(30)
      DEF IInv, Types, TypeOK, CallHasLock, Flags, Locs, Woken, Return, Got,
          Take, EnterAndLeave, SetContext, Goto
    <3>3. Exclusive'
      BY <3>1, ExclusiveTypes, SMTT(30), Z3T(30) DEF Exclusive, HasLock, Holding, Woken, Return,
          Got, Take, EnterAndLeave, SetContext, Goto, CanTake
    <3> QED
      BY <3>2, <3>3
  <2>2. CASE ~CanTake(t, lk[t]) /\ t \in WwTasks /\ acquired[t] > 0 /\ Older(t, wait_list[lk[t]]) # {}
    <3>1. /\ pc[t] = "queue"
          /\ EnterAndLeave(t, lk[t])
          /\ \E S : Woken(S)
          /\ Return(t)
          /\ Refuse(t)
          /\ UNCHANGED <<word, ww, wait_list, handoff, wake_q>>
      BY <2>2, ZenonT(60) DEF Queue, word, ww, caller
    <3>2. Types'
      BY <3>1, SameContexts, ZenonT(60)
      DEF IInv, Types, TypeOK, CallHasLock, Flags, Locs, word, ww, Woken,
          Return, Refuse, EnterAndLeave, Goto
    <3>3. Exclusive'
      BY <3>1, ExclusiveTypes, SMTT(30), Z3T(30)
      DEF Exclusive, HasLock, Holding, word, ww, Woken,
          Return, Refuse, EnterAndLeave, Goto, CanTake
    <3> QED
      BY <3>2, <3>3
  <2>3. CASE ~CanTake(t, lk[t]) /\ ~(t \in WwTasks /\ acquired[t] > 0 /\ Older(t, wait_list[lk[t]]) # {})
    <3>1. /\ pc[t] = "queue"
          /\ Enter(t, lk[t])
          /\ \E S : Woken(S)
          /\ wait_list' = [wait_list EXCEPT ![lk[t]] = AddWaiter(t, wait_list[lk[t]])]
          /\ Goto(t, "flag")
          /\ UNCHANGED <<word, ww, lk, first, mode, sig, handoff, wake_q, caller>>
      BY <2>3 DEF Queue, word, ww, caller
    <3>2. AddWaiter(t, wait_list[lk[t]]) \in Seq(Tasks) /\ lk[t] \in Locks
      BY <3>1, <1>AddWaiterType DEF IInv, Types, TypeOK, CallHasLock
    <3>3. Types'
      BY <3>1, <3>2, SameContexts, ZenonT(60)
      DEF IInv, Types, TypeOK, CallHasLock, Flags, Locs, word, ww,
          caller, Goto, Woken, Enter
    <3>4. Exclusive'
      BY <3>1, ExclusiveTypes, SMTT(30), Z3T(30)
      DEF Exclusive, HasLock, Holding, word, ww, caller,
          Goto, Woken, Enter, CanTake
    <3> QED
      BY <3>3, <3>4
  <2> QED
    BY <2>1, <2>2, <2>3, ZenonT(60)
<1>SetWaitersKeeps.
  ASSUME IInv, NEW t \in Tasks, SetWaiters(t)
  PROVE  Types' /\ Exclusive'
  <2> USE <1>SetWaitersKeeps
  <2> USE ConstTypes
  <2>1. CASE IsFirst(t, lk[t])
    <3>1. /\ pc[t] = "flag"
          /\ SetFlag(lk[t], "WAITERS")
          /\ SetState(t, mode[t])
          /\ Goto(t, "top")
          /\ UNCHANGED <<wait_list, wait_lock, ww, lk, first, mode, sig, handoff, wake_q, caller>>
      BY <2>1 DEF SetWaiters, word, ww, caller
    <3>2. Types'
      BY <3>1, SameContexts, ZenonT(60)
      DEF IInv, Types, TypeOK, CallHasLock, Flags, Locs, ww, caller, Goto,
          SetState, SetFlag
    <3>3. Exclusive'
      BY <3>1, ExclusiveTypes, SMTT(30), Z3T(30)
      DEF Exclusive, HasLock, Holding, ww, caller, Goto,
          SetState, SetFlag
    <3> QED
      BY <3>2, <3>3
  <2>2. CASE ~IsFirst(t, lk[t])
    <3>1. /\ pc[t] = "flag"
          /\ SetState(t, mode[t])
          /\ Goto(t, "top")
          /\ UNCHANGED <<word, wait_list, wait_lock, ww, lk, first, mode, sig, handoff, wake_q, caller>>
      BY <2>2 DEF SetWaiters, word, ww, caller
    <3>2. Types'
      BY <3>1, SameContexts DEF IInv, Types, TypeOK, CallHasLock, Flags, Locs, word, ww, caller,
          Goto, SetState
    <3>3. Exclusive'
      BY <3>1, ExclusiveTypes, SMTT(30), Z3T(30)
      DEF Exclusive, HasLock, Holding, word, ww, caller,
          Goto, SetState
    <3> QED
      BY <3>2, <3>3
  <2> QED
    BY <2>1, <2>2
<1>LoopTopKeeps.
  ASSUME IInv, NEW t \in Tasks, LoopTop(t)
  PROVE  Types' /\ Exclusive'
  <2> USE <1>LoopTopKeeps
  <2> USE ConstTypes
  <2>1. CASE LoopTakes(t, lk[t])
    <3>1. /\ pc[t] = "top"
          /\ CanTake(t, lk[t]) /\ Take(t, lk[t])
          /\ Enter(t, lk[t])
          /\ Goto(t, "acq")
          /\ UNCHANGED <<wait_list, ww, lk, first, sleep, handoff, wake_q, caller>>
      BY <2>1 DEF LoopTop, LoopTakes, word, ww, sleep, caller
    <3>2. Types'
      BY <3>1, SameContexts, ZenonT(60)
      DEF IInv, Types, TypeOK, CallHasLock, Flags, Locs, ww, sleep, caller,
          Goto, Take, Enter
    <3>3. Exclusive'
      BY <3>1, ExclusiveTypes, SMTT(30), Z3T(30)
      DEF Exclusive, HasLock, Holding, ww, sleep, caller,
          Goto, Take, Enter, CanTake
    <3> QED
      BY <3>2, <3>3
  <2>2. CASE ~LoopTakes(t, lk[t]) /\ (Interrupted(t) \/ MustDie(t, lk[t]))
    <3>1. /\ pc[t] = "top"
          /\ EnterAndLeave(t, lk[t])
          /\ wait_list' = [wait_list EXCEPT ![lk[t]] = ListDel(@, t)]
          /\ SetState(t, "RUNNING")
          /\ Return(t)
          /\ UNCHANGED caller \/ Refuse(t)
          /\ UNCHANGED <<word, ww, handoff, wake_q>>
      BY <2>2 DEF LoopTop, LoopTakes, word, ww, sleep, caller
    <3>2. /\ wait_list' \in [Locks -> Seq(Tasks)]
          /\ backoff' \in [Tasks -> BOOLEAN] /\ held' = held
      <4>1. ListDel(wait_list[lk[t]], t) \in Seq(Tasks) /\ lk[t] \in Locks
        BY <3>1, ListDelProperties, SMTT(30), Z3T(30) DEF IInv, Types, TypeOK, CallHasLock
      <4>2. wait_list' = [wait_list EXCEPT ![lk[t]] = ListDel(wait_list[lk[t]], t)]
        BY <3>1
      <4>3. wait_list' \in [Locks -> Seq(Tasks)]
        BY <4>1, <4>2 DEF IInv, Types, TypeOK
      <4>4. backoff' \in [Tasks -> BOOLEAN] /\ held' = held
        BY <3>1, ZenonT(60) DEF IInv, Types, TypeOK, Refuse, caller
      <4> QED
        BY <4>3, <4>4
    <3>3. Types'
      BY <3>1, <3>2, SameContexts, ZenonT(60)
      DEF IInv, Types, TypeOK, CallHasLock, Flags, Locs, word, ww,
          caller, SetState, Return, Refuse, EnterAndLeave, Goto
    <3>4. Exclusive'
      BY <3>1, ExclusiveTypes, SMTT(30), Z3T(30)
      DEF Exclusive, HasLock, Holding, word, ww, caller,
          SetState, Return, Refuse, EnterAndLeave, Goto
    <3> QED
      BY <3>3, <3>4
  <2>3. CASE ~LoopTakes(t, lk[t]) /\ ~(Interrupted(t) \/ MustDie(t, lk[t]))
    <3>1. /\ pc[t] = "top"
          /\ EnterAndLeave(t, lk[t])
          /\ Goto(t, "sched")
          /\ UNCHANGED <<word, wait_list, ww, lk, first, sleep, handoff, wake_q, caller>>
      BY <2>3, ZenonT(60) DEF LoopTop, LoopTakes, word, ww, sleep, caller
    <3>2. Types'
      BY <3>1, SameContexts, ZenonT(60)
      DEF IInv, Types, TypeOK, CallHasLock, Flags, Locs, word, ww, sleep,
          caller, Goto, EnterAndLeave
    <3>3. Exclusive'
      BY <3>1, ExclusiveTypes, SMTT(30), Z3T(30)
      DEF Exclusive, HasLock, Holding, word, ww, sleep,
          caller, Goto, EnterAndLeave
    <3> QED
      BY <3>2, <3>3
  <2> QED
    BY <2>1, <2>2, <2>3, ZenonT(60)
<1>CheckFirstKeeps.
  ASSUME IInv, NEW t \in Tasks, CheckFirst(t)
  PROVE  Types' /\ Exclusive'
  <2> USE <1>CheckFirstKeeps
  <2> USE ConstTypes
  <2>1. Types'
    BY SameContexts, ZenonT(60)
    DEF IInv, Types, TypeOK, CallHasLock, Flags, Locs, CheckFirst, word, ww,
        caller, Goto, SetState
  <2>2. Exclusive'
    BY ExclusiveTypes, SMTT(30), Z3T(30)
    DEF Exclusive, HasLock, Holding, CheckFirst, word, ww,
        caller, Goto, SetState
  <2> QED
    BY <2>1, <2>2
<1>AskHandoffKeeps.
  ASSUME IInv, NEW t \in Tasks, AskHandoff(t)
  PROVE  Types' /\ Exclusive'
  <2> USE <1>AskHandoffKeeps
  <2> USE ConstTypes
  <2>1. Types'
    BY SameContexts, ZenonT(60)
    DEF IInv, Types, TypeOK, CallHasLock, Flags, Locs, AskHandoff, ww, caller,
        Goto, SetState, SetFlag
  <2>2. Exclusive'
    BY ExclusiveTypes, SMTT(30), Z3T(30)
    DEF Exclusive, HasLock, Holding, AskHandoff, ww, caller,
        Goto, SetState, SetFlag
  <2> QED
    BY <2>1, <2>2
<1>WaiterTryKeeps.
  ASSUME IInv, NEW t \in Tasks, WaiterTry(t)
  PROVE  Types' /\ Exclusive'
  <2> USE <1>WaiterTryKeeps
  <2> USE ConstTypes
  <2>1. CASE CanTake(t, lk[t])
    <3>1. /\ pc[t] = "try"
          /\ CanTake(t, lk[t]) /\ Take(t, lk[t])
          /\ Goto(t, "acq")
          /\ UNCHANGED <<wait_list, wait_lock, ww, lk, first, sleep, handoff, wake_q, caller>>
      BY <2>1 DEF WaiterTry, word, ww, sleep, caller
    <3>2. Types'
      BY <3>1, SameContexts, ZenonT(60)
      DEF IInv, Types, TypeOK, CallHasLock, Flags, Locs, ww, sleep, caller,
          Goto, Take
    <3>3. Exclusive'
      BY <3>1, ExclusiveTypes, SMTT(30), Z3T(30)
      DEF Exclusive, HasLock, Holding, ww, sleep, caller,
          Goto, Take, CanTake
    <3> QED
      BY <3>2, <3>3
  <2>2. CASE ~CanTake(t, lk[t])
    <3>1. /\ pc[t] = "try"
          /\ Goto(t, "top")
          /\ UNCHANGED <<word, wait_list, wait_lock, ww, lk, first, sleep, handoff, wake_q, caller>>
      BY <2>2 DEF WaiterTry, word, ww, sleep, caller
    <3>2. Types'
      BY <3>1, SameContexts, ZenonT(60)
      DEF IInv, Types, TypeOK, CallHasLock, Flags, Locs, word, ww, sleep,
          caller, Goto
    <3>3. Exclusive'
      BY <3>1, ExclusiveTypes, SMTT(30), Z3T(30)
      DEF Exclusive, HasLock, Holding, word, ww, sleep,
          caller, Goto, CanTake
    <3> QED
      BY <3>2, <3>3
  <2> QED
    BY <2>1, <2>2
<1>AcquiredKeeps.
  ASSUME IInv, NEW t \in Tasks, Acquired(t)
  PROVE  Types' /\ Exclusive'
  <2> USE <1>AcquiredKeeps
  <2> USE ConstTypes
  <2>1. lk[t] \in Locks /\ ListDel(wait_list[lk[t]], t) \in Seq(Tasks)
    BY ListDelProperties, ZenonT(60) DEF IInv, Types, TypeOK, CallHasLock, Acquired
  <2>2. Types'
    BY <2>1, SameContexts, SMTT(30), Z3T(30)
    DEF IInv, Types, TypeOK, CallHasLock, Flags, Locs, Acquired, SetState,
        Return, Got, EnterAndLeave, SetContext, Goto
  <2>3. Exclusive'
    BY ExclusiveTypes, SMTT(30), Z3T(30)
    DEF Exclusive, HasLock, Holding, Acquired, SetState,
        Return, Got, EnterAndLeave, SetContext, Goto
  <2> QED
    BY <2>2, <2>3
<1>UnlockKeeps.
  ASSUME IInv, NEW t \in Tasks, NEW l \in Locks, Unlock(t, l)
  PROVE  Types' /\ Exclusive'
  <2> USE <1>UnlockKeeps
  <2> USE ConstTypes
  <2>1. Types'
    BY SameContexts, SMTT(30), Z3T(30)
    DEF IInv, Types, TypeOK, CallHasLock, Flags, Locs, Unlock, word, sleep, Goto
  <2>2. Exclusive'
    BY ExclusiveTypes, SMTT(30), Z3T(30)
    DEF Exclusive, HasLock, Holding, Unlock, word, sleep,
        Goto
  <2> QED
    BY <2>1, <2>2
<1>UnlockFastKeeps.
  ASSUME IInv, NEW t \in Tasks, UnlockFast(t)
  PROVE  Types' /\ Exclusive'
  <2> USE <1>UnlockFastKeeps
  <2> USE ConstTypes
  <2>1. CASE owner[lk[t]] = t /\ flags[lk[t]] = {}
    <3>1. /\ pc[t] = "ufast"
          /\ owner[lk[t]] = t
          /\ owner' = [owner EXCEPT ![lk[t]] = None]
          /\ Unlocked(t)
          /\ UNCHANGED <<flags, wait_list, wait_lock, ww, first, sleep, handoff, wake_q, caller>>
      BY <2>1 DEF UnlockFast, ww, sleep, caller
    <3>2. Types'
      BY <3>1, SameContexts DEF IInv, Types, TypeOK, CallHasLock, Flags, Locs, ww, sleep, caller,
          Unlocked, Goto
    <3>3. Exclusive'
      BY <2>1, <3>1, ExclusiveTypes, SMTT(30), Z3T(30)
      DEF Exclusive, HasLock, Holding, ww, sleep,
          caller, Unlocked, Goto
    <3> QED
      BY <3>2, <3>3
  <2>2. CASE ~(owner[lk[t]] = t /\ flags[lk[t]] = {})
    <3>1. /\ pc[t] = "ufast"
          /\ Goto(t, "uslow")
          /\ UNCHANGED <<word, wait_list, wait_lock, ww, lk, first, sleep, handoff, wake_q, caller>>
      BY <2>2 DEF UnlockFast, word, ww, sleep, caller
    <3>2. Types'
      BY <3>1, SameContexts DEF IInv, Types, TypeOK, CallHasLock, Flags, Locs, word, ww, sleep,
          caller, Goto
    <3>3. Exclusive'
      BY <2>2, <3>1, ExclusiveTypes, SMTT(30), Z3T(30)
      DEF Exclusive, HasLock, Holding, word, ww,
          sleep, caller, Goto
    <3> QED
      BY <3>2, <3>3
  <2> QED
    BY <2>1, <2>2
<1>UnlockSlowKeeps.
  ASSUME IInv, NEW t \in Tasks, UnlockSlow(t)
  PROVE  Types' /\ Exclusive'
  <2> USE <1>UnlockSlowKeeps
  <2> USE ConstTypes
  <2>1. CASE HandoffWanted(lk[t])
    <3>1. /\ pc[t] = "uslow"
          /\ handoff' = [handoff EXCEPT ![t] = TRUE]
          /\ Goto(t, "uwake")
          /\ UNCHANGED <<word, wait_list, wait_lock, ww, lk, first, sleep, wake_q, caller>>
      BY <2>1 DEF UnlockSlow, word, ww, sleep, caller
    <3>2. Types'
      BY <3>1, SameContexts DEF IInv, Types, TypeOK, CallHasLock, Flags, Locs, word, ww, sleep,
          caller, Goto
    <3>3. Exclusive'
      BY <3>1, ExclusiveTypes, SMTT(30), Z3T(30)
      DEF Exclusive, HasLock, Holding, word, ww, sleep,
          caller, Goto
    <3> QED
      BY <3>2, <3>3
  <2>2. CASE ~HandoffWanted(lk[t]) /\ "WAITERS" \in flags[lk[t]]
    <3>1. /\ pc[t] = "uslow"
          /\ owner' = [owner EXCEPT ![lk[t]] = None]
          /\ Goto(t, "uwake")
          /\ UNCHANGED <<flags, wait_list, wait_lock, ww, lk, first, sleep, handoff, wake_q, caller>>
      BY <2>2 DEF UnlockSlow, ww, sleep, caller
    <3>2. Types'
      BY <3>1, SameContexts
      DEF IInv, Types, TypeOK, CallHasLock, Flags, Locs, ww, sleep, caller, Goto
    <3>3. Exclusive'
      BY <3>1, ExclusiveTypes, SMTT(30), Z3T(30)
      DEF Exclusive, HasLock, Holding, ww, sleep, caller,
          Goto
    <3> QED
      BY <3>2, <3>3
  <2>3. CASE ~HandoffWanted(lk[t]) /\ "WAITERS" \notin flags[lk[t]]
    <3>1. /\ pc[t] = "uslow"
          /\ owner' = [owner EXCEPT ![lk[t]] = None]
          /\ Unlocked(t)
          /\ UNCHANGED <<flags, wait_list, wait_lock, ww, first, sleep, handoff, wake_q, caller>>
      BY <2>3 DEF UnlockSlow, ww, sleep, caller
    <3>2. Types'
      BY <3>1, SameContexts DEF IInv, Types, TypeOK, CallHasLock, Flags, Locs, ww, sleep, caller,
          Unlocked, Goto
    <3>3. Exclusive'
      BY <3>1, ExclusiveTypes, SMTT(30), Z3T(30)
      DEF Exclusive, HasLock, Holding, ww, sleep, caller,
          Unlocked, Goto
    <3> QED
      BY <3>2, <3>3
  <2> QED
    BY <2>1, <2>2, <2>3
<1>UnlockWaitersKeeps.
  ASSUME IInv, NEW t \in Tasks, UnlockWaiters(t)
  PROVE  Types' /\ Exclusive'
  <2> USE <1>UnlockWaitersKeeps
  <2> USE ConstTypes
  <2> DEFINE next == IF wait_list[lk[t]] = <<>> THEN None ELSE Head(wait_list[lk[t]])
  <2>1. pc[t] = "uwake" /\ lk[t] \in Locks /\ next \in Tasks \cup {None}
    BY SMTT(30), Z3T(30) DEF IInv, Types, TypeOK, CallHasLock, UnlockWaiters
  <2>2. wake_q' \in [Tasks -> SUBSET Tasks]
    <3>1. Unmarked({next} \ {None}) \subseteq Tasks
      BY <2>1 DEF Unmarked
    <3> HIDE DEF next
    <3>2. wake_q' = [wake_q EXCEPT ![t] = Unmarked({next} \ {None})]
      BY DEF UnlockWaiters, next
    <3> QED
      BY <3>1, <3>2 DEF IInv, Types, TypeOK
  <2>3. /\ EnterAndLeave(t, lk[t])
        /\ handoff' = [handoff EXCEPT ![t] = FALSE]
        /\ Goto(t, "uwakeq")
        /\ UNCHANGED <<wait_list, ww, lk, first, sleep, caller>>
    BY DEF UnlockWaiters
  <2>4. CASE handoff[t]
    <3>1. /\ owner' = [owner EXCEPT ![lk[t]] = next]
          /\ flags' = [flags EXCEPT ![lk[t]] =
               (@ \cap {"WAITERS"}) \cup (IF next = None THEN {} ELSE {"PICKUP"})]
      BY <2>4 DEF UnlockWaiters, HandsOff
    <3> HIDE DEF next
    <3>2. Types'
      BY <2>1, <2>2, <2>3, <3>1, SameContexts, ZenonT(60)
      DEF IInv, Types, TypeOK, CallHasLock, Flags, Locs,
          word, ww, sleep, caller, Goto, EnterAndLeave
    <3>3. Exclusive'
      BY <2>1, <2>3, <2>4, <3>1, ExclusiveTypes, SMTT(30), Z3T(30)
      DEF Exclusive, HasLock, Holding,
          word, ww, caller, Goto
    <3> QED
      BY <3>2, <3>3
  <2>5. CASE ~handoff[t]
    <3>1. UNCHANGED word
      BY <2>5 DEF UnlockWaiters, HandsOff
    <3>2. Types'
      BY <2>1, <2>2, <2>3, <3>1, SameContexts DEF IInv, Types, TypeOK, CallHasLock, Flags, Locs,
          word, ww, sleep, caller, Goto, EnterAndLeave
    <3>3. Exclusive'
      BY <2>1, <2>3, <2>5, <3>1, ExclusiveTypes, SMTT(30), Z3T(30)
      DEF Exclusive, HasLock, Holding,
          word, ww, caller, Goto
    <3> QED
      BY <3>2, <3>3
  <2> QED
    BY <2>4, <2>5
<1>WakeUpQKeeps.
  ASSUME IInv, NEW t \in Tasks, WakeUpQ(t)
  PROVE  Types' /\ Exclusive'
  <2> USE <1>WakeUpQKeeps
  <2> USE ConstTypes
  <2>1. Types'
    BY SameContexts DEF IInv, Types, TypeOK, CallHasLock, Flags, Locs, WakeUpQ, word, ww, caller,
        Woken, Unlocked, Goto
  <2>2. Exclusive'
    BY ExclusiveTypes, SMTT(30), Z3T(30) DEF Exclusive, HasLock, Holding, WakeUpQ, word, ww,
        caller, Woken, Unlocked, Goto
  <2> QED
    BY <2>1, <2>2
<1>AcquireInitKeeps.
  ASSUME IInv, NEW t \in Tasks, AcquireInit(t)
  PROVE  Types' /\ Exclusive'
  <2> USE <1>AcquireInitKeeps
  <2> USE ConstTypes
  <2>1. ages' \in Seq(Tasks) /\ WwTasks' = WwTasks
    BY NewStampKeepsContexts DEF IInv, Types, TypeOK, AcquireInit, WwTasks
  <2>2. Types'
    BY <2>1 DEF IInv, Types, TypeOK, CallHasLock, Flags, Locs, AcquireInit, word, sleep, caller
  <2>3. Exclusive'
    BY ExclusiveTypes, SMTT(30), Z3T(30)
    DEF Exclusive, HasLock, Holding, AcquireInit, word,
        sleep,
        caller
  <2> QED
    BY <2>2, <2>3
<1>SignalKeeps.
  ASSUME IInv, NEW t \in Tasks, Signal(t)
  PROVE  Types' /\ Exclusive'
  <2> USE <1>SignalKeeps
  <2> USE ConstTypes
  <2>1. Types'
    BY SameContexts DEF IInv, Types, TypeOK, CallHasLock, Flags, Locs, Signal, word, ww, caller,
        SetState
  <2>2. Exclusive'
    BY ExclusiveTypes, SMTT(30), Z3T(30)
    DEF Exclusive, HasLock, Holding, Signal, word, ww,
        caller,
        SetState
  <2> QED
    BY <2>1, <2>2
<1>StrayWakeupKeeps.
  ASSUME IInv, NEW t \in Tasks, StrayWakeup(t)
  PROVE  Types' /\ Exclusive'
  <2> USE <1>StrayWakeupKeeps
  <2> USE ConstTypes
  <2>1. Types'
    BY SameContexts DEF IInv, Types, TypeOK, CallHasLock, Flags, Locs, StrayWakeup, word, ww,
        caller, SetState
  <2>2. Exclusive'
    BY ExclusiveTypes, SMTT(30), Z3T(30) DEF Exclusive, HasLock, Holding, StrayWakeup, word, ww,
        caller, SetState
  <2> QED
    BY <2>1, <2>2
<1>CountedStep.
  ASSUME IInv, Next
  PROVE  Counted'
  <2> USE <1>CountedStep
  <2>1. ASSUME UNCHANGED <<ctx, acquired>>
        PROVE  Counted'
    BY <2>1 DEF IInv, Counted, CtxLocks
  <2>2. ASSUME NEW t \in Tasks, FastSetContext(t)
        PROVE  Counted'
    <3>1. lk[t] \in Locks /\ ctx[lk[t]] = None
      BY <2>2, NoContextYet DEF FastSetContext
    <3>2. SetContext(t, lk[t])
      BY <2>2 DEF FastSetContext
    <3> QED
      BY <3>1, <3>2, <1>SetContextCounts DEF IInv
  <2>3. ASSUME NEW t \in Tasks, Queue(t)
        PROVE  Counted'
    <3>1. lk[t] \in Locks
      BY <2>3 DEF Queue, IInv, Types, CallHasLock
    <3>2. CASE CanTake(t, lk[t])
      <4>1. SetContext(t, lk[t])
        BY <2>3, <3>2, ZenonT(60) DEF Queue
      <4> QED
        BY <3>1, <3>2, <4>1, TakenFromNobody, <1>SetContextCounts, ZenonT(60) DEF IInv
    <3>3. CASE ~CanTake(t, lk[t])
      BY <2>1, <2>3, <3>3, ZenonT(60) DEF Queue, ww
    <3> QED
      BY <3>2, <3>3, ZenonT(60)
  <2>4. ASSUME NEW t \in Tasks, Acquired(t)
        PROVE  Counted'
    <3>1. lk[t] \in Locks /\ ctx[lk[t]] = None
      BY <2>4, NoContextYet DEF Acquired
    <3>2. SetContext(t, lk[t])
      BY <2>4 DEF Acquired
    <3> QED
      BY <3>1, <3>2, <1>SetContextCounts DEF IInv
  <2>5. ASSUME NEW t \in Tasks, NEW l \in Locks, Unlock(t, l)
        PROVE  Counted'
    BY <2>5, <1>UnlockCounts DEF IInv
  <2>6. ASSUME NEW t \in Tasks, AcquireInit(t)
        PROVE  Counted'
    <3>1. /\ ctx' = ctx
          /\ acquired' = [acquired EXCEPT ![t] = 0]
          /\ acquired \in [Tasks -> Nat]
      BY <2>6 DEF AcquireInit, IInv, Types, TypeOK
    <3>2. CtxLocks(t) = {}
      BY <2>6, ConstTypes, SMTT(30), Z3T(30) DEF AcquireInit, IInv, Exclusive, CtxLocks
    <3>3. \A u \in Tasks : CtxLocks(u)' = CtxLocks(u)
      BY <3>1 DEF CtxLocks
    <3> QED
      BY <3>1, <3>2, <3>3, FS_EmptySet DEF IInv, Counted
  <2>7. ASSUME NEW t \in Tasks, NEW l \in Locks, Lock(t, l) \/ TryLock(t, l)
        PROVE  Counted'
    BY <2>1, <2>7 DEF Lock, TryLock, ww
  <2>8. ASSUME NEW t \in Tasks,
               \/ FastCheckWaiters(t) \/ FastWake(t) \/ SlowTry(t) \/ SetWaiters(t)
               \/ LoopTop(t) \/ CheckFirst(t) \/ AskHandoff(t) \/ WaiterTry(t)
               \/ UnlockFast(t) \/ UnlockSlow(t) \/ UnlockWaiters(t) \/ WakeUpQ(t)
               \/ Signal(t) \/ StrayWakeup(t)
        PROVE  Counted'
    BY <2>1, <2>8
    DEF FastCheckWaiters, FastWake, SlowTry, SetWaiters, LoopTop, CheckFirst, AskHandoff,
        WaiterTry, UnlockFast, UnlockSlow, UnlockWaiters, WakeUpQ, Signal, StrayWakeup, ww
  <2> QED
    BY <2>2, <2>3, <2>4, <2>5, <2>6, <2>7, <2>8 DEF Next
<1> SUFFICES ASSUME IInv, [Next]_vars
             PROVE  IInv'
  OBVIOUS
<1>1. ASSUME Next
      PROVE  Types' /\ Exclusive'
  <2>1. PICK t \in Tasks :
          \/ \E l \in Locks : Lock(t, l) \/ TryLock(t, l) \/ Unlock(t, l)
          \/ FastSetContext(t) \/ FastCheckWaiters(t) \/ FastWake(t)
          \/ SlowTry(t) \/ Queue(t) \/ SetWaiters(t) \/ LoopTop(t) \/ CheckFirst(t)
          \/ AskHandoff(t) \/ WaiterTry(t) \/ Acquired(t)
          \/ UnlockFast(t) \/ UnlockSlow(t) \/ UnlockWaiters(t) \/ WakeUpQ(t)
          \/ AcquireInit(t) \/ Signal(t) \/ StrayWakeup(t)
    BY <1>1 DEF Next
  <2>2. ASSUME NEW l \in Locks, Lock(t, l) \/ TryLock(t, l) \/ Unlock(t, l)
        PROVE  Types' /\ Exclusive'
    BY <2>2, <1>LockKeeps, <1>TryLockKeeps, <1>UnlockKeeps
  <2>3. CASE FastSetContext(t) \/ FastCheckWaiters(t) \/ FastWake(t)
    BY <2>3, <1>FastSetContextKeeps, <1>FastCheckWaitersKeeps, <1>FastWakeKeeps
  <2>4. CASE SlowTry(t) \/ Queue(t) \/ SetWaiters(t) \/ LoopTop(t) \/ CheckFirst(t)
    BY <2>4, <1>SlowTryKeeps, <1>QueueKeeps, <1>SetWaitersKeeps, <1>LoopTopKeeps, <1>CheckFirstKeeps
  <2>5. CASE AskHandoff(t) \/ WaiterTry(t) \/ Acquired(t)
    BY <2>5, <1>AskHandoffKeeps, <1>WaiterTryKeeps, <1>AcquiredKeeps
  <2>6. CASE UnlockFast(t) \/ UnlockSlow(t) \/ UnlockWaiters(t) \/ WakeUpQ(t)
    BY <2>6, <1>UnlockFastKeeps, <1>UnlockSlowKeeps, <1>UnlockWaitersKeeps, <1>WakeUpQKeeps
  <2>7. CASE AcquireInit(t) \/ Signal(t) \/ StrayWakeup(t)
    BY <2>7, <1>AcquireInitKeeps, <1>SignalKeeps, <1>StrayWakeupKeeps
  <2> QED
    BY <2>1, <2>2, <2>3, <2>4, <2>5, <2>6, <2>7
<1>2. CASE UNCHANGED vars
  <2>1. Types'
    BY <1>2, SameContexts, SMTT(30), Z3T(30)
    DEF vars, word, ww, sleep, caller, IInv, Types, TypeOK, CallHasLock
  <2>2. Exclusive'
    BY <1>2, SMTT(30), Z3T(30) DEF vars, word, ww, caller, IInv, Exclusive, HasLock
  <2>3. Counted'
    BY <1>2 DEF vars, ww, IInv, Counted, CtxLocks
  <2> QED
    BY <2>1, <2>2, <2>3, ZenonT(60) DEF IInv
<1> QED
  BY <1>1, <1>2, <1>CountedStep DEF IInv

(* mutex_lock(), mutex_trylock(), ww_mutex_lock() and the unlock functions *)
(* exclude each other, whatever fast path, steal or handoff a task comes   *)
(* by the lock, and ww->ctx and ww_ctx->acquired say who has which lock.   *)
THEOREM MutexExcludes == Spec => []MutualExclusion
<1>1. IInv => MutualExclusion
  <2> SUFFICES ASSUME IInv PROVE MutualExclusion
    OBVIOUS
  <2>1. \A l \in Locks : ctx[l] # None => HasLock(ctx[l], l)
    BY DEF IInv, Exclusive, HasLock
  <2> QED
    BY <2>1 DEF IInv, Types, Exclusive, Counted, CtxLocks, MutualExclusion
<1> QED
  BY <1>1, InitIInv, StepIInv, PTL DEF Spec

(* __mutex_trylock(), the unlock fast path and __mutex_unlock_slowpath()   *)
(* leave an owner word with MUTEX_FLAG_HANDOFF to __mutex_handoff(), which *)
(* gives the lock to the first waiter.                                     *)
THEOREM HandoffsAreHonoured == Spec => HandoffHonoured
<1> DEFINE Honoured(l) ==
      /\ owner[l] # None /\ "HANDOFF" \in flags[l]
      /\ owner'[l] # owner[l]
      => owner'[l] = (IF wait_list[l] = <<>> THEN None ELSE Head(wait_list[l]))
<1>1. ASSUME IInv, Next, NEW l \in Locks
      PROVE  Honoured(l)
  <2>1. ASSUME NEW t \in Tasks, NEW k \in Locks, Lock(t, k) \/ TryLock(t, k) \/ Unlock(t, k)
        PROVE  Honoured(l)
    BY <1>1, <2>1 DEF IInv, Types, TypeOK, Lock, TryLock, Unlock, CanTake, Take, word
  <2>2. ASSUME NEW t \in Tasks,
               FastSetContext(t) \/ FastCheckWaiters(t) \/ FastWake(t)
        PROVE  Honoured(l)
    BY <2>2 DEF FastSetContext, FastCheckWaiters, FastWake, word
  <2>3. ASSUME NEW t \in Tasks, SlowTry(t) \/ Queue(t) \/ LoopTop(t) \/ WaiterTry(t)
        PROVE  Honoured(l)
    <3>1. UNCHANGED owner \/ (CanTake(t, lk[t]) /\ Take(t, lk[t]))
      BY <2>3 DEF SlowTry, Queue, LoopTop, LoopTakes, WaiterTry, word
    <3> QED
      BY <1>1, <3>1 DEF IInv, Types, TypeOK, CanTake, Take
  <2>4. ASSUME NEW t \in Tasks,
               \/ SetWaiters(t) \/ CheckFirst(t) \/ AskHandoff(t) \/ Acquired(t)
               \/ WakeUpQ(t) \/ AcquireInit(t) \/ Signal(t) \/ StrayWakeup(t)
        PROVE  Honoured(l)
    BY <2>4
    DEF SetWaiters, CheckFirst, AskHandoff, Acquired, WakeUpQ, AcquireInit, Signal,
        StrayWakeup, SetFlag, word
  <2>5. ASSUME NEW t \in Tasks, UnlockFast(t) \/ UnlockSlow(t)
        PROVE  Honoured(l)
    BY <1>1, <2>5 DEF IInv, Types, TypeOK, UnlockFast, UnlockSlow, HandoffWanted
  <2>6. ASSUME NEW t \in Tasks, UnlockWaiters(t)
        PROVE  Honoured(l)
    BY <1>1, <2>6, SMTT(30), Z3T(30) DEF IInv, Types, TypeOK, UnlockWaiters, word
  <2> QED
    BY <1>1, <2>1, <2>2, <2>3, <2>4, <2>5, <2>6, ZenonT(60) DEF Next
<1>2. IInv /\ [Next]_vars => [\A l \in Locks : Honoured(l)]_vars
  BY <1>1
<1> QED
  BY <1>2, InitIInv, StepIInv, PTL DEF Spec, HandoffHonoured
-----------------------------------------------------------------------------
(* Lists.  What list_del() and __list_add() do to the order of a list.     *)
DelOK(r, q, t) ==
  /\ r \in Seq(Tasks) /\ IsInjective(r)
  /\ \A y : Contains(r, y) <=> y # t /\ Contains(q, y)
  /\ \A i, j \in 1 .. Len(r) : i < j =>
       \E k, m \in 1 .. Len(q) : k < m /\ q[k] = r[i] /\ q[m] = r[j]

(* list_del() of a waiter keeps the other waiters and their order. *)
LEMMA ListDelOrder ==
  ASSUME NEW q \in Seq(Tasks), IsInjective(q), NEW t, Contains(q, t)
  PROVE  DelOK(ListDel(q, t), q, t)
<1> DEFINE x == CHOOSE i \in 1 .. Len(q) : q[i] = t
           r == ListDelAt(q, x)
<1>1. x \in 1 .. Len(q) /\ q[x] = t /\ ListDel(q, t) = r
  BY DEF Contains, ListDel
<1> HIDE DEF x
<1>2. /\ r \in Seq(Tasks) /\ IsInjective(r)
      /\ \A y : Contains(r, y) <=> y # q[x] /\ Contains(q, y)
  BY <1>1, ListDelAtDistinct
<1>3. /\ Len(r) = Len(q) - 1 /\ Len(q) \in Nat
      /\ \A j \in 1 .. Len(q) - 1 : r[j] = IF j < x THEN q[j] ELSE q[j + 1]
  <2>1. Len(q) \in Nat
    BY SMTT(30), Z3T(30)
  <2> QED
    BY <1>1, <2>1, ListDelAtProperties
<1> HIDE DEF r
<1>4. ASSUME NEW i \in 1 .. Len(r), NEW j \in 1 .. Len(r), i < j
      PROVE  \E k, m \in 1 .. Len(q) : k < m /\ q[k] = r[i] /\ q[m] = r[j]
  <2> DEFINE k == IF i < x THEN i ELSE i + 1
             m == IF j < x THEN j ELSE j + 1
  <2>1. k \in 1 .. Len(q) /\ m \in 1 .. Len(q) /\ k < m
    BY <1>1, <1>3, <1>4, SMTT(30), Z3T(30)
  <2>2. q[k] = r[i] /\ q[m] = r[j]
    BY <1>3, <1>4
  <2> QED
    BY <2>1, <2>2, ZenonT(60)
<1>5. \A y : Contains(r, y) <=> y # t /\ Contains(q, y)
  BY <1>1, <1>2
<1>6. DelOK(r, q, t)
  BY <1>2, <1>4, <1>5 DEF DelOK
<1> QED
  BY <1>1, <1>6

(* r is q with t added at position k, the end of the list included. *)
Adds(r, q, t, k) ==
  /\ r \in Seq(Tasks) /\ Len(r) = Len(q) + 1 /\ k \in 1 .. Len(q) + 1
  /\ \A j \in 1 .. Len(q) + 1 : r[j] = IF j < k THEN q[j] ELSE IF j = k THEN t ELSE q[j - 1]

-----------------------------------------------------------------------------
(* Stamps.  __ww_ctx_stamp_after() is a total order of the contexts.       *)
LEMMA StampOrder ==
  ASSUME TypeOK, IsInjective(ages)
  PROVE  /\ \A a, b : StampAfter(a, b) => ~StampAfter(b, a) /\ a # b
         /\ \A a, b, c : StampAfter(a, b) /\ StampAfter(b, c) => StampAfter(a, c)
         /\ \A a, b \in WwTasks : a # b => StampAfter(a, b) \/ StampAfter(b, a)
         /\ \A a, b : StampAfter(a, b) => a \in WwTasks /\ b \in WwTasks
<1>0. /\ ages \in Seq(Tasks)
      /\ \A i, j \in DOMAIN ages : ages[i] = ages[j] => i = j
  BY DEF TypeOK, IsInjective
<1>1. DOMAIN ages \subseteq Nat
  BY <1>0, SMTT(30), Z3T(30)
<1>2. ASSUME NEW a, NEW b, StampAfter(a, b)
      PROVE  ~StampAfter(b, a) /\ a # b
  <2>1. PICK i \in DOMAIN ages, j \in DOMAIN ages : ages[i] = a /\ ages[j] = b /\ i > j
    BY <1>2 DEF StampAfter
  <2>2. ASSUME NEW m \in DOMAIN ages, NEW n \in DOMAIN ages, ages[m] = b, ages[n] = a
        PROVE  ~(m > n) /\ a # b
    <3>1. m = j /\ n = i
      BY <1>0, <2>1, <2>2
    <3> QED
      BY <1>0, <1>1, <2>1, <2>2, <3>1, SMTT(30), Z3T(30)
  <2> QED
    BY <2>1, <2>2 DEF StampAfter
<1>3. ASSUME NEW a, NEW b, NEW c, StampAfter(a, b), StampAfter(b, c)
      PROVE  StampAfter(a, c)
  <2>1. PICK i \in DOMAIN ages, j \in DOMAIN ages : ages[i] = a /\ ages[j] = b /\ i > j
    BY <1>3 DEF StampAfter
  <2>2. PICK m \in DOMAIN ages, n \in DOMAIN ages : ages[m] = b /\ ages[n] = c /\ m > n
    BY <1>3 DEF StampAfter
  <2>3. m = j
    BY <1>0, <2>1, <2>2
  <2>4. i > n
    BY <1>1, <2>1, <2>2, <2>3, SMTT(30), Z3T(30)
  <2> QED
    BY <2>1, <2>2, <2>4 DEF StampAfter
<1>4. ASSUME NEW a \in WwTasks, NEW b \in WwTasks, a # b
      PROVE  StampAfter(a, b) \/ StampAfter(b, a)
  <2>1. PICK i \in DOMAIN ages : ages[i] = a
    BY DEF WwTasks, Range
  <2>2. PICK j \in DOMAIN ages : ages[j] = b
    BY DEF WwTasks, Range
  <2>3. i > j \/ j > i
    BY <1>1, <1>4, <2>1, <2>2, SMTT(30), Z3T(30)
  <2> QED
    BY <2>1, <2>2, <2>3 DEF StampAfter
<1>5. ASSUME NEW a, NEW b, StampAfter(a, b)
      PROVE  a \in WwTasks /\ b \in WwTasks
  BY <1>5 DEF StampAfter, WwTasks, Range
<1> QED
  BY <1>2, <1>3, <1>4, <1>5

(* Of two contexts, one has the later stamp ...                            *)
LEMMA StampTotal ==
  TypeOK /\ IsInjective(ages) =>
    \A a, b \in WwTasks : a # b => StampAfter(a, b) \/ StampAfter(b, a)
BY StampOrder

(* ... after a step, too.                                                  *)
LEMMA StampTotalNext ==
  (TypeOK /\ IsInjective(ages) =>
    \A a, b \in WwTasks : a # b => StampAfter(a, b) \/ StampAfter(b, a))'
BY StampTotal, PTL

(* The order of a wait list, and where t has to go. *)
Sorted(q) ==
  \A i, j \in 1 .. Len(q) :
    i < j /\ q[i] \in WwTasks /\ q[j] \in WwTasks => StampAfter(q[j], q[i])
Fits(r, q, t, k) ==
  /\ Adds(r, q, t, k)
  /\ t \in WwTasks => \A j \in 1 .. Len(q) : q[j] \in WwTasks =>
       IF j < k THEN StampAfter(t, q[j]) ELSE StampAfter(q[j], t) /\ j \in Passed(t, q)

-----------------------------------------------------------------------------
(* The wait lists.                                                         *)
Step(t) ==
  \/ \E l \in Locks : Lock(t, l) \/ TryLock(t, l) \/ Unlock(t, l)
  \/ FastSetContext(t) \/ FastCheckWaiters(t) \/ FastWake(t)
  \/ SlowTry(t) \/ Queue(t) \/ SetWaiters(t) \/ LoopTop(t) \/ CheckFirst(t)
  \/ AskHandoff(t) \/ WaiterTry(t) \/ Acquired(t)
  \/ UnlockFast(t) \/ UnlockSlow(t) \/ UnlockWaiters(t) \/ WakeUpQ(t)
  \/ AcquireInit(t) \/ Signal(t) \/ StrayWakeup(t)

(* The places in the code where the waiter is on the list. *)
Waiting == {"flag", "top", "sched", "hand", "try", "acq"}

(* Who is on which list; that the task between list_add and setting the    *)
(* flag is inside wait_lock; and that MUTEX_FLAG_WAITERS is set once it is *)
(* out of it.                                                              *)
Lined ==
  /\ \A l \in Locks : IsInjective(wait_list[l])
  /\ \A l \in Locks, t \in Tasks :
       Contains(wait_list[l], t) <=> lk[t] = l /\ pc[t] \in Waiting
Guarded == \A t \in Tasks : pc[t] = "flag" => wait_lock[lk[t]] = t
Unset(l) ==
  \E u \in Tasks : pc[u] = "flag" /\ \A y : Contains(wait_list[l], y) <=> y = u
Flagged == \A l \in Locks : wait_list[l] = <<>> \/ "WAITERS" \in flags[l] \/ Unset(l)
WakeQ == \A t \in Tasks : pc[t] # "uwakeq" => wake_q[t] = {}

(* What a step of t does to the others ...                                 *)
Others(t) ==
  \A u \in Tasks : u # t =>
    pc'[u] = pc[u] /\ lk'[u] = lk[u] /\ held'[u] = held[u] /\ handoff'[u] = handoff[u]

(* No step moves another task, or changes what it holds.                   *)
LEMMA StepOthers ==
  ASSUME IInv, NEW t \in Tasks, Step(t)
  PROVE  Others(t)
<1>0. /\ pc \in [Tasks -> Locs] /\ lk \in [Tasks -> Locks \cup {None}]
      /\ held \in [Tasks -> SUBSET Locks] /\ handoff \in [Tasks -> BOOLEAN]
  BY DEF IInv, Types, TypeOK
<1>1. \A l \in Locks : Lock(t, l) \/ TryLock(t, l) \/ Unlock(t, l) => Others(t)
  BY <1>0, ZenonT(60) DEF Others, Lock, TryLock, Unlock, Goto, Got
<1>2. FastSetContext(t) \/ FastCheckWaiters(t) \/ FastWake(t) => Others(t)
  BY <1>0 DEF Others, FastSetContext, FastCheckWaiters, FastWake, Goto, Got, Return, caller
<1>3. SlowTry(t) => Others(t)
  BY <1>0 DEF Others, SlowTry, Goto, Got, Return, caller
<1>4. Queue(t) => Others(t)
  BY <1>0 DEF Others, Queue, Goto, Got, Return, Refuse, caller
<1>5. SetWaiters(t) \/ LoopTop(t) \/ CheckFirst(t) => Others(t)
  BY <1>0 DEF Others, SetWaiters, LoopTop, CheckFirst, Goto, Return, Refuse, caller
<1>6. AskHandoff(t) \/ WaiterTry(t) \/ Acquired(t) => Others(t)
  BY <1>0 DEF Others, AskHandoff, WaiterTry, Acquired, Goto, Got, Return, caller
<1>7. UnlockFast(t) \/ UnlockSlow(t) \/ UnlockWaiters(t) \/ WakeUpQ(t) => Others(t)
  BY <1>0 DEF Others, UnlockFast, UnlockSlow, UnlockWaiters, WakeUpQ, Goto, Unlocked, caller
<1>8. AcquireInit(t) \/ Signal(t) \/ StrayWakeup(t) => Others(t)
  BY DEF Others, AcquireInit, Signal, StrayWakeup, caller
<1> QED
  BY <1>1, <1>2, <1>3, <1>4, <1>5, <1>6, <1>7, <1>8 DEF Step

(* ... to the lists: t stays where it is, joins or leaves one ...          *)
Stays(t) ==
  /\ wait_list' = wait_list
  /\ pc'[t] \in Waiting <=> pc[t] \in Waiting
  /\ pc[t] \in Waiting => lk'[t] = lk[t]
  /\ pc'[t] = "flag" => pc[t] = "flag" /\ wait_lock' = wait_lock
  /\ pc[t] = "flag" =>
       pc'[t] = "flag" \/ ~IsFirst(t, lk[t]) \/ "WAITERS" \in flags'[lk[t]]
Joins(t) ==
  /\ pc[t] = "queue" /\ pc'[t] = "flag" /\ lk'[t] = lk[t] /\ lk[t] \in Locks
  /\ Enter(t, lk[t]) /\ UNCHANGED ww
  /\ LET q == wait_list[lk[t]]
     IN Woken(IF t \in WwTasks
              THEN {u \in {q[i] : i \in Passed(t, q)} : acquired[u] > 0} ELSE {})
  /\ wait_list' = [wait_list EXCEPT ![lk[t]] = AddWaiter(t, wait_list[lk[t]])]
Leaves(t) ==
  /\ pc[t] \in {"top", "acq"} /\ pc'[t] = "idle" /\ lk[t] \in Locks
  /\ wait_list' = [wait_list EXCEPT ![lk[t]] = ListDel(wait_list[lk[t]], t)]

(* Only Queue puts a task on a list, and only LoopTop and Acquired take it *)
(* off.                                                                    *)
LEMMA StepMoves ==
  ASSUME IInv, NEW t \in Tasks, Step(t)
  PROVE  Stays(t) \/ Joins(t) \/ Leaves(t)
<1>0. /\ pc \in [Tasks -> Locs] /\ lk \in [Tasks -> Locks \cup {None}]
      /\ flags \in [Locks -> SUBSET Flags]
      /\ wait_list \in [Locks -> Seq(Tasks)]
      /\ pc[t] # "idle" => lk[t] \in Locks
  BY DEF IInv, Types, TypeOK, CallHasLock
<1>1. \A l \in Locks : Lock(t, l) \/ TryLock(t, l) \/ Unlock(t, l) => Stays(t)
  BY <1>0, ZenonT(60) DEF Stays, Waiting, Lock, TryLock, Unlock, Goto, Got
<1>2. FastSetContext(t) \/ FastCheckWaiters(t) \/ FastWake(t) => Stays(t)
  BY <1>0 DEF Stays, Waiting, FastSetContext, FastCheckWaiters, FastWake, Goto, Return
<1>3. SlowTry(t) => Stays(t)
  BY <1>0 DEF Stays, Waiting, SlowTry, Goto, Return
<1>4. Queue(t) => Stays(t) \/ Joins(t)
  <2> SUFFICES ASSUME Queue(t)
               PROVE  Stays(t) \/ Joins(t)
    OBVIOUS
  <2>1. CASE Goto(t, "flag")
    <3>1. pc[t] = "queue" /\ pc'[t] = "flag"
      BY <1>0, <2>1 DEF Queue, Goto
    <3>2. ~Return(t)
      BY <1>0, <3>1 DEF Return, Goto
    <3> QED
      BY <1>0, <3>1, <3>2 DEF Queue, Joins
  <2>2. CASE ~Goto(t, "flag")
    <3>1. Return(t) /\ wait_list' = wait_list /\ pc[t] = "queue"
      BY <2>2 DEF Queue
    <3> QED
      BY <1>0, <3>1 DEF Stays, Waiting, Return, Goto
  <2> QED
    BY <2>1, <2>2
<1>5. SetWaiters(t) \/ CheckFirst(t) => Stays(t)
  BY <1>0 DEF Stays, Waiting, SetWaiters, CheckFirst, Goto, SetFlag
<1>6. LoopTop(t) => Stays(t) \/ Leaves(t)
  BY <1>0 DEF Stays, Waiting, Leaves, LoopTop, Goto, Return
<1>7. AskHandoff(t) \/ WaiterTry(t) => Stays(t)
  BY <1>0 DEF Stays, Waiting, AskHandoff, WaiterTry, Goto
<1>8. Acquired(t) => Leaves(t)
  BY <1>0 DEF Leaves, Acquired, Return, Goto
<1>9. UnlockFast(t) \/ UnlockSlow(t) \/ UnlockWaiters(t) \/ WakeUpQ(t) => Stays(t)
  BY <1>0 DEF Stays, Waiting, UnlockFast, UnlockSlow, UnlockWaiters, WakeUpQ, Goto, Unlocked
<1>10. AcquireInit(t) \/ Signal(t) \/ StrayWakeup(t) => Stays(t)
  BY DEF Stays, AcquireInit, Signal, StrayWakeup
<1> QED
  BY <1>1, <1>2, <1>3, <1>4, <1>5, <1>6, <1>7, <1>8, <1>9, <1>10 DEF Step

(* ... to wait_lock, the flag, and the contexts ...                        *)
Locking(t) ==
  /\ WwTasks' = WwTasks
  /\ \A l \in Locks : wait_lock'[l] # wait_lock[l] => wait_lock[l] \in {None, t}
  /\ \A l \in Locks : "WAITERS" \in flags[l] => "WAITERS" \in flags'[l] \/ wait_list'[l] = <<>>

(* Who takes wait_lock finds it free, and MUTEX_FLAG_WAITERS goes only     *)
(* with the last waiter.                                                   *)
LEMMA StepLocking ==
  ASSUME IInv, NEW t \in Tasks, Step(t)
  PROVE  Locking(t)
<1>0. /\ pc[t] # "idle" => lk[t] \in Locks
      /\ flags \in [Locks -> SUBSET Flags]
      /\ wait_list \in [Locks -> Seq(Tasks)]
      /\ wait_lock \in [Locks -> Tasks \cup {None}]
  BY DEF IInv, Types, TypeOK, CallHasLock
<1>1. WwTasks' = WwTasks
  <2>1. CASE AcquireInit(t)
    BY <2>1, NewStampKeepsContexts DEF IInv, Types, TypeOK, AcquireInit, WwTasks
  <2>2. CASE ~AcquireInit(t)
    <3>1. ages' = ages
      BY <2>2
      DEF Step, Lock, TryLock, Unlock, FastSetContext, FastCheckWaiters, FastWake, SlowTry,
          Queue, SetWaiters, LoopTop, CheckFirst, AskHandoff, WaiterTry, Acquired, UnlockFast,
          UnlockSlow, UnlockWaiters, WakeUpQ, Signal, StrayWakeup, ww, SetContext
    <3> QED
      BY <3>1, SameContexts
  <2> QED
    BY <2>1, <2>2
<1>2. \A l \in Locks : wait_lock'[l] # wait_lock[l] => wait_lock[l] \in {None, t}
  <2>1. wait_lock' = wait_lock \/ (lk[t] \in Locks /\ (Enter(t, lk[t]) \/ EnterAndLeave(t, lk[t])))
    BY <1>0
    DEF Step, Lock, TryLock, Unlock, FastSetContext, FastCheckWaiters, FastWake, SlowTry,
        Queue, SetWaiters, LoopTop, CheckFirst, AskHandoff, WaiterTry, Acquired, UnlockFast,
        UnlockSlow, UnlockWaiters, WakeUpQ, AcquireInit, Signal, StrayWakeup
  <2> QED
    BY <1>0, <2>1 DEF Enter, EnterAndLeave, Inside
<1>3. \A l \in Locks : "WAITERS" \in flags[l] => "WAITERS" \in flags'[l] \/ wait_list'[l] = <<>>
  <2>1. CASE Acquired(t)
    BY <1>0, <2>1 DEF Acquired
  <2>2. CASE UnlockWaiters(t)
    BY <1>0, <2>2 DEF UnlockWaiters, word
  <2>3. CASE ~Acquired(t) /\ ~UnlockWaiters(t)
    <3>1. \/ flags' = flags \/ \E l \in Locks : Take(t, l)
          \/ lk[t] \in Locks /\ SetFlag(lk[t], "WAITERS")
          \/ lk[t] \in Locks /\ SetFlag(lk[t], "HANDOFF")
      BY <1>0, <2>3
      DEF Step, Lock, TryLock, Unlock, FastSetContext, FastCheckWaiters, FastWake, SlowTry,
          Queue, SetWaiters, LoopTop, CheckFirst, AskHandoff, WaiterTry, UnlockFast,
          UnlockSlow, WakeUpQ, AcquireInit, Signal, StrayWakeup, word
    <3> QED
      BY <1>0, <3>1, ZenonT(60) DEF Take, SetFlag
  <2> QED
    BY <2>1, <2>2, <2>3
<1> QED
  BY <1>1, <1>2, <1>3 DEF Locking

(* Only ww_acquire_init() draws a stamp.                                   *)
LEMMA StepStamps ==
  ASSUME NEW t \in Tasks, Step(t)
  PROVE  ages' = ages \/ AcquireInit(t)
BY DEF Step, Lock, TryLock, Unlock, FastSetContext, FastCheckWaiters, FastWake, SlowTry,
    Queue, SetWaiters, LoopTop, CheckFirst, AskHandoff, WaiterTry, Acquired, UnlockFast,
    UnlockSlow, UnlockWaiters, WakeUpQ, Signal, StrayWakeup, ww, SetContext

(* The first of a list is on it.                                           *)
LEMMA HeadIsIn ==
  ASSUME NEW q \in Seq(Tasks), q # <<>>
  PROVE  Head(q) \in Tasks /\ Contains(q, Head(q)) /\ Head(q) = q[1] /\ 1 \in 1 .. Len(q)
<1>1. Len(q) \in Nat /\ Len(q) # 0 /\ Head(q) = q[1] /\ q[1] \in Tasks
  BY SMTT(30), Z3T(30)
<1>2. 1 \in 1 .. Len(q)
  BY <1>1, SMTT(30), Z3T(30)
<1> QED
  BY <1>1, <1>2 DEF Contains

QInv ==
  /\ Lined /\ Guarded /\ Flagged /\ WakeQ
  /\ IsInjective(ages) /\ WaitListOrdered

(* ... and so to the lists.                                                *)
LEMMA ListTypes ==
  ASSUME IInv, QInv, NEW l \in Locks
  PROVE  wait_list[l] \in Seq(Tasks) /\ IsInjective(wait_list[l]) /\ Sorted(wait_list[l])
<1>1. wait_list[l] \in Seq(Tasks)
  BY DEF IInv, Types, TypeOK
<1>2. DOMAIN wait_list[l] = 1 .. Len(wait_list[l])
  BY <1>1, SMTT(30), Z3T(30)
<1>3. Sorted(wait_list[l])
  BY <1>2 DEF QInv, WaitListOrdered, Sorted
<1> QED
  BY <1>1, <1>3 DEF QInv, Lined

JoinsAt(t, k) ==
  /\ Fits(wait_list'[lk[t]], wait_list[lk[t]], t, k)
  /\ IsInjective(wait_list'[lk[t]])
  /\ \A y : Contains(wait_list'[lk[t]], y) <=> y = t \/ Contains(wait_list[lk[t]], y)
  /\ \A l \in Locks : l # lk[t] => wait_list'[l] = wait_list[l]

(* A task that joins a list is on it afterwards, in the place its stamp    *)
(* gives it.                                                               *)
LEMMA JoinsFits ==
  \A t \in Tasks :
    IInv /\ QInv /\ Joins(t) => \E k : JoinsAt(t, k)
<1>AddsDistinct.
  ASSUME NEW q \in Seq(Tasks), IsInjective(q), NEW t, ~Contains(q, t), NEW r, NEW k,
         Adds(r, q, t, k)
  PROVE  IsInjective(r) /\ \A y : Contains(r, y) <=> y = t \/ Contains(q, y)
  <2> USE <1>AddsDistinct
  <2>0. /\ Len(q) \in Nat /\ r \in Seq(Tasks) /\ Len(r) = Len(q) + 1 /\ k \in 1 .. Len(q) + 1
        /\ \A j \in 1 .. Len(q) + 1 : r[j] = IF j < k THEN q[j] ELSE IF j = k THEN t ELSE q[j - 1]
    BY SMTT(30), Z3T(30) DEF Adds
  <2>1. \A j \in 1 .. Len(q) : q[j] # t
    BY DEF Contains
  <2>2. \A i, j \in 1 .. Len(q) : q[i] = q[j] => i = j
    BY SMTT(30), Z3T(30) DEF IsInjective
  <2>3. IsInjective(r)
    <3> SUFFICES ASSUME NEW i \in 1 .. Len(q) + 1, NEW j \in 1 .. Len(q) + 1, r[i] = r[j]
                 PROVE  i = j
      BY <2>0, SMTT(30), Z3T(30) DEF IsInjective
    <3> DEFINE f(n) == IF n < k THEN n ELSE n - 1
    <3>1. \A n \in 1 .. Len(q) + 1 : n # k => f(n) \in 1 .. Len(q) /\ r[n] = q[f(n)] /\ r[n] # t
      BY <2>0, <2>1, SMTT(30), Z3T(30)
    <3>2. r[k] = t
      BY <2>0, SMTT(30), Z3T(30)
    <3> HIDE DEF f
    <3>3. i = k <=> j = k
      BY <3>1, <3>2
    <3>4. CASE i # k
      <4>1. f(i) = f(j)
        BY <2>2, <3>1, <3>3, <3>4
      <4> QED
        BY <2>0, <3>3, <3>4, <4>1, SMTT(30), Z3T(30) DEF f
    <3> QED
      BY <3>3, <3>4
  <2>4. ASSUME NEW y, Contains(r, y) PROVE y = t \/ Contains(q, y)
    <3>1. PICK j \in 1 .. Len(q) + 1 : r[j] = y
      BY <2>0, <2>4 DEF Contains
    <3>2. CASE j < k
      <4>1. j \in 1 .. Len(q)
        BY <2>0, <3>2, SMTT(30), Z3T(30)
      <4> QED
        BY <2>0, <3>1, <3>2, <4>1 DEF Contains
    <3>3. CASE j > k
      <4>1. j - 1 \in 1 .. Len(q) /\ r[j] = q[j - 1]
        BY <2>0, <3>3, SMTT(30), Z3T(30)
      <4> QED
        BY <3>1, <4>1 DEF Contains
    <3>4. CASE j = k
      BY <2>0, <3>1, <3>4, SMTT(30), Z3T(30)
    <3> QED
      BY <2>0, <3>2, <3>3, <3>4, SMTT(30), Z3T(30)
  <2>5. ASSUME NEW y, Contains(q, y) PROVE Contains(r, y)
    <3>1. PICK j \in 1 .. Len(q) : q[j] = y
      BY <2>5 DEF Contains
    <3>2. CASE j < k
      <4>1. j \in 1 .. Len(q) + 1 /\ r[j] = q[j]
        BY <2>0, <3>2, SMTT(30), Z3T(30)
      <4> QED
        BY <2>0, <3>1, <4>1 DEF Contains
    <3>3. CASE j >= k
      <4>1. j + 1 \in 1 .. Len(q) + 1 /\ r[j + 1] = q[j]
        BY <2>0, <3>3, SMTT(30), Z3T(30)
      <4> QED
        BY <2>0, <3>1, <4>1 DEF Contains
    <3> QED
      BY <2>0, <3>2, <3>3, SMTT(30), Z3T(30)
  <2>6. Contains(r, t)
    <3>1. k \in 1 .. Len(r) /\ r[k] = t
      BY <2>0, SMTT(30), Z3T(30)
    <3> QED
      BY <3>1 DEF Contains
  <2> QED
    BY <2>3, <2>4, <2>5, <2>6
<1>AppendAdds.
  ASSUME NEW q \in Seq(Tasks), NEW t \in Tasks
  PROVE  Adds(Append(q, t), q, t, Len(q) + 1)
  <2> USE <1>AppendAdds
  <2>1. /\ Append(q, t) \in Seq(Tasks) /\ Len(q) \in Nat
        /\ Len(Append(q, t)) = Len(q) + 1 /\ Len(q) + 1 \in 1 .. Len(q) + 1
        /\ \A j \in 1 .. Len(q) : Append(q, t)[j] = q[j]
        /\ Append(q, t)[Len(q) + 1] = t
    BY SMTT(30), Z3T(30)
  <2>2. \A j \in 1 .. Len(q) + 1 : (j < Len(q) + 1 => j \in 1 .. Len(q)) /\ (j < Len(q) + 1 \/ j = Len(q) + 1)
    BY <2>1, SMTT(30), Z3T(30)
  <2> QED
    BY <2>1, <2>2 DEF Adds
<1>ListAddAtAdds.
  ASSUME NEW q \in Seq(Tasks), NEW t \in Tasks, NEW k \in DOMAIN q
  PROVE  Adds(ListAddAt(q, k, t), q, t, k)
  <2> USE <1>ListAddAtAdds
  <2>1. ListAddAt(q, k, t) \in Seq(Tasks)
    BY ListAddAtType
  <2>2. Len(q) \in Nat /\ k \in 1 .. Len(q) + 1 /\ Len(q) + 1 \in Nat
    BY SMTT(30), Z3T(30)
  <2> DEFINE f == ListAddAt(q, k, t)
  <2>3. DOMAIN f = 1 .. Len(q) + 1
    BY DEF ListAddAt
  <2>4. Len(f) = Len(q) + 1
    BY <2>1, <2>2, <2>3, SMTT(30), Z3T(30)
  <2>5. \A j \in 1 .. Len(q) + 1 : f[j] = IF j < k THEN q[j] ELSE IF j = k THEN t ELSE q[j - 1]
    BY DEF ListAddAt
  <2> QED
    BY <2>1, <2>2, <2>4, <2>5 DEF Adds
(* __ww_mutex_add_waiter() *)
<1>AddWaiterFits.
  ASSUME TypeOK, IsInjective(ages), NEW q \in Seq(Tasks), Sorted(q), NEW t \in Tasks,
         ~Contains(q, t)
  PROVE  \E k : Fits(AddWaiter(t, q), q, t, k)
  <2> USE <1>AddWaiterFits
  <2>0. DOMAIN q = 1 .. Len(q) /\ Len(q) \in Nat
    BY SMTT(30), Z3T(30)
  <2>1. CASE t \notin WwTasks
    <3>1. AddWaiter(t, q) = Append(q, t)
      BY <2>1 DEF AddWaiter
    <3> QED
      BY <2>1, <3>1, <1>AppendAdds DEF Fits
  <2>2. CASE t \in WwTasks
    <3>1. \A i \in Older(t, q), j \in Younger(t, q) : i < j
      <4> SUFFICES ASSUME NEW i \in Older(t, q), NEW j \in Younger(t, q), ~(i < j)
                   PROVE  FALSE
        OBVIOUS
      <4>1. /\ i \in 1 .. Len(q) /\ q[i] \in WwTasks /\ StampAfter(t, q[i])
            /\ j \in 1 .. Len(q) /\ q[j] \in WwTasks /\ StampAfter(q[j], t)
        BY <2>0 DEF Older, Younger
      <4>2. i # j
        BY <4>1, StampOrder
      <4>3. j < i
        BY <4>1, <4>2, SMTT(30), Z3T(30)
      <4>4. StampAfter(q[i], q[j])
        BY <4>1, <4>3 DEF Sorted
      <4> QED
        BY <4>1, <4>4, StampOrder
    <3>2. Passed(t, q) = Younger(t, q)
      BY <3>1 DEF Passed
    <3>3. ASSUME NEW j \in 1 .. Len(q), q[j] \in WwTasks
          PROVE  /\ j \in Older(t, q) => StampAfter(t, q[j])
                 /\ j \in Younger(t, q) => StampAfter(q[j], t)
                 /\ j \in Older(t, q) \/ j \in Younger(t, q)
      <4>1. q[j] # t
        BY DEF Contains
      <4> QED
        BY <2>0, <2>2, <3>3, <4>1, StampOrder DEF Older, Younger
    <3>4. CASE Passed(t, q) = {}
      <4>1. AddWaiter(t, q) = Append(q, t)
        BY <3>4 DEF AddWaiter
      <4>2. \A j \in 1 .. Len(q) : j < Len(q) + 1
        BY <2>0, SMTT(30), Z3T(30)
      <4> QED
        BY <3>2, <3>3, <3>4, <4>1, <4>2, <1>AppendAdds DEF Fits
    <3>5. CASE Passed(t, q) # {}
      <4> DEFINE I == Passed(t, q)
      <4>0. I \subseteq 1 .. Len(q)
        BY <2>0, <3>2 DEF Younger
      <4>1. I \subseteq Nat
        BY <4>0, SMTT(30), Z3T(30)
      <4>2. \E k \in I : \A j \in I : k <= j
        BY <3>5, <4>1, MinExists
      <4>3. PICK k \in I : (\A j \in I : k <= j) /\ AddWaiter(t, q) = ListAddAt(q, k, t)
        BY <2>2, <3>5, <4>2 DEF AddWaiter
      <4>4. k \in 1 .. Len(q) /\ Adds(ListAddAt(q, k, t), q, t, k)
        BY <2>0, <4>0, <1>ListAddAtAdds
      <4>5. ASSUME NEW j \in 1 .. Len(q), q[j] \in WwTasks
            PROVE  IF j < k THEN StampAfter(t, q[j])
                   ELSE StampAfter(q[j], t) /\ j \in Passed(t, q)
        <5>1. CASE j < k
          <6>1. j \notin I
            BY <4>3, <4>4, <5>1, SMTT(30), Z3T(30)
          <6> QED
            BY <3>2, <3>3, <4>5, <5>1, <6>1
        <5>2. CASE ~(j < k)
          <6>1. j \notin Older(t, q)
            BY <3>1, <3>2, <5>2
          <6> QED
            BY <3>2, <3>3, <4>5, <5>2, <6>1
        <5> QED
          BY <5>1, <5>2
      <4> QED
        BY <4>3, <4>4, <4>5 DEF Fits
    <3> QED
      BY <3>4, <3>5
  <2> QED
    BY <2>1, <2>2
<1> SUFFICES ASSUME IInv, QInv, NEW t \in Tasks, Joins(t)
             PROVE  \E k : JoinsAt(t, k)
  OBVIOUS
<1> DEFINE l == lk[t]
           q == wait_list[l]
<1>0. l \in Locks /\ pc[t] = "queue"
  BY DEF Joins
<1>1. q \in Seq(Tasks) /\ IsInjective(q) /\ Sorted(q)
  BY <1>0, ListTypes
<1>2. ~Contains(q, t)
  BY <1>0 DEF QInv, Lined, Waiting
<1>3. wait_list \in [Locks -> Seq(Tasks)] /\ TypeOK
  BY DEF IInv, Types, TypeOK
<1>4. /\ wait_list'[l] = AddWaiter(t, q)
      /\ \A m \in Locks : m # l => wait_list'[m] = wait_list[m]
  BY <1>0, <1>3 DEF Joins
<1>5. PICK k : Fits(AddWaiter(t, q), q, t, k)
  BY <1>1, <1>2, <1>3, <1>AddWaiterFits DEF QInv
<1>6. Fits(wait_list'[l], q, t, k)
  BY <1>4, <1>5
<1>7. Adds(wait_list'[l], q, t, k)
  BY <1>6 DEF Fits
<1> QED
  BY <1>1, <1>2, <1>4, <1>6, <1>7, <1>AddsDistinct, ZenonT(60) DEF JoinsAt

(* A task that leaves a list is no longer on it; the others keep their     *)
(* order.                                                                  *)
LEMMA LeavesDel ==
  ASSUME IInv, QInv, NEW t \in Tasks, Leaves(t)
  PROVE  /\ DelOK(wait_list'[lk[t]], wait_list[lk[t]], t)
         /\ \A l \in Locks : l # lk[t] => wait_list'[l] = wait_list[l]
<1>0. lk[t] \in Locks /\ pc[t] \in {"top", "acq"}
  BY DEF Leaves
<1>1. wait_list[lk[t]] \in Seq(Tasks) /\ IsInjective(wait_list[lk[t]])
  BY <1>0, ListTypes
<1>2. Contains(wait_list[lk[t]], t)
  BY <1>0 DEF QInv, Lined, Waiting
<1>3. wait_list \in [Locks -> Seq(Tasks)]
  BY DEF IInv, Types, TypeOK
<1>4. /\ wait_list'[lk[t]] = ListDel(wait_list[lk[t]], t)
      /\ \A m \in Locks : m # lk[t] => wait_list'[m] = wait_list[m]
  BY <1>0, <1>3 DEF Leaves
<1> QED
  BY <1>1, <1>2, <1>4, ListDelOrder

(* Without a new stamp, the order of the contexts is the same.             *)
LEMMA SameStamps ==
  ASSUME ages' = ages
  PROVE  \A a, b : StampAfter(a, b)' <=> StampAfter(a, b)
BY DEF StampAfter

(* A context gets a new stamp only while its task is on no list. *)
LEMMA StepStampOrder ==
  \A t \in Tasks :
    IInv /\ IInv' /\ QInv /\ Step(t) =>
      /\ IsInjective(ages)'
      /\ \A a, b : (a # t /\ b # t) \/ pc[t] # "idle" =>
           (StampAfter(a, b) => StampAfter(a, b)')
(* ww_acquire_init() gives t the youngest stamp, and leaves the order of   *)
(* the others.                                                             *)
<1>NewStampOrder.
  ASSUME TypeOK, TypeOK', IsInjective(ages), NEW t \in Tasks, t \in WwTasks, WwTasks' = WwTasks,
         ages' = Append(ListDel(ages, t), t)
  PROVE  /\ IsInjective(ages)'
         /\ \A a, b : a # t /\ b # t /\ StampAfter(a, b) => StampAfter(a, b)'
  <2> USE <1>NewStampOrder
  <2> DEFINE r == ListDel(ages, t)
  <2>0. ages \in Seq(Tasks) /\ DOMAIN ages = 1 .. Len(ages)
    BY SMTT(30), Z3T(30) DEF TypeOK
  <2>1. Contains(ages, t)
    BY <2>0 DEF Contains, WwTasks, Range
  <2>2. DelOK(r, ages, t)
    BY <2>0, <2>1, ListDelOrder
  <2> HIDE DEF r
  <2>3. r \in Seq(Tasks) /\ IsInjective(r) /\ ~Contains(r, t)
    BY <2>2 DEF DelOK
  <2>4. IsInjective(ages)'
    BY <2>3, AppendDistinct DEF r
  <2>5. /\ Len(r) \in Nat /\ DOMAIN (ages') = 1 .. Len(r) + 1
        /\ \A i \in 1 .. Len(r) : ages'[i] = r[i]
        /\ ages'[Len(r) + 1] = t
    BY <2>3, SMTT(30), Z3T(30) DEF r
  <2>6. ASSUME NEW a, NEW b, a # t, b # t, StampAfter(b, a)'
        PROVE  StampAfter(b, a)
    <3>1. PICK i \in 1 .. Len(r) + 1, j \in 1 .. Len(r) + 1 : ages'[i] = b /\ ages'[j] = a /\ i > j
      BY <2>5, <2>6 DEF StampAfter
    <3>2. i \in 1 .. Len(r) /\ j \in 1 .. Len(r) /\ j < i
      BY <2>5, <2>6, <3>1, SMTT(30), Z3T(30)
    <3>3. PICK k \in 1 .. Len(ages), m \in 1 .. Len(ages) : k < m /\ ages[k] = r[j] /\ ages[m] = r[i]
      BY <2>2, <3>2 DEF DelOK
    <3>4. m > k
      BY <3>3
    <3>5. ages[m] = b /\ ages[k] = a
      BY <2>5, <3>1, <3>2, <3>3
    <3> QED
      BY <2>0, <3>3, <3>4, <3>5 DEF StampAfter
  <2>7. ASSUME NEW a, NEW b, a # t, b # t, StampAfter(a, b)
        PROVE  StampAfter(a, b)'
    <3>1. a \in WwTasks /\ b \in WwTasks /\ a # b /\ ~StampAfter(b, a)
      BY <2>7, StampOrder
    <3>2. StampAfter(a, b)' \/ StampAfter(b, a)'
      BY <2>4, <3>1, StampTotalNext
    <3> QED
      BY <2>6, <2>7, <3>1, <3>2
  <2> QED
    BY <2>4, <2>7
<1> SUFFICES ASSUME IInv, IInv', QInv, NEW t \in Tasks, Step(t)
             PROVE  /\ IsInjective(ages)'
                    /\ \A a, b : (a # t /\ b # t) \/ pc[t] # "idle" =>
                         (StampAfter(a, b) => StampAfter(a, b)')
  OBVIOUS
<1>1. CASE ages' = ages
  BY <1>1, SameStamps DEF QInv
<1>2. CASE AcquireInit(t)
  <2>1. TypeOK /\ TypeOK' /\ WwTasks' = WwTasks
    BY StepLocking DEF IInv, Types, Locking
  <2>2. t \in WwTasks /\ ages' = Append(ListDel(ages, t), t) /\ pc[t] = "idle"
    BY <1>2 DEF AcquireInit
  <2> QED
    BY <2>1, <2>2, <1>NewStampOrder DEF QInv
<1> QED
  BY <1>1, <1>2, StepStamps

(* Every step keeps what is said about the wait lists.                     *)
LEMMA StepQInv ==
  \A t \in Tasks :
    IInv /\ IInv' /\ QInv /\ Step(t) => QInv'
<1>StepLined.
  ASSUME IInv, QInv, NEW t \in Tasks, Step(t)
  PROVE  Lined'
  <2> USE <1>StepLined
  <2>0. Others(t)
    BY StepOthers
  <2>1. CASE Stays(t)
    <3>1. \A l \in Locks, u \in Tasks :
            lk'[u] = l /\ pc'[u] \in Waiting <=> lk[u] = l /\ pc[u] \in Waiting
      BY <2>0, <2>1 DEF Others, Stays
    <3> QED
      BY <2>1, <3>1, ZenonT(60) DEF Lined, QInv, Stays
  <2>2. CASE Joins(t)
    <3>1. PICK k : JoinsAt(t, k)
      BY <2>2, JoinsFits
    <3>2. pc'[t] \in Waiting /\ lk'[t] = lk[t] /\ pc[t] \notin Waiting
      BY <2>2 DEF Joins, Waiting
    <3>3. \A l \in Locks : IsInjective(wait_list'[l])
      BY <3>1 DEF Lined, QInv, JoinsAt
    <3>4. ASSUME NEW l \in Locks, NEW u \in Tasks
          PROVE  Contains(wait_list'[l], u) <=> lk'[u] = l /\ pc'[u] \in Waiting
      <4>1. Contains(wait_list'[l], u) <=> (u = t /\ l = lk[t]) \/ Contains(wait_list[l], u)
        BY <3>1 DEF JoinsAt
      <4>2. Contains(wait_list[l], u) <=> lk[u] = l /\ pc[u] \in Waiting
        BY DEF Lined, QInv
      <4>3. u # t => lk'[u] = lk[u] /\ pc'[u] = pc[u]
        BY <2>0 DEF Others
      <4> QED
        BY <3>2, <4>1, <4>2, <4>3
    <3> QED
      BY <3>3, <3>4 DEF Lined
  <2>3. CASE Leaves(t)
    <3>1. /\ DelOK(wait_list'[lk[t]], wait_list[lk[t]], t)
          /\ \A l \in Locks : l # lk[t] => wait_list'[l] = wait_list[l]
      BY <2>3, LeavesDel
    <3>2. pc'[t] \notin Waiting /\ pc[t] \in Waiting
      BY <2>3 DEF Leaves, Waiting
    <3>3. \A l \in Locks : IsInjective(wait_list'[l])
      BY <3>1 DEF Lined, QInv, DelOK
    <3>4. ASSUME NEW l \in Locks, NEW u \in Tasks
          PROVE  Contains(wait_list'[l], u) <=> lk'[u] = l /\ pc'[u] \in Waiting
      <4>1. Contains(wait_list'[l], u) <=> ~(u = t /\ l = lk[t]) /\ Contains(wait_list[l], u)
        BY <3>1 DEF DelOK
      <4>2. Contains(wait_list[l], u) <=> lk[u] = l /\ pc[u] \in Waiting
        BY DEF Lined, QInv
      <4>3. u # t => lk'[u] = lk[u] /\ pc'[u] = pc[u]
        BY <2>0 DEF Others
      <4> QED
        BY <3>2, <4>1, <4>2, <4>3
    <3> QED
      BY <3>3, <3>4 DEF Lined
  <2> QED
    BY <2>1, <2>2, <2>3, StepMoves
<1>StepGuarded.
  ASSUME IInv, QInv, NEW t \in Tasks, Step(t)
  PROVE  Guarded'
  <2> USE <1>StepGuarded
  <2>0. /\ Others(t) /\ Locking(t)
        /\ \A u \in Tasks : pc[u] = "flag" => lk[u] \in Locks
        /\ wait_lock \in [Locks -> Tasks \cup {None}]
        /\ None \notin Tasks
    BY StepOthers, StepLocking, ConstTypes DEF IInv, Types, TypeOK, CallHasLock
  <2>1. ASSUME NEW u \in Tasks, u # t, pc'[u] = "flag"
        PROVE  wait_lock'[lk'[u]] = u
    <3>1. pc[u] = "flag" /\ lk'[u] = lk[u] /\ lk[u] \in Locks /\ wait_lock[lk[u]] = u
      BY <2>0, <2>1 DEF Others, QInv, Guarded
    <3> QED
      BY <2>0, <2>1, <3>1 DEF Locking
  <2>2. ASSUME pc'[t] = "flag"
        PROVE  wait_lock'[lk'[t]] = t
    <3>1. CASE Stays(t)
      <4>1. pc[t] = "flag" /\ wait_lock' = wait_lock /\ lk'[t] = lk[t]
        BY <2>2, <3>1 DEF Stays, Waiting
      <4> QED
        BY <4>1 DEF QInv, Guarded
    <3>2. CASE Joins(t)
      BY <2>0, <3>2 DEF Joins, Enter
    <3>3. CASE Leaves(t)
      BY <2>2, <3>3 DEF Leaves
    <3> QED
      BY <3>1, <3>2, <3>3, StepMoves
  <2> QED
    BY <2>1, <2>2 DEF Guarded
<1>StepFlagged.
  ASSUME IInv, QInv, NEW t \in Tasks, Step(t)
  PROVE  Flagged'
  <2> USE <1>StepFlagged
  <2> SUFFICES ASSUME NEW l \in Locks, wait_list'[l] # <<>>, "WAITERS" \notin flags'[l]
               PROVE  Unset(l)'
    BY DEF Flagged
  <2>0. Others(t) /\ Locking(t) /\ None \notin Tasks
    BY StepOthers, StepLocking, ConstTypes
  <2>1. "WAITERS" \notin flags[l]
    BY <2>0 DEF Locking
  <2>2. wait_list[l] \in Seq(Tasks)
    BY ListTypes
  <2>3. ASSUME wait_list[l] # <<>>
        PROVE  \E u \in Tasks : /\ pc[u] = "flag" /\ lk[u] = l
                                /\ \A y : Contains(wait_list[l], y) <=> y = u
    <3>1. PICK u \in Tasks : pc[u] = "flag" /\ \A y : Contains(wait_list[l], y) <=> y = u
      BY <2>1, <2>3 DEF QInv, Flagged, Unset
    <3>2. Contains(wait_list[l], u)
      BY <3>1
    <3>3. lk[u] = l
      BY <3>2 DEF QInv, Lined
    <3> QED
      BY <3>1, <3>3
  <2>4. ASSUME wait_list'[l] = wait_list[l], ~Leaves(t)
        PROVE  Unset(l)'
    <3>1. PICK u \in Tasks : /\ pc[u] = "flag" /\ lk[u] = l
                             /\ \A y : Contains(wait_list[l], y) <=> y = u
      BY <2>3, <2>4
    <3>2. CASE u # t
      BY <2>0, <2>4, <3>1, <3>2 DEF Others, Unset
    <3>3. CASE u = t
      <4>1. Stays(t)
        BY <2>4, <3>1, <3>3, StepMoves DEF Joins
      <4>2. IsFirst(t, lk[t])
        BY <2>2, <2>4, <3>1, <3>3, HeadIsIn DEF IsFirst
      <4>3. pc'[t] = "flag"
        BY <3>1, <3>3, <4>1, <4>2 DEF Stays
      <4> QED
        BY <2>4, <3>1, <3>3, <4>3 DEF Unset
    <3> QED
      BY <3>2, <3>3
  <2>5. CASE Stays(t)
    <3>1. wait_list'[l] = wait_list[l] /\ ~Leaves(t)
      BY <2>5 DEF Stays, Leaves, Waiting
    <3> QED
      BY <2>4, <3>1
  <2>6. CASE Joins(t)
    <3>0. ~Leaves(t) /\ pc'[t] = "flag" /\ pc[t] = "queue"
      BY <2>6 DEF Joins, Leaves
    <3>1. PICK k : JoinsAt(t, k)
      BY <2>6, JoinsFits
    <3>2. CASE l # lk[t]
      BY <2>4, <3>0, <3>1, <3>2 DEF JoinsAt
    <3>3. CASE l = lk[t] /\ wait_list[l] = <<>>
      <4>1. \A y : ~Contains(<<>>, y)
        BY SMTT(30), Z3T(30) DEF Contains
      <4> QED
        BY <3>0, <3>1, <3>3, <4>1 DEF JoinsAt, Unset
    <3>4. CASE l = lk[t] /\ wait_list[l] # <<>>
      <4>1. PICK u \in Tasks : pc[u] = "flag" /\ lk[u] = l
        BY <2>3, <3>4
      <4>2. wait_lock[l] = u
        BY <4>1 DEF QInv, Guarded
      <4>3. wait_lock[l] \in {None, t}
        BY <2>6, <3>4 DEF Joins, Enter, Inside
      <4> QED
        BY <2>0, <3>0, <4>1, <4>2, <4>3
    <3> QED
      BY <3>2, <3>3, <3>4
  <2>7. CASE Leaves(t)
    <3>1. /\ DelOK(wait_list'[lk[t]], wait_list[lk[t]], t)
          /\ \A m \in Locks : m # lk[t] => wait_list'[m] = wait_list[m]
      BY <2>7, LeavesDel
    <3>2. pc[t] \in {"top", "acq"}
      BY <2>7 DEF Leaves
    <3>3. wait_list[l] # <<>>
      <4>1. CASE l = lk[t]
        <5>1. Contains(wait_list[l], t)
          BY <3>2, <4>1 DEF QInv, Lined, Waiting
        <5>2. ~Contains(<<>>, t)
          BY SMTT(30), Z3T(30) DEF Contains
        <5> QED
          BY <5>1, <5>2
      <4>2. CASE l # lk[t]
        BY <3>1, <4>2
      <4> QED
        BY <4>1, <4>2
    <3>4. PICK u \in Tasks : /\ pc[u] = "flag" /\ lk[u] = l
                             /\ \A y : Contains(wait_list[l], y) <=> y = u
      BY <2>3, <3>3
    <3>5. u # t
      BY <3>2, <3>4
    <3>6. l # lk[t]
      BY <3>2, <3>4, <3>5 DEF QInv, Lined, Waiting
    <3> QED
      BY <2>0, <3>1, <3>4, <3>5, <3>6 DEF Others, Unset
  <2> QED
    BY <2>5, <2>6, <2>7, StepMoves
<1>StepWakeQ.
  ASSUME IInv, QInv, NEW t \in Tasks, Step(t)
  PROVE  WakeQ'
  <2> USE <1>StepWakeQ
  <2>0. /\ pc \in [Tasks -> Locs] /\ wake_q \in [Tasks -> SUBSET Tasks]
        /\ Others(t)
    BY StepOthers DEF IInv, Types, TypeOK
  <2>1. CASE UnlockWaiters(t)
    BY <2>0, <2>1 DEF UnlockWaiters, Goto, QInv, WakeQ
  <2>2. CASE WakeUpQ(t)
    BY <2>0, <2>2 DEF WakeUpQ, Others, QInv, WakeQ
  <2>3. CASE ~UnlockWaiters(t) /\ ~WakeUpQ(t)
    <3>1. /\ wake_q' = wake_q
          /\ pc[t] = "uwakeq" => pc'[t] = "uwakeq"
      <4>1. \A l \in Locks :
              Lock(t, l) \/ TryLock(t, l) \/ Unlock(t, l) => wake_q' = wake_q /\ pc[t] = "idle"
        BY DEF Lock, TryLock, Unlock
      <4>2. FastSetContext(t) \/ FastCheckWaiters(t) \/ FastWake(t) \/ SlowTry(t) \/ Queue(t)
            => wake_q' = wake_q /\ pc[t] # "uwakeq"
        BY DEF FastSetContext, FastCheckWaiters, FastWake, SlowTry, Queue
      <4>3. \/ SetWaiters(t) \/ LoopTop(t) \/ CheckFirst(t)
            \/ AskHandoff(t) \/ WaiterTry(t) \/ Acquired(t)
            => wake_q' = wake_q /\ pc[t] # "uwakeq"
        BY DEF SetWaiters, LoopTop, CheckFirst, AskHandoff, WaiterTry, Acquired
      <4>4. UnlockFast(t) \/ UnlockSlow(t) \/ AcquireInit(t) => wake_q' = wake_q /\ pc[t] # "uwakeq"
        BY DEF UnlockFast, UnlockSlow, AcquireInit
      <4>5. Signal(t) \/ StrayWakeup(t) => wake_q' = wake_q /\ pc' = pc
        BY DEF Signal, StrayWakeup
      <4>6. "idle" # "uwakeq"
        OBVIOUS
      <4> QED
        BY <2>3, <4>1, <4>2, <4>3, <4>4, <4>5, <4>6 DEF Step
    <3> QED
      BY <2>0, <3>1 DEF Others, QInv, WakeQ
  <2> QED
    BY <2>1, <2>2, <2>3
<1>FitsSorted.
  ASSUME NEW q \in Seq(Tasks), Sorted(q), NEW t \in Tasks, NEW r, NEW k, Fits(r, q, t, k)
  PROVE  Sorted(r)
  <2> USE <1>FitsSorted
  <2>0. /\ Len(q) \in Nat /\ r \in Seq(Tasks) /\ Len(r) = Len(q) + 1 /\ k \in 1 .. Len(q) + 1
        /\ \A j \in 1 .. Len(q) + 1 : r[j] = IF j < k THEN q[j] ELSE IF j = k THEN t ELSE q[j - 1]
    BY SMTT(30), Z3T(30) DEF Adds, Fits
  <2> SUFFICES ASSUME NEW i \in 1 .. Len(r), NEW j \in 1 .. Len(r), i < j,
                      r[i] \in WwTasks, r[j] \in WwTasks
               PROVE  StampAfter(r[j], r[i])
    BY DEF Sorted
  <2> DEFINE f(n) == IF n < k THEN n ELSE n - 1
  <2>1. \A n \in 1 .. Len(r) : n # k => f(n) \in 1 .. Len(q) /\ r[n] = q[f(n)]
    BY <2>0, SMTT(30), Z3T(30)
  <2>2. r[k] = t
    BY <2>0, SMTT(30), Z3T(30)
  <2>3. CASE i = k
    <3>1. f(j) \in 1 .. Len(q) /\ r[j] = q[f(j)] /\ ~(f(j) < k)
      BY <2>0, <2>1, <2>3, SMTT(30), Z3T(30)
    <3> HIDE DEF f
    <3> QED
      BY <2>2, <2>3, <3>1 DEF Fits
  <2>4. CASE j = k
    <3>1. f(i) \in 1 .. Len(q) /\ r[i] = q[f(i)] /\ f(i) < k
      BY <2>0, <2>1, <2>4, SMTT(30), Z3T(30)
    <3> HIDE DEF f
    <3> QED
      BY <2>2, <2>4, <3>1 DEF Fits
  <2>5. CASE i # k /\ j # k
    <3>1. f(i) \in 1 .. Len(q) /\ r[i] = q[f(i)] /\ f(j) \in 1 .. Len(q) /\ r[j] = q[f(j)]
      BY <2>1, <2>5
    <3>2. f(i) < f(j)
      BY <2>0, <2>5, SMTT(30), Z3T(30)
    <3> HIDE DEF f
    <3> QED
      BY <3>1, <3>2 DEF Sorted
  <2> QED
    BY <2>3, <2>4, <2>5
<1>StepOrdered.
  ASSUME IInv, IInv', QInv, NEW t \in Tasks, Step(t)
  PROVE  WaitListOrdered'
  <2> USE <1>StepOrdered
  <2>0. /\ WwTasks' = WwTasks
        /\ \A a, b : (a # t /\ b # t) \/ pc[t] # "idle" =>
             (StampAfter(a, b) => StampAfter(a, b)')
    BY StepLocking, StepStampOrder DEF Locking
  <2> SUFFICES ASSUME NEW l \in Locks
               PROVE  Sorted(wait_list[l])'
    <3>1. \A l \in Locks : DOMAIN (wait_list'[l]) = 1 .. Len(wait_list'[l])
      BY SMTT(30), Z3T(30) DEF IInv, Types, TypeOK
    <3> QED
      BY <3>1 DEF WaitListOrdered, Sorted
  <2>1. wait_list[l] \in Seq(Tasks) /\ IsInjective(wait_list[l]) /\ Sorted(wait_list[l])
    BY ListTypes
  <2>2. ASSUME wait_list'[l] = wait_list[l]
        PROVE  Sorted(wait_list[l])'
    <3> SUFFICES ASSUME NEW i \in 1 .. Len(wait_list[l]), NEW j \in 1 .. Len(wait_list[l]), i < j,
                        wait_list[l][i] \in WwTasks, wait_list[l][j] \in WwTasks
                 PROVE  StampAfter(wait_list[l][j], wait_list[l][i])'
      BY <2>0, <2>2 DEF Sorted
    <3>1. PICK a \in Tasks, b \in Tasks : a = wait_list[l][i] /\ b = wait_list[l][j]
      BY <2>1, SMTT(30), Z3T(30)
    <3>2. StampAfter(b, a)
      BY <2>1, <3>1 DEF Sorted
    <3>3. Contains(wait_list[l], a) /\ Contains(wait_list[l], b)
      BY <3>1 DEF Contains
    <3>4. pc[a] # "idle" /\ pc[b] # "idle"
      BY <3>3 DEF QInv, Lined, Waiting
    <3>5. (a # t /\ b # t) \/ pc[t] # "idle"
      BY <3>4
    <3>6. StampAfter(b, a)'
      BY <2>0, <3>2, <3>5
    <3>7. a = wait_list'[l][i] /\ b = wait_list'[l][j]
      BY <2>2, <3>1
    <3> QED
      BY <3>6, <3>7 DEF StampAfter
  <2>3. ASSUME NEW r, wait_list'[l] = r, Sorted(r), pc[t] # "idle"
        PROVE  Sorted(wait_list[l])'
    <3>1. ASSUME NEW i \in 1 .. Len(r), NEW j \in 1 .. Len(r), i < j,
                 r[i] \in WwTasks, r[j] \in WwTasks
          PROVE  StampAfter(r[j], r[i])'
      <4>1. StampAfter(r[j], r[i])
        BY <2>3, <3>1 DEF Sorted
      <4> QED
        BY <2>0, <2>3, <4>1
    <3> QED
      BY <2>0, <2>3, <3>1 DEF Sorted
  <2>4. CASE Stays(t)
    BY <2>2, <2>4 DEF Stays
  <2>5. CASE Joins(t)
    <3>1. PICK k : JoinsAt(t, k)
      BY <2>5, JoinsFits
    <3>2. pc[t] # "idle"
      BY <2>5 DEF Joins
    <3>3. CASE l = lk[t]
      <4>1. PICK r : r = wait_list'[l]
        OBVIOUS
      <4>2. Fits(r, wait_list[l], t, k)
        BY <3>1, <3>3, <4>1 DEF JoinsAt
      <4>3. Sorted(r)
        BY <2>1, <4>2, <1>FitsSorted
      <4> QED
        BY <2>3, <3>2, <4>1, <4>3
    <3>4. CASE l # lk[t]
      BY <2>2, <3>1, <3>4 DEF JoinsAt
    <3> QED
      BY <3>3, <3>4
  <2>6. CASE Leaves(t)
    <3>1. /\ DelOK(wait_list'[lk[t]], wait_list[lk[t]], t)
          /\ \A m \in Locks : m # lk[t] => wait_list'[m] = wait_list[m]
      BY <2>6, LeavesDel
    <3>2. pc[t] # "idle"
      BY <2>6 DEF Leaves
    <3>3. CASE l = lk[t]
      <4>1. PICK r : r = wait_list'[l]
        OBVIOUS
      <4>2. DelOK(r, wait_list[l], t)
        BY <3>1, <3>3, <4>1
      <4>3. Sorted(r)
        BY <2>1, <4>2, ZenonT(60) DEF DelOK, Sorted
      <4> QED
        BY <2>3, <3>2, <4>1, <4>3
    <3>4. CASE l # lk[t]
      BY <2>2, <3>1, <3>4
    <3> QED
      BY <3>3, <3>4
  <2> QED
    BY <2>4, <2>5, <2>6, StepMoves
<1> QED
  BY <1>StepLined, <1>StepGuarded, <1>StepFlagged, <1>StepWakeQ, StepStampOrder, <1>StepOrdered
  DEF QInv

(* At the start the lists are empty.                                       *)
LEMMA InitQInv == Init => QInv
<1> SUFFICES ASSUME Init PROVE QInv
  OBVIOUS
<1>1. \A y : ~Contains(<<>>, y)
  BY SMTT(30), Z3T(30) DEF Contains
<1>2. IsInjective(<<>>)
  BY SMTT(30), Z3T(30) DEF IsInjective
<1>3. \A l \in Locks : wait_list[l] = <<>>
  BY DEF Init
<1>4. Lined
  BY <1>1, <1>2, <1>3 DEF Init, Lined, Waiting
<1>5. Guarded /\ Flagged /\ WakeQ
  BY <1>3 DEF Init, Guarded, Flagged, WakeQ
<1>6. WaitListOrdered
  BY <1>3, SMTT(30), Z3T(30) DEF WaitListOrdered
<1>7. IsInjective(ages)
  BY DEF Init, Bijection, Injection, IsInjective
<1> QED
  BY <1>4, <1>5, <1>6, <1>7 DEF QInv

(* A step is a step of some task.                                          *)
LEMMA StepTaken ==
  ASSUME Next
  PROVE  \E t \in Tasks : Step(t)
BY DEF Next, Step

(* Stuttering keeps it.                                                    *)
LEMMA SameQInv ==
  ASSUME QInv, UNCHANGED vars
  PROVE  QInv'
<1>1. /\ UNCHANGED <<pc, lk, flags, wait_list, wait_lock, wake_q, ages>>
      /\ WwTasks' = WwTasks
  BY SameContexts DEF vars, word, ww
<1>2. Lined'
  BY <1>1 DEF QInv, Lined
<1>3. Guarded' /\ WakeQ'
  BY <1>1 DEF QInv, Guarded, WakeQ
<1>4. Flagged'
  BY <1>1, ZenonT(60) DEF QInv, Flagged, Unset
<1>5. IsInjective(ages)'
  BY <1>1 DEF QInv
<1>6. WaitListOrdered'
  BY <1>1, SMTT(30), Z3T(30) DEF QInv, WaitListOrdered, StampAfter
<1> QED
  BY <1>2, <1>3, <1>4, <1>5, <1>6 DEF QInv

(* __ww_mutex_add_waiter() and ww_acquire_init() keep the waiters with a   *)
(* context in the order of their stamps, as the shortcuts of               *)
(* __ww_mutex_lock_check_stamp() and __ww_mutex_wakeup_for_backoff() need. *)
THEOREM WaitersAreOrdered == Spec => []WaitListOrdered
<1>1. IInv /\ QInv /\ [Next]_vars => QInv'
  BY StepIInv, StepTaken, StepQInv, SameQInv
<1>2. QInv => WaitListOrdered
  BY DEF QInv
<1> QED
  BY <1>1, <1>2, InitIInv, InitQInv, StepIInv, PTL DEF Spec

-----------------------------------------------------------------------------
(* Wakeups.                                                                *)
(* A step wakes tasks, and puts only t to sleep. *)
Dozes(t) ==
  \A u \in Tasks : Asleep(u)' => Asleep(u) \/ (u = t /\ pc[t] = "top" /\ pc'[t] = "sched")
Marked(h) == \E u \in Tasks : h \in wake_q'[u]

(* Only the top of the waiting loop leads to schedule().                   *)
LEMMA StepToSleep ==
  ASSUME IInv, NEW t \in Tasks, Step(t), pc'[t] = "sched"
  PROVE  pc[t] = "sched" \/ LoopTop(t)
<1>0. pc \in [Tasks -> Locs]
  BY DEF IInv, Types, TypeOK
<1>1. CASE Signal(t) \/ StrayWakeup(t) \/ AcquireInit(t) \/ \E l \in Locks : TryLock(t, l)
  BY <1>1 DEF Signal, StrayWakeup, AcquireInit, TryLock
<1>2. \A l \in Locks : Lock(t, l) \/ Unlock(t, l) => pc'[t] # "sched"
  BY <1>0 DEF Lock, Unlock, Goto
<1>3. ~(FastSetContext(t) \/ FastCheckWaiters(t) \/ FastWake(t) \/ SlowTry(t))
  BY <1>0 DEF FastSetContext, FastCheckWaiters, FastWake, SlowTry, Goto, Return
<1>4. ~(Queue(t) \/ SetWaiters(t) \/ CheckFirst(t) \/ AskHandoff(t) \/ WaiterTry(t))
  <2>1. ~Queue(t)
    <3>1. Queue(t) => pc'[t] \in {"flag", "idle"}
      BY <1>0 DEF Queue, Goto, Return
    <3> QED
      BY <3>1
  <2>2. ~(SetWaiters(t) \/ CheckFirst(t) \/ AskHandoff(t) \/ WaiterTry(t))
    BY <1>0 DEF SetWaiters, CheckFirst, AskHandoff, WaiterTry, Goto
  <2> QED
    BY <2>1, <2>2
<1>5. ~(Acquired(t) \/ UnlockFast(t) \/ UnlockSlow(t) \/ UnlockWaiters(t) \/ WakeUpQ(t))
  BY <1>0 DEF Acquired, UnlockFast, UnlockSlow, UnlockWaiters, WakeUpQ, Goto, Return, Unlocked
<1> QED
  BY <1>1, <1>2, <1>3, <1>4, <1>5 DEF Step

(* No step puts another task to sleep.                                     *)
LEMMA StepDozes ==
  \A t \in Tasks :
    IInv /\ QInv /\ Step(t) => Dozes(t)
<1>StepStates.
  ASSUME IInv, NEW t \in Tasks, Step(t), NEW u \in Tasks, u # t \/ pc'[t] = "sched"
  PROVE  state'[u] = state[u] \/ state'[u] = "RUNNING"
  <2> USE <1>StepStates
  <2>0. /\ pc \in [Tasks -> Locs]
        /\ state \in [Tasks -> {"RUNNING", "INTERRUPTIBLE", "UNINTERRUPTIBLE"}]
    BY DEF IInv, Types, TypeOK
  <2>1. CASE UNCHANGED state
    BY <2>1
  <2>2. CASE \E S : Woken(S)
    BY <2>2 DEF Woken
  <2>3. CASE \E s : SetState(t, s) /\ pc'[t] # "sched"
    BY <2>0, <2>3 DEF SetState
  <2>4. CASE Signal(t) \/ StrayWakeup(t)
    BY <2>0, <2>4 DEF Signal, StrayWakeup, SetState
  <2>5. SetWaiters(t) \/ CheckFirst(t) \/ AskHandoff(t) \/ Acquired(t)
        => \E s : SetState(t, s) /\ pc'[t] # "sched"
    <3>1. SetWaiters(t) => pc'[t] = "top" /\ \E s : SetState(t, s)
      BY <2>0 DEF SetWaiters, Goto
    <3>2. CheckFirst(t) => pc'[t] \in {"hand", "try"} /\ \E s : SetState(t, s)
      BY <2>0 DEF CheckFirst, Goto
    <3>3. AskHandoff(t) => pc'[t] = "try" /\ \E s : SetState(t, s)
      BY <2>0 DEF AskHandoff, Goto
    <3>4. Acquired(t) => pc'[t] = "idle" /\ \E s : SetState(t, s)
      BY <2>0 DEF Acquired, Goto, Return
    <3>5. \A p : p \in {"top", "hand", "try", "idle"} => p # "sched"
      OBVIOUS
    <3> QED
      BY <3>1, <3>2, <3>3, <3>4, <3>5
  <2>6. LoopTop(t) => UNCHANGED state \/ \E s : SetState(t, s) /\ pc'[t] # "sched"
    <3>1. LoopTop(t) => UNCHANGED state \/ (pc'[t] = "idle" /\ \E s : SetState(t, s))
      BY <2>0 DEF LoopTop, Goto, Return, sleep
    <3>2. "idle" # "sched"
      OBVIOUS
    <3> QED
      BY <3>1, <3>2
  <2>7. FastWake(t) \/ Queue(t) \/ WakeUpQ(t) => \E S : Woken(S)
    BY DEF FastWake, Queue, WakeUpQ
  <2>8. \A l \in Locks : Lock(t, l) \/ TryLock(t, l) \/ Unlock(t, l) => UNCHANGED state
    BY DEF Lock, TryLock, Unlock, sleep
  <2>9. FastSetContext(t) \/ FastCheckWaiters(t) \/ SlowTry(t) \/ WaiterTry(t) => UNCHANGED state
    BY DEF FastSetContext, FastCheckWaiters, SlowTry, WaiterTry, sleep
  <2>10. UnlockFast(t) \/ UnlockSlow(t) \/ UnlockWaiters(t) \/ AcquireInit(t) => UNCHANGED state
    BY DEF UnlockFast, UnlockSlow, UnlockWaiters, AcquireInit, sleep
  <2> QED
    BY <2>1, <2>2, <2>3, <2>4, <2>5, <2>6, <2>7, <2>8, <2>9, <2>10, ZenonT(60) DEF Step
(* A task that is on a wake_q leaves it when it is woken. *)
<1>StepMarks.
  ASSUME IInv, QInv, NEW t \in Tasks, Step(t), NEW u \in Tasks, NEW v \in Tasks, u \in wake_q[v]
  PROVE  u \in wake_q'[v] \/ state'[u] = "RUNNING"
  <2> USE <1>StepMarks
  <2>0. wake_q \in [Tasks -> SUBSET Tasks]
    BY DEF IInv, Types, TypeOK
  <2>1. CASE UnlockWaiters(t)
    <3>1. wake_q[t] = {}
      BY <2>1 DEF UnlockWaiters, QInv, WakeQ
    <3> QED
      BY <2>0, <2>1, <3>1 DEF UnlockWaiters
  <2>2. CASE WakeUpQ(t)
    BY <2>0, <2>2 DEF WakeUpQ, Woken
  <2>3. CASE ~UnlockWaiters(t) /\ ~WakeUpQ(t)
    <3>1. wake_q' = wake_q
      BY <2>3
      DEF Step, Lock, TryLock, Unlock, FastSetContext, FastCheckWaiters, FastWake, SlowTry,
          Queue, SetWaiters, LoopTop, CheckFirst, AskHandoff, WaiterTry, Acquired, UnlockFast,
          UnlockSlow, AcquireInit, Signal, StrayWakeup
    <3> QED
      BY <3>1
  <2> QED
    BY <2>1, <2>2, <2>3
<1> SUFFICES ASSUME IInv, QInv, NEW t \in Tasks, Step(t)
             PROVE  Dozes(t)
  OBVIOUS
<1> SUFFICES ASSUME NEW u \in Tasks, pc'[u] = "sched", state'[u] # "RUNNING",
                    \A v \in Tasks : u \notin wake_q'[v],
                    ~(u = t /\ pc[t] = "top" /\ pc'[t] = "sched")
             PROVE  Asleep(u)
  BY DEF Dozes, Asleep
<1>1. pc[u] = "sched"
  <2>1. CASE u = t
    BY <2>1, StepToSleep DEF LoopTop
  <2>2. CASE u # t
    BY <2>2, StepOthers DEF Others
  <2> QED
    BY <2>1, <2>2
<1>2. state[u] # "RUNNING"
  BY <1>StepStates
<1>3. \A v \in Tasks : u \notin wake_q[v]
  BY <1>StepMarks
<1> QED
  BY <1>1, <1>2, <1>3 DEF Asleep

(* The owner word names the task that has the lock.                        *)
LEMMA HolderOwns ==
  ASSUME IInv, NEW t \in Tasks, NEW l \in Locks, HasLock(t, l)
  PROVE  owner[l] = t
BY DEF IInv, Exclusive

(* All of it is an invariant. *)
WInv == QInv /\ NoLostWakeup /\ PickupWillHappen

(* At the start nobody waits.                                              *)
LEMMA InitWInv == Init => WInv
<1> SUFFICES ASSUME Init PROVE WInv
  OBVIOUS
<1>1. NoLostWakeup
  BY DEF Init, NoLostWakeup
<1>2. PickupWillHappen
  BY DEF Init, PickupWillHappen
<1> QED
  BY <1>1, <1>2, InitQInv DEF WInv

(* Every step keeps it: a waiter that is awake, or an unlocking task on    *)
(* its way to wake one, stays until the lock is taken.                     *)
LEMMA StepWInv == IInv /\ WInv /\ [Next]_vars => WInv'
(* A waiter goes to sleep or leaves only when the lock is not for it. *)
<1>StepParts.
  ASSUME IInv, NEW t \in Tasks, Step(t), Leaves(t) \/ (pc[t] = "top" /\ pc'[t] = "sched")
  PROVE  \/ pc[t] = "top" /\ LoopTop(t) /\ ~CanTake(t, lk[t])
         \/ pc[t] = "acq" /\ Acquired(t)
  <2> USE <1>StepParts
  <2>0. pc \in [Tasks -> Locs]
    BY DEF IInv, Types, TypeOK
  <2>1. pc[t] \in {"top", "acq"} /\ pc'[t] \in {"idle", "sched"}
    BY DEF Leaves
  <2>2. LoopTop(t) \/ Acquired(t)
    <3>1. pc'[t] # pc[t]
      BY <2>1
    <3>2. ~Signal(t) /\ ~StrayWakeup(t) /\ ~AcquireInit(t)
      BY <3>1 DEF Signal, StrayWakeup, AcquireInit
    <3>3. \A l \in Locks : ~Lock(t, l) /\ ~TryLock(t, l) /\ ~Unlock(t, l)
      BY <2>1 DEF Lock, TryLock, Unlock
    <3>4. ~(FastSetContext(t) \/ FastCheckWaiters(t) \/ FastWake(t) \/ SlowTry(t) \/ Queue(t))
      BY <2>1 DEF FastSetContext, FastCheckWaiters, FastWake, SlowTry, Queue
    <3>5. ~(SetWaiters(t) \/ CheckFirst(t) \/ AskHandoff(t) \/ WaiterTry(t))
      BY <2>1 DEF SetWaiters, CheckFirst, AskHandoff, WaiterTry
    <3>6. ~(UnlockFast(t) \/ UnlockSlow(t) \/ UnlockWaiters(t) \/ WakeUpQ(t))
      BY <2>1 DEF UnlockFast, UnlockSlow, UnlockWaiters, WakeUpQ
    <3> QED
      BY <3>2, <3>3, <3>4, <3>5, <3>6 DEF Step
  <2>3. ASSUME LoopTop(t), CanTake(t, lk[t])
        PROVE  FALSE
    <3>1. pc'[t] = "acq"
      BY <2>0, <2>3 DEF LoopTop, LoopTakes, Goto
    <3> QED
      BY <2>1, <3>1
  <2> QED
    BY <2>2, <2>3 DEF LoopTop, Acquired
<1>StepStaysOn.
  ASSUME IInv, QInv, NEW t \in Tasks, Step(t), NEW l \in Locks, NEW u \in Tasks,
         Contains(wait_list[l], u)
  PROVE  Contains(wait_list'[l], u) \/ (u = t /\ lk[t] = l /\ Leaves(t))
  <2> USE <1>StepStaysOn
  <2>1. CASE Stays(t)
    BY <2>1 DEF Stays
  <2>2. CASE Joins(t)
    BY <2>2, JoinsFits DEF JoinsAt
  <2>3. CASE Leaves(t)
    BY <2>3, LeavesDel, ZenonT(60) DEF DelOK
  <2> QED
    BY <2>1, <2>2, <2>3, StepMoves
(* A waiter that is awake stays so, unless it finds the lock taken. *)
<1>StepStaysAwake.
  ASSUME IInv, QInv, NEW t \in Tasks, Step(t), NEW l \in Locks, NEW u \in Tasks,
         Contains(wait_list[l], u), ~Asleep(u)
  PROVE  \/ Contains(wait_list'[l], u) /\ ~Asleep(u)'
         \/ u = t /\ lk[t] = l /\ (~CanTake(t, l) \/ HasLock(t, l))
  <2> USE <1>StepStaysAwake
  <2>1. CASE Leaves(t) \/ (pc[t] = "top" /\ pc'[t] = "sched")
    <3>1. ~CanTake(t, lk[t]) \/ HasLock(t, lk[t])
      BY <2>1, <1>StepParts DEF HasLock
    <3>2. CASE u = t
      <4>1. lk[t] = l
        BY <3>2 DEF QInv, Lined
      <4> QED
        BY <3>1, <3>2, <4>1
    <3>3. CASE u # t
      BY <3>3, <1>StepStaysOn, StepDozes DEF Dozes
    <3> QED
      BY <3>2, <3>3
  <2>2. CASE ~Leaves(t) /\ ~(pc[t] = "top" /\ pc'[t] = "sched")
    BY <2>2, <1>StepStaysOn, StepDozes DEF Dozes
  <2> QED
    BY <2>1, <2>2
<1>MarkedIsAwake.
  ASSUME NEW h, Marked(h)
  PROVE  ~Asleep(h)'
  BY <1>MarkedIsAwake DEF Marked, Asleep
(* __mutex_unlock_slowpath() wakes the first waiter. *)
<1>HeadIsMarked.
  ASSUME IInv, QInv, NEW t \in Tasks, UnlockWaiters(t), wait_list[lk[t]] # <<>>
  PROVE  Marked(Head(wait_list[lk[t]])) /\ Head(wait_list[lk[t]]) # None
  <2> USE <1>HeadIsMarked
  <2>1. /\ pc[t] = "uwake" /\ lk[t] \in Locks
        /\ wake_q \in [Tasks -> SUBSET Tasks]
    BY DEF UnlockWaiters, IInv, Types, TypeOK, CallHasLock
  <2>2. wake_q[t] = {}
    BY <2>1 DEF QInv, WakeQ
  <2>3. PICK h \in Tasks : h = Head(wait_list[lk[t]])
    BY <2>1, ListTypes, HeadIsIn
  <2>4. h # None
    BY ConstTypes
  <2>5. wake_q' = [wake_q EXCEPT ![t] = Unmarked({h} \ {None})]
    BY <2>3 DEF UnlockWaiters
  <2>6. CASE \E u \in Tasks : h \in wake_q[u]
    BY <2>1, <2>2, <2>3, <2>4, <2>5, <2>6 DEF Marked
  <2>7. CASE ~\E u \in Tasks : h \in wake_q[u]
    <3>1. h \in Unmarked({h} \ {None})
      BY <2>4, <2>7 DEF Unmarked
    <3> QED
      BY <2>1, <2>3, <2>4, <2>5, <3>1 DEF Marked
  <2> QED
    BY <2>6, <2>7
(* Who releases a lock that has waiters goes on to wake one. *)
<1>StepFrees.
  ASSUME IInv, QInv, NEW t \in Tasks, Step(t), NEW l \in Locks, owner[l] # None, owner'[l] = None
  PROVE  \/ pc'[t] = "uwake" /\ lk'[t] = l
         \/ "WAITERS" \notin flags'[l] \/ wait_list'[l] = <<>>
  <2> USE <1>StepFrees
  <2>0. /\ pc \in [Tasks -> Locs]
        /\ owner \in [Locks -> Tasks \cup {None}]
        /\ pc[t] # "idle" => lk[t] \in Locks
        /\ None \notin Tasks
    BY ConstTypes DEF IInv, Types, TypeOK, CallHasLock
  <2>1. UnlockFast(t) \/ UnlockSlow(t) \/ UnlockWaiters(t)
    <3>1. ~(owner' = owner) /\ \A k \in Locks : ~Take(t, k) /\ owner' # [owner EXCEPT ![k] = t]
      BY <2>0 DEF Take
    <3> QED
      BY <2>0, <3>1
      DEF Step, Lock, TryLock, Unlock, FastSetContext, FastCheckWaiters, FastWake, SlowTry,
          Queue, SetWaiters, LoopTop, CheckFirst, AskHandoff, WaiterTry, Acquired,
          WakeUpQ, AcquireInit, Signal, StrayWakeup, word, SetFlag
  <2>2. CASE UnlockFast(t)
    BY <2>0, <2>2 DEF UnlockFast
  <2>3. CASE UnlockSlow(t)
    BY <2>0, <2>3 DEF UnlockSlow, Goto
  <2>4. CASE UnlockWaiters(t)
    <3>1. lk[t] = l
      BY <2>0, <2>4 DEF UnlockWaiters, word
    <3>2. wait_list' = wait_list
      BY <2>4 DEF UnlockWaiters
    <3>3. CASE wait_list[l] # <<>>
      <4>1. owner'[l] = owner[l] \/ owner'[l] = Head(wait_list[l])
        BY <2>0, <2>4, <3>1, <3>3 DEF UnlockWaiters, word
      <4> QED
        BY <2>4, <3>1, <3>3, <4>1, <1>HeadIsMarked
    <3> QED
      BY <3>2, <3>3
  <2> QED
    BY <2>1, <2>2, <2>3, <2>4
<1>StepUwake.
  ASSUME IInv, QInv, NEW t \in Tasks, Step(t), pc[t] = "uwake"
  PROVE  UnlockWaiters(t) \/ (pc'[t] = "uwake" /\ lk'[t] = lk[t])
  <2> USE <1>StepUwake
  <2>1. \A l \in Locks : ~Lock(t, l) /\ ~TryLock(t, l) /\ ~Unlock(t, l)
    BY DEF Lock, TryLock, Unlock
  <2>2. ~(FastSetContext(t) \/ FastCheckWaiters(t) \/ FastWake(t) \/ SlowTry(t) \/ Queue(t))
    BY DEF FastSetContext, FastCheckWaiters, FastWake, SlowTry, Queue
  <2>3. ~(SetWaiters(t) \/ LoopTop(t) \/ CheckFirst(t) \/ AskHandoff(t) \/ WaiterTry(t))
    BY DEF SetWaiters, LoopTop, CheckFirst, AskHandoff, WaiterTry
  <2>4. ~(Acquired(t) \/ UnlockFast(t) \/ UnlockSlow(t) \/ WakeUpQ(t) \/ AcquireInit(t))
    BY DEF Acquired, UnlockFast, UnlockSlow, WakeUpQ, AcquireInit
  <2>5. Signal(t) \/ StrayWakeup(t) => pc'[t] = "uwake" /\ lk'[t] = lk[t]
    BY DEF Signal, StrayWakeup
  <2> QED
    BY <2>1, <2>2, <2>3, <2>4, <2>5 DEF Step
<1>StepNoLostWakeup.
  ASSUME IInv, IInv', QInv, QInv', NoLostWakeup, NEW t \in Tasks, Step(t)
  PROVE  NoLostWakeup'
  <2> USE <1>StepNoLostWakeup
  <2> DEFINE Ok(l) == \/ \E u \in Tasks : Contains(wait_list[l], u) /\ ~Asleep(u)
                      \/ \E u \in Tasks : pc[u] = "uwake" /\ lk[u] = l
  <2>a. \A l \in Locks : \A u : u \in Range(wait_list[l]) <=> u \in Tasks /\ Contains(wait_list[l], u)
    <3> SUFFICES ASSUME NEW l \in Locks, NEW u
                 PROVE  u \in Range(wait_list[l]) <=> u \in Tasks /\ Contains(wait_list[l], u)
      OBVIOUS
    <3>1. wait_list[l] \in Seq(Tasks)
      BY ListTypes
    <3> QED
      BY <3>1, SMTT(30), Z3T(30) DEF Range, Contains
  <2>b. \A l \in Locks : \A u : u \in Tasks /\ Contains(wait_list'[l], u) => u \in Range(wait_list'[l])
    <3> SUFFICES ASSUME NEW l \in Locks, NEW u \in Tasks, Contains(wait_list'[l], u)
                 PROVE  u \in Range(wait_list'[l])
      OBVIOUS
    <3>1. wait_list'[l] \in Seq(Tasks)
      BY DEF IInv, Types, TypeOK
    <3> QED
      BY <3>1, SMTT(30), Z3T(30) DEF Range, Contains
  <2> SUFFICES ASSUME NEW l \in Locks, wait_list'[l] # <<>>, owner'[l] = None
               PROVE  Ok(l)'
    BY <2>b DEF NoLostWakeup
  <2>0. Others(t) /\ Dozes(t) /\ None \notin Tasks
    BY StepOthers, StepDozes, ConstTypes
  <2>1. CASE owner[l] # None
    <3>1. CASE pc'[t] = "uwake" /\ lk'[t] = l
      BY <3>1
    <3>2. CASE "WAITERS" \notin flags'[l]
      <4>1. PICK u \in Tasks : pc'[u] = "flag" /\ Contains(wait_list'[l], u)
        BY <3>2 DEF QInv, Flagged, Unset
      <4>2. ~Asleep(u)'
        BY <4>1 DEF Asleep
      <4> QED
        BY <4>1, <4>2
    <3> QED
      BY <2>1, <3>1, <3>2, <1>StepFrees
  <2>2. CASE owner[l] = None /\ wait_list[l] = <<>>
    <3>0. \A u : ~Contains(<<>>, u)
      BY SMTT(30), Z3T(30) DEF Contains
    <3>1. Joins(t) /\ lk[t] = l
      <4>1. ~Stays(t)
        BY <2>2 DEF Stays
      <4>2. CASE Leaves(t)
        <5>1. l # lk[t]
          BY <2>2, <3>0, <4>2, SMTT(30), Z3T(30) DEF Leaves, QInv, Lined, Waiting
        <5> QED
          BY <2>2, <4>2, <5>1, LeavesDel, ZenonT(60)
      <4>3. CASE Joins(t)
        BY <2>2, <4>3, JoinsFits DEF JoinsAt
      <4> QED
        BY <4>1, <4>2, <4>3, StepMoves
    <3>2. Contains(wait_list'[l], t) /\ pc'[t] = "flag"
      BY <3>1, JoinsFits DEF JoinsAt, Joins
    <3>3. ~Asleep(t)'
      BY <3>2 DEF Asleep
    <3> QED
      BY <3>2, <3>3
  <2>3. CASE owner[l] = None /\ wait_list[l] # <<>>
    <3>1. Ok(l)
      BY <2>3, <2>a DEF NoLostWakeup
    <3>2. ASSUME NEW u \in Tasks, Contains(wait_list[l], u), ~Asleep(u)
          PROVE  Ok(l)'
      <4>1. CASE Contains(wait_list'[l], u) /\ ~Asleep(u)'
        BY <4>1
      <4>2. CASE ~CanTake(t, l) \/ HasLock(t, l)
        <5>1. CanTake(t, l)
          BY <2>3 DEF CanTake
        <5>2. HasLock(t, l) => owner[l] = t
          BY HolderOwns
        <5> QED
          BY <2>0, <2>3, <4>2, <5>1, <5>2
      <4> QED
        BY <3>2, <4>1, <4>2, <1>StepStaysAwake
    <3>3. ASSUME NEW u \in Tasks, pc[u] = "uwake", lk[u] = l
          PROVE  Ok(l)'
      <4>1. CASE u # t \/ (pc'[t] = "uwake" /\ lk'[t] = lk[t])
        BY <2>0, <3>3, <4>1 DEF Others
      <4>2. CASE u = t /\ UnlockWaiters(t)
        <5>1. PICK h \in Tasks : h = Head(wait_list[l]) /\ Contains(wait_list[l], h)
          BY <2>3, ListTypes, HeadIsIn
        <5>2. Marked(h) /\ wait_list' = wait_list
          BY <2>3, <3>3, <4>2, <5>1, <1>HeadIsMarked DEF UnlockWaiters
        <5>3. ~Asleep(h)'
          BY <5>2, <1>MarkedIsAwake
        <5> QED
          BY <5>1, <5>2, <5>3
      <4> QED
        BY <3>3, <4>1, <4>2, <1>StepUwake
    <3> QED
      BY <3>1, <3>2, <3>3
  <2> QED
    BY <2>1, <2>2, <2>3
(* Only __mutex_handoff() sets MUTEX_FLAG_PICKUP, and what was handed over *)
(* is taken from nobody.                                                   *)
<1>StepPickups.
  ASSUME IInv, QInv, NEW t \in Tasks, Step(t), NEW l \in Locks, "PICKUP" \in flags'[l]
  PROVE  \/ "PICKUP" \in flags[l] /\ owner'[l] = owner[l]
         \/ /\ wait_list[l] # <<>> /\ wait_list' = wait_list
            /\ owner'[l] = Head(wait_list[l]) /\ Marked(Head(wait_list[l]))
  <2> USE <1>StepPickups
  <2>0. /\ pc \in [Tasks -> Locs]
        /\ owner \in [Locks -> Tasks \cup {None}] /\ flags \in [Locks -> SUBSET Flags]
        /\ pc[t] # "idle" => lk[t] \in Locks
        /\ None \notin Tasks
        /\ "PICKUP" \in flags[l] => owner[l] # None
        /\ pc[t] \in {"ufast", "uslow"} => owner[lk[t]] = t /\ "PICKUP" \notin flags[lk[t]]
    BY ConstTypes DEF IInv, Types, TypeOK, CallHasLock, Exclusive, HasLock
  <2>1. CASE UNCHANGED word
    BY <2>1 DEF word
  <2>2. CASE \E k \in Locks : CanTake(t, k) /\ Take(t, k)
    BY <2>0, <2>2, ZenonT(60) DEF CanTake, Take
  <2>3. CASE \E k \in Locks, f \in {"WAITERS", "HANDOFF"} : SetFlag(k, f)
    BY <2>0, <2>3, SMTT(30), Z3T(30) DEF SetFlag
  <2>4. CASE \E k \in Locks : owner[k] = None /\ owner' = [owner EXCEPT ![k] = t] /\ flags' = flags
    BY <2>0, <2>4
  <2>5. CASE UnlockFast(t)
    BY <2>0, <2>5 DEF UnlockFast
  <2>6. CASE UnlockSlow(t)
    BY <2>0, <2>6 DEF UnlockSlow
  <2>7. CASE UnlockWaiters(t)
    <3>0. UNCHANGED word \/ l # lk[t] \/
          (wait_list[lk[t]] # <<>> /\ owner'[l] = Head(wait_list[lk[t]]))
      <4> DEFINE next == IF wait_list[lk[t]] = <<>> THEN None ELSE Head(wait_list[lk[t]])
      <4>1. \/ UNCHANGED word
            \/ /\ owner' = [owner EXCEPT ![lk[t]] = next]
               /\ flags' = [flags EXCEPT ![lk[t]] =
                    (@ \cap {"WAITERS"}) \cup (IF next = None THEN {} ELSE {"PICKUP"})]
        BY <2>7 DEF UnlockWaiters
      <4> QED
        BY <2>0, <4>1, SMTT(30), Z3T(30)
    <3>1. CASE l # lk[t]
      BY <2>0, <2>7, <3>1 DEF UnlockWaiters, word
    <3>2. wait_list' = wait_list
      BY <2>7 DEF UnlockWaiters
    <3> QED
      BY <2>1, <2>7, <3>0, <3>1, <3>2, <1>HeadIsMarked, ZenonT(60)
  <2>8. CASE Acquired(t)
    BY <2>0, <2>8 DEF Acquired
  <2>9. \A k \in Locks : Lock(t, k) =>
          \/ UNCHANGED word
          \/ owner[k] = None /\ owner' = [owner EXCEPT ![k] = t] /\ flags' = flags
    BY DEF Lock, word
  <2>10. \A k \in Locks : TryLock(t, k) \/ Unlock(t, k) => UNCHANGED word \/ (CanTake(t, k) /\ Take(t, k))
    BY DEF TryLock, Unlock
  <2>11. SlowTry(t) \/ Queue(t) \/ LoopTop(t) \/ WaiterTry(t) =>
           UNCHANGED word \/ \E k \in Locks : CanTake(t, k) /\ Take(t, k)
    <3>1. SlowTry(t) \/ Queue(t) \/ LoopTop(t) \/ WaiterTry(t) => lk[t] \in Locks
      BY <2>0 DEF SlowTry, Queue, LoopTop, WaiterTry
    <3> QED
      BY <3>1 DEF SlowTry, Queue, LoopTop, LoopTakes, WaiterTry
  <2>12. SetWaiters(t) \/ AskHandoff(t) =>
           UNCHANGED word \/ \E k \in Locks, f \in {"WAITERS", "HANDOFF"} : SetFlag(k, f)
    <3>1. SetWaiters(t) \/ AskHandoff(t) => lk[t] \in Locks
      BY <2>0 DEF SetWaiters, AskHandoff
    <3> QED
      BY <3>1 DEF SetWaiters, AskHandoff
  <2>13. \/ FastSetContext(t) \/ FastCheckWaiters(t) \/ FastWake(t) \/ CheckFirst(t)
         \/ WakeUpQ(t) \/ AcquireInit(t) \/ Signal(t) \/ StrayWakeup(t)
         => UNCHANGED word
    BY DEF FastSetContext, FastCheckWaiters, FastWake, CheckFirst, WakeUpQ, AcquireInit,
                 Signal, StrayWakeup
  <2>14. CASE \E k \in Locks : Lock(t, k) \/ TryLock(t, k) \/ Unlock(t, k)
    BY <2>1, <2>2, <2>4, <2>9, <2>10, <2>14
  <2>15. CASE SlowTry(t) \/ Queue(t) \/ LoopTop(t) \/ WaiterTry(t)
    BY <2>1, <2>2, <2>11, <2>15
  <2>16. CASE SetWaiters(t) \/ AskHandoff(t)
    BY <2>1, <2>3, <2>12, <2>16
  <2> QED
    BY <2>1, <2>5, <2>6, <2>7, <2>8, <2>13, <2>14, <2>15, <2>16, ZenonT(60) DEF Step
<1>StepPickup.
  ASSUME IInv, QInv, PickupWillHappen, NEW t \in Tasks, Step(t)
  PROVE  PickupWillHappen'
  <2> USE <1>StepPickup
  <2> SUFFICES ASSUME NEW l \in Locks, "PICKUP" \in flags'[l]
               PROVE  Contains(wait_list'[l], owner'[l]) /\ ~Asleep(owner[l])'
    BY DEF PickupWillHappen
  <2>1. CASE "PICKUP" \in flags[l] /\ owner'[l] = owner[l]
    <3>0. owner[l] \in Tasks
      BY <2>1, ExclusiveTypes, SMTT(30), Z3T(30) DEF Exclusive
    <3>1. PICK u \in Tasks : u = owner[l]
      BY <3>0
    <3>2. Contains(wait_list[l], u) /\ ~Asleep(u)
      BY <2>1, <3>1 DEF PickupWillHappen
    <3>3. CASE Contains(wait_list'[l], u) /\ ~Asleep(u)'
      <4>1. u = owner'[l]
        BY <2>1, <3>1
      <4> QED
        BY <3>3, <4>1 DEF Asleep
    <3>4. CASE u = t /\ (~CanTake(t, l) \/ HasLock(t, l))
      BY <2>1, <3>1, <3>4 DEF CanTake, IInv, Exclusive
    <3> QED
      BY <3>2, <3>3, <3>4, <1>StepStaysAwake, ZenonT(60)
  <2>2. CASE /\ wait_list[l] # <<>> /\ wait_list' = wait_list
             /\ owner'[l] = Head(wait_list[l]) /\ Marked(Head(wait_list[l]))
    <3>1. PICK h \in Tasks : h = Head(wait_list[l]) /\ Contains(wait_list[l], h)
      BY <2>2, ListTypes, HeadIsIn
    <3>2. Contains(wait_list'[l], h) /\ h = owner'[l] /\ Marked(h)
      BY <2>2, <3>1
    <3>3. ~Asleep(h)'
      BY <3>2, <1>MarkedIsAwake
    <3> QED
      BY <3>2, <3>3 DEF Asleep
  <2> QED
    BY <2>1, <2>2, <1>StepPickups
<1> SUFFICES ASSUME IInv, WInv, [Next]_vars
             PROVE  WInv'
  OBVIOUS
<1>1. ASSUME NEW t \in Tasks, Step(t), IInv'
      PROVE  WInv'
  BY <1>1, StepQInv, <1>StepNoLostWakeup, <1>StepPickup DEF WInv
<1>2. CASE Next
  BY <1>1, <1>2, StepTaken, StepIInv
<1>3. CASE UNCHANGED vars
  <2>1. UNCHANGED <<pc, lk, owner, flags, wait_list, wake_q, state>>
    BY <1>3 DEF vars, word, sleep
  <2>2. \A u : Asleep(u)' <=> Asleep(u)
    BY <2>1 DEF Asleep
  <2>3. NoLostWakeup'
    BY <2>1 DEF WInv, NoLostWakeup, Asleep
  <2>4. PickupWillHappen'
    BY <2>1 DEF WInv, PickupWillHappen, Asleep
  <2> QED
    BY <1>3, <2>3, <2>4, SameQInv DEF WInv
<1> QED
  BY <1>2, <1>3

(* No interleaving of the unlock fast path, __mutex_unlock_slowpath() and  *)
(* __mutex_lock_common(), which look at the owner word outside wait_lock,  *)
(* leaves a free lock whose waiters are all asleep.                        *)
THEOREM MutexLosesNoWakeup == Spec => []NoLostWakeup
<1>1. WInv => NoLostWakeup
  BY DEF WInv
<1> QED
  BY <1>1, InitIInv, InitWInv, StepIInv, StepWInv, PTL DEF Spec

(* A waiter to which __mutex_handoff() gave the lock is on the list and    *)
(* awake or about to be woken until it picks the lock up: neither a signal *)
(* nor an older context makes it leave without.                            *)
THEOREM HandoffsArePickedUp == Spec => []PickupWillHappen
<1>1. WInv => PickupWillHappen
  BY DEF WInv
<1> QED
  BY <1>1, InitIInv, InitWInv, StepIInv, StepWInv, PTL DEF Spec

-----------------------------------------------------------------------------
(* __ww_mutex_add_waiter() and __ww_mutex_lock_check_stamp() return        *)
(* -EDEADLK to a task that holds locks only for an older context that has  *)
(* the lock or waits for it.                                               *)
THEOREM BacksOffOnlyForOlder == Spec => BacksOffForOlder
<1>RefusedForOlder.
  ASSUME IInv, QInv, NEW t \in Tasks, Step(t), NEW u \in WwTasks, backoff'[u], ~backoff[u]
  PROVE  \E v \in WwTasks : /\ StampAfter(u, v)
                            /\ ctx[lk[u]] = v \/ Contains(wait_list[lk[u]], v)
  <2> USE <1>RefusedForOlder
  <2>0. /\ backoff \in [Tasks -> BOOLEAN] /\ ctx \in [Locks -> WwTasks \cup {None}]
        /\ pc[t] # "idle" => lk[t] \in Locks
        /\ WwTasks \subseteq Tasks
    BY ConstTypes DEF IInv, Types, TypeOK, CallHasLock
  <2>1. Refuse(t) /\ (Queue(t) \/ LoopTop(t))
    <3>1. ~(backoff' = backoff)
      OBVIOUS
    <3>2. \A l \in Locks : ~Unlock(t, l)
      BY <2>0 DEF Unlock
    <3> QED
      BY <3>1, <3>2
      DEF Step, Lock, TryLock, FastSetContext, FastCheckWaiters, FastWake, SlowTry,
          Queue, SetWaiters, LoopTop, CheckFirst, AskHandoff, WaiterTry, Acquired, UnlockFast,
          UnlockSlow, UnlockWaiters, WakeUpQ, AcquireInit, Signal, StrayWakeup, caller, Got
  <2>2. u = t
    BY <2>0, <2>1 DEF Refuse
  <2>3. lk[t] \in Locks
    BY <2>0, <2>1 DEF Queue, LoopTop
  <2>4. wait_list[lk[t]] \in Seq(Tasks)
    BY <2>3, ListTypes
  <2>5. DOMAIN wait_list[lk[t]] = 1 .. Len(wait_list[lk[t]])
    BY <2>4, SMTT(30), Z3T(30)
  <2>6. CASE Queue(t)
    <3>1. Older(t, wait_list[lk[t]]) # {}
      <4>1. backoff' # backoff
        OBVIOUS
      <4> QED
        BY <2>6, <4>1 DEF Queue, Got, caller
    <3> QED
      BY <2>2, <2>5, <3>1 DEF Older, Contains
  <2>7. CASE LoopTop(t)
    <3>1. MustDie(t, lk[t])
      <4>1. backoff' # backoff
        OBVIOUS
      <4> QED
        BY <2>7, <4>1 DEF LoopTop, caller
    <3>2. CASE ctx[lk[t]] # None /\ StampAfter(t, ctx[lk[t]])
      BY <2>0, <2>2, <2>3, <3>2
    <3>3. CASE \E i, j \in DOMAIN wait_list[lk[t]] :
                 wait_list[lk[t]][j] = t /\ i < j /\ wait_list[lk[t]][i] \in WwTasks
      <4>1. PICK i \in DOMAIN wait_list[lk[t]], j \in DOMAIN wait_list[lk[t]] :
               wait_list[lk[t]][j] = t /\ i < j /\ wait_list[lk[t]][i] \in WwTasks
        BY <3>3
      <4>2. StampAfter(t, wait_list[lk[t]][i])
        BY <2>2, <2>3, <4>1 DEF QInv, WaitListOrdered
      <4> QED
        BY <2>2, <2>5, <4>1, <4>2 DEF Contains
    <3> QED
      BY <3>1, <3>2, <3>3 DEF MustDie
  <2> QED
    BY <2>1, <2>6, <2>7
<1> DEFINE P == \A t \in WwTasks : backoff'[t] /\ ~backoff[t] =>
                  \E u \in WwTasks : /\ StampAfter(t, u)
                                     /\ ctx[lk[t]] = u \/ Contains(wait_list[lk[t]], u)
<1>1. IInv /\ WInv /\ [Next]_vars => [P]_vars
  BY StepTaken, <1>RefusedForOlder DEF WInv
<1> QED
  BY <1>1, InitIInv, InitWInv, StepIInv, StepWInv, PTL DEF Spec, BacksOffForOlder

-----------------------------------------------------------------------------
(* No circles.                                                             *)
(* The task in the owner word has the lock, or is about to pick it up, or  *)
(* to hand it over.                                                        *)
OwnedAt(l) ==
  owner[l] # None =>
    \/ HasLock(owner[l], l) \/ "PICKUP" \in flags[l]
    \/ handoff[owner[l]] /\ lk[owner[l]] = l
Owned == \A l \in Locks : OwnedAt(l)

(* A task without a context holds one lock at a time; the locks that a     *)
(* context holds carry it, and it does not wait for one of them.           *)
Contexts ==
  /\ \A t \in Tasks \ WwTasks : pc[t] # "idle" => held[t] = {}
  /\ \A t \in Tasks \ WwTasks : \A k, m \in held[t] : k = m
  /\ \A t \in Tasks : pc[t] \in {"fctx", "fcheck", "fwake"} => t \in WwTasks
  /\ \A t \in WwTasks : pc[t] \in {"fcheck", "fwake"} => ctx[lk[t]] = t
  /\ \A t \in WwTasks : \A l \in held[t] : ctx[l] = t
  /\ \A t \in WwTasks : pc[t] \in Waiting \cup {"queue"} => ctx[lk[t]] # t

(* A step of t that takes or releases nothing ...                          *)
Quiet(t) ==
  /\ ctx' = ctx /\ held' = held
  /\ pc'[t] # "idle" => pc[t] # "idle" \/ t \in WwTasks \/ held[t] = {}
  /\ pc'[t] \in {"fctx", "fcheck", "fwake"} => t \in WwTasks
  /\ pc'[t] \in {"fcheck", "fwake"} => pc[t] \in {"fcheck", "fwake"} /\ lk'[t] = lk[t]
  /\ pc'[t] \in Waiting \cup {"queue"} =>
       lk'[t] = lk[t] /\ (pc[t] \in Waiting \cup {"queue"} \/ t \notin WwTasks \/ ctx[lk[t]] # t)
(* ... one that takes l.                                                   *)
Gains(t, l) ==
  /\ held' = [held EXCEPT ![t] = @ \cup {l}]
  /\ pc'[t] = "idle"
  /\ t \in WwTasks \/ held[t] = {}
  /\ ctx[l] \in {None, t} /\ ctx'[l] = IF t \in WwTasks THEN t ELSE ctx[l]
  /\ \A k \in Locks : k # l => ctx'[k] = ctx[k]

(* A context that holds locks and sleeps is the first of its kind on the   *)
(* list and waits for a younger one, or for one that is still publishing   *)
(* its context and will then wake it.                                      *)
Publishing(v, l) == pc[v] \in {"fcheck", "fwake"} /\ lk[v] = l
WaitsFor(u, l, v) == v = None \/ StampAfter(v, u) \/ Publishing(v, l)
Patient ==
  \A u \in WwTasks : Asleep(u) /\ acquired[u] > 0 =>
    FirstContext(u, lk[u]) /\ WaitsFor(u, lk[u], ctx[lk[u]])

DInv == Owned /\ Contexts /\ Patient

(* In a circle every sleeper holds a lock, so it waits for a younger       *)
(* context; the youngest of them would have to wait for a younger one      *)
(* still.                                                                  *)
LEMMA DInvNoDeadlock == IInv /\ WInv /\ DInv => NoDeadlock
<1>SleepersHold.
  ASSUME IInv, WInv, Owned, Contexts, NEW u \in Tasks, Asleep(u), NEW l \in Locks, owner[l] = u
  PROVE  u \in WwTasks /\ ctx[l] = u /\ acquired[u] > 0
  <2> USE <1>SleepersHold
  <2>0. pc[u] = "sched" /\ None \notin Tasks
    BY ConstTypes DEF Asleep
  <2>1. "PICKUP" \notin flags[l]
    BY DEF WInv, PickupWillHappen
  <2>2. ~handoff[u]
    BY <2>0 DEF IInv, Exclusive
  <2>3. HasLock(u, l)
    BY <2>0, <2>1, <2>2 DEF Owned, OwnedAt
  <2>4. l \in held[u]
    BY <2>0, <2>3 DEF HasLock
  <2>5. u \in WwTasks
    BY <2>0, <2>4 DEF Contexts
  <2>6. ctx[l] = u
    BY <2>4, <2>5 DEF Contexts
  <2>7. IsFiniteSet(CtxLocks(u)) /\ l \in CtxLocks(u)
    BY <2>6, MutexAssumption, FS_Subset DEF CtxLocks
  <2>8. Cardinality(CtxLocks(u)) \in Nat /\ Cardinality(CtxLocks(u)) # 0
    BY <2>7, FS_CardinalityType, FS_EmptySet
  <2>9. acquired[u] > 0
    BY <2>8, SMTT(30), Z3T(30) DEF IInv, Counted
  <2> QED
    BY <2>5, <2>6, <2>9
(* A set of contexts, each with a younger one in it, is empty. *)
<1>YoungestExists.
  ASSUME TypeOK, IsInjective(ages), NEW T, T \subseteq WwTasks,
         \A u \in T : \E v \in T : StampAfter(v, u)
  PROVE  T = {}
  <2> USE <1>YoungestExists
  <2> SUFFICES ASSUME T # {}
               PROVE  FALSE
    OBVIOUS
  <2>0. ages \in Seq(Tasks) /\ DOMAIN ages = 1 .. Len(ages) /\ Len(ages) \in Nat
    BY SMTT(30), Z3T(30) DEF TypeOK
  <2> DEFINE I == {Len(ages) - i : i \in {j \in 1 .. Len(ages) : ages[j] \in T}}
  <2>1. I \subseteq Nat
    BY <2>0, SMTT(30), Z3T(30)
  <2>2. I # {}
    <3>1. PICK u \in T : u \in Range(ages)
      BY DEF WwTasks
    <3>2. PICK i \in 1 .. Len(ages) : ages[i] = u
      BY <2>0, <3>1 DEF Range
    <3> QED
      BY <3>1, <3>2
  <2>3. Min(I) \in I /\ \A j \in I : Min(I) <= j
    BY <2>1, <2>2, MinExists
  <2>4. PICK n \in I : \A j \in I : n <= j
    BY <2>3
  <2>5. PICK i \in 1 .. Len(ages) : ages[i] \in T /\ n = Len(ages) - i
    OBVIOUS
  <2>6. PICK v \in T : StampAfter(v, ages[i])
    BY <2>5
  <2>7. PICK j \in 1 .. Len(ages), k \in 1 .. Len(ages) : ages[j] = v /\ ages[k] = ages[i] /\ j > k
    BY <2>0, <2>6 DEF StampAfter
  <2>8. k = i
    BY <2>0, <2>7 DEF IsInjective
  <2>9. Len(ages) - j \in I
    BY <2>7
  <2>10. n <= Len(ages) - j
    BY <2>4, <2>9
  <2> HIDE DEF I
  <2> QED
    BY <2>0, <2>5, <2>7, <2>8, <2>10, SMTT(30), Z3T(30)
<1> SUFFICES ASSUME IInv, WInv, DInv
             PROVE  NoDeadlock
  OBVIOUS
<1> SUFFICES ASSUME NEW S \in SUBSET Tasks, S # {},
                    \A t \in S : Asleep(t) /\ owner[lk[t]] \in S
             PROVE  FALSE
  BY DEF NoDeadlock
<1> DEFINE T == {owner[lk[t]] : t \in S}
<1>0. TypeOK /\ IsInjective(ages) /\ None \notin Tasks
  BY ConstTypes DEF IInv, Types, WInv, QInv
<1>1. \A t \in S : lk[t] \in Locks /\ pc[t] = "sched"
  BY DEF Asleep, IInv, Types, CallHasLock
<1>2. ASSUME NEW t \in S
      PROVE  /\ owner[lk[t]] \in WwTasks /\ ctx[lk[t]] = owner[lk[t]]
             /\ acquired[owner[lk[t]]] > 0
  <2>1. PICK u \in S : u = owner[lk[t]]
    OBVIOUS
  <2>2. u \in Tasks /\ Asleep(u) /\ lk[t] \in Locks
    BY <1>1
  <2> QED
    BY <2>1, <2>2, <1>SleepersHold DEF DInv
<1>3. T \subseteq WwTasks /\ T \subseteq S
  BY <1>2
<1>4. ASSUME NEW u \in T
      PROVE  \E v \in T : StampAfter(v, u)
  <2>1. u \in S /\ u \in WwTasks /\ acquired[u] > 0 /\ Asleep(u)
    BY <1>2, <1>3
  <2>2. PICK v \in T : v = owner[lk[u]] /\ v = ctx[lk[u]]
    BY <1>2, <2>1
  <2>3. v \in S /\ v \in Tasks
    BY <1>3
  <2>4. v # None /\ pc[v] = "sched"
    BY <1>0, <1>1, <2>3
  <2>5. WaitsFor(u, lk[u], v)
    BY <2>1, <2>2 DEF DInv, Patient
  <2>6. ~Publishing(v, lk[u])
    BY <2>4 DEF Publishing
  <2> QED
    BY <2>4, <2>5, <2>6 DEF WaitsFor
<1>5. T = {}
  <2> HIDE DEF T
  <2> QED
    BY <1>0, <1>3, <1>4, <1>YoungestExists
<1> QED
  BY <1>5

(* At the start nobody holds a lock.                                       *)
LEMMA InitDInv == Init => DInv
<1> SUFFICES ASSUME Init PROVE DInv
  OBVIOUS
<1>1. Owned
  BY DEF Init, Owned, OwnedAt
<1>2. \A t \in Tasks : pc[t] = "idle" /\ held[t] = {}
  BY DEF Init
<1>3. WwTasks \subseteq Tasks
  BY InitIInv, ConstTypes DEF IInv, Types, TypeOK
<1>4. Contexts
  BY <1>2, <1>3 DEF Contexts, Waiting
<1>5. Patient
  BY <1>2, <1>3 DEF Patient, Asleep
<1> QED
  BY <1>1, <1>4, <1>5 DEF DInv

(* Every step keeps it.                                                    *)
LEMMA StepDInv == IInv /\ WInv /\ DInv /\ [Next]_vars => DInv'
<1>StepOwned.
  ASSUME IInv, Owned, NEW t \in Tasks, Step(t)
  PROVE  Owned'
  <2> USE <1>StepOwned
  <2> SUFFICES ASSUME NEW l \in Locks, owner'[l] # None
               PROVE  OwnedAt(l)'
    BY DEF Owned, OwnedAt
  <2>0. /\ pc \in [Tasks -> Locs] /\ lk \in [Tasks -> Locks \cup {None}]
        /\ owner \in [Locks -> Tasks \cup {None}] /\ flags \in [Locks -> SUBSET Flags]
        /\ handoff \in [Tasks -> BOOLEAN] /\ held \in [Tasks -> SUBSET Locks]
        /\ pc[t] # "idle" => lk[t] \in Locks
        /\ None \notin Tasks
    BY ConstTypes DEF IInv, Types, TypeOK, CallHasLock
  <2>h. /\ handoff[t] => pc[t] = "uwake" /\ owner[lk[t]] = t
        /\ pc[t] \in Holding => owner[lk[t]] = t
        /\ \A k \in held[t] : owner[k] = t
    <3>1. pc[t] \in Holding => HasLock(t, lk[t])
      BY DEF HasLock, Holding
    <3>2. \A k \in held[t] : HasLock(t, k)
      BY DEF HasLock
    <3>3. pc[t] \in Holding => lk[t] \in Locks
      BY <2>0 DEF Holding
    <3> QED
      BY <2>0, <3>1, <3>2, <3>3 DEF IInv, Exclusive
  <2>o. OwnedAt(l)
    BY DEF Owned
  <2>1. ASSUME NEW k \in Locks, Lock(t, k)
        PROVE  OwnedAt(l)'
    <3>1. CASE owner[k] = None /\ flags[k] = {} /\ t \in WwTasks
      <4>1. /\ pc[t] = "idle" /\ owner' = [owner EXCEPT ![k] = t]
            /\ Goto(t, "fctx") /\ lk' = [lk EXCEPT ![t] = k] /\ UNCHANGED <<flags, held, handoff>>
        BY <2>1, <3>1 DEF Lock
      <4> QED
        BY <2>0, <2>h, <2>o, <3>1, <4>1 DEF OwnedAt, HasLock, Holding, Goto
    <3>2. CASE owner[k] = None /\ flags[k] = {} /\ t \notin WwTasks
      <4>1. /\ held[t] = {} /\ owner' = [owner EXCEPT ![k] = t]
            /\ held' = [held EXCEPT ![t] = {k}] /\ UNCHANGED <<pc, lk, flags, handoff>>
        BY <2>1, <3>2 DEF Lock
      <4> QED
        BY <2>0, <2>h, <2>o, <3>2, <4>1 DEF OwnedAt, HasLock, Holding, Goto
    <3>3. CASE ~(owner[k] = None /\ flags[k] = {})
      <4>1. /\ pc[t] = "idle" /\ Goto(t, "slow") /\ lk' = [lk EXCEPT ![t] = k]
            /\ UNCHANGED <<owner, flags, held, handoff>>
        BY <2>1, <3>3 DEF Lock
      <4> QED
        BY <2>0, <2>h, <2>o, <3>3, <4>1 DEF OwnedAt, HasLock, Holding, Goto
    <3> QED
      BY <2>1, <3>1, <3>2, <3>3
  <2>2. ASSUME NEW k \in Locks, TryLock(t, k)
        PROVE  OwnedAt(l)'
    BY <2>0, <2>h, <2>o, <2>2 DEF OwnedAt, HasLock, Holding, TryLock, Take, CanTake, Got
  <2>3. ASSUME NEW k \in Locks, Unlock(t, k)
        PROVE  OwnedAt(l)'
    BY <2>0, <2>h, <2>o, <2>3 DEF OwnedAt, HasLock, Holding, Unlock, word, Goto
  <2>4. ASSUME FastSetContext(t)
        PROVE  OwnedAt(l)'
    BY <2>0, <2>h, <2>o, <2>4, ZenonT(60)
    DEF OwnedAt, HasLock, Holding, FastSetContext, word, caller, Goto
  <2>5. ASSUME FastCheckWaiters(t)
        PROVE  OwnedAt(l)'
    <3>1. CASE "WAITERS" \in flags[lk[t]]
      <4>1. /\ pc[t] = "fcheck" /\ Goto(t, "fwake") /\ UNCHANGED <<lk, owner, flags, held, handoff>>
        BY <2>5, <3>1 DEF FastCheckWaiters, word, caller
      <4> QED
        BY <2>0, <2>h, <2>o, <3>1, <4>1 DEF OwnedAt, HasLock, Holding, Goto
    <3>2. CASE "WAITERS" \notin flags[lk[t]]
      <4>1. /\ pc[t] = "fcheck" /\ Return(t) /\ Got(t, lk[t]) /\ UNCHANGED <<owner, flags, handoff>>
        BY <2>5, <3>2 DEF FastCheckWaiters, word
      <4> QED
        BY <2>0, <2>h, <2>o, <3>2, <4>1 DEF OwnedAt, HasLock, Holding, Return, Got, Goto
    <3> QED
      BY <2>5, <3>1, <3>2
  <2>6. ASSUME FastWake(t)
        PROVE  OwnedAt(l)'
    BY <2>0, <2>h, <2>o, <2>6, ZenonT(60)
    DEF OwnedAt, HasLock, Holding, FastWake, word, Return, Got, Goto
  <2>7. ASSUME SlowTry(t)
        PROVE  OwnedAt(l)'
    <3>1. CASE t \in WwTasks /\ ctx[lk[t]] = t
      <4>1. /\ pc[t] = "slow" /\ Return(t) /\ UNCHANGED <<owner, flags, held, handoff>>
        BY <2>7, <3>1 DEF SlowTry, word, caller
      <4> QED
        BY <2>0, <2>h, <2>o, <3>1, <4>1 DEF OwnedAt, HasLock, Holding, Return, Goto
    <3>2. CASE ~(t \in WwTasks /\ ctx[lk[t]] = t) /\ CanTake(t, lk[t]) /\ t \in WwTasks
      <4>1. /\ pc[t] = "slow" /\ Take(t, lk[t]) /\ Goto(t, "fctx")
            /\ UNCHANGED <<lk, held, handoff>>
        BY <2>7, <3>2 DEF SlowTry, caller
      <4> QED
        BY <2>0, <2>h, <2>o, <3>2, <4>1 DEF OwnedAt, HasLock, Holding, Take, CanTake, Goto
    <3>3. CASE ~(t \in WwTasks /\ ctx[lk[t]] = t) /\ CanTake(t, lk[t]) /\ t \notin WwTasks
      <4>1. /\ pc[t] = "slow" /\ Take(t, lk[t]) /\ Return(t) /\ Got(t, lk[t])
            /\ UNCHANGED handoff
        BY <2>7, <3>3 DEF SlowTry
      <4> QED
        BY <2>0, <2>h, <2>o, <3>3, <4>1 DEF OwnedAt, HasLock, Holding, Take, CanTake, Return, Got, Goto
    <3>4. CASE ~(t \in WwTasks /\ ctx[lk[t]] = t) /\ ~CanTake(t, lk[t])
      <4>1. /\ pc[t] = "slow" /\ Goto(t, "queue") /\ UNCHANGED <<lk, owner, flags, held, handoff>>
        BY <2>7, <3>4 DEF SlowTry, word, caller
      <4> QED
        BY <2>0, <2>h, <2>o, <3>4, <4>1 DEF OwnedAt, HasLock, Holding, Goto
    <3> QED
      BY <2>7, <3>1, <3>2, <3>3, <3>4
  <2>8. ASSUME SetWaiters(t)
        PROVE  OwnedAt(l)'
    <3>1. pc[t] = "flag" /\ Goto(t, "top") /\ UNCHANGED <<lk, owner, held, handoff>>
      BY <2>8 DEF SetWaiters, SetFlag, word, caller
    <3>2. flags' = [flags EXCEPT ![lk[t]] = @ \cup {"WAITERS"}] \/ flags' = flags
      BY <2>8 DEF SetWaiters, SetFlag, word
    <3>3. "PICKUP" \in flags[l] => "PICKUP" \in flags'[l]
      BY <2>0, <3>2, SMTT(30), Z3T(30)
    <3> QED
      BY <2>0, <2>h, <2>o, <3>1, <3>3 DEF OwnedAt, HasLock, Holding, Goto
  <2>9. ASSUME LoopTop(t)
        PROVE  OwnedAt(l)'
    <3>1. CASE LoopTakes(t, lk[t])
      <4>1. /\ pc[t] = "top" /\ Take(t, lk[t]) /\ Goto(t, "acq")
            /\ UNCHANGED <<lk, held, handoff>>
        BY <2>9, <3>1 DEF LoopTop, caller
      <4> QED
        BY <2>0, <2>h, <2>o, <3>1, <4>1 DEF OwnedAt, HasLock, Holding, LoopTakes, Take, CanTake, Goto
    <3>2. CASE ~LoopTakes(t, lk[t]) /\ (Interrupted(t) \/ MustDie(t, lk[t]))
      <4>1. /\ pc[t] = "top" /\ Return(t) /\ UNCHANGED <<owner, flags, held, handoff>>
        BY <2>9, <3>2 DEF LoopTop, word, caller, Refuse
      <4> QED
        BY <2>0, <2>h, <2>o, <3>2, <4>1 DEF OwnedAt, HasLock, Holding, Return, Goto
    <3>3. CASE ~LoopTakes(t, lk[t]) /\ ~Interrupted(t) /\ ~MustDie(t, lk[t])
      <4>1. /\ pc[t] = "top" /\ Goto(t, "sched") /\ UNCHANGED <<lk, owner, flags, held, handoff>>
        BY <2>9, <3>3 DEF LoopTop, word, caller
      <4> QED
        BY <2>0, <2>h, <2>o, <3>3, <4>1 DEF OwnedAt, HasLock, Holding, Goto
    <3> QED
      BY <2>9, <3>1, <3>2, <3>3
  <2>10. ASSUME CheckFirst(t)
        PROVE  OwnedAt(l)'
    BY <2>0, <2>h, <2>o, <2>10 DEF OwnedAt, HasLock, Holding, CheckFirst, word, caller, Goto
  <2>11. ASSUME AskHandoff(t)
        PROVE  OwnedAt(l)'
    BY <2>0, <2>h, <2>o, <2>11, ZenonT(60)
    DEF OwnedAt, HasLock, Holding, AskHandoff, caller, Goto, SetFlag
  <2>12. ASSUME WaiterTry(t)
        PROVE  OwnedAt(l)'
    <3>1. CASE CanTake(t, lk[t])
      <4>1. /\ pc[t] = "try" /\ Take(t, lk[t]) /\ Goto(t, "acq") /\ UNCHANGED <<lk, held, handoff>>
        BY <2>12, <3>1 DEF WaiterTry, caller
      <4> QED
        BY <2>0, <2>h, <2>o, <3>1, <4>1 DEF OwnedAt, HasLock, Holding, Take, CanTake, Goto
    <3>2. CASE ~CanTake(t, lk[t])
      <4>1. /\ pc[t] = "try" /\ Goto(t, "top") /\ UNCHANGED <<lk, owner, flags, held, handoff>>
        BY <2>12, <3>2 DEF WaiterTry, word, caller
      <4> QED
        BY <2>0, <2>h, <2>o, <3>2, <4>1 DEF OwnedAt, HasLock, Holding, Goto
    <3> QED
      BY <2>12, <3>1, <3>2
  <2>13. ASSUME Acquired(t)
        PROVE  OwnedAt(l)'
    BY <2>0, <2>h, <2>o, <2>13, ZenonT(60)
    DEF OwnedAt, HasLock, Holding, Acquired, Got, Return, Goto
  <2>14. ASSUME UnlockFast(t)
        PROVE  OwnedAt(l)'
    <3>1. CASE owner[lk[t]] = t /\ flags[lk[t]] = {}
      <4>1. /\ pc[t] = "ufast" /\ owner' = [owner EXCEPT ![lk[t]] = None] /\ Unlocked(t)
            /\ UNCHANGED <<flags, held, handoff>>
        BY <2>14, <3>1 DEF UnlockFast, caller
      <4> QED
        BY <2>0, <2>h, <2>o, <3>1, <4>1 DEF OwnedAt, HasLock, Holding, Unlocked, Goto
    <3>2. CASE ~(owner[lk[t]] = t /\ flags[lk[t]] = {})
      <4>1. /\ pc[t] = "ufast" /\ Goto(t, "uslow") /\ UNCHANGED <<lk, owner, flags, held, handoff>>
        BY <2>14, <3>2 DEF UnlockFast, caller
      <4> QED
        BY <2>0, <2>h, <2>o, <3>2, <4>1 DEF OwnedAt, HasLock, Holding, Goto
    <3> QED
      BY <2>14, <3>1, <3>2
  <2>15. ASSUME UnlockSlow(t)
        PROVE  OwnedAt(l)'
    <3>1. CASE HandoffWanted(lk[t])
      <4>1. /\ pc[t] = "uslow" /\ handoff' = [handoff EXCEPT ![t] = TRUE] /\ Goto(t, "uwake")
            /\ UNCHANGED <<lk, owner, flags, held>>
        BY <2>15, <3>1 DEF UnlockSlow, caller
      <4> QED
        BY <2>0, <2>h, <2>o, <3>1, <4>1 DEF OwnedAt, HasLock, Holding, Goto
    <3>2. CASE ~HandoffWanted(lk[t])
      <4>1. /\ pc[t] = "uslow" /\ owner' = [owner EXCEPT ![lk[t]] = None]
            /\ (Goto(t, "uwake") /\ UNCHANGED lk) \/ Unlocked(t)
            /\ UNCHANGED <<flags, held, handoff>>
        BY <2>15, <3>2 DEF UnlockSlow, caller
      <4> QED
        BY <2>0, <2>h, <2>o, <3>2, <4>1 DEF OwnedAt, HasLock, Holding, Unlocked, Goto
    <3> QED
      BY <2>15, <3>1, <3>2
  <2>16. ASSUME UnlockWaiters(t)
        PROVE  OwnedAt(l)'
    <3> DEFINE next == IF wait_list[lk[t]] = <<>> THEN None ELSE Head(wait_list[lk[t]])
    <3>1. CASE handoff[t]
      <4>1. /\ pc[t] = "uwake" /\ Goto(t, "uwakeq") /\ UNCHANGED <<lk, held>>
            /\ handoff' = [handoff EXCEPT ![t] = FALSE]
            /\ owner' = [owner EXCEPT ![lk[t]] = next]
            /\ flags' = [flags EXCEPT ![lk[t]] =
                 (@ \cap {"WAITERS"}) \cup (IF next = None THEN {} ELSE {"PICKUP"})]
        BY <2>16, <3>1 DEF UnlockWaiters, HandsOff, caller
      <4> HIDE DEF next
      <4> QED
        BY <2>0, <2>h, <2>o, <3>1, <4>1 DEF OwnedAt, HasLock, Holding, Goto
    <3>2. CASE ~handoff[t]
      <4>1. /\ pc[t] = "uwake" /\ Goto(t, "uwakeq") /\ UNCHANGED <<lk, owner, flags, held>>
            /\ handoff' = [handoff EXCEPT ![t] = FALSE]
        BY <2>16, <3>2 DEF UnlockWaiters, HandsOff, word, caller
      <4> QED
        BY <2>0, <2>h, <2>o, <3>2, <4>1 DEF OwnedAt, HasLock, Holding, Goto
    <3> QED
      BY <2>16, <3>1, <3>2
  <2>17. ASSUME WakeUpQ(t)
        PROVE  OwnedAt(l)'
    BY <2>0, <2>h, <2>o, <2>17 DEF OwnedAt, HasLock, Holding, WakeUpQ, word, caller, Unlocked, Goto
  <2>18. ASSUME AcquireInit(t) \/ Signal(t) \/ StrayWakeup(t)
        PROVE  OwnedAt(l)'
    BY <2>o, <2>18 DEF OwnedAt, HasLock, AcquireInit, Signal, StrayWakeup, word, caller
  <2>19. ASSUME Queue(t)
        PROVE  OwnedAt(l)'
    <3>1. CASE CanTake(t, lk[t])
      <4>1. /\ pc[t] = "queue" /\ Take(t, lk[t]) /\ Return(t) /\ Got(t, lk[t])
            /\ UNCHANGED handoff
        BY <2>19, <3>1 DEF Queue
      <4> QED
        BY <2>0, <2>h, <2>o, <3>1, <4>1
        DEF OwnedAt, HasLock, Holding, Take, CanTake, Return, Got, Goto
    <3>2. CASE ~CanTake(t, lk[t])
      <4>1. /\ pc[t] = "queue" /\ UNCHANGED <<owner, flags, held, handoff>>
        BY <2>19, <3>2 DEF Queue, word, caller, Refuse
      <4>2. Return(t) \/ (Goto(t, "flag") /\ UNCHANGED lk)
        BY <2>19, <3>2 DEF Queue
      <4> QED
        BY <2>0, <2>h, <2>o, <4>1, <4>2 DEF OwnedAt, HasLock, Holding, Return, Goto
    <3> QED
      BY <3>1, <3>2
  <2> QED
    BY <2>1, <2>2, <2>3, <2>4, <2>5, <2>6, <2>7, <2>8, <2>9, <2>10, <2>11, <2>12, <2>13, <2>14,
       <2>15, <2>16, <2>17, <2>18, <2>19, ZenonT(60) DEF Step
<1>QuietContexts.
  ASSUME IInv, Contexts, NEW t \in Tasks, Others(t), WwTasks' = WwTasks, Quiet(t)
  PROVE  Contexts'
  <2> USE <1>QuietContexts
  <2>0. WwTasks \subseteq Tasks
    BY ConstTypes DEF IInv, Types, TypeOK
  <2>1. \A u \in Tasks \ WwTasks : pc'[u] # "idle" => held'[u] = {}
    BY ZenonT(60) DEF Contexts, Others, Quiet
  <2>2. \A u \in Tasks \ WwTasks : \A k, m \in held'[u] : k = m
    BY DEF Contexts, Quiet
  <2>3. \A u \in Tasks : pc'[u] \in {"fctx", "fcheck", "fwake"} => u \in WwTasks
    BY DEF Contexts, Others, Quiet
  <2>4. \A u \in WwTasks : pc'[u] \in {"fcheck", "fwake"} => ctx'[lk'[u]] = u
    <3> SUFFICES ASSUME NEW u \in WwTasks, pc'[u] \in {"fcheck", "fwake"}
                 PROVE  ctx'[lk'[u]] = u
      OBVIOUS
    <3>1. pc[u] \in {"fcheck", "fwake"} /\ lk'[u] = lk[u]
      BY <2>0 DEF Others, Quiet
    <3> QED
      BY <3>1 DEF Contexts, Quiet
  <2>5. \A u \in WwTasks : \A l \in held'[u] : ctx'[l] = u
    BY DEF Contexts, Quiet
  <2>6. \A u \in WwTasks : pc'[u] \in Waiting \cup {"queue"} => ctx'[lk'[u]] # u
    BY <2>0, ZenonT(60) DEF Contexts, Others, Quiet
  <2> QED
    BY <2>1, <2>2, <2>3, <2>4, <2>5, <2>6 DEF Contexts
<1>GainsContexts.
  ASSUME IInv, IInv', Contexts, NEW t \in Tasks, Others(t), WwTasks' = WwTasks, NEW l \in Locks, Gains(t, l)
  PROVE  Contexts'
  <2> USE <1>GainsContexts
  <2>0. /\ WwTasks \subseteq Tasks /\ None \notin Tasks
        /\ held \in [Tasks -> SUBSET Locks]
        /\ \A u \in Tasks : pc[u] # "idle" => lk[u] \in Locks
    BY ConstTypes DEF IInv, Types, TypeOK, CallHasLock
  <2>a. /\ held'[t] = held[t] \cup {l}
        /\ \A u \in Tasks : u # t => pc'[u] = pc[u] /\ lk'[u] = lk[u] /\ held'[u] = held[u]
        /\ pc'[t] = "idle"
    BY <2>0 DEF Others, Gains
  <2>1. \A u \in Tasks \ WwTasks : pc'[u] # "idle" => held'[u] = {}
    BY <2>a DEF Contexts
  <2>2. \A u \in Tasks \ WwTasks : \A k, m \in held'[u] : k = m
    <3> SUFFICES ASSUME NEW u \in Tasks \ WwTasks, NEW k \in held'[u], NEW m \in held'[u]
                 PROVE  k = m
      OBVIOUS
    <3>1. CASE u = t
      <4>1. held'[t] = {l}
        BY <2>a, <3>1 DEF Gains
      <4> QED
        BY <3>1, <4>1
    <3>2. CASE u # t
      <4>1. k \in held[u] /\ m \in held[u]
        BY <2>a, <3>2
      <4> QED
        BY <4>1 DEF Contexts
    <3> QED
      BY <3>1, <3>2
  <2>3. \A u \in Tasks : pc'[u] \in {"fctx", "fcheck", "fwake"} => u \in WwTasks
    BY <2>a DEF Contexts
  <2>b. \A u \in WwTasks, k \in Locks : u # t => (ctx'[k] = u <=> ctx[k] = u)
    <3> SUFFICES ASSUME NEW u \in WwTasks, NEW k \in Locks, u # t
                 PROVE  ctx'[k] = u <=> ctx[k] = u
      OBVIOUS
    <3>1. CASE k = l
      <4>1. u # None
        BY <2>0
      <4> QED
        BY <3>1, <4>1 DEF Gains
    <3>2. CASE k # l
      BY <3>2, ZenonT(60) DEF Gains
    <3> QED
      BY <3>1, <3>2
  <2>4. \A u \in WwTasks : pc'[u] \in {"fcheck", "fwake"} => ctx'[lk'[u]] = u
    <3> SUFFICES ASSUME NEW u \in WwTasks, pc'[u] \in {"fcheck", "fwake"}
                 PROVE  ctx'[lk'[u]] = u
      OBVIOUS
    <3>1. u \in Tasks /\ u # t
      BY <2>0, <2>a, ZenonT(60)
    <3>2. pc[u] \in {"fcheck", "fwake"} /\ lk'[u] = lk[u]
      BY <2>a, <3>1
    <3>3. lk[u] \in Locks /\ ctx[lk[u]] = u
      BY <2>0, <3>1, <3>2, ZenonT(60) DEF Contexts
    <3> QED
      BY <2>b, <3>1, <3>2, <3>3
  <2>5. \A u \in WwTasks : \A k \in held'[u] : ctx'[k] = u
    <3> SUFFICES ASSUME NEW u \in WwTasks, NEW k \in held'[u]
                 PROVE  ctx'[k] = u
      OBVIOUS
    <3>1. CASE u # t
      <4>1. k \in held[u] /\ k \in Locks
        BY <2>0, <2>a, <3>1
      <4> QED
        BY <2>b, <3>1, <4>1 DEF Contexts
    <3>2. CASE u = t /\ k = l
      BY <3>2 DEF Gains
    <3>3. CASE u = t /\ k # l
      <4>1. k \in held[t] /\ k \in Locks
        BY <2>0, <2>a, <3>3, ZenonT(60)
      <4> QED
        BY <3>3, <4>1 DEF Gains, Contexts
    <3> QED
      BY <3>1, <3>2, <3>3
  <2>6. \A u \in WwTasks : pc'[u] \in Waiting \cup {"queue"} => ctx'[lk'[u]] # u
    BY <2>0, <2>a, <2>b, SMTT(30), Z3T(30) DEF Contexts, Waiting
  <2> QED
    BY <2>1, <2>2, <2>3, <2>4, <2>5, <2>6 DEF Contexts
<1>StepGains.
  ASSUME IInv, Contexts, NEW t \in Tasks, Step(t)
  PROVE  \/ Quiet(t) \/ FastSetContext(t)
         \/ \E l \in Locks : Gains(t, l) \/ Unlock(t, l)
  <2> USE <1>StepGains
  <2>0. /\ pc \in [Tasks -> Locs] /\ lk \in [Tasks -> Locks \cup {None}]
        /\ held \in [Tasks -> SUBSET Locks] /\ ctx \in [Locks -> WwTasks \cup {None}]
        /\ pc[t] # "idle" => lk[t] \in Locks
        /\ t \notin WwTasks /\ pc[t] # "idle" => held[t] = {}
    BY DEF IInv, Types, TypeOK, CallHasLock, Contexts
  <2>1. ASSUME NEW l \in Locks, Lock(t, l)
        PROVE  Quiet(t) \/ Gains(t, l)
    <3>1. CASE owner[l] = None /\ flags[l] = {} /\ t \notin WwTasks
      <4>1. /\ pc[t] = "idle" /\ held[t] = {} /\ held' = [held EXCEPT ![t] = {l}]
            /\ UNCHANGED <<pc, ctx>>
        BY <2>1, <3>1 DEF Lock, ww
      <4>2. ctx[l] = None
        BY <3>1, TakenFromNobody DEF CanTake
      <4>3. held' = [held EXCEPT ![t] = @ \cup {l}]
        BY <2>0, <4>1
      <4> QED
        BY <3>1, <4>1, <4>2, <4>3 DEF Gains
    <3>2. CASE ~(owner[l] = None /\ flags[l] = {} /\ t \notin WwTasks)
      <4>1. /\ pc[t] = "idle" /\ held' = held /\ ctx' = ctx
            /\ t \in WwTasks \/ held[t] = {}
            /\ (Goto(t, "fctx") /\ t \in WwTasks) \/ Goto(t, "slow")
        BY <2>1, <3>2 DEF Lock, ww
      <4> QED
        BY <2>0, <4>1 DEF Quiet, Waiting, Goto
    <3> QED
      BY <3>1, <3>2
  <2>2. ASSUME NEW l \in Locks, TryLock(t, l)
        PROVE  Gains(t, l)
    <3>1. ctx[l] = None
      BY <2>2, TakenFromNobody DEF TryLock
    <3> QED
      BY <2>2, <3>1 DEF TryLock, Gains, Got, ww
  <2>3. ASSUME FastCheckWaiters(t)
        PROVE  Quiet(t) \/ Gains(t, lk[t])
    <3>1. t \in WwTasks /\ ctx[lk[t]] = t /\ ctx' = ctx
      BY <2>3 DEF FastCheckWaiters, Contexts, ww
    <3>2. CASE Goto(t, "fwake") /\ UNCHANGED lk /\ UNCHANGED held
      BY <2>0, <2>3, <3>1, <3>2 DEF FastCheckWaiters, Quiet, Waiting, Goto
    <3>3. CASE Return(t) /\ Got(t, lk[t])
      BY <2>0, <3>1, <3>3 DEF Return, Got, Goto, Gains
    <3> QED
      BY <2>3, <3>2, <3>3 DEF FastCheckWaiters, caller
  <2>4. ASSUME FastWake(t)
        PROVE  Gains(t, lk[t])
    <3>1. t \in WwTasks /\ ctx[lk[t]] = t /\ ctx' = ctx
      BY <2>4 DEF FastWake, Contexts, ww
    <3> QED
      BY <2>0, <2>4, <3>1 DEF FastWake, Return, Got, Goto, Gains
  <2>5. ASSUME SlowTry(t)
        PROVE  Quiet(t) \/ Gains(t, lk[t])
    <3>0. pc[t] = "slow" /\ ctx' = ctx /\ lk[t] \in Locks
      BY <2>0, <2>5 DEF SlowTry, ww
    <3>1. CASE CanTake(t, lk[t]) /\ t \notin WwTasks
      <4>1. ctx[lk[t]] = None
        BY <3>0, <3>1, TakenFromNobody
      <4>2. Return(t) /\ Got(t, lk[t])
        BY <2>5, <3>1 DEF SlowTry
      <4>3. held[t] = {}
        BY <2>0, <3>0, <3>1
      <4> QED
        BY <2>0, <3>0, <3>1, <4>1, <4>2, <4>3 DEF Return, Got, Goto, Gains
    <3>2. CASE ~(CanTake(t, lk[t]) /\ t \notin WwTasks)
      <4>1. /\ held' = held
            /\ \/ Return(t)
               \/ Goto(t, "fctx") /\ t \in WwTasks
               \/ Goto(t, "queue") /\ UNCHANGED lk /\ ~(t \in WwTasks /\ ctx[lk[t]] = t)
        BY <2>5, <3>2 DEF SlowTry, caller
      <4> QED
        BY <2>0, <3>0, <4>1 DEF Quiet, Waiting, Goto, Return
    <3> QED
      BY <3>1, <3>2
  <2>6. ASSUME Queue(t)
        PROVE  Quiet(t) \/ Gains(t, lk[t])
    <3>0. pc[t] = "queue" /\ lk[t] \in Locks
      BY <2>0, <2>6 DEF Queue
    <3>1. CASE CanTake(t, lk[t])
      <4>1. ctx[lk[t]] = None
        BY <3>0, <3>1, TakenFromNobody
      <4>2. Return(t) /\ Got(t, lk[t]) /\ SetContext(t, lk[t])
        BY <2>6, <3>1 DEF Queue
      <4>3. t \in WwTasks \/ held[t] = {}
        BY <2>0, <3>0
      <4> QED
        BY <2>0, <3>0, <4>1, <4>2, <4>3 DEF Return, Got, Goto, Gains, SetContext
    <3>2. CASE ~CanTake(t, lk[t])
      <4>1. /\ held' = held /\ ctx' = ctx
            /\ Return(t) \/ (Goto(t, "flag") /\ UNCHANGED lk)
        BY <2>6, <3>2 DEF Queue, caller, Refuse, ww
      <4> QED
        BY <2>0, <3>0, <4>1 DEF Quiet, Waiting, Goto, Return
    <3> QED
      BY <3>1, <3>2
  <2>7. ASSUME Acquired(t)
        PROVE  Gains(t, lk[t])
    <3>1. ctx[lk[t]] = None /\ lk[t] \in Locks
      BY <2>7, NoContextYet DEF Acquired
    <3>2. t \in WwTasks \/ held[t] = {}
      BY <2>0, <2>7 DEF Acquired
    <3> QED
      BY <2>0, <2>7, <3>1, <3>2 DEF Acquired, Return, Got, Goto, Gains, SetContext
  <2>8. SetWaiters(t) \/ CheckFirst(t) \/ AskHandoff(t) \/ WaiterTry(t) => Quiet(t)
    BY <2>0 DEF SetWaiters, CheckFirst, AskHandoff, WaiterTry, Quiet, Waiting, Goto, caller, ww
  <2>9. LoopTop(t) => Quiet(t)
    BY <2>0 DEF LoopTop, Quiet, Waiting, Goto, Return, Refuse, caller, ww
  <2>10. UnlockFast(t) \/ UnlockSlow(t) \/ UnlockWaiters(t) \/ WakeUpQ(t) => Quiet(t)
    BY <2>0
    DEF UnlockFast, UnlockSlow, UnlockWaiters, WakeUpQ, Quiet, Waiting, Goto, Unlocked, caller,
        ww
  <2>11. AcquireInit(t) \/ Signal(t) \/ StrayWakeup(t) => Quiet(t)
    <3>1. AcquireInit(t) \/ Signal(t) \/ StrayWakeup(t) => UNCHANGED <<ctx, held, pc, lk>>
      BY DEF AcquireInit, Signal, StrayWakeup, caller, ww
    <3>2. pc[t] \in {"fctx", "fcheck", "fwake"} => t \in WwTasks
      BY DEF Contexts
    <3> QED
      BY <3>1, <3>2 DEF Quiet
  <2>12. CASE \E l \in Locks : Lock(t, l) \/ TryLock(t, l) \/ Unlock(t, l)
    BY <2>1, <2>2, <2>12
  <2>13. CASE FastCheckWaiters(t) \/ FastWake(t) \/ SlowTry(t) \/ Queue(t) \/ Acquired(t)
    <3>1. lk[t] \in Locks
      BY <2>0, <2>13 DEF FastCheckWaiters, FastWake, SlowTry, Queue, Acquired
    <3> QED
      BY <2>3, <2>4, <2>5, <2>6, <2>7, <2>13, <3>1, ZenonT(60)
  <2> QED
    BY <2>8, <2>9, <2>10, <2>11, <2>12, <2>13 DEF Step
<1>StepContexts.
  ASSUME IInv, IInv', Contexts, NEW t \in Tasks, Step(t)
  PROVE  Contexts'
  <2> USE <1>StepContexts
  <2>0. Others(t) /\ WwTasks' = WwTasks
    BY StepOthers, StepLocking DEF Locking
  <2>a. /\ pc \in [Tasks -> Locs] /\ lk \in [Tasks -> Locks \cup {None}]
        /\ held \in [Tasks -> SUBSET Locks] /\ ctx \in [Locks -> WwTasks \cup {None}]
        /\ \A u \in Tasks : pc[u] # "idle" => lk[u] \in Locks
        /\ WwTasks \subseteq Tasks /\ None \notin Tasks
    BY ConstTypes DEF IInv, Types, TypeOK, CallHasLock
  <2>1. CASE FastSetContext(t)
    <3>1. /\ pc[t] = "fctx" /\ pc' = [pc EXCEPT ![t] = "fcheck"] /\ UNCHANGED <<lk, held>>
          /\ SetContext(t, lk[t])
      BY <2>1 DEF FastSetContext, Goto, caller
    <3>2. t \in WwTasks /\ lk[t] \in Locks /\ ctx[lk[t]] = None
      BY <3>1, NoContextYet DEF Contexts
    <3>3. ctx' = [ctx EXCEPT ![lk[t]] = t]
      BY <3>1, <3>2 DEF SetContext
    <3>4. /\ \A u \in Tasks \ WwTasks : pc'[u] # "idle" => held'[u] = {}
          /\ \A u \in Tasks \ WwTasks : \A k, m \in held'[u] : k = m
          /\ \A u \in Tasks : pc'[u] \in {"fctx", "fcheck", "fwake"} => u \in WwTasks
      BY <2>a, <3>1, <3>2 DEF Contexts
    <3>5. /\ \A u \in WwTasks : pc'[u] \in {"fcheck", "fwake"} => ctx'[lk'[u]] = u
          /\ \A u \in WwTasks : \A l \in held'[u] : ctx'[l] = u
          /\ \A u \in WwTasks : pc'[u] \in Waiting \cup {"queue"} => ctx'[lk'[u]] # u
      BY <2>a, <3>1, <3>2, <3>3, SMTT(30), Z3T(30) DEF Contexts, Waiting
    <3> QED
      BY <2>0, <3>4, <3>5 DEF Contexts
  <2>2. ASSUME NEW l \in Locks, Unlock(t, l)
        PROVE  Contexts'
    <3>1. /\ pc[t] = "idle" /\ l \in held[t]
          /\ pc' = [pc EXCEPT ![t] = "ufast"] /\ lk' = [lk EXCEPT ![t] = l]
          /\ held' = [held EXCEPT ![t] = @ \ {l}]
          /\ ctx' = [ctx EXCEPT ![l] = None]
      BY <2>2 DEF Unlock, Goto
    <3>2. \A u \in Tasks : l \in held[u] \/ (lk[u] = l /\ pc[u] \in {"fcheck", "fwake"}) => u = t
      <4>1. owner[l] = t
        BY <3>1, HolderOwns DEF HasLock
      <4>2. ASSUME NEW u \in Tasks, HasLock(u, l)
            PROVE  u = t
        BY <4>1, <4>2, HolderOwns
      <4> QED
        BY <4>2 DEF HasLock
    <3>3. /\ \A u \in Tasks \ WwTasks : pc'[u] # "idle" => held'[u] = {}
          /\ \A u \in Tasks \ WwTasks : \A k, m \in held'[u] : k = m
          /\ \A u \in Tasks : pc'[u] \in {"fctx", "fcheck", "fwake"} => u \in WwTasks
      BY <2>a, <3>1, ZenonT(60) DEF Contexts
    <3>4. /\ \A u \in WwTasks : pc'[u] \in {"fcheck", "fwake"} => ctx'[lk'[u]] = u
          /\ \A u \in WwTasks : \A k \in held'[u] : ctx'[k] = u
          /\ \A u \in WwTasks : pc'[u] \in Waiting \cup {"queue"} => ctx'[lk'[u]] # u
      BY <2>a, <3>1, <3>2, SMTT(30), Z3T(30) DEF Contexts, Waiting
    <3> QED
      BY <2>0, <3>3, <3>4 DEF Contexts
  <2>3. ASSUME NEW l \in Locks, Gains(t, l)
        PROVE  Contexts'
    BY <2>0, <2>3, <1>GainsContexts
  <2>4. CASE Quiet(t)
    BY <2>0, <2>4, <1>QuietContexts
  <2> QED
    BY <2>1, <2>2, <2>3, <2>4, <1>StepGains
<1>StepFirst.
  ASSUME IInv, QInv, NEW t \in Tasks, Step(t), NEW l \in Locks, NEW u \in WwTasks,
         FirstContext(u, l), acquired[u] > 0, Contains(wait_list'[l], u), state'[u] # "RUNNING"
  PROVE  FirstContext(u, l)'
  <2> USE <1>StepFirst
  <2>0. WwTasks' = WwTasks /\ wait_list[l] \in Seq(Tasks) /\ IsInjective(wait_list[l]) /\ u \in Tasks
    BY StepLocking, ListTypes, ConstTypes DEF Locking, IInv, Types, TypeOK
  <2>1. CASE wait_list'[l] = wait_list[l]
    BY <2>0, <2>1 DEF FirstContext
  <2>2. PICK q : q = wait_list[l]
    OBVIOUS
  <2>3. PICK r : r = wait_list'[l]
    BY ZenonT(60)
  <2>4. q \in Seq(Tasks) /\ DOMAIN q = 1 .. Len(q) /\ Len(q) \in Nat
    BY <2>0, <2>2, SMTT(30), Z3T(30)
  <2>5. PICK i \in 1 .. Len(q) : q[i] = u /\ \A j \in 1 .. Len(q) : j < i => q[j] \notin WwTasks
    BY <2>2, <2>4 DEF FirstContext
  <2>6. ASSUME NEW n \in DOMAIN r, r[n] = u, \A j \in DOMAIN r : j < n => r[j] \notin WwTasks
        PROVE  FirstContext(u, l)'
    BY <2>0, <2>3, <2>6 DEF FirstContext
  <2>7. CASE Joins(t) /\ lk[t] = l
    <3>1. PICK k : JoinsAt(t, k)
      BY <2>7, JoinsFits
    <3>2. Fits(r, q, t, k)
      BY <2>2, <2>3, <2>7, <3>1 DEF JoinsAt
    <3>3. /\ r \in Seq(Tasks) /\ Len(r) = Len(q) + 1 /\ k \in 1 .. Len(q) + 1
          /\ \A j \in 1 .. Len(q) + 1 : r[j] = IF j < k THEN q[j] ELSE IF j = k THEN t ELSE q[j - 1]
      BY <3>2, ZenonT(60) DEF Fits, Adds
    <3>4. DOMAIN r = 1 .. Len(q) + 1
      BY <3>3, SMTT(30), Z3T(30)
    <3>5. CASE i < k
      <4>1. i \in DOMAIN r /\ r[i] = u /\ \A j \in DOMAIN r : j < i => r[j] \notin WwTasks
        BY <2>4, <2>5, <3>3, <3>4, <3>5, SMTT(30), Z3T(30)
      <4> QED
        BY <2>6, <4>1
    <3>6. CASE ~(i < k)
      <4>1. t \notin WwTasks
        <5>1. SUFFICES ASSUME t \in WwTasks
                       PROVE  FALSE
          OBVIOUS
        <5>2. i \in Passed(t, q)
          BY <2>5, <3>2, <3>6, <5>1 DEF Fits
        <5>3. Woken({v \in {q[j] : j \in Passed(t, q)} : acquired[v] > 0})
          BY <2>2, <2>7, <5>1 DEF Joins
        <5>4. state'[u] = "RUNNING"
          BY <2>0, <2>5, <5>2, <5>3, ZenonT(60) DEF Woken
        <5> QED
          BY <5>4
      <4>2. i + 1 \in DOMAIN r /\ r[i + 1] = u
        BY <2>4, <2>5, <3>3, <3>4, <3>6, SMTT(30), Z3T(30)
      <4>3. ASSUME NEW j \in DOMAIN r, j < i + 1
            PROVE  r[j] \notin WwTasks
        BY <2>4, <2>5, <3>3, <3>4, <3>6, <4>1, <4>3, SMTT(30), Z3T(30)
      <4> QED
        BY <2>6, <4>2, <4>3
    <3> QED
      BY <3>5, <3>6
  <2>8. CASE Leaves(t) /\ lk[t] = l
    <3>1. DelOK(r, q, t)
      BY <2>2, <2>3, <2>8, LeavesDel
    <3>2. r \in Seq(Tasks)
      BY <3>1 DEF DelOK
    <3>3. DOMAIN r = 1 .. Len(r)
      BY <3>2, SMTT(30), Z3T(30)
    <3>4. PICK n \in 1 .. Len(r) : r[n] = u
      BY <2>3 DEF Contains
    <3>5. ASSUME NEW j \in 1 .. Len(r), j < n
          PROVE  r[j] \notin WwTasks
      <4>1. PICK k \in 1 .. Len(q), m \in 1 .. Len(q) : k < m /\ q[k] = r[j] /\ q[m] = r[n]
        BY <3>1, <3>4, <3>5 DEF DelOK
      <4>2. q[m] = q[i]
        BY <2>5, <3>4, <4>1
      <4>3. m = i
        BY <2>0, <2>2, <2>4, <4>2 DEF IsInjective
      <4>4. q[k] \notin WwTasks
        BY <2>5, <4>1, <4>3
      <4> QED
        BY <4>1, <4>4
    <3> QED
      BY <2>6, <3>3, <3>4, <3>5
  <2>9. CASE lk[t] # l
    BY <2>1, <2>9, StepMoves, JoinsFits, LeavesDel DEF Stays, JoinsAt
  <2>10. CASE Stays(t)
    BY <2>1, <2>10 DEF Stays
  <2> QED
    BY <2>7, <2>8, <2>9, <2>10, StepMoves
(* Who takes the lock wakes the first context if that one is younger. *)
<1>WokenForBackoff.
  ASSUME IInv, QInv, NEW t \in WwTasks, NEW l \in Locks, NEW u \in WwTasks, u # t,
         FirstContext(u, l), acquired[u] > 0, Woken(MustBackOff(l, t)), state'[u] # "RUNNING"
  PROVE  StampAfter(t, u)
  <2> USE <1>WokenForBackoff
  <2>1. u \in Tasks /\ TypeOK
    BY ConstTypes DEF IInv, Types, TypeOK
  <2>2. u \notin MustBackOff(l, t)
    BY <2>1 DEF Woken
  <2>3. ~StampAfter(u, t)
    BY <2>2 DEF MustBackOff
  <2> QED
    BY <2>1, <2>3, StampOrder DEF QInv
(* A context appears on a lock in three places. *)
<1>StepContext.
  ASSUME IInv, Contexts, NEW t \in Tasks, Step(t), NEW l \in Locks, ctx'[l] # ctx[l]
  PROVE  \/ ctx'[l] = None
         \/ /\ ctx'[l] = t /\ t \in WwTasks /\ lk[t] = l
            /\ \/ pc'[t] = "fcheck" /\ lk'[t] = l
               \/ Queue(t) /\ CanTake(t, l)
               \/ Acquired(t)
  <2> USE <1>StepContext
  <2>0. /\ pc \in [Tasks -> Locs] /\ ctx \in [Locks -> WwTasks \cup {None}]
        /\ pc[t] # "idle" => lk[t] \in Locks
    BY DEF IInv, Types, TypeOK, CallHasLock
  <2>1. CASE \E k \in Locks : Unlock(t, k)
    BY <2>0, <2>1 DEF Unlock
  <2>2. CASE FastSetContext(t)
    <3>1. lk[t] \in Locks
      BY <2>0, <2>2 DEF FastSetContext
    <3> QED
      BY <2>0, <2>2, <3>1 DEF FastSetContext, SetContext, Goto
  <2>3. CASE Acquired(t)
    <3>1. lk[t] \in Locks
      BY <2>0, <2>3 DEF Acquired
    <3> QED
      BY <2>0, <2>3, <3>1 DEF Acquired, SetContext
  <2>4. CASE Queue(t)
    <3>1. lk[t] \in Locks
      BY <2>0, <2>4 DEF Queue
    <3>2. CanTake(t, lk[t]) /\ SetContext(t, lk[t])
      BY <2>4 DEF Queue, ww
    <3> QED
      BY <2>0, <2>4, <3>1, <3>2 DEF SetContext
  <2>5. CASE ~(\E k \in Locks : Unlock(t, k)) /\ ~FastSetContext(t) /\ ~Acquired(t) /\ ~Queue(t)
    <3>1. ctx' = ctx
      BY <2>5
      DEF Step, Lock, TryLock, FastCheckWaiters, FastWake, SlowTry, SetWaiters, LoopTop, CheckFirst,
          AskHandoff, WaiterTry, UnlockFast, UnlockSlow, UnlockWaiters, WakeUpQ, AcquireInit,
          Signal, StrayWakeup, ww
    <3> QED
      BY <3>1
  <2> QED
    BY <2>1, <2>2, <2>3, <2>4, <2>5
(* A sleeping task takes nothing. *)
<1>StepAcquired.
  ASSUME IInv, NEW t \in Tasks, Step(t), NEW u \in Tasks, pc'[u] = "sched", acquired'[u] > 0
  PROVE  acquired[u] > 0
  <2> USE <1>StepAcquired
  <2>0. /\ pc \in [Tasks -> Locs] /\ acquired \in [Tasks -> Nat]
        /\ ctx \in [Locks -> WwTasks \cup {None}] /\ None \notin Tasks /\ WwTasks \subseteq Tasks
    BY ConstTypes DEF IInv, Types, TypeOK
  <2>1. CASE \E k \in Locks : Unlock(t, k)
    <3>1. PICK k \in Locks : Unlock(t, k)
      BY <2>1
    <3>2. CASE ctx[k] = None
      BY <3>1, <3>2 DEF Unlock
    <3>3. CASE ctx[k] # None
      <4>1. PICK w \in Tasks : w = ctx[k]
        BY <2>0, <3>3
      <4>2. acquired' = [acquired EXCEPT ![w] = IF @ > 0 THEN @ - 1 ELSE @]
        BY <3>1, <3>3, <4>1 DEF Unlock
      <4> QED
        BY <2>0, <4>2
    <3> QED
      BY <3>2, <3>3
  <2>2. ASSUME NEW l, SetContext(t, l), pc'[t] \in {"fcheck", "idle"}
        PROVE  acquired[u] > 0
    <3>1. u # t
      BY <2>2
    <3> QED
      BY <2>0, <2>2, <3>1 DEF SetContext
  <2>3. CASE FastSetContext(t)
    BY <2>0, <2>2, <2>3 DEF FastSetContext, Goto
  <2>4. CASE Acquired(t)
    BY <2>0, <2>2, <2>4 DEF Acquired, Return, Goto
  <2>5. CASE Queue(t)
    <3>1. acquired' = acquired \/ (SetContext(t, lk[t]) /\ Return(t))
      BY <2>5 DEF Queue, ww
    <3> QED
      BY <2>0, <2>2, <3>1 DEF Return, Goto
  <2>6. CASE AcquireInit(t)
    <3>1. u # t
      BY <2>6 DEF AcquireInit
    <3> QED
      BY <2>0, <2>6, <3>1 DEF AcquireInit
  <2>7. CASE /\ ~(\E k \in Locks : Unlock(t, k)) /\ ~FastSetContext(t) /\ ~Acquired(t) /\ ~Queue(t)
             /\ ~AcquireInit(t)
    <3>1. acquired' = acquired
      BY <2>7
      DEF Step, Lock, TryLock, FastCheckWaiters, FastWake, SlowTry, SetWaiters, LoopTop, CheckFirst,
          AskHandoff, WaiterTry, UnlockFast, UnlockSlow, UnlockWaiters, WakeUpQ, Signal, StrayWakeup, ww
    <3> QED
      BY <3>1
  <2> QED
    BY <2>1, <2>3, <2>4, <2>5, <2>6, <2>7, ZenonT(60)
(* A context that is publishing itself wakes the sleeper, or is younger;   *)
(* it sees the flag because the sleeper has set it.                        *)
<1>StepPublishing.
  ASSUME IInv, QInv, Contexts, NEW t \in Tasks, Step(t), NEW l \in Locks, Publishing(t, l),
         NEW u \in WwTasks, pc[u] = "sched", Contains(wait_list[l], u), FirstContext(u, l),
         acquired[u] > 0, state'[u] # "RUNNING"
  PROVE  WaitsFor(u, l, t)'
  <2> USE <1>StepPublishing
  <2>0. pc[t] \in {"fcheck", "fwake"} /\ lk[t] = l /\ t \in WwTasks /\ u # t /\ u \in Tasks
    BY ConstTypes DEF Publishing, Contexts, IInv, Types, TypeOK
  <2>a. pc \in [Tasks -> Locs]
    BY DEF IInv, Types, TypeOK
  <2>1. FastCheckWaiters(t) \/ FastWake(t) \/ Signal(t) \/ StrayWakeup(t)
    <3>1. \A k \in Locks : ~Lock(t, k) /\ ~TryLock(t, k) /\ ~Unlock(t, k)
      BY <2>0 DEF Lock, TryLock, Unlock
    <3>2. ~(FastSetContext(t) \/ SlowTry(t) \/ Queue(t) \/ SetWaiters(t) \/ LoopTop(t))
      BY <2>0 DEF FastSetContext, SlowTry, Queue, SetWaiters, LoopTop
    <3>3. ~(CheckFirst(t) \/ AskHandoff(t) \/ WaiterTry(t) \/ Acquired(t) \/ AcquireInit(t))
      BY <2>0 DEF CheckFirst, AskHandoff, WaiterTry, Acquired, AcquireInit
    <3>4. ~(UnlockFast(t) \/ UnlockSlow(t) \/ UnlockWaiters(t) \/ WakeUpQ(t))
      BY <2>0 DEF UnlockFast, UnlockSlow, UnlockWaiters, WakeUpQ
    <3> QED
      BY <3>1, <3>2, <3>3, <3>4 DEF Step
  <2>2. CASE Signal(t) \/ StrayWakeup(t)
    <3>1. pc' = pc /\ lk' = lk
      BY <2>2 DEF Signal, StrayWakeup
    <3> QED
      BY <2>0, <3>1 DEF WaitsFor, Publishing
  <2>3. CASE FastCheckWaiters(t)
    <3>1. "WAITERS" \in flags[l]
      <4>1. \A y : ~Contains(<<>>, y)
        BY SMTT(30), Z3T(30) DEF Contains
      <4>2. ~Unset(l)
        <5>1. SUFFICES ASSUME Unset(l)
                       PROVE  FALSE
          OBVIOUS
        <5>2. pc[u] = "flag"
          BY <5>1 DEF Unset
        <5> QED
          BY <5>2
      <4> QED
        BY <4>1, <4>2 DEF QInv, Flagged
    <3>2. pc'[t] = "fwake" /\ lk'[t] = l
      BY <2>0, <2>3, <2>a, <3>1 DEF FastCheckWaiters, Goto
    <3> QED
      BY <3>2 DEF WaitsFor, Publishing
  <2>4. CASE FastWake(t)
    <3>1. Woken(MustBackOff(l, t)) /\ ages' = ages
      BY <2>0, <2>4 DEF FastWake, ww
    <3>2. StampAfter(t, u)
      BY <2>0, <3>1, <1>WokenForBackoff
    <3> QED
      BY <3>1, <3>2, SameStamps DEF WaitsFor
  <2> QED
    BY <2>1, <2>2, <2>3, <2>4
<1>StepTakes.
  ASSUME IInv, QInv, NEW t \in Tasks, Step(t), NEW l \in Locks, lk[t] = l, t \in WwTasks,
         (Queue(t) /\ CanTake(t, l)) \/ Acquired(t),
         NEW u \in WwTasks, pc[u] = "sched", Contains(wait_list[l], u), FirstContext(u, l),
         acquired[u] > 0, state'[u] # "RUNNING"
  PROVE  StampAfter(t, u)'
  <2> USE <1>StepTakes
  <2>1. CASE Queue(t) /\ CanTake(t, l)
    <3>1. Woken(MustBackOff(l, t)) /\ ages' = ages /\ pc[t] = "queue"
      BY <2>1 DEF Queue, SetContext
    <3>2. StampAfter(t, u)
      BY <3>1, <1>WokenForBackoff
    <3> QED
      BY <3>1, <3>2, SameStamps
  <2>2. CASE Acquired(t)
    <3>1. ages' = ages /\ pc[t] = "acq"
      BY <2>2 DEF Acquired, SetContext
    <3>2. Contains(wait_list[l], t) /\ t # u
      BY <3>1 DEF QInv, Lined, Waiting
    <3>3. wait_list[l] \in Seq(Tasks)
      BY ListTypes
    <3>4. PICK i \in DOMAIN wait_list[l] :
             /\ wait_list[l][i] = u
             /\ \A j \in DOMAIN wait_list[l] : j < i => wait_list[l][j] \notin WwTasks
      BY ZenonT(60) DEF FirstContext
    <3>5. PICK j \in DOMAIN wait_list[l] : wait_list[l][j] = t
      BY <3>2, <3>3, SMTT(30), Z3T(30) DEF Contains
    <3>6. i # j /\ ~(j < i)
      BY <3>2, <3>4, <3>5
    <3>7. i < j
      BY <3>3, <3>6, SMTT(30), Z3T(30)
    <3>8. StampAfter(t, u)
      BY <3>4, <3>5, <3>7 DEF QInv, WaitListOrdered
    <3> QED
      BY <3>1, <3>8, SameStamps
  <2> QED
    BY <2>1, <2>2
<1>StepPatient.
  ASSUME IInv, IInv', QInv, QInv', Contexts, Patient, NEW t \in Tasks, Step(t)
  PROVE  Patient'
  <2> USE <1>StepPatient
  <2>0. /\ Others(t) /\ Dozes(t) /\ WwTasks' = WwTasks
        /\ WwTasks \subseteq Tasks /\ None \notin Tasks /\ TypeOK
    BY StepOthers, StepDozes, StepLocking, ConstTypes DEF Locking, IInv, Types, TypeOK
  <2>c. \A u \in Tasks : pc[u] # "idle" => lk[u] \in Locks
    BY DEF IInv, Types, CallHasLock
  <2> SUFFICES ASSUME NEW u \in WwTasks, Asleep(u)', acquired'[u] > 0
               PROVE  \E l \in Locks : /\ lk'[u] = l /\ FirstContext(u, l)'
                                       /\ \E v : ctx'[l] = v /\ WaitsFor(u, l, v)'
    <3>1. ASSUME NEW u \in WwTasks, NEW l \in Locks, lk'[u] = l, FirstContext(u, l)',
                 NEW v, ctx'[l] = v, WaitsFor(u, l, v)'
          PROVE  FirstContext(u, lk[u])' /\ WaitsFor(u, lk[u], ctx[lk[u]])'
      BY <3>1 DEF FirstContext, WaitsFor, StampAfter, Publishing
    <3> QED
      BY <2>0, <3>1 DEF Patient
  <2>1. u \in Tasks /\ state'[u] # "RUNNING" /\ pc'[u] = "sched"
    BY <2>0 DEF Asleep
  <2>2. CASE u = t /\ pc[t] = "top" /\ pc'[t] = "sched"
    <3>1. LoopTop(t)
      BY <2>2, StepToSleep
    <3>2. ~MustDie(t, lk[t]) /\ wait_list' = wait_list /\ lk' = lk /\ UNCHANGED ww
      <4>1. ~Return(t) /\ ~Goto(t, "acq")
        BY <2>2 DEF Return, Goto, IInv, Types, TypeOK
      <4> QED
        BY <3>1, <4>1 DEF LoopTop
    <3>3. PICK l \in Locks : l = lk[t]
      BY <2>2, <2>c
    <3>4. acquired[t] > 0 /\ ages' = ages /\ ctx' = ctx /\ lk'[t] = l
      BY <2>2, <3>2, <3>3 DEF ww
    <3>5. Contains(wait_list[l], t)
      BY <2>2, <3>3 DEF QInv, Lined, Waiting
    <3>6. FirstContext(t, l)'
      <4>1. wait_list[l] \in Seq(Tasks)
        BY ListTypes
      <4>2. PICK i \in DOMAIN wait_list[l] : wait_list[l][i] = t
        BY <3>5, <4>1, SMTT(30), Z3T(30) DEF Contains
      <4>3. \A j \in DOMAIN wait_list[l] : j < i => wait_list[l][j] \notin WwTasks
        BY <2>2, <3>2, <3>3, <3>4, <4>2 DEF MustDie
      <4> QED
        BY <2>0, <3>2, <4>2, <4>3 DEF FirstContext
    <3>7. PICK v : v = ctx[l]
      OBVIOUS
    <3>8. v = None \/ StampAfter(v, t)
      <4>1. v \in WwTasks \cup {None} /\ v # t
        BY <2>2, <3>3, <3>7 DEF IInv, Types, TypeOK, Contexts, Waiting
      <4>2. v = None \/ ~StampAfter(t, v)
        BY <2>2, <3>2, <3>3, <3>4, <3>7 DEF MustDie
      <4> QED
        BY <2>0, <2>2, <4>1, <4>2, StampOrder DEF QInv
    <3>9. ctx'[l] = v /\ WaitsFor(t, l, v)'
      BY <3>4, <3>7, <3>8, SameStamps DEF WaitsFor
    <3> QED
      BY <2>2, <3>4, <3>6, <3>9
  <2>3. CASE Asleep(u)
    <3>1. pc[u] = "sched"
      BY <2>3 DEF Asleep
    <3>2. PICK l \in Locks : l = lk[u]
      BY <2>1, <2>c, <3>1
    <3>3. lk'[u] = l
      <4>1. CASE u # t
        BY <2>0, <2>1, <3>2, <4>1 DEF Others
      <4>2. CASE u = t
        <5>1. Stays(t)
          BY <2>1, <3>1, <4>2, StepMoves DEF Joins, Leaves
        <5> QED
          BY <3>1, <3>2, <4>2, <5>1 DEF Stays, Waiting
      <4> QED
        BY <4>1, <4>2
    <3>4. Contains(wait_list[l], u) /\ Contains(wait_list'[l], u)
      BY <2>1, <3>1, <3>2, <3>3 DEF QInv, Lined, Waiting
    <3>5. acquired[u] > 0
      BY <2>1, <1>StepAcquired
    <3>6. FirstContext(u, l) /\ WaitsFor(u, l, ctx[l])
      BY <2>3, <3>2, <3>5 DEF Patient
    <3>7. FirstContext(u, l)'
      BY <2>1, <3>4, <3>5, <3>6, <1>StepFirst
    <3>8. CASE ctx'[l] = ctx[l]
      <4>1. PICK v : v = ctx[l] /\ v = ctx'[l]
        BY <3>8
      <4>2. WaitsFor(u, l, v)
        BY <3>6, <4>1
      <4>3. ASSUME StampAfter(v, u)
            PROVE  StampAfter(v, u)'
        <5>1. CASE ages' = ages
          BY <4>3, <5>1, SameStamps
        <5>2. CASE AcquireInit(t)
          <6>1. pc[t] = "idle" /\ held[t] = {}
            BY <5>2 DEF AcquireInit
          <6>2. u # t
            BY <3>1, <6>1
          <6>3. v # None
            BY <2>0, <4>3, StampOrder DEF QInv
          <6>4. v # t
            <7>1. l \in held[v] \/ pc[v] \in {"fcheck", "fwake"}
              BY <4>1, <6>3 DEF IInv, Exclusive
            <7> QED
              BY <6>1, <7>1
          <6> QED
            BY <4>3, <6>2, <6>4, StepStampOrder
        <5> QED
          BY <5>1, <5>2, StepStamps
      <4>4. ASSUME Publishing(v, l), v # None
            PROVE  WaitsFor(u, l, v)'
        <5>0. v \in Tasks
          BY <2>0, <4>1, <4>4, ZenonT(60) DEF IInv, Types, TypeOK
        <5>1. CASE v # t
          BY <2>0, <4>4, <5>0, <5>1 DEF Others, Publishing, WaitsFor
        <5>2. CASE v = t
          BY <2>1, <3>1, <3>4, <3>5, <3>6, <4>4, <5>2, <1>StepPublishing, ZenonT(60)
        <5> QED
          BY <5>1, <5>2
      <4>5. WaitsFor(u, l, v)'
        BY <4>2, <4>3, <4>4 DEF WaitsFor
      <4> QED
        BY <3>3, <3>7, <4>1, <4>5
    <3>9. CASE ctx'[l] # ctx[l]
      <4>1. CASE ctx'[l] = None
        BY <3>3, <3>7, <4>1 DEF WaitsFor
      <4>2. CASE ctx'[l] = t /\ t \in WwTasks /\ lk[t] = l
        <5>0. ASSUME WaitsFor(u, l, t)'
              PROVE  \E m \in Locks : /\ lk'[u] = m /\ FirstContext(u, m)'
                                      /\ \E v : ctx'[m] = v /\ WaitsFor(u, m, v)'
          BY <3>3, <3>7, <4>2, <5>0
        <5>1. CASE pc'[t] = "fcheck" /\ lk'[t] = l
          BY <5>0, <5>1 DEF WaitsFor, Publishing
        <5>2. CASE (Queue(t) /\ CanTake(t, l)) \/ Acquired(t)
          BY <2>1, <3>1, <3>4, <3>5, <3>6, <4>2, <5>0, <5>2, <1>StepTakes, ZenonT(60) DEF WaitsFor
        <5> QED
          BY <3>9, <4>1, <5>1, <5>2, <1>StepContext
      <4> QED
        BY <3>9, <4>1, <4>2, <1>StepContext
    <3> QED
      BY <3>8, <3>9
  <2> QED
    BY <2>0, <2>1, <2>2, <2>3 DEF Dozes
<1> SUFFICES ASSUME IInv, WInv, DInv, [Next]_vars
             PROVE  DInv'
  OBVIOUS
<1>1. IInv' /\ WInv'
  BY StepIInv, StepWInv
<1>2. ASSUME NEW t \in Tasks, Step(t)
      PROVE  DInv'
  BY <1>1, <1>2, <1>StepOwned, <1>StepContexts, <1>StepPatient DEF WInv, DInv
<1>3. CASE UNCHANGED vars
  <2>1. /\ UNCHANGED <<pc, lk, owner, flags, wait_list, wake_q, state, held, handoff, ctx, acquired, ages>>
        /\ WwTasks' = WwTasks
    BY <1>3, SameContexts DEF vars, word, sleep, ww, caller
  <2>2. Owned'
    BY <2>1 DEF DInv, Owned, OwnedAt, HasLock
  <2>3. Contexts'
    BY <2>1 DEF DInv, Contexts
  <2>4. Patient'
    BY <2>1, ZenonT(60) DEF DInv, Patient, Asleep, FirstContext, WaitsFor, StampAfter, Publishing
  <2> QED
    BY <2>2, <2>3, <2>4 DEF DInv
<1> QED
  BY <1>2, <1>3, StepTaken

(* Tasks with contexts that take locks in any order, and those that take   *)
(* one lock without, never sleep in a circle: __ww_mutex_add_waiter(),     *)
(* __ww_mutex_lock_check_stamp() and __ww_mutex_wakeup_for_backoff() see   *)
(* to it that a sleeper that holds locks waits for a younger context.      *)
THEOREM MutexesDoNotDeadlock == Spec => []NoDeadlock
<1>1. IInv /\ WInv /\ DInv => NoDeadlock
  BY DInvNoDeadlock
<1> QED
  BY <1>1, InitIInv, InitWInv, InitDInv, StepIInv, StepWInv, StepDInv, PTL DEF Spec
=============================================================================
