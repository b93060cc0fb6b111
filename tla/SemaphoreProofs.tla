--------------------------- MODULE SemaphoreProofs ---------------------------
(***************************************************************************)
(* Proofs about Semaphore, for every set of tasks, initial count and       *)
(* number of unmatched up() calls.                                         *)
(***************************************************************************)
EXTENDS Semaphore, TLAPS, FiniteSetTheorems

(* list_del() of the entry at one place of a list: the entries that are    *)
(* behind it move up by one.                                               *)
LEMMA ListDelAtProperties ==
  ASSUME NEW S, NEW s \in Seq(S), NEW i \in 1 .. Len(s)
  PROVE  /\ ListDelAt(s, i) \in Seq(S)
         /\ Len(ListDelAt(s, i)) = Len(s) - 1
         /\ \A j \in 1 .. Len(s) - 1 :
              ListDelAt(s, i)[j] = IF j < i THEN s[j] ELSE s[j + 1]
<1>1. Len(s) \in Nat /\ Len(s) - 1 \in Nat
  OBVIOUS
<1>2. \A j \in 1 .. Len(s) - 1 : s[IF j < i THEN j ELSE j + 1] \in S
  BY <1>1
<1>3. ListDelAt(s, i) \in [1 .. Len(s) - 1 -> S]
  BY <1>2 DEF ListDelAt
<1>4. ListDelAt(s, i) \in Seq(S) /\ Len(ListDelAt(s, i)) = Len(s) - 1
  BY <1>1, <1>3
<1> QED
  BY <1>1, <1>4 DEF ListDelAt

(* list_add_tail() of an entry that is not on the list. *)
LEMMA AppendDistinct ==
  ASSUME NEW S, NEW s \in Seq(S), NEW x \in S, IsInjective(s), ~Contains(s, x)
  PROVE  /\ Append(s, x) \in Seq(S)
         /\ IsInjective(Append(s, x))
         /\ \A y : Contains(Append(s, x), y) <=> y = x \/ Contains(s, y)
<1>1. /\ Append(s, x) \in Seq(S)
      /\ Len(Append(s, x)) = Len(s) + 1
      /\ \A i \in 1 .. Len(s) : Append(s, x)[i] = s[i]
      /\ Append(s, x)[Len(s) + 1] = x
      /\ Len(s) \in Nat
      /\ DOMAIN s = 1 .. Len(s)
      /\ DOMAIN Append(s, x) = 1 .. Len(s) + 1
  OBVIOUS
<1> DEFINE a == Append(s, x)
<1> HIDE DEF a
<1>2. IsInjective(a)
  BY <1>1 DEF a, IsInjective, Contains
<1>3. \A y : Contains(a, y) <=> y = x \/ Contains(s, y)
  BY <1>1 DEF a, Contains
<1> QED
  BY <1>1, <1>2, <1>3 DEF a

(* Taking the first entry off a list on which no entry is twice. *)
LEMMA TailDistinct ==
  ASSUME NEW S, NEW s \in Seq(S), s # <<>>, IsInjective(s)
  PROVE  /\ Tail(s) \in Seq(S) /\ Head(s) \in S
         /\ IsInjective(Tail(s))
         /\ Contains(s, Head(s))
         /\ \A y : Contains(Tail(s), y) <=> y # Head(s) /\ Contains(s, y)
<1> DEFINE t == Tail(s)
<1>1. /\ Head(s) \in S /\ Head(s) = s[1]
      /\ t \in Seq(S)
      /\ Len(t) = Len(s) - 1
      /\ \A i \in 1 .. Len(t) : t[i] = s[i + 1]
      /\ Len(s) \in Nat /\ Len(s) > 0
      /\ DOMAIN s = 1 .. Len(s)
      /\ DOMAIN t = 1 .. Len(t)
  OBVIOUS
<1> HIDE DEF t
<1>2. IsInjective(t)
  <2>1. \A a, b \in 1 .. Len(s) : s[a] = s[b] => a = b
    BY <1>1 DEF IsInjective
  <2> SUFFICES ASSUME NEW j \in 1 .. Len(t), NEW k \in 1 .. Len(t), t[j] = t[k]
               PROVE  j = k
    BY <1>1 DEF IsInjective
  <2> QED
    BY <2>1, <1>1
<1>3. ASSUME NEW y, Contains(t, y)
      PROVE  y # Head(s) /\ Contains(s, y)
  <2>1. PICK i \in 1 .. Len(t) : t[i] = y
    BY <1>3 DEF Contains
  <2>2. i + 1 \in 1 .. Len(s) /\ i + 1 # 1 /\ s[i + 1] = y /\ 1 \in 1 .. Len(s)
    BY <2>1, <1>1
  <2> QED
    BY <2>2, <1>1 DEF IsInjective, Contains
<1>4. ASSUME NEW y, y # Head(s), Contains(s, y)
      PROVE  Contains(t, y)
  <2>1. PICK i \in 1 .. Len(s) : s[i] = y
    BY <1>4 DEF Contains
  <2>2. i - 1 \in 1 .. Len(t) /\ (i - 1) + 1 = i
    BY <2>1, <1>1, <1>4
  <2>3. t[i - 1] = y
    BY <2>1, <2>2, <1>1
  <2> QED
    BY <2>2, <2>3 DEF Contains
<1>5. Contains(s, Head(s))
  BY <1>1 DEF Contains
<1> QED
  BY <1>1, <1>2, <1>3, <1>4, <1>5 DEF t

(* list_del() of one entry of a list on which no entry is twice. *)
LEMMA ListDelAtDistinct ==
  ASSUME NEW S, NEW s \in Seq(S), NEW i \in 1 .. Len(s), IsInjective(s)
  PROVE  /\ ListDelAt(s, i) \in Seq(S)
         /\ IsInjective(ListDelAt(s, i))
         /\ \A y : Contains(ListDelAt(s, i), y) <=> y # s[i] /\ Contains(s, y)
<1> DEFINE r == ListDelAt(s, i)
<1>1. /\ r \in Seq(S)
      /\ Len(r) = Len(s) - 1
      /\ \A j \in 1 .. Len(s) - 1 : r[j] = IF j < i THEN s[j] ELSE s[j + 1]
  BY ListDelAtProperties
<1>2. /\ Len(s) \in Nat
      /\ DOMAIN s = 1 .. Len(s)
      /\ DOMAIN r = 1 .. Len(s) - 1
  BY <1>1
<1> HIDE DEF r
<1>3. IsInjective(r)
  <2>1. \A a, b \in 1 .. Len(s) : s[a] = s[b] => a = b
    BY <1>2 DEF IsInjective
  <2> SUFFICES ASSUME NEW j \in 1 .. Len(s) - 1, NEW k \in 1 .. Len(s) - 1, r[j] = r[k]
               PROVE  j = k
    BY <1>2 DEF IsInjective
  <2> DEFINE from(n) == IF n < i THEN n ELSE n + 1
  <2>2. /\ from(j) \in 1 .. Len(s) /\ r[j] = s[from(j)]
        /\ from(k) \in 1 .. Len(s) /\ r[k] = s[from(k)]
    BY <1>1, <1>2
  <2>3. from(j) = from(k)
    <3> HIDE DEF from
    <3> QED
      BY <2>1, <2>2, ZenonT(30)
  <2> QED
    BY <2>3, <1>2
<1>4. ASSUME NEW y, Contains(r, y)
      PROVE  y # s[i] /\ Contains(s, y)
  <2>1. PICK j \in 1 .. Len(s) - 1 : r[j] = y
    BY <1>4, <1>1 DEF Contains
  <2>2. PICK k \in 1 .. Len(s) : k # i /\ s[k] = y
    BY <2>1, <1>1, <1>2
  <2> QED
    BY <2>2, <1>2 DEF IsInjective, Contains
<1>5. ASSUME NEW y, y # s[i], Contains(s, y)
      PROVE  Contains(r, y)
  <2>1. PICK j \in 1 .. Len(s) : s[j] = y
    BY <1>5 DEF Contains
  <2>2. CASE j < i
    <3>1. j \in 1 .. Len(s) - 1 /\ r[j] = y
      BY <2>1, <2>2, <1>1, <1>2
    <3> QED
      BY <3>1, <1>1 DEF Contains
  <2>3. CASE j > i
    <3>1. j - 1 \in 1 .. Len(s) - 1 /\ ~(j - 1 < i) /\ (j - 1) + 1 = j
      BY <2>1, <2>3, <1>2
    <3>2. r[j - 1] = y
      BY <2>1, <3>1, <1>1
    <3> QED
      BY <3>1, <3>2, <1>1 DEF Contains
  <2> QED
    BY <2>1, <2>2, <2>3, <1>5, <1>2
<1> QED
  BY <1>1, <1>3, <1>4, <1>5 DEF r

(* The semaphore's variables keep their types; in particular sem->count,   *)
(* which down() and down_trylock() decrement, never becomes negative.      *)
THEOREM TypeCorrect == Spec => []TypeOK
<1>1. Init => TypeOK
  BY SemAssumption DEF Init, TypeOK, Modes, Timeouts
<1>2. TypeOK /\ [Next]_vars => TypeOK'
  <2> SUFFICES ASSUME TypeOK, [Next]_vars
               PROVE  TypeOK'
    BY ZenonT(30)
  <2> USE DEF TypeOK
  <2>1. CASE DownFast
    BY <2>1 DEF DownFast
  <2>2. CASE Up
    <3>1. /\ owned' \in Nat /\ extra' \in Nat
          /\ UNCHANGED <<pc, mode, timeout, sig>>
      BY <2>2, SemAssumption DEF Up
    <3>2. CASE wait_list = <<>>
      BY <2>2, <3>1, <3>2 DEF Up
    <3>3. CASE wait_list # <<>>
      <4>1. Head(wait_list) \in Tasks /\ Tail(wait_list) \in Seq(Tasks)
        BY <3>3
      <4> QED
        BY <2>2, <3>1, <3>3, <4>1, ZenonT(30) DEF Up
    <3> QED
      BY <3>2, <3>3, ZenonT(30)
  <2>3. ASSUME NEW t \in Tasks, DownBlock(t)
        PROVE  TypeOK'
    <3>1. Append(wait_list, t) \in Seq(Tasks)
      OBVIOUS
    <3> QED
      BY <2>3, <3>1 DEF DownBlock, Calls, Modes, Timeouts
  <2>4. ASSUME NEW t \in Tasks, Wait(t)
        PROVE  TypeOK'
    <3>1. CASE WaitSucceed(t)
      BY <3>1 DEF WaitSucceed
    <3>2. CASE WaitFail(t)
      <4>1. PICK i \in DOMAIN wait_list : wait_list' = ListDelAt(wait_list, i)
        BY <3>2, ZenonT(30) DEF WaitFail
      <4>2. i \in 1 .. Len(wait_list)
        OBVIOUS
      <4>3. wait_list' \in Seq(Tasks)
        BY <4>1, <4>2, ListDelAtProperties, ZenonT(30)
      <4> QED
        BY <3>2, <4>3, ZenonT(30) DEF WaitFail
    <3>3. CASE WaitAgain(t)
      BY <3>3, ZenonT(30) DEF WaitAgain
    <3> QED
      BY <2>4, <3>1, <3>2, <3>3, ZenonT(30) DEF Wait
  <2>5. ASSUME NEW t \in Tasks,
               Signal(t) \/ TimerFires(t) \/ StrayWakeup(t) \/ HandleSignals(t)
        PROVE  TypeOK'
    <3>1. CASE Signal(t)
      BY <3>1, ZenonT(30) DEF Signal
    <3>2. CASE TimerFires(t)
      BY <3>2, ZenonT(30) DEF TimerFires, Timeouts
    <3>3. CASE StrayWakeup(t) \/ HandleSignals(t)
      BY <3>3, ZenonT(30) DEF StrayWakeup, HandleSignals
    <3> QED
      BY <2>5, <3>1, <3>2, <3>3, ZenonT(30)
  <2>6. CASE UNCHANGED vars
    BY <2>6, ZenonT(30) DEF vars
  <2> QED
    BY <2>1, <2>2, <2>3, <2>4, <2>5, <2>6, ZenonT(30) DEF Next
<1> QED
  BY <1>1, <1>2, PTL DEF Spec
-----------------------------------------------------------------------------
(* Queued waiters and the count, together: neither is inductive without    *)
(* the other, since up() decides between them by looking at the list only. *)
QueueInv == NoWaiterLeftBehind /\ QueueMatchesWaiters

(* Every step keeps the invariant about the wait list. *)
LEMMA QueueInductive == TypeOK /\ QueueInv /\ [Next]_vars => QueueInv'
<1> SUFFICES ASSUME TypeOK, QueueInv, [Next]_vars
             PROVE  QueueInv'
  BY ZenonT(30)
<1> USE DEF TypeOK, QueueInv, NoWaiterLeftBehind, QueueMatchesWaiters
<1>1. CASE DownFast
  BY <1>1, ZenonT(30) DEF DownFast
<1>2. CASE Up
  <2>1. CASE wait_list = <<>>
    BY <1>2, <2>1, ZenonT(30) DEF Up
  <2>2. CASE wait_list # <<>>
    <3>1. /\ wait_list' = Tail(wait_list)
          /\ up' = [up EXCEPT ![Head(wait_list)] = TRUE]
          /\ state' = [state EXCEPT ![Head(wait_list)] = "RUNNING"]
          /\ UNCHANGED <<count, pc>>
      BY <1>2, <2>2, ZenonT(30) DEF Up
    <3>2. /\ Head(wait_list) \in Tasks
          /\ IsInjective(wait_list')
          /\ Contains(wait_list, Head(wait_list))
          /\ \A t : Contains(wait_list', t) <=> t # Head(wait_list) /\ Contains(wait_list, t)
      BY <2>2, <3>1, TailDistinct, ZenonT(30)
    <3> QED
      BY <2>2, <3>1, <3>2, ZenonT(30)
  <2> QED
    BY <2>1, <2>2, ZenonT(30)
<1>3. ASSUME NEW t \in Tasks, DownBlock(t)
      PROVE  QueueInv'
  <2>1. /\ pc[t] = "idle" /\ count = 0 /\ count' = count
        /\ wait_list' = Append(wait_list, t)
        /\ up' = [up EXCEPT ![t] = FALSE]
        /\ pc' = [pc EXCEPT ![t] = "wait"]
        /\ \A u \in Tasks \ {t} : state'[u] = state[u]
    BY <1>3 DEF DownBlock
  <2>2. /\ IsInjective(wait_list')
        /\ \A u : Contains(wait_list', u) <=> u = t \/ Contains(wait_list, u)
    BY <2>1, AppendDistinct, ZenonT(30)
  <2> QED
    BY <2>1, <2>2
<1>4. ASSUME NEW t \in Tasks, Wait(t)
      PROVE  QueueInv'
  <2>1. CASE WaitSucceed(t)
    BY <2>1, ZenonT(30) DEF WaitSucceed
  <2>2. CASE WaitFail(t)
    <3>1. PICK i \in DOMAIN wait_list :
            wait_list[i] = t /\ wait_list' = ListDelAt(wait_list, i)
      BY <2>2, ZenonT(30) DEF WaitFail
    <3>2. /\ pc' = [pc EXCEPT ![t] = "idle"]
          /\ ~up[t]
          /\ UNCHANGED <<count, up, state>>
      BY <2>2, ZenonT(30) DEF WaitFail
    <3>3. i \in 1 .. Len(wait_list) /\ wait_list # <<>>
      OBVIOUS
    <3>4. /\ IsInjective(wait_list')
          /\ \A u : Contains(wait_list', u) <=> u # t /\ Contains(wait_list, u)
      BY <3>1, <3>3, ListDelAtDistinct, ZenonT(30)
    <3> QED
      BY <3>2, <3>3, <3>4, ZenonT(30)
  <2>3. CASE WaitAgain(t)
    BY <2>3, ZenonT(30) DEF WaitAgain
  <2> QED
    BY <1>4, <2>1, <2>2, <2>3, ZenonT(30) DEF Wait
<1>5. ASSUME NEW t \in Tasks,
             Signal(t) \/ TimerFires(t) \/ StrayWakeup(t) \/ HandleSignals(t)
      PROVE  QueueInv'
  BY <1>5 DEF Signal, TimerFires, StrayWakeup, HandleSignals
<1>6. CASE UNCHANGED vars
  BY <1>6, ZenonT(30) DEF vars
<1> QED
  BY <1>1, <1>2, <1>3, <1>4, <1>5, <1>6, ZenonT(30) DEF Next

(* So it always holds. *)
LEMMA QueueInvariance == Spec => []QueueInv
<1>1. Init => QueueInv
  BY DEF Init, QueueInv, NoWaiterLeftBehind, QueueMatchesWaiters, IsInjective, Contains
<1> QED
  BY <1>1, QueueInductive, TypeCorrect, PTL DEF Spec

(* Nobody sleeps in __down_common while sem->count is positive. *)
THEOREM NobodyLeftBehind == Spec => []NoWaiterLeftBehind
<1>1. QueueInv => NoWaiterLeftBehind
  BY ZenonT(30) DEF QueueInv
<1> QED
  BY <1>1, QueueInvariance, PTL

(* At every moment the wait list and the grants agree: no waiter is in     *)
(* __down_common that is neither queued nor about to see waiter.up, and    *)
(* none is queued twice.                                                   *)
THEOREM QueueCorrect == Spec => []QueueMatchesWaiters
<1>1. QueueInv => QueueMatchesWaiters
  BY ZenonT(30) DEF QueueInv
<1> QED
  BY <1>1, QueueInvariance, PTL
-----------------------------------------------------------------------------
(* Every step keeps the number of units; QueueInv says that __up() grants  *)
(* only to a waiter not yet granted, and that a new waiter has no grant.   *)
LEMMA UnitsInductive ==
  TypeOK /\ QueueInv /\ UnitsConserved /\ [Next]_vars => UnitsConserved'
<1> SUFFICES ASSUME TypeOK, QueueInv, UnitsConserved, [Next]_vars
             PROVE  UnitsConserved'
  BY ZenonT(30)
<1> USE DEF TypeOK, UnitsConserved
<1>0. IsFiniteSet(Granted) /\ Cardinality(Granted) \in Nat
  BY SemAssumption, FS_Subset, FS_CardinalityType, ZenonT(30) DEF Granted
<1>1. CASE DownFast
  <2>1. Granted' = Granted
    BY <1>1, ZenonT(30) DEF DownFast, Granted
  <2> QED
    BY <1>0, <1>1, <2>1, SemAssumption DEF DownFast
<1>2. CASE Up
  <2>1. \/ owned' = owned - 1 /\ extra' = extra
        \/ owned' = owned /\ extra' = extra + 1
    BY <1>2, SemAssumption, ZenonT(30) DEF Up
  <2>2. CASE wait_list = <<>>
    <3>1. Granted' = Granted /\ count' = count + 1
      BY <1>2, <2>2, ZenonT(30) DEF Up, Granted
    <3> QED
      BY <1>0, <2>1, <3>1, SemAssumption
  <2>3. CASE wait_list # <<>>
    <3> DEFINE h == Head(wait_list)
    <3>1. h \in Tasks /\ Contains(wait_list, h)
      BY <2>3, TailDistinct, ZenonT(30) DEF QueueInv, QueueMatchesWaiters
    <3>2. h \notin Granted
      BY <3>1, ZenonT(30) DEF QueueInv, QueueMatchesWaiters, Granted
    <3>3. up' = [up EXCEPT ![h] = TRUE] /\ count' = count
      BY <1>2, <2>3, ZenonT(30) DEF Up
    <3>4. Granted' = Granted \cup {h}
      BY <3>1, <3>3, ZenonT(30) DEF Granted
    <3>5. Cardinality(Granted') = Cardinality(Granted) + 1
      BY <1>0, <3>2, <3>4, FS_AddElement, ZenonT(30)
    <3> QED
      BY <1>0, <2>1, <3>3, <3>5, SemAssumption
  <2> QED
    BY <2>2, <2>3, ZenonT(30)
<1>3. ASSUME NEW t \in Tasks, DownBlock(t)
      PROVE  UnitsConserved'
  <2>1. ~up[t]
    BY <1>3, ZenonT(30) DEF DownBlock, QueueInv, QueueMatchesWaiters
  <2>2. Granted' = Granted
    BY <1>3, <2>1, ZenonT(30) DEF DownBlock, Granted
  <2> QED
    BY <1>3, <2>2, ZenonT(30) DEF DownBlock
<1>4. ASSUME NEW t \in Tasks, WaitSucceed(t)
      PROVE  UnitsConserved'
  <2>1. t \in Granted /\ Granted' = Granted \ {t}
    BY <1>4, ZenonT(30) DEF WaitSucceed, Granted
  <2>2. Cardinality(Granted') = Cardinality(Granted) - 1
    BY <1>0, <2>1, FS_RemoveElement, ZenonT(30)
  <2> QED
    BY <1>0, <1>4, <2>2, SemAssumption DEF WaitSucceed
<1>5. ASSUME NEW t \in Tasks,
             \/ WaitFail(t) \/ WaitAgain(t) \/ Signal(t)
             \/ TimerFires(t) \/ StrayWakeup(t) \/ HandleSignals(t)
      PROVE  UnitsConserved'
  <2>1. UNCHANGED <<count, up, owned, extra>>
    BY <1>5, ZenonT(30) DEF WaitFail, WaitAgain, Signal, TimerFires, StrayWakeup, HandleSignals
  <2> QED
    BY <2>1, ZenonT(30) DEF Granted
<1>6. CASE UNCHANGED vars
  BY <1>6, ZenonT(30) DEF vars, Granted
<1> QED
  BY <1>1, <1>2, <1>3, <1>4, <1>5, <1>6, ZenonT(30) DEF Next, Wait

(* Units are neither lost nor made, however up() races with the signals    *)
(* and timeouts that end a wait in __down_common.                          *)
THEOREM UnitsConservedAlways == Spec => []UnitsConserved
<1>1. Init => UnitsConserved
  <2> SUFFICES ASSUME Init
               PROVE  UnitsConserved
    BY ZenonT(30)
  <2>1. Granted = {}
    BY ZenonT(30) DEF Init, Granted
  <2> QED
    BY <2>1, FS_EmptySet, SemAssumption DEF Init, UnitsConserved
<1> QED
  BY <1>1, UnitsInductive, QueueInvariance, TypeCorrect, PTL DEF Spec
=============================================================================
