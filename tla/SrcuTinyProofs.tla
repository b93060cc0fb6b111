--------------------------- MODULE SrcuTinyProofs ---------------------------
(***************************************************************************)
(* Proofs about SrcuTiny, for every set of callbacks and at most SHRT_MAX  *)
(* readers at a time, more of which would overflow srcu_lock_nesting.      *)
(***************************************************************************)
EXTENDS SrcuTiny, List, TLAPS, FiniteSetTheorems

(* list_add_tail() of an entry that is not on the list. *)
LEMMA AppendDistinct ==
  ASSUME NEW S, NEW s \in Seq(S), NEW x \in S, IsInjective(s), ~Contains(s, x)
  PROVE  /\ Append(s, x) \in Seq(S)
         /\ IsInjective(Append(s, x))
         /\ \A y : Contains(Append(s, x), y) <=> y = x \/ Contains(s, y)
<1>1. /\ Append(s, x) \in Seq(S)
      /\ Len(Append(s, x)) = Len(s) + 1
      /\ \A i \in 1 .. Len(s) : Append(s, x)[i] = s[i]
      /\ Append(s, x)[Len(s) + 1] = x
      /\ Len(s) \in Nat
      /\ DOMAIN s = 1 .. Len(s)
      /\ DOMAIN Append(s, x) = 1 .. Len(s) + 1
  OBVIOUS
<1> DEFINE a == Append(s, x)
<1> HIDE DEF a
<1>2. IsInjective(a)
  BY <1>1 DEF a, IsInjective, Contains
<1>3. \A y : Contains(a, y) <=> y = x \/ Contains(s, y)
  BY <1>1 DEF a, Contains
<1> QED
  BY <1>1, <1>2, <1>3 DEF a

(* Taking the first entry off a list on which no entry is twice. *)
LEMMA TailDistinct ==
  ASSUME NEW S, NEW s \in Seq(S), s # <<>>, IsInjective(s)
  PROVE  /\ Tail(s) \in Seq(S) /\ Head(s) \in S
         /\ IsInjective(Tail(s))
         /\ Contains(s, Head(s))
         /\ \A y : Contains(Tail(s), y) <=> y # Head(s) /\ Contains(s, y)
<1> DEFINE t == Tail(s)
<1>1. /\ Head(s) \in S /\ Head(s) = s[1]
      /\ t \in Seq(S)
      /\ Len(t) = Len(s) - 1
      /\ \A i \in 1 .. Len(t) : t[i] = s[i + 1]
      /\ Len(s) \in Nat /\ Len(s) > 0
      /\ DOMAIN s = 1 .. Len(s)
      /\ DOMAIN t = 1 .. Len(t)
  OBVIOUS
<1> HIDE DEF t
<1>2. IsInjective(t)
  <2>1. \A a, b \in 1 .. Len(s) : s[a] = s[b] => a = b
    BY <1>1, SMTT(30) DEF IsInjective
  <2> SUFFICES ASSUME NEW j \in 1 .. Len(t), NEW k \in 1 .. Len(t), t[j] = t[k]
               PROVE  j = k
    BY <1>1 DEF IsInjective
  <2> QED
    BY <2>1, <1>1
<1>3. ASSUME NEW y, Contains(t, y)
      PROVE  y # Head(s) /\ Contains(s, y)
  <2>1. PICK i \in 1 .. Len(t) : t[i] = y
    BY <1>3 DEF Contains
  <2>2. i + 1 \in 1 .. Len(s) /\ i + 1 # 1 /\ s[i + 1] = y /\ 1 \in 1 .. Len(s)
    BY <2>1, <1>1
  <2> QED
    BY <2>2, <1>1 DEF IsInjective, Contains
<1>4. ASSUME NEW y, y # Head(s), Contains(s, y)
      PROVE  Contains(t, y)
  <2>1. PICK i \in 1 .. Len(s) : s[i] = y
    BY <1>4 DEF Contains
  <2>2. i - 1 \in 1 .. Len(t) /\ (i - 1) + 1 = i
    BY <2>1, <1>1, <1>4
  <2>3. t[i - 1] = y
    BY <2>1, <2>2, <1>1
  <2> QED
    BY <2>2, <2>3 DEF Contains
<1>5. Contains(s, Head(s))
  BY <1>1 DEF Contains
<1> QED
  BY <1>1, <1>2, <1>3, <1>4, <1>5 DEF t

On(i) == {r \in Readers : rd[r] = i}

(* The counters count the readers of their index. *)
CountInv == \A i \in {0, 1} : srcu_lock_nesting[i] = Cardinality(On(i))

(* Why one flip is enough: outside of the wait no reader is on the index   *)
(* that new readers do not use, so when the index changes all readers are  *)
(* on the index that is waited for, and those older than a callback among  *)
(* them.                                                                   *)
Waits == {"waiting", "prepare", "check", "sleep"}
PhaseInv ==
  /\ \A c \in Callbacks : \A r \in old[c] : rd[r] # None
  /\ pc \notin Waits => \A r \in Readers : rd[r] \in {None, srcu_idx}
  /\ pc \in Waits \cup {"waited"} =>
       /\ idx = 1 - srcu_idx
       /\ \A i \in DOMAIN lh : \A r \in old[lh[i]] : rd[r] = idx
  /\ pc \in {"idle", "grab", "again"} => lh = <<>>
  /\ pc = "invoke" => \A i \in DOMAIN lh : old[lh[i]] = {}

(* NothingLost in terms of Contains, which the lemmas speak of. *)
DistinctInv ==
  /\ \A c \in Callbacks : c \in posted <=> Contains(srcu_cb, c) \/ Contains(lh, c)
  /\ IsInjective(srcu_cb)
  /\ IsInjective(lh)
  /\ \A c \in Callbacks : ~(Contains(srcu_cb, c) /\ Contains(lh, c))

IInv == TypeOK /\ CountInv /\ PhaseInv /\ DistinctInv

(* The readers on one of the two counters are finitely many. *)
LEMMA OnFinite ==
  \A i : IsFiniteSet(On(i)) /\ Cardinality(On(i)) \in Nat
BY SrcuAssumption, FS_Subset, FS_CardinalityType, ZenonT(30) DEF On

(* A short can count the readers on a counter. *)
LEMMA FitsShort ==
  ASSUME NEW S \in SUBSET Readers
  PROVE  Cardinality(S) \in 0 .. SHRT_MAX
<1>1. /\ Cardinality(Readers) \in Nat /\ Cardinality(Readers) <= SHRT_MAX
      /\ Cardinality(S) \in Nat /\ Cardinality(S) <= Cardinality(Readers)
  BY SrcuAssumption, FS_Subset, FS_CardinalityType, ZenonT(30)
<1>2. SHRT_MAX \in Nat
  BY DEF SHRT_MAX
<1> QED
  BY <1>1, <1>2

(* Every step keeps the counters equal to the numbers of readers. *)
LEMMA CountInductive == TypeOK /\ CountInv /\ [Next]_vars => CountInv'
<1> SUFFICES ASSUME TypeOK, CountInv, [Next]_vars
             PROVE  CountInv'
  BY ZenonT(30)
<1> USE DEF TypeOK
<1>1. ASSUME NEW r \in Readers, ReadLock(r)
      PROVE  CountInv'
  <2>1. /\ rd[r] = None
        /\ rd' = [rd EXCEPT ![r] = srcu_idx]
        /\ srcu_lock_nesting' = [srcu_lock_nesting EXCEPT ![srcu_idx] = @ + 1]
    BY <1>1, ZenonT(30) DEF ReadLock
  <2>2. ASSUME NEW i \in {0, 1}
        PROVE  srcu_lock_nesting'[i] = Cardinality(On(i)')
    <3>1. CASE i = srcu_idx
      <4>1. On(i)' = On(i) \cup {r} /\ r \notin On(i)
        BY <2>1, <3>1, SrcuAssumption, ZenonT(30) DEF On
      <4>2. Cardinality(On(i)') = Cardinality(On(i)) + 1
        BY <4>1, OnFinite, FS_AddElement, ZenonT(30)
      <4> QED
        BY <2>1, <3>1, <4>2, ZenonT(30) DEF CountInv
    <3>2. CASE i # srcu_idx
      <4>1. On(i)' = On(i)
        BY <2>1, <3>2, SrcuAssumption, ZenonT(30) DEF On
      <4> QED
        BY <2>1, <3>2, <4>1, ZenonT(30) DEF CountInv
    <3> QED
      BY <3>1, <3>2, ZenonT(30)
  <2> QED
    BY <2>2, ZenonT(30) DEF CountInv
<1>2. ASSUME NEW r \in Readers, ReadUnlock(r)
      PROVE  CountInv'
  <2>1. /\ rd[r] \in {0, 1}
        /\ rd' = [rd EXCEPT ![r] = None]
        /\ srcu_lock_nesting' = [srcu_lock_nesting EXCEPT ![rd[r]] = @ - 1]
    BY <1>2, ZenonT(30) DEF ReadUnlock, UnlockIdx
  <2>2. ASSUME NEW i \in {0, 1}
        PROVE  srcu_lock_nesting'[i] = Cardinality(On(i)')
    <3>1. CASE i = rd[r]
      <4>1. On(i)' = On(i) \ {r} /\ r \in On(i)
        BY <2>1, <3>1, SrcuAssumption, ZenonT(30) DEF On
      <4>2. Cardinality(On(i)') = Cardinality(On(i)) - 1
        BY <4>1, OnFinite, FS_RemoveElement, ZenonT(30)
      <4> QED
        BY <2>1, <3>1, <4>2, ZenonT(30) DEF CountInv
    <3>2. CASE i # rd[r]
      <4>1. On(i)' = On(i)
        BY <2>1, <3>2, SrcuAssumption, ZenonT(30) DEF On
      <4> QED
        BY <2>1, <3>2, <4>1, ZenonT(30) DEF CountInv
    <3> QED
      BY <3>1, <3>2, ZenonT(30)
  <2> QED
    BY <2>2, ZenonT(30) DEF CountInv
<1>3. CASE UNCHANGED <<srcu_lock_nesting, rd>>
  BY <1>3, ZenonT(30) DEF CountInv, On
<1>4. ASSUME NEW c \in Callbacks, CallSrcu(c) \/ CallScheduleWork(c) \/ Invoke(c)
      PROVE  UNCHANGED <<srcu_lock_nesting, rd>>
  BY <1>4, ZenonT(30) DEF CallSrcu, CallScheduleWork, Invoke
<1>5. ASSUME Start \/ Grab \/ Flip \/ SetWaiting \/ PrepareToSwait \/ Check \/ Scheduled
      PROVE  UNCHANGED <<srcu_lock_nesting, rd>>
  BY <1>5, ZenonT(30) DEF Start, Grab, Flip, SetWaiting, PrepareToSwait, Check, Scheduled
<1>6. ASSUME ClearWaiting \/ ClearRunning \/ Again \/ StrayWakeup \/ UNCHANGED vars
      PROVE  UNCHANGED <<srcu_lock_nesting, rd>>
  BY <1>6, ZenonT(30) DEF ClearWaiting, ClearRunning, Again, StrayWakeup, vars
<1> QED
  BY <1>1, <1>2, <1>3, <1>4, <1>5, <1>6, ZenonT(30) DEF Next, DriveGp

(* Every step keeps the types: no counter becomes negative or overflows,   *)
(* since it counts readers before and after the step.                      *)
LEMMA TypeInductive == TypeOK /\ CountInv /\ [Next]_vars => TypeOK'
<1> SUFFICES ASSUME TypeOK, CountInv, [Next]_vars
             PROVE  TypeOK'
  BY ZenonT(30)
<1>0. \A i \in {0, 1} : srcu_lock_nesting'[i] \in 0 .. SHRT_MAX
  <2>1. \A i \in {0, 1} : srcu_lock_nesting'[i] = Cardinality(On(i)')
    BY CountInductive, ZenonT(30) DEF CountInv
  <2>2. \A i \in {0, 1} : On(i)' \in SUBSET Readers
    BY ZenonT(30) DEF On
  <2> QED
    BY <2>1, <2>2, FitsShort, ZenonT(30)
<1> USE DEF TypeOK
<1>1. ASSUME NEW r \in Readers, ReadLock(r)
      PROVE  TypeOK'
  <2>1. srcu_lock_nesting' \in [{0, 1} -> 0 .. SHRT_MAX]
    BY <1>0, <1>1, ZenonT(30) DEF ReadLock
  <2> QED
    BY <1>1, <2>1, ZenonT(30) DEF ReadLock, locals
<1>2. ASSUME NEW r \in Readers, ReadUnlock(r)
      PROVE  TypeOK'
  <2>1. srcu_lock_nesting' \in [{0, 1} -> 0 .. SHRT_MAX]
    BY <1>0, <1>2, ZenonT(30) DEF ReadUnlock
  <2>2. asleep' \in BOOLEAN /\ srcu_wq' \in BOOLEAN
    BY <1>2, ZenonT(30) DEF ReadUnlock
  <2> QED
    BY <1>2, <2>1, <2>2, ZenonT(30) DEF ReadUnlock
<1>3. ASSUME NEW c \in Callbacks, CallSrcu(c)
      PROVE  TypeOK'
  <2>1. Append(srcu_cb, c) \in Seq(Callbacks) /\ Inside \in SUBSET Readers
    BY DEF Inside
  <2> QED
    BY <1>3, <2>1 DEF CallSrcu, locals
<1>4. ASSUME NEW c \in Callbacks, CallScheduleWork(c)
      PROVE  TypeOK'
  <2>1. work' \in BOOLEAN
    BY <1>4, ZenonT(30) DEF CallScheduleWork
  <2> QED
    BY <1>4, <2>1, ZenonT(30) DEF CallScheduleWork, locals
<1>5. ASSUME NEW c \in Callbacks, Invoke(c)
      PROVE  TypeOK'
  <2>1. Tail(lh) \in Seq(Callbacks)
    BY <1>5 DEF Invoke
  <2> QED
    BY <1>5, <2>1, ZenonT(30) DEF Invoke
<1>6. CASE Start \/ Grab \/ Flip \/ SetWaiting
  <2>1. CASE Start
    BY <2>1, ZenonT(30) DEF Start
  <2>2. CASE Grab
    BY <2>2 DEF Grab
  <2>3. CASE Flip
    BY <2>3 DEF Flip
  <2>4. CASE SetWaiting
    BY <2>4, ZenonT(30) DEF SetWaiting
  <2> QED
    BY <1>6, <2>1, <2>2, <2>3, <2>4, ZenonT(30)
<1>7. CASE PrepareToSwait \/ Check \/ Scheduled
  BY <1>7, ZenonT(30) DEF PrepareToSwait, Check, Scheduled
<1>8. CASE ClearWaiting \/ ClearRunning \/ StrayWakeup
  BY <1>8, ZenonT(30) DEF ClearWaiting, ClearRunning, StrayWakeup
<1>9. CASE Again
  <2>1. work' \in BOOLEAN
    BY <1>9, ZenonT(30) DEF Again
  <2> QED
    BY <1>9, <2>1, ZenonT(30) DEF Again
<1>10. CASE UNCHANGED vars
  BY <1>10, ZenonT(30) DEF vars, locals
<1> QED
  BY <1>1, <1>2, <1>3, <1>4, <1>5, <1>6, <1>7, <1>8, <1>9, <1>10, ZenonT(30) DEF Next, DriveGp

(* Every step keeps what is said about the phases of srcu_drive_gp(). *)
LEMMA PhaseInductive == IInv /\ [Next]_vars => PhaseInv'
<1> SUFFICES ASSUME IInv, [Next]_vars
             PROVE  PhaseInv'
  BY ZenonT(30)
<1>0. \A i \in {0, 1} : srcu_lock_nesting[i] = 0 => \A r \in Readers : rd[r] # i
  <2>1. ASSUME NEW i \in {0, 1}, srcu_lock_nesting[i] = 0
        PROVE  On(i) = {}
    BY <2>1, OnFinite, FS_EmptySet, ZenonT(30) DEF IInv, CountInv
  <2> QED
    BY <2>1, ZenonT(30) DEF On
<1> USE DEF IInv, TypeOK, PhaseInv, Waits
<1>1. ASSUME NEW r \in Readers, ReadLock(r)
      PROVE  PhaseInv'
  BY <1>1, SrcuAssumption DEF ReadLock, locals
<1>2. ASSUME NEW r \in Readers, ReadUnlock(r)
      PROVE  PhaseInv'
  BY <1>2, SrcuAssumption DEF ReadUnlock
<1>3. ASSUME NEW c \in Callbacks, CallSrcu(c)
      PROVE  PhaseInv'
  <2>1. \A i \in DOMAIN lh : lh[i] # c
    BY <1>3 DEF CallSrcu, DistinctInv, Contains
  <2> QED
    BY <1>3, <2>1 DEF CallSrcu, locals, Inside
<1>4. ASSUME NEW c \in Callbacks, CallScheduleWork(c)
      PROVE  PhaseInv'
  BY <1>4, ZenonT(30) DEF CallScheduleWork, locals
<1>5. ASSUME NEW c \in Callbacks, Invoke(c)
      PROVE  PhaseInv'
  <2>1. /\ pc = "invoke" /\ pc' = "invoke"
        /\ UNCHANGED <<rd, old, srcu_idx>>
        /\ lh # <<>> /\ lh' = Tail(lh)
    BY <1>5, ZenonT(30) DEF Invoke
  <2>2. \A i \in DOMAIN lh' : i + 1 \in DOMAIN lh /\ lh'[i] = lh[i + 1]
    BY <2>1
  <2> QED
    BY <2>1, <2>2, ZenonT(30)
<1>6. CASE Start \/ Grab
  BY <1>6, ZenonT(30) DEF Start, Grab
<1>7. CASE Flip
  <2>1. \A c \in Callbacks : \A r \in old[c] : rd[r] = srcu_idx
    BY <1>7, ZenonT(30) DEF Flip
  <2>2. \A i \in DOMAIN lh : lh[i] \in Callbacks
    OBVIOUS
  <2> QED
    BY <1>7, <2>1, <2>2 DEF Flip
<1>8. CASE SetWaiting \/ Check
  BY <1>0, <1>8 DEF SetWaiting, Check
<1>9. CASE PrepareToSwait \/ Scheduled
  BY <1>9, ZenonT(30) DEF PrepareToSwait, Scheduled
<1>10. CASE ClearWaiting
  <2>1. \A i \in DOMAIN lh : lh[i] \in Callbacks
    OBVIOUS
  <2>2. \A i \in DOMAIN lh : old[lh[i]] = {}
    BY <1>10, <2>1, SrcuAssumption DEF ClearWaiting
  <2> QED
    BY <1>10, <2>2, ZenonT(30) DEF ClearWaiting
<1>11. CASE ClearRunning \/ Again \/ StrayWakeup
  BY <1>11, ZenonT(30) DEF ClearRunning, Again, StrayWakeup
<1>12. CASE UNCHANGED vars
  BY <1>12, ZenonT(30) DEF vars, locals
<1> QED
  BY <1>1, <1>2, <1>3, <1>4, <1>5, <1>6, <1>7, <1>8, <1>9, <1>10, <1>11, <1>12, ZenonT(30)
     DEF Next, DriveGp

(* No step puts a callback on two lists. *)
LEMMA DistinctInductive == IInv /\ [Next]_vars => DistinctInv'
<1> SUFFICES ASSUME IInv, [Next]_vars
             PROVE  DistinctInv'
  BY ZenonT(30)
<1>t. TypeOK /\ DistinctInv
  BY ZenonT(30) DEF IInv
<1>1. ASSUME NEW c \in Callbacks, CallSrcu(c)
      PROVE  DistinctInv'
  <2>1. ~Contains(srcu_cb, c) /\ ~Contains(lh, c)
    BY <1>1, <1>t, ZenonT(30) DEF CallSrcu, DistinctInv
  <2>2. srcu_cb' = Append(srcu_cb, c) /\ lh' = lh /\ posted' = posted \cup {c}
    BY <1>1, ZenonT(30) DEF CallSrcu, locals
  <2>3. /\ IsInjective(srcu_cb')
        /\ \A y : Contains(srcu_cb', y) <=> y = c \/ Contains(srcu_cb, y)
    BY <1>t, <2>1, <2>2, AppendDistinct, ZenonT(30) DEF TypeOK, DistinctInv
  <2> QED
    BY <2>1, <2>2, <2>3, <1>t, ZenonT(30) DEF DistinctInv
<1>2. ASSUME NEW c \in Callbacks, Invoke(c)
      PROVE  DistinctInv'
  <2>1. /\ lh # <<>> /\ c = Head(lh) /\ lh' = Tail(lh) /\ srcu_cb' = srcu_cb
        /\ posted' = posted \ {c}
    BY <1>2, ZenonT(30) DEF Invoke
  <2>2. /\ IsInjective(lh') /\ Contains(lh, c)
        /\ \A y : Contains(lh', y) <=> y # Head(lh) /\ Contains(lh, y)
    BY <1>t, <2>1, TailDistinct, ZenonT(30) DEF TypeOK, DistinctInv
  <2> QED
    BY <2>1, <2>2, <1>t, ZenonT(30) DEF DistinctInv
<1>3. CASE Grab
  <2>1. lh = <<>> /\ srcu_cb' = <<>> /\ lh' = srcu_cb /\ posted' = posted
    BY <1>3, ZenonT(30) DEF Grab, IInv, PhaseInv
  <2>2. IsInjective(<<>>) /\ \A y : ~Contains(<<>>, y)
    BY DEF IsInjective, Contains
  <2> QED
    BY <2>1, <2>2, <1>t, ZenonT(30) DEF DistinctInv
<1>4. CASE UNCHANGED <<srcu_cb, lh, posted>>
  BY <1>4, <1>t, ZenonT(30) DEF DistinctInv
<1>5. ASSUME NEW r \in Readers, ReadLock(r) \/ ReadUnlock(r)
      PROVE  UNCHANGED <<srcu_cb, lh, posted>>
  BY <1>5, ZenonT(30) DEF ReadLock, ReadUnlock, locals
<1>6. ASSUME NEW c \in Callbacks, CallScheduleWork(c)
      PROVE  UNCHANGED <<srcu_cb, lh, posted>>
  BY <1>6, ZenonT(30) DEF CallScheduleWork, locals
<1>7. ASSUME Start \/ Flip \/ SetWaiting \/ PrepareToSwait \/ Check \/ Scheduled
      PROVE  UNCHANGED <<srcu_cb, lh, posted>>
  BY <1>7, ZenonT(30) DEF Start, Flip, SetWaiting, PrepareToSwait, Check, Scheduled
<1>8. ASSUME ClearWaiting \/ ClearRunning \/ Again \/ StrayWakeup \/ UNCHANGED vars
      PROVE  UNCHANGED <<srcu_cb, lh, posted>>
  BY <1>8, ZenonT(30) DEF ClearWaiting, ClearRunning, Again, StrayWakeup, vars, locals
<1> QED
  BY <1>1, <1>2, <1>3, <1>4, <1>5, <1>6, <1>7, <1>8, ZenonT(30) DEF Next, DriveGp

(* So the invariant always holds. *)
LEMMA Invariance == Spec => []IInv
<1>1. Init => IInv
  <2> SUFFICES ASSUME Init PROVE IInv
    BY ZenonT(30)
  <2>1. TypeOK
    <3>1. <<>> \in Seq(Callbacks)
      OBVIOUS
    <3>2. 0 \in 0 .. SHRT_MAX
      BY FS_EmptySet, FitsShort, ZenonT(30)
    <3> QED
      BY <3>1, <3>2, ZenonT(30) DEF Init, TypeOK
  <2>2. \A i \in {0, 1} : On(i) = {}
    BY SrcuAssumption, ZenonT(30) DEF Init, On
  <2>3. CountInv
    BY <2>2, FS_EmptySet, ZenonT(30) DEF Init, CountInv
  <2>4. PhaseInv
    BY ZenonT(30) DEF Init, PhaseInv, Waits
  <2>5. DistinctInv
    BY DEF Init, DistinctInv, IsInjective, Contains
  <2> QED
    BY <2>1, <2>3, <2>4, <2>5, ZenonT(30) DEF IInv
<1>2. IInv /\ [Next]_vars => IInv'
  BY TypeInductive, CountInductive, PhaseInductive, DistinctInductive, ZenonT(30) DEF IInv
<1> QED
  BY <1>1, <1>2, PTL DEF Spec

(* The variables keep their types; in particular a reader counter never    *)
(* becomes negative, nor overflows the short that it is.                   *)
THEOREM TypeCorrect == Spec => []TypeOK
<1>1. IInv => TypeOK
  BY ZenonT(30) DEF IInv
<1> QED
  BY <1>1, Invariance, PTL

(* The grace period of Tiny SRCU: srcu_drive_gp() invokes no callback      *)
(* while a reader is left that was there when it was posted.               *)
THEOREM GracePeriodHolds == Spec => []CallbacksAreSafe
<1>1. IInv => CallbacksAreSafe
  BY ZenonT(30) DEF IInv, PhaseInv, CallbacksAreSafe
<1> QED
  BY <1>1, Invariance, PTL
-----------------------------------------------------------------------------
(* A posted callback that is on no list twice and on one at least is not   *)
(* lost.                                                                   *)
LEMMA NothingLostIsDistinct == TypeOK /\ DistinctInv => NothingLost
<1> SUFFICES ASSUME TypeOK, DistinctInv
             PROVE  NothingLost
  BY ZenonT(30)
<1>1. ASSUME NEW s \in Seq(Callbacks)
      PROVE  Range(s) = {c \in Callbacks : Contains(s, c)}
  BY DEF Range, Contains
<1> QED
  BY <1>1, ZenonT(30) DEF TypeOK, DistinctInv, NothingLost, Queued

(* One step of Tiny SRCU is a step of GracePeriod, or leaves it alone. *)
LEMMA StepSimulation ==
  IInv /\ [Next]_vars => [Promise!Next]_<<Inside, posted, old>>
<1> SUFFICES ASSUME IInv, [Next]_vars
             PROVE  [Promise!Next]_<<Inside, posted, old>>
  BY ZenonT(30)
<1>t. TypeOK /\ DistinctInv
  BY ZenonT(30) DEF IInv
<1>1. ASSUME NEW r \in Readers, ReadLock(r)
      PROVE  Promise!ReadLock(r)
  <2>1. rd[r] = None /\ rd' = [rd EXCEPT ![r] = srcu_idx] /\ srcu_idx # None
    BY <1>1, <1>t, SrcuAssumption, ZenonT(30) DEF ReadLock, TypeOK
  <2>2. UNCHANGED <<posted, old>>
    BY <1>1, ZenonT(30) DEF ReadLock, locals
  <2>3. r \notin Inside /\ Inside' = Inside \cup {r}
    BY <1>t, <2>1, ZenonT(30) DEF Inside, TypeOK
  <2> QED
    BY <2>2, <2>3, ZenonT(30) DEF Promise!ReadLock
<1>2. ASSUME NEW r \in Readers, ReadUnlock(r)
      PROVE  Promise!ReadUnlock(r)
  <2>1. rd[r] # None /\ rd' = [rd EXCEPT ![r] = None]
    BY <1>2, ZenonT(30) DEF ReadUnlock
  <2>2. posted' = posted /\ old' = [c \in Callbacks |-> old[c] \ {r}]
    BY <1>2, ZenonT(30) DEF ReadUnlock
  <2>3. r \in Inside /\ Inside' = Inside \ {r}
    BY <1>t, <2>1, ZenonT(30) DEF Inside, TypeOK
  <2> QED
    BY <2>2, <2>3, ZenonT(30) DEF Promise!ReadUnlock
<1>3. ASSUME NEW c \in Callbacks, CallSrcu(c)
      PROVE  Promise!Post(c)
  BY <1>3, ZenonT(30) DEF CallSrcu, Promise!Post, Inside
<1>4. ASSUME NEW c \in Callbacks, Invoke(c)
      PROVE  Promise!Invoke(c)
  <2>1. /\ pc = "invoke" /\ lh # <<>> /\ c = Head(lh)
        /\ posted' = posted \ {c} /\ UNCHANGED <<rd, old>>
    BY <1>4, ZenonT(30) DEF Invoke
  <2>2. 1 \in DOMAIN lh /\ lh[1] = c
    BY <1>t, <2>1 DEF TypeOK
  <2>3. Contains(lh, c)
    BY <2>2, <1>t DEF Contains, TypeOK
  <2>4. c \in posted
    BY <2>3, <1>t, ZenonT(30) DEF DistinctInv
  <2>5. old[c] = {}
    BY <2>1, <2>2, ZenonT(30) DEF IInv, PhaseInv
  <2> QED
    BY <2>1, <2>4, <2>5, ZenonT(30) DEF Promise!Invoke, Inside
<1>5. CASE Grab
  BY <1>5, ZenonT(30) DEF Grab, Inside
<1>6. CASE UNCHANGED <<posted, rd, old>>
  BY <1>6, ZenonT(30) DEF Inside
<1>7. ASSUME NEW c \in Callbacks, CallScheduleWork(c)
      PROVE  UNCHANGED <<posted, rd, old>>
  BY <1>7, ZenonT(30) DEF CallScheduleWork, locals
<1>8. ASSUME Start \/ Flip \/ SetWaiting \/ PrepareToSwait \/ Check \/ Scheduled
      PROVE  UNCHANGED <<posted, rd, old>>
  BY <1>8, ZenonT(30) DEF Start, Flip, SetWaiting, PrepareToSwait, Check, Scheduled
<1>9. ASSUME ClearWaiting \/ ClearRunning \/ Again \/ StrayWakeup \/ UNCHANGED vars
      PROVE  UNCHANGED <<posted, rd, old>>
  BY <1>9, ZenonT(30) DEF ClearWaiting, ClearRunning, Again, StrayWakeup, vars, locals
<1> QED
  BY <1>1, <1>2, <1>3, <1>4, <1>5, <1>6, <1>7, <1>8, <1>9, ZenonT(30) DEF Next, DriveGp, Promise!Next

(* Tiny SRCU implements the promise of RCU: a callback is invoked once for *)
(* every call_srcu(), and after all readers older than the call have left. *)
THEOREM Refinement == Spec => ImplementsGracePeriod
<1>1. Init => Promise!Init
  BY ZenonT(30) DEF Init, Promise!Init, Inside
<1> QED
  BY <1>1, Invariance, StepSimulation, PTL DEF Spec, ImplementsGracePeriod, Promise!Spec

(* No callback is lost from the lists or put on them twice, whatever       *)
(* call_srcu() does at interrupt level while srcu_drive_gp() takes them.   *)
THEOREM NothingIsLost == Spec => []NothingLost
<1>1. IInv => TypeOK /\ DistinctInv
  BY ZenonT(30) DEF IInv
<1> QED
  BY <1>1, Invariance, NothingLostIsDistinct, PTL
=============================================================================
