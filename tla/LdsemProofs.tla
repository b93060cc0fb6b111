----------------------------- MODULE LdsemProofs -----------------------------
(***************************************************************************)
(* Proofs about Ldsem, for every finite set of tasks, every bias larger    *)
(* than their number, and whatever timeouts the callers pass.              *)
(***************************************************************************)
EXTENDS Ldsem, TLAPS, FiniteSetTheorems

(* list_del() of the entry at one place of a list: the entries that are    *)
(* behind it move up by one.                                               *)
LEMMA ListDelAtProperties ==
  ASSUME NEW S, NEW s \in Seq(S), NEW i \in 1 .. Len(s)
  PROVE  /\ ListDelAt(s, i) \in Seq(S)
         /\ Len(ListDelAt(s, i)) = Len(s) - 1
         /\ \A j \in 1 .. Len(s) - 1 :
              ListDelAt(s, i)[j] = IF j < i THEN s[j] ELSE s[j + 1]
<1>1. Len(s) \in Nat /\ Len(s) - 1 \in Nat
  OBVIOUS
<1>2. \A j \in 1 .. Len(s) - 1 : s[IF j < i THEN j ELSE j + 1] \in S
  BY <1>1
<1>3. ListDelAt(s, i) \in [1 .. Len(s) - 1 -> S]
  BY <1>2 DEF ListDelAt
<1>4. ListDelAt(s, i) \in Seq(S) /\ Len(ListDelAt(s, i)) = Len(s) - 1
  BY <1>1, <1>3
<1> QED
  BY <1>1, <1>4 DEF ListDelAt

(* list_add_tail() of an entry that is not on the list. *)
LEMMA AppendDistinct ==
  ASSUME NEW S, NEW s \in Seq(S), NEW x \in S, IsInjective(s), ~Contains(s, x)
  PROVE  /\ Append(s, x) \in Seq(S)
         /\ IsInjective(Append(s, x))
         /\ \A y : Contains(Append(s, x), y) <=> y = x \/ Contains(s, y)
<1>1. /\ Append(s, x) \in Seq(S)
      /\ Len(Append(s, x)) = Len(s) + 1
      /\ \A i \in 1 .. Len(s) : Append(s, x)[i] = s[i]
      /\ Append(s, x)[Len(s) + 1] = x
      /\ Len(s) \in Nat
      /\ DOMAIN s = 1 .. Len(s)
      /\ DOMAIN Append(s, x) = 1 .. Len(s) + 1
  OBVIOUS
<1> DEFINE a == Append(s, x)
<1> HIDE DEF a
<1>2. IsInjective(a)
  BY <1>1 DEF a, IsInjective, Contains
<1>3. \A y : Contains(a, y) <=> y = x \/ Contains(s, y)
  BY <1>1 DEF a, Contains
<1> QED
  BY <1>1, <1>2, <1>3 DEF a

(* list_del() of one entry of a list on which no entry is twice. *)
LEMMA ListDelAtDistinct ==
  ASSUME NEW S, NEW s \in Seq(S), NEW i \in 1 .. Len(s), IsInjective(s)
  PROVE  /\ ListDelAt(s, i) \in Seq(S)
         /\ IsInjective(ListDelAt(s, i))
         /\ \A y : Contains(ListDelAt(s, i), y) <=> y # s[i] /\ Contains(s, y)
<1> DEFINE r == ListDelAt(s, i)
<1>1. /\ r \in Seq(S)
      /\ Len(r) = Len(s) - 1
      /\ \A j \in 1 .. Len(s) - 1 : r[j] = IF j < i THEN s[j] ELSE s[j + 1]
  BY ListDelAtProperties
<1>2. /\ Len(s) \in Nat
      /\ DOMAIN s = 1 .. Len(s)
      /\ DOMAIN r = 1 .. Len(s) - 1
  BY <1>1
<1> HIDE DEF r
<1>3. IsInjective(r)
  <2>1. \A a, b \in 1 .. Len(s) : s[a] = s[b] => a = b
    BY <1>2 DEF IsInjective
  <2> SUFFICES ASSUME NEW j \in 1 .. Len(s) - 1, NEW k \in 1 .. Len(s) - 1, r[j] = r[k]
               PROVE  j = k
    BY <1>2 DEF IsInjective
  <2> DEFINE from(n) == IF n < i THEN n ELSE n + 1
  <2>2. /\ from(j) \in 1 .. Len(s) /\ r[j] = s[from(j)]
        /\ from(k) \in 1 .. Len(s) /\ r[k] = s[from(k)]
    BY <1>1, <1>2
  <2>3. from(j) = from(k)
    <3> HIDE DEF from
    <3> QED
      BY <2>1, <2>2, ZenonT(30)
  <2> QED
    BY <2>3, <1>2
<1>4. ASSUME NEW y, Contains(r, y)
      PROVE  y # s[i] /\ Contains(s, y)
  <2>1. PICK j \in 1 .. Len(s) - 1 : r[j] = y
    BY <1>4, <1>1 DEF Contains
  <2>2. PICK k \in 1 .. Len(s) : k # i /\ s[k] = y
    BY <2>1, <1>1, <1>2
  <2> QED
    BY <2>2, <1>2 DEF IsInjective, Contains
<1>5. ASSUME NEW y, y # s[i], Contains(s, y)
      PROVE  Contains(r, y)
  <2>1. PICK j \in 1 .. Len(s) : s[j] = y
    BY <1>5 DEF Contains
  <2>2. CASE j < i
    <3>1. j \in 1 .. Len(s) - 1 /\ r[j] = y
      BY <2>1, <2>2, <1>1, <1>2
    <3> QED
      BY <3>1, <1>1 DEF Contains
  <2>3. CASE j > i
    <3>1. j - 1 \in 1 .. Len(s) - 1 /\ ~(j - 1 < i) /\ (j - 1) + 1 = j
      BY <2>1, <2>3, <1>2
    <3>2. r[j - 1] = y
      BY <2>1, <3>1, <1>1
    <3> QED
      BY <3>1, <3>2, <1>1 DEF Contains
  <2> QED
    BY <2>1, <2>2, <2>3, <1>5, <1>2
<1> QED
  BY <1>1, <1>3, <1>4, <1>5 DEF r

(* The two halves of the count: with a tasks active, fewer than B, and k   *)
(* wait biases, the low half is a and the sign tells whether k is 0.       *)
LEMMA Halves ==
  ASSUME NEW a \in Nat, a < B, NEW k \in Nat
  PROVE  /\ a - B * k \in Int
         /\ Active(a - B * k) = a
         /\ k = 0 => a - B * k = a
         /\ k > 0 => a - B * k < 0
<1>1. B \in Nat /\ B > 0 /\ B * k \in Int
  BY LdsemAssumption
<1> DEFINE z == a - B * k
           m == z % B
           q == z \div B
<1>2. z \in Int /\ q \in Int /\ m \in 0 .. B - 1 /\ z = B * q + m
  BY <1>1
<1>3. B * (q + k) = a - m
  <2>1. B * (q + k) = B * q + B * k
    BY <1>1, <1>2
  <2> QED
    BY <1>1, <1>2, <2>1
<1>4. k = 0 => z = a
  BY <1>1
<1>5. k > 0 => z < 0
  <2> SUFFICES ASSUME k > 0 PROVE z < 0
    BY ZenonT(30)
  <2>1. B * k >= B
    BY <1>1
  <2> QED
    BY <1>1, <2>1
<1> HIDE DEF z, m, q
<1>6. q + k \in Int /\ a - m < B /\ a - m > -B
  BY <1>1, <1>2
<1>7. ~ (q + k >= 1)
  <2> SUFFICES ASSUME q + k >= 1 PROVE FALSE
    BY ZenonT(30)
  <2>1. B * (q + k) >= B
    BY <1>1, <1>6
  <2> QED
    BY <1>1, <1>3, <1>6, <2>1
<1>8. ~ (q + k <= -1)
  <2> SUFFICES ASSUME q + k <= -1 PROVE FALSE
    BY ZenonT(30)
  <2>1. B * (q + k) <= -B
    BY <1>1, <1>6
  <2> QED
    BY <1>1, <1>3, <1>6, <2>1
<1>9. q + k = 0
  BY <1>6, <1>7, <1>8
<1>10. a - m = 0
  BY <1>1, <1>3, <1>9
<1>11. m = a
  BY <1>2, <1>10
<1> QED
  BY <1>2, <1>4, <1>5, <1>11, ZenonT(30) DEF Active, z, m

(* The list l holds each task of S once, and no other. *)
QueueOf(l, S) ==
  /\ l \in Seq(Tasks) /\ S \subseteq Tasks
  /\ IsInjective(l)
  /\ \A u : Contains(l, u) <=> u \in S

(* A list that queues the tasks of S is empty if S is, starts with a task  *)
(* of S, and is as long as S is large.                                     *)
LEMMA QueueFacts ==
  ASSUME NEW l, NEW S, QueueOf(l, S)
  PROVE  /\ Range(l) = S
         /\ l = <<>> <=> S = {}
         /\ l # <<>> => Head(l) \in S
         /\ IsFiniteSet(S) /\ Cardinality(S) = Len(l) /\ Len(l) \in Nat
<1>1. l \in Seq(Tasks) /\ Len(l) \in Nat /\ DOMAIN l = 1 .. Len(l)
  BY DEF QueueOf
<1>2. Range(l) = S
  <2>1. \A u : u \in Range(l) <=> Contains(l, u)
    BY <1>1, ZenonT(30) DEF Range, Contains
  <2> QED
    BY <2>1, ZenonT(30) DEF QueueOf
<1>3. l = <<>> => S = {}
  BY <1>1 DEF QueueOf, Contains
<1>4. l # <<>> => Head(l) \in S
  <2> SUFFICES ASSUME l # <<>> PROVE Head(l) \in S
    BY ZenonT(30)
  <2>1. Head(l) = l[1] /\ 1 \in 1 .. Len(l)
    BY <1>1
  <2> QED
    BY <2>1, ZenonT(30) DEF QueueOf, Contains
<1>5. IsFiniteSet(S) /\ Cardinality(S) = Len(l)
  <2>1. l \in Bijection(1 .. Len(l), S)
    <3>1. l \in [1 .. Len(l) -> S]
      <4>1. l \in [1 .. Len(l) -> Tasks]
        BY <1>1
      <4> QED
        BY <1>2, <4>1, ZenonT(30) DEF Range
    <3>2. \A j, k \in 1 .. Len(l) : l[j] = l[k] => j = k
      BY <1>1, ZenonT(30) DEF QueueOf, IsInjective
    <3>3. \A u \in S : \E j \in 1 .. Len(l) : l[j] = u
      BY ZenonT(30) DEF QueueOf, Contains
    <3> QED
      BY <3>1, <3>2, <3>3, ZenonT(30) DEF Bijection, Injection, Surjection, IsInjective
  <2>2. IsFiniteSet(1 .. Len(l)) /\ Cardinality(1 .. Len(l)) = Len(l)
    BY <1>1, FS_Interval, SMTT(30)
  <2>3. ExistsBijection(1 .. Len(l), S)
    BY <2>1, ZenonT(30) DEF ExistsBijection
  <2> QED
    BY <2>2, <2>3, FS_Bijection, ZenonT(30)
<1> QED
  BY <1>1, <1>2, <1>3, <1>4, <1>5, ZenonT(30)

(* list_add_tail() and list_del() *)
LEMMA QueueAdd ==
  ASSUME NEW l, NEW S, QueueOf(l, S), NEW t \in Tasks, t \notin S
  PROVE  QueueOf(Append(l, t), S \cup {t})
<1>1. l \in Seq(Tasks) /\ IsInjective(l) /\ ~Contains(l, t)
  BY ZenonT(30) DEF QueueOf
<1>2. /\ Append(l, t) \in Seq(Tasks)
      /\ IsInjective(Append(l, t))
      /\ \A y : Contains(Append(l, t), y) <=> y = t \/ Contains(l, y)
  BY <1>1, AppendDistinct, ZenonT(30)
<1> QED
  BY <1>2, ZenonT(30) DEF QueueOf

(* list_del() of a queued task. *)
LEMMA QueueDel ==
  ASSUME NEW l, NEW S, QueueOf(l, S), NEW t \in S
  PROVE  QueueOf(ListDel(l, t), S \ {t})
<1> DEFINE i == CHOOSE k \in 1 .. Len(l) : l[k] = t
<1>1. l \in Seq(Tasks) /\ IsInjective(l) /\ Contains(l, t)
  BY ZenonT(30) DEF QueueOf
<1>2. ListDel(l, t) = ListDelAt(l, i)
  BY <1>1, ZenonT(30) DEF ListDel
<1>3. i \in 1 .. Len(l) /\ l[i] = t
  BY <1>1, ZenonT(30) DEF Contains
<1> HIDE DEF i
<1>4. /\ ListDelAt(l, i) \in Seq(Tasks)
      /\ IsInjective(ListDelAt(l, i))
      /\ \A y : Contains(ListDelAt(l, i), y) <=> y # l[i] /\ Contains(l, y)
  BY <1>1, <1>3, ListDelAtDistinct, ZenonT(30)
<1> QED
  BY <1>2, <1>3, <1>4, ZenonT(30) DEF QueueOf

-----------------------------------------------------------------------------
Types ==
  /\ count \in Int
  /\ wait_readers \in Nat
  /\ task \in [Tasks -> BOOLEAN]
  /\ pc \in [Tasks -> Locs]
  /\ state \in [Tasks -> {"RUNNING", "UNINTERRUPTIBLE"}]
  /\ timeout \in [Tasks -> {"max", "left", "0"}]
  /\ old \in [Tasks -> Int]

ReadLocs == {"rloop", "rcheck", "rsched", "rtimeout"}

(* Who is in the low half of the count, who keeps a wait bias in it, and   *)
(* who is on which list.                                                   *)
Act == {t \in Tasks : \/ pc[t] \in {"reading", "writing", "rfail", "wfail"}
                      \/ pc[t] \in ReadLocs /\ ~task[t]}
Waits == {t \in Tasks : \/ pc[t] \in {"writing", "wfail", "wsched"}
                        \/ pc[t] \in ReadLocs /\ task[t]}
QueuedR == {t \in Tasks : pc[t] \in ReadLocs /\ task[t]}
QueuedW == {t \in Tasks : pc[t] = "wsched"}

(* Somebody will look at the lists. *)
Awake(t) == \/ pc[t] \in {"rfail", "wfail", "wake"}
            \/ pc[t] = "wsched" /\ state[t] = "RUNNING"

(* c is the count when the tasks of A are active and those of W wait. *)
CountOf(c, A, W) ==
  /\ A \subseteq Tasks /\ W \subseteq Tasks
  /\ c = Cardinality(A) - B * Cardinality(W)

(* The inductive invariant: each list holds the tasks whose place in the   *)
(* code says that they wait on it, the count is exact, the lock excludes,  *)
(* a writer that goes to the slow path has seen another active task, and   *)
(* nobody waits for a wakeup that nobody will send.                        *)
Queues ==
  /\ QueueOf(read_wait, QueuedR) /\ QueueOf(write_wait, QueuedW)
  /\ wait_readers = Len(read_wait)
Places == \A t \in Tasks : task[t] => pc[t] \in ReadLocs
Counted == CountOf(count, Act, Waits)
Excludes == Writers = {} \/ (Readers = {} /\ \E t \in Tasks : Writers = {t})
SawOther == \A t \in Tasks : pc[t] = "wfail" => Active(old[t]) # 1
Served ==
  QueuedR \cup QueuedW # {} /\ Readers \cup Writers = {} => \E t \in Tasks : Awake(t)
GrantedAwake == \A t \in Tasks : pc[t] = "rsched" /\ ~task[t] => state[t] = "RUNNING"

IInv ==
  /\ Types /\ Queues /\ Places /\ Counted /\ Excludes
  /\ SawOther /\ Served /\ GrantedAwake

(* The number of elements when t joins or leaves a set. *)
LEMMA PlusMinusOne ==
  ASSUME NEW S, IsFiniteSet(S), NEW t
  PROVE  /\ IsFiniteSet(S \cup {t}) /\ IsFiniteSet(S \ {t})
         /\ t \notin S => Cardinality(S \cup {t}) = Cardinality(S) + 1
         /\ t \in S => Cardinality(S \ {t}) = Cardinality(S) - 1
BY FS_AddElement, FS_RemoveElement, ZenonT(30)

(* A set of tasks has no more elements than there are tasks. *)
LEMMA Sizes ==
  ASSUME NEW S, S \subseteq Tasks
  PROVE  /\ IsFiniteSet(S) /\ Cardinality(S) \in Nat
         /\ Cardinality(S) <= Cardinality(Tasks)
         /\ Cardinality(Tasks) \in Nat /\ Cardinality(Tasks) < B
         /\ Cardinality(S) < B
         /\ Cardinality(S) = 0 <=> S = {}
<1>1. IsFiniteSet(Tasks) /\ Cardinality(Tasks) < B /\ B \in Nat
  BY LdsemAssumption
<1>2. IsFiniteSet(S) /\ Cardinality(S) <= Cardinality(Tasks)
  BY <1>1, FS_Subset, ZenonT(30)
<1>3. Cardinality(S) \in Nat /\ Cardinality(Tasks) \in Nat
  BY <1>1, <1>2, FS_CardinalityType, ZenonT(30)
<1>4. Cardinality(S) = 0 <=> S = {}
  BY <1>2, FS_EmptySet, ZenonT(30)
<1> QED
  BY <1>1, <1>2, <1>3, <1>4

ApartFacts ==
  /\ Act \subseteq Tasks /\ Waits \subseteq Tasks
  /\ QueuedR \subseteq Waits /\ QueuedW \subseteq Waits
  /\ QueuedR \cap Act = {} /\ QueuedW \cap Act = {} /\ QueuedR \cap QueuedW = {}
  /\ Readers \subseteq Act /\ Writers \subseteq Act /\ Writers \subseteq Waits
  /\ \A u \in Act : u \in Readers \cup Writers \/ Awake(u)
  /\ \A u \in Waits : u \in QueuedR \cup QueuedW \cup Act

(* Where a task is in the code decides which of the sets it is in. *)
LEMMA Apart == ApartFacts
BY ZenonT(30) DEF ApartFacts, Act, Waits, QueuedR, QueuedW, Readers, Writers, Awake, ReadLocs

(* The same, after a step. *)
LEMMA ApartNext == ApartFacts'
BY Apart, PTL

(* What the tests of the count in the code find out. *)
LEMMA CountMeans ==
  ASSUME NEW c, NEW A, NEW W, CountOf(c, A, W)
  PROVE  /\ c \in Int
         /\ Active(c) = Cardinality(A)
         /\ Active(c) = 0 <=> A = {}
         /\ Active(c) = 1 => \A t \in A : A = {t}
         /\ c >= 0 <=> W = {}
         /\ c > 0 <=> W = {} /\ A # {}
         /\ WAIT_BIAS * Cardinality(Tasks) <= c /\ c <= Cardinality(Tasks)
<1> DEFINE a == Cardinality(A)
           k == Cardinality(W)
           N == Cardinality(Tasks)
<1>1. /\ a \in Nat /\ a < B /\ a <= N /\ k \in Nat /\ k <= N /\ N \in Nat
      /\ IsFiniteSet(A) /\ B \in Nat
      /\ a = 0 <=> A = {}
      /\ k = 0 <=> W = {}
  BY Sizes, LdsemAssumption, ZenonT(30) DEF CountOf
<1>2. c = a - B * k
  BY ZenonT(30) DEF CountOf
<1>3. ASSUME a = 1, NEW t \in A PROVE A = {t}
  <2>1. Cardinality(A \ {t}) = 0 /\ IsFiniteSet(A \ {t})
    BY <1>1, <1>3, PlusMinusOne
  <2>2. A \ {t} = {}
    BY <2>1, FS_EmptySet, ZenonT(30)
  <2> QED
    BY <2>2, ZenonT(30)
<1> HIDE DEF a, k, N
<1>4. /\ c \in Int
      /\ Active(c) = a
      /\ k = 0 => c = a
      /\ k > 0 => c < 0
  BY <1>1, <1>2, Halves, ZenonT(30)
<1>5. -(B * N) <= c /\ c <= N
  <2>1. B * N = B * k + B * (N - k) /\ B * k \in Int
    BY <1>1
  <2>2. B * (N - k) \in Nat /\ B * k \in Nat
    <3>1. N - k \in Nat
      BY <1>1
    <3>2. \A x, y \in Nat : x * y \in Nat
      OBVIOUS
    <3> QED
      BY <1>1, <3>1, <3>2, ZenonT(30)
  <2> QED
    BY <1>1, <1>2, <2>1, <2>2
<1>6. WAIT_BIAS * N = -(B * N)
  BY <1>1 DEF WAIT_BIAS
<1>7. (c >= 0 <=> W = {}) /\ (c > 0 <=> W = {} /\ A # {})
  BY <1>1, <1>4
<1> QED
  BY <1>1, <1>3, <1>4, <1>5, <1>6, <1>7, ZenonT(30) DEF a, N

(* How the count changes with the two sets. *)
LEMMA Recount ==
  ASSUME NEW c, NEW A, NEW W, CountOf(c, A, W), NEW t \in Tasks
  PROVE  /\ t \notin A => CountOf(c + 1, A \cup {t}, W)
         /\ t \in A => CountOf(c - 1, A \ {t}, W)
         /\ t \notin W => CountOf(c + WAIT_BIAS, A, W \cup {t})
         /\ t \in W => CountOf(c - WAIT_BIAS, A, W \ {t})
<1> DEFINE a == Cardinality(A)
           k == Cardinality(W)
<1>1. /\ a \in Nat /\ k \in Nat /\ IsFiniteSet(A) /\ IsFiniteSet(W) /\ B \in Nat
  BY Sizes, LdsemAssumption, ZenonT(30) DEF CountOf
<1>2. /\ t \notin A => Cardinality(A \cup {t}) = a + 1
      /\ t \in A => Cardinality(A \ {t}) = a - 1
      /\ t \notin W => Cardinality(W \cup {t}) = k + 1
      /\ t \in W => Cardinality(W \ {t}) = k - 1
  BY <1>1, PlusMinusOne, ZenonT(30)
<1>3. c = a - B * k /\ A \subseteq Tasks /\ W \subseteq Tasks
  BY ZenonT(30) DEF CountOf
<1>4. /\ A \cup {t} \subseteq Tasks /\ W \cup {t} \subseteq Tasks
      /\ A \ {t} \subseteq Tasks /\ W \ {t} \subseteq Tasks
  BY <1>3, ZenonT(30)
<1> HIDE DEF a, k
<1>5. B * k \in Int /\ B * (k + 1) = B * k + B /\ B * (k - 1) = B * k - B
  BY <1>1
<1>6. /\ c + 1 = (a + 1) - B * k
      /\ c - 1 = (a - 1) - B * k
      /\ c + WAIT_BIAS = a - B * (k + 1)
      /\ c - WAIT_BIAS = a - B * (k - 1)
  BY <1>1, <1>3, <1>5 DEF WAIT_BIAS
<1> QED
  BY <1>2, <1>3, <1>4, <1>6, ZenonT(30) DEF CountOf, a, k

(* __ldsem_wake_readers(): all the tasks of S stop waiting and are active. *)
LEMMA Granted ==
  ASSUME NEW c, NEW A, NEW W, CountOf(c, A, W), NEW S, S \subseteq W, S \cap A = {}
  PROVE  /\ CountOf(c + Cardinality(S) * (1 - WAIT_BIAS), A \cup S, W \ S)
         /\ Cardinality(S) \in Nat
<1> DEFINE a == Cardinality(A)
           k == Cardinality(W)
           n == Cardinality(S)
<1>0. A \subseteq Tasks /\ W \subseteq Tasks /\ S \subseteq Tasks /\ c = a - B * k
  BY ZenonT(30) DEF CountOf
<1>1. /\ a \in Nat /\ k \in Nat /\ n \in Nat /\ B \in Nat
      /\ IsFiniteSet(A) /\ IsFiniteSet(W) /\ IsFiniteSet(S)
  BY <1>0, Sizes, LdsemAssumption, ZenonT(30)
<1>2. Cardinality(A \cup S) = a + n
  <2>1. Cardinality(A \cap S) = 0
    BY FS_EmptySet, ZenonT(30)
  <2>2. Cardinality(A \cup S) = a + n - Cardinality(A \cap S)
    BY <1>1, FS_Union, ZenonT(30)
  <2> QED
    BY <1>1, <2>1, <2>2
<1>3. Cardinality(W \ S) = k - n
  <2>1. Cardinality(W \ S) = k - Cardinality(W \cap S)
    BY <1>1, FS_Difference, ZenonT(30)
  <2>2. W \cap S = S
    BY ZenonT(30)
  <2> QED
    BY <2>1, <2>2, ZenonT(30)
<1> HIDE DEF a, k, n
<1>4. n * (1 - WAIT_BIAS) = n + B * n /\ B * (k - n) = B * k - B * n
      /\ B * n \in Int /\ B * k \in Int
  BY <1>1 DEF WAIT_BIAS
<1>5. c + n * (1 - WAIT_BIAS) = (a + n) - B * (k - n)
  BY <1>0, <1>1, <1>4
<1> QED
  BY <1>0, <1>1, <1>2, <1>3, <1>5, ZenonT(30) DEF CountOf, n

-----------------------------------------------------------------------------
LockStep == Lock!Next \/ UNCHANGED <<Readers, Writers>>

(* Every step below keeps the invariant and is a step of RWLock. *)
Good == IInv' /\ LockStep

(* Nobody is forgotten if somebody is active, nobody waits, or somebody is *)
(* awake.                                                                  *)
LEMMA ServedIf ==
  ASSUME Act' # {} \/ (QueuedR \cup QueuedW)' = {} \/ \E u \in Tasks : Awake(u)'
  PROVE  Served'
BY ApartNext, ZenonT(30) DEF Served, ApartFacts

(* Steps that move no task between the sets. *)
sets == <<Act, Waits, QueuedR, QueuedW, Readers, Writers>>

(* A step that changes neither the count nor a list nor a set of tasks,    *)
(* and puts nobody to sleep, keeps the invariant.                          *)
LEMMA Silent ==
  ASSUME IInv, Types', Places', SawOther', GrantedAwake',
         UNCHANGED <<count, wait_readers, read_wait, write_wait>>, UNCHANGED sets,
         Act # {} \/ \A u \in Tasks : Awake(u) => Awake(u)'
  PROVE  Good
<1>1. /\ Act' = Act /\ Waits' = Waits /\ QueuedR' = QueuedR /\ QueuedW' = QueuedW
      /\ Readers' = Readers /\ Writers' = Writers
  BY ZenonT(30) DEF sets
<1>2. Queues' /\ Counted' /\ Excludes'
  BY <1>1, ZenonT(30) DEF IInv, Queues, Counted, Excludes
<1>3. Served'
  <2>1. CASE Act # {}
    BY <1>1, <2>1, ServedIf, ZenonT(30)
  <2>2. CASE \A u \in Tasks : Awake(u) => Awake(u)'
    BY <1>1, <2>2, ZenonT(30) DEF IInv, Served
  <2> QED
    BY <2>1, <2>2, ZenonT(30)
<1> QED
  BY <1>1, <1>2, <1>3, ZenonT(30) DEF IInv, Good, LockStep

(* down_read_failed(): the reader sets its state at the top of its loop. *)
LEMMA ReadLoopGood ==
  ASSUME IInv, NEW t \in Tasks, ReadLoop(t)
  PROVE  Good
<1>1. /\ pc[t] = "rloop" /\ pc' = [pc EXCEPT ![t] = "rcheck"]
      /\ state' = [state EXCEPT ![t] = "UNINTERRUPTIBLE"]
      /\ UNCHANGED <<count, wait_readers, read_wait, write_wait, task, timeout, old>>
  BY ZenonT(30) DEF ReadLoop, Goto
<1>2. Types'
  BY <1>1, ZenonT(30) DEF IInv, Types, Locs
<1>3. UNCHANGED sets
  BY <1>1, ZenonT(30) DEF IInv, Types, sets, Act, Waits, QueuedR, QueuedW, Readers, Writers, ReadLocs
<1>4. Places' /\ SawOther' /\ GrantedAwake'
  BY <1>1, ZenonT(30) DEF IInv, Types, Places, SawOther, GrantedAwake, Active, ReadLocs
<1>5. \A u \in Tasks : Awake(u) => Awake(u)'
  BY <1>1, ZenonT(30) DEF IInv, Types, Awake
<1> QED
  BY <1>1, <1>2, <1>3, <1>4, <1>5, Silent, ZenonT(30)

(* It looks at waiter.task. *)
LEMMA ReadCheckGood ==
  ASSUME IInv, NEW t \in Tasks, ReadCheck(t)
  PROVE  Good
<1>0. pc[t] = "rcheck" /\ UNCHANGED <<count, wait_readers, read_wait, write_wait, task, old>>
  BY ZenonT(30) DEF ReadCheck
<1>1. CASE /\ ~task[t] /\ pc' = [pc EXCEPT ![t] = "reading"]
           /\ timeout' = [timeout EXCEPT ![t] = "max"]
           /\ state' = [state EXCEPT ![t] = "RUNNING"]
  <2>2. Types'
    BY <1>0, <1>1, ZenonT(30) DEF IInv, Types, Locs
  <2>3. UNCHANGED sets
    BY <1>0, <1>1, ZenonT(30)
    DEF IInv, Types, sets, Act, Waits, QueuedR, QueuedW, Readers, Writers, ReadLocs
  <2>4. Places' /\ SawOther' /\ GrantedAwake'
    BY <1>0, <1>1, ZenonT(30) DEF IInv, Types, Places, SawOther, GrantedAwake, Active, ReadLocs
  <2>5. \A u \in Tasks : Awake(u) => Awake(u)'
    BY <1>0, <1>1, ZenonT(30) DEF IInv, Types, Awake
  <2> QED
    BY <1>0, <2>2, <2>3, <2>4, <2>5, Silent, ZenonT(30)
<1>2. CASE /\ task[t] /\ pc' = [pc EXCEPT ![t] = "rsched"] /\ UNCHANGED <<state, timeout>>
  <2>2. Types'
    BY <1>0, <1>2, ZenonT(30) DEF IInv, Types, Locs
  <2>3. UNCHANGED sets
    BY <1>0, <1>2, ZenonT(30)
    DEF IInv, Types, sets, Act, Waits, QueuedR, QueuedW, Readers, Writers, ReadLocs
  <2>4. Places' /\ SawOther' /\ GrantedAwake'
    BY <1>0, <1>2, ZenonT(30) DEF IInv, Types, Places, SawOther, GrantedAwake, Active, ReadLocs
  <2>5. \A u \in Tasks : Awake(u) => Awake(u)'
    BY <1>0, <1>2, ZenonT(30) DEF IInv, Types, Awake
  <2> QED
    BY <1>0, <2>2, <2>3, <2>4, <2>5, Silent, ZenonT(30)
<1> QED
  BY <1>1, <1>2, ZenonT(30) DEF ReadCheck, Done, Goto

(* It is back from schedule_timeout(), woken or with its time over. *)
LEMMA ReadScheduledGood ==
  ASSUME IInv, NEW t \in Tasks, ReadScheduled(t)
  PROVE  Good
<1>1. /\ pc[t] = "rsched" /\ pc' = [pc EXCEPT ![t] = "rloop"]
      /\ UNCHANGED <<count, wait_readers, read_wait, write_wait, task, state, timeout, old>>
  BY ZenonT(30) DEF ReadScheduled, Goto
<1>2. Types'
  BY <1>1, ZenonT(30) DEF IInv, Types, Locs
<1>3. UNCHANGED sets
  BY <1>1, ZenonT(30) DEF IInv, Types, sets, Act, Waits, QueuedR, QueuedW, Readers, Writers, ReadLocs
<1>4. Places' /\ SawOther' /\ GrantedAwake'
  BY <1>1, ZenonT(30) DEF IInv, Types, Places, SawOther, GrantedAwake, Active, ReadLocs
<1>5. \A u \in Tasks : Awake(u) => Awake(u)'
  BY <1>1, ZenonT(30) DEF IInv, Types, Awake
<1> QED
  BY <1>1, <1>2, <1>3, <1>4, <1>5, Silent, ZenonT(30)

(* The timer of schedule_timeout(), or a wakeup from elsewhere. *)
LEMMA WokenGood ==
  ASSUME IInv, NEW t \in Tasks, TimerExpires(t) \/ StrayWakeup(t)
  PROVE  Good
<1>1. /\ state' = [state EXCEPT ![t] = "RUNNING"]
      /\ timeout' \in [Tasks -> {"max", "left", "0"}]
      /\ UNCHANGED <<count, wait_readers, read_wait, write_wait, task, pc, old>>
  BY ZenonT(30) DEF TimerExpires, StrayWakeup, IInv, Types
<1>2. Types'
  BY <1>1, ZenonT(30) DEF IInv, Types
<1>3. UNCHANGED sets
  BY <1>1, ZenonT(30) DEF sets, Act, Waits, QueuedR, QueuedW, Readers, Writers
<1>4. Places' /\ SawOther' /\ GrantedAwake'
  BY <1>1, ZenonT(30) DEF IInv, Types, Places, SawOther, GrantedAwake, Active
<1>5. \A u \in Tasks : Awake(u) => Awake(u)'
  BY <1>1, ZenonT(30) DEF IInv, Types, Awake
<1> QED
  BY <1>1, <1>2, <1>3, <1>4, <1>5, Silent, ZenonT(30)

(* ldsem_down_read() *)
LEMMA DownReadGood ==
  ASSUME IInv, NEW t \in Tasks, DownRead(t)
  PROVE  Good
<1>0. /\ pc[t] = "idle" /\ count' = count + 1
      /\ UNCHANGED <<wait_readers, read_wait, write_wait, task, state>>
      /\ ~task[t] /\ count \in Int
  BY ZenonT(30) DEF DownRead, IInv, Places, Types, ReadLocs
<1>1. t \notin Act \cup Waits \cup QueuedR \cup QueuedW \cup Readers \cup Writers
  BY <1>0, ZenonT(30) DEF Act, Waits, QueuedR, QueuedW, Readers, Writers, ReadLocs
<1>2. CountOf(count', Act \cup {t}, Waits)
  BY <1>0, <1>1, Recount, ZenonT(30) DEF IInv, Counted
<1>3. CASE /\ count' > 0 /\ pc' = [pc EXCEPT ![t] = "reading"] /\ UNCHANGED <<timeout, old>>
  <2>1. /\ Act' = Act \cup {t} /\ Waits' = Waits /\ QueuedR' = QueuedR /\ QueuedW' = QueuedW
        /\ Readers' = Readers \cup {t} /\ Writers' = Writers
    BY <1>0, <1>1, <1>3
    DEF IInv, Types, Act, Waits, QueuedR, QueuedW, Readers, Writers, ReadLocs
  <2>2. Types'
    BY <1>0, <1>3 DEF IInv, Types, Locs
  <2>3. Queues' /\ Counted'
    BY <1>0, <1>2, <2>1, ZenonT(30) DEF IInv, Queues, Counted
  <2>4. Writers = {}
    <3>1. Waits = {}
      BY <1>2, <1>3, CountMeans, ZenonT(30)
    <3> QED
      BY <3>1, Apart, ZenonT(30) DEF ApartFacts
  <2>5. Lock!AcquireRead({t})
    BY <2>1, <2>4, ZenonT(30) DEF Lock!AcquireRead
  <2>6. Excludes' /\ LockStep
    BY <2>1, <2>4, <2>5, ZenonT(30) DEF Excludes, LockStep, Lock!Next
  <2>7. Places' /\ SawOther' /\ GrantedAwake'
    BY <1>0, <1>3, ZenonT(30) DEF IInv, Types, Places, SawOther, GrantedAwake, Active, ReadLocs
  <2>8. Served'
    BY <2>1, ServedIf, ZenonT(30)
  <2> QED
    BY <2>2, <2>3, <2>6, <2>7, <2>8, ZenonT(30) DEF IInv, Good
<1>4. CASE Fail(t, "rfail", ReadTimeouts)
  <2>0. PICK o \in ReadTimeouts : timeout' = [timeout EXCEPT ![t] = o]
    BY <1>4, ZenonT(30) DEF Fail
  <2>1. pc' = [pc EXCEPT ![t] = "rfail"] /\ old' = [old EXCEPT ![t] = count']
    BY <1>4, ZenonT(30) DEF Fail, Goto
  <2>2. /\ Act' = Act \cup {t} /\ Waits' = Waits /\ QueuedR' = QueuedR /\ QueuedW' = QueuedW
        /\ Readers' = Readers /\ Writers' = Writers
    BY <1>0, <1>1, <2>1
    DEF IInv, Types, Act, Waits, QueuedR, QueuedW, Readers, Writers, ReadLocs
  <2>3. Types'
    <3>1. o \in {"max", "left", "0"}
      BY LdsemAssumption, ZenonT(30)
    <3>2. count' \in Int
      BY <1>0
    <3> QED
      BY <1>0, <2>0, <2>1, <3>1, <3>2, ZenonT(30) DEF IInv, Types, Locs
  <2>4. Queues' /\ Counted' /\ Excludes' /\ LockStep
    BY <1>0, <1>2, <2>2, ZenonT(30) DEF IInv, Queues, Counted, Excludes, LockStep
  <2>5. Places' /\ SawOther' /\ GrantedAwake'
    BY <1>0, <2>1, ZenonT(30) DEF IInv, Types, Places, SawOther, GrantedAwake, Active, ReadLocs
  <2>6. Served'
    BY <2>2, ServedIf, ZenonT(30)
  <2> QED
    BY <2>3, <2>4, <2>5, <2>6, ZenonT(30) DEF IInv, Good
<1> QED
  BY <1>3, <1>4, ZenonT(30) DEF DownRead, Goto

(* ldsem_down_write() *)
LEMMA DownWriteGood ==
  ASSUME IInv, NEW t \in Tasks, DownWrite(t)
  PROVE  Good
<1>0. /\ pc[t] = "idle" /\ count' = count + WRITE_BIAS
      /\ UNCHANGED <<wait_readers, read_wait, write_wait, task, state>>
      /\ ~task[t] /\ count \in Int
  BY ZenonT(30) DEF DownWrite, IInv, Places, Types, ReadLocs
<1>1. t \notin Act \cup Waits \cup QueuedR \cup QueuedW \cup Readers \cup Writers
  BY <1>0, ZenonT(30) DEF Act, Waits, QueuedR, QueuedW, Readers, Writers, ReadLocs
<1>2. CountOf(count', Act \cup {t}, Waits \cup {t}) /\ count' \in Int
  <2>1. CountOf(count + 1, Act \cup {t}, Waits)
    BY <1>0, <1>1, Recount, ZenonT(30) DEF IInv, Counted
  <2>2. CountOf((count + 1) + WAIT_BIAS, Act \cup {t}, Waits \cup {t})
    BY <1>1, <2>1, Recount, ZenonT(30)
  <2>3. (count + 1) + WAIT_BIAS = count' /\ count' \in Int
    BY <1>0, LdsemAssumption DEF WRITE_BIAS, WAIT_BIAS
  <2> QED
    BY <2>2, <2>3, ZenonT(30)
<1>3. CASE /\ Active(count') = 1 /\ pc' = [pc EXCEPT ![t] = "writing"]
           /\ UNCHANGED <<timeout, old>>
  <2>1. /\ Act' = Act \cup {t} /\ Waits' = Waits \cup {t}
        /\ QueuedR' = QueuedR /\ QueuedW' = QueuedW
        /\ Readers' = Readers /\ Writers' = Writers \cup {t}
    BY <1>0, <1>1, <1>3
    DEF IInv, Types, Act, Waits, QueuedR, QueuedW, Readers, Writers, ReadLocs
  <2>2. Types'
    BY <1>0, <1>2, <1>3, ZenonT(30) DEF IInv, Types, Locs
  <2>3. Queues' /\ Counted'
    BY <1>0, <1>2, <2>1, ZenonT(30) DEF IInv, Queues, Counted
  <2>4. Readers = {} /\ Writers = {}
    <3>1. Act \cup {t} = {t}
      BY <1>2, <1>3, CountMeans, ZenonT(30)
    <3>2. Act = {}
      BY <1>1, <3>1, ZenonT(30)
    <3> QED
      BY <3>2, Apart, ZenonT(30) DEF ApartFacts
  <2>5. Lock!AcquireWrite(t)
    BY <2>1, <2>4, ZenonT(30) DEF Lock!AcquireWrite
  <2>6. Excludes' /\ LockStep
    BY <2>1, <2>4, <2>5, ZenonT(30) DEF Excludes, LockStep, Lock!Next
  <2>7. Places' /\ SawOther' /\ GrantedAwake'
    BY <1>0, <1>3, ZenonT(30) DEF IInv, Types, Places, SawOther, GrantedAwake, ReadLocs
  <2>8. Served'
    BY <2>1, ServedIf, ZenonT(30)
  <2> QED
    BY <2>2, <2>3, <2>6, <2>7, <2>8, ZenonT(30) DEF IInv, Good
<1>4. CASE Active(count') # 1 /\ Fail(t, "wfail", WriteTimeouts)
  <2>0. PICK o \in WriteTimeouts : timeout' = [timeout EXCEPT ![t] = o]
    BY <1>4, ZenonT(30) DEF Fail
  <2>1. pc' = [pc EXCEPT ![t] = "wfail"] /\ old' = [old EXCEPT ![t] = count']
    BY <1>4, ZenonT(30) DEF Fail, Goto
  <2>2. /\ Act' = Act \cup {t} /\ Waits' = Waits \cup {t}
        /\ QueuedR' = QueuedR /\ QueuedW' = QueuedW
        /\ Readers' = Readers /\ Writers' = Writers
    BY <1>0, <1>1, <2>1
    DEF IInv, Types, Act, Waits, QueuedR, QueuedW, Readers, Writers, ReadLocs
  <2>3. Types'
    <3>1. o \in {"max", "left", "0"}
      BY LdsemAssumption, ZenonT(30)
    <3> QED
      BY <1>0, <1>2, <2>0, <2>1, <3>1, ZenonT(30) DEF IInv, Types, Locs
  <2>4. Queues' /\ Counted' /\ Excludes' /\ LockStep
    BY <1>0, <1>2, <2>2, ZenonT(30) DEF IInv, Queues, Counted, Excludes, LockStep
  <2>5. Places' /\ SawOther' /\ GrantedAwake'
    BY <1>0, <1>4, <2>1, ZenonT(30) DEF IInv, Types, Places, SawOther, GrantedAwake, ReadLocs
  <2>6. Served'
    BY <2>2, ServedIf, ZenonT(30)
  <2> QED
    BY <2>3, <2>4, <2>5, <2>6, ZenonT(30) DEF IInv, Good
<1> QED
  BY <1>3, <1>4, ZenonT(30) DEF DownWrite, Goto

(* ldsem_up_read() and ldsem_up_write() *)
LEMMA UpReadGood ==
  ASSUME IInv, NEW t \in Tasks, UpRead(t)
  PROVE  Good
<1> DEFINE l == IF count' < 0 /\ Active(count') = 0 THEN "wake" ELSE "idle"
<1>0. /\ pc[t] = "reading" /\ count' = count - 1 /\ pc' = [pc EXCEPT ![t] = l]
      /\ UNCHANGED <<wait_readers, read_wait, write_wait, task, state, timeout, old>>
      /\ ~task[t] /\ count \in Int /\ l \in {"wake", "idle"}
  BY ZenonT(30) DEF UpRead, Goto, IInv, Places, Types, ReadLocs
<1>1. t \in Act /\ t \in Readers
  BY <1>0, ZenonT(30) DEF Act, Readers
<1>2. CountOf(count', Act \ {t}, Waits)
  BY <1>0, <1>1, Recount, ZenonT(30) DEF IInv, Counted
<1>3. l = "idle" => ~(count' < 0 /\ Active(count') = 0)
  BY ZenonT(30)
<1> HIDE DEF l
<1>4. /\ Act' = Act \ {t} /\ Waits' = Waits /\ QueuedR' = QueuedR /\ QueuedW' = QueuedW
      /\ Readers' = Readers \ {t} /\ Writers' = Writers
  BY <1>0
  DEF IInv, Types, Act, Waits, QueuedR, QueuedW, Readers, Writers, ReadLocs
<1>5. Types'
  BY <1>0 DEF IInv, Types, Locs
<1>6. Queues' /\ Counted'
  BY <1>0, <1>2, <1>4, ZenonT(30) DEF IInv, Queues, Counted
<1>7. Lock!ReleaseRead(t)
  BY <1>1, <1>4, ZenonT(30) DEF Lock!ReleaseRead
<1>8. Excludes' /\ LockStep
  BY <1>1, <1>4, <1>7, ZenonT(30) DEF IInv, Excludes, LockStep, Lock!Next
<1>9. Places' /\ SawOther' /\ GrantedAwake'
  BY <1>0, ZenonT(30) DEF IInv, Types, Places, SawOther, GrantedAwake, Active, ReadLocs
<1>10. Served'
  <2>1. CASE l = "wake"
    BY <1>0, <2>1, ServedIf, ZenonT(30) DEF IInv, Types, Awake
  <2>2. CASE Active(count') # 0
    BY <1>2, <1>4, <2>2, CountMeans, ServedIf, ZenonT(30)
  <2>3. CASE ~(count' < 0)
    <3>1. count' >= 0
      BY <1>0, <2>3
    <3>2. Waits = {}
      BY <1>2, <3>1, CountMeans, ZenonT(30)
    <3> QED
      BY <1>4, <3>2, Apart, ServedIf, ZenonT(30) DEF ApartFacts
  <2> QED
    BY <1>0, <1>3, <2>1, <2>2, <2>3, ZenonT(30)
<1> QED
  BY <1>5, <1>6, <1>8, <1>9, <1>10, ZenonT(30) DEF IInv, Good

(* ldsem_up_write() *)
LEMMA UpWriteGood ==
  ASSUME IInv, NEW t \in Tasks, UpWrite(t)
  PROVE  Good
<1> DEFINE l == IF count' < 0 THEN "wake" ELSE "idle"
<1>0. /\ pc[t] = "writing" /\ count' = count - WRITE_BIAS /\ pc' = [pc EXCEPT ![t] = l]
      /\ UNCHANGED <<wait_readers, read_wait, write_wait, task, state, timeout, old>>
      /\ ~task[t] /\ count \in Int /\ l \in {"wake", "idle"}
  BY ZenonT(30) DEF UpWrite, Goto, IInv, Places, Types, ReadLocs
<1>1. t \in Act /\ t \in Waits /\ t \in Writers
  BY <1>0, ZenonT(30) DEF Act, Waits, Writers
<1>2. CountOf(count', Act \ {t}, Waits \ {t}) /\ count' \in Int
  <2>1. CountOf(count - 1, Act \ {t}, Waits)
    BY <1>0, <1>1, Recount, ZenonT(30) DEF IInv, Counted
  <2>2. CountOf((count - 1) - WAIT_BIAS, Act \ {t}, Waits \ {t})
    BY <1>1, <2>1, Recount, ZenonT(30)
  <2>3. (count - 1) - WAIT_BIAS = count' /\ count' \in Int
    BY <1>0, LdsemAssumption DEF WRITE_BIAS, WAIT_BIAS
  <2> QED
    BY <2>2, <2>3, ZenonT(30)
<1>3. l = "idle" => ~(count' < 0)
  BY ZenonT(30)
<1> HIDE DEF l
<1>4. /\ Act' = Act \ {t} /\ Waits' = Waits \ {t} /\ QueuedR' = QueuedR /\ QueuedW' = QueuedW
      /\ Readers' = Readers /\ Writers' = Writers \ {t}
  BY <1>0
  DEF IInv, Types, Act, Waits, QueuedR, QueuedW, Readers, Writers, ReadLocs
<1>5. Types'
  BY <1>0, <1>2, ZenonT(30) DEF IInv, Types, Locs
<1>6. Queues' /\ Counted'
  BY <1>0, <1>2, <1>4, ZenonT(30) DEF IInv, Queues, Counted
<1>7. Lock!ReleaseWrite(t)
  BY <1>1, <1>4, ZenonT(30) DEF Lock!ReleaseWrite
<1>8. Excludes' /\ LockStep
  BY <1>1, <1>4, <1>7, ZenonT(30) DEF IInv, Excludes, LockStep, Lock!Next
<1>9. Places' /\ SawOther' /\ GrantedAwake'
  BY <1>0, ZenonT(30) DEF IInv, Types, Places, SawOther, GrantedAwake, Active, ReadLocs
<1>10. Served'
  <2>1. CASE l = "wake"
    BY <1>0, <2>1, ServedIf, ZenonT(30) DEF IInv, Types, Awake
  <2>2. CASE ~(count' < 0)
    <3>1. count' >= 0
      BY <1>2, <2>2
    <3>2. Waits \ {t} = {}
      BY <1>2, <3>1, CountMeans, ZenonT(30)
    <3> QED
      BY <1>4, <3>2, ApartNext, ServedIf, ZenonT(30) DEF ApartFacts
  <2> QED
    BY <1>0, <1>3, <2>1, <2>2, ZenonT(30)
<1> QED
  BY <1>5, <1>6, <1>8, <1>9, <1>10, ZenonT(30) DEF IInv, Good

(* down_write_failed() up to schedule_timeout() *)
LEMMA WriteQueueGood ==
  ASSUME IInv, NEW t \in Tasks, WriteQueue(t)
  PROVE  Good
<1>0. /\ pc[t] = "wfail" /\ old' = [old EXCEPT ![t] = 0]
      /\ UNCHANGED <<wait_readers, read_wait, task>>
      /\ ~task[t] /\ count \in Int
  BY ZenonT(30) DEF WriteQueue, IInv, Places, Types, ReadLocs
<1>1. t \in Act /\ t \in Waits /\ t \notin QueuedR \cup QueuedW \cup Readers \cup Writers
  BY <1>0, ZenonT(30) DEF Act, Waits, QueuedR, QueuedW, Readers, Writers, ReadLocs
<1>2. CASE /\ WriteOwned(t) /\ pc' = [pc EXCEPT ![t] = "writing"]
           /\ timeout' = [timeout EXCEPT ![t] = "max"]
           /\ UNCHANGED <<count, write_wait, state>>
  <2>1. /\ Act' = Act /\ Waits' = Waits /\ QueuedR' = QueuedR /\ QueuedW' = QueuedW
        /\ Readers' = Readers /\ Writers' = Writers \cup {t}
    BY <1>0, <1>2
    DEF IInv, Types, Act, Waits, QueuedR, QueuedW, Readers, Writers, ReadLocs
  <2>2. Types'
    BY <1>0, <1>2 DEF IInv, Types, Locs
  <2>3. Queues' /\ Counted'
    BY <1>0, <1>2, <2>1, ZenonT(30) DEF IInv, Queues, Counted
  <2>4. Readers = {} /\ Writers = {}
    <3>1. Act = {t}
      BY <1>1, <1>2, CountMeans, ZenonT(30) DEF IInv, Counted, WriteOwned
    <3> QED
      BY <1>1, <3>1, Apart, ZenonT(30) DEF ApartFacts
  <2>5. Lock!AcquireWrite(t)
    BY <2>1, <2>4, ZenonT(30) DEF Lock!AcquireWrite
  <2>6. Excludes' /\ LockStep
    BY <2>1, <2>4, <2>5, ZenonT(30) DEF Excludes, LockStep, Lock!Next
  <2>7. Places' /\ SawOther' /\ GrantedAwake'
    BY <1>0, <1>2, ZenonT(30) DEF IInv, Types, Places, SawOther, GrantedAwake, ReadLocs
  <2>8. Served'
    BY <1>1, <2>1, ServedIf, ZenonT(30)
  <2> QED
    BY <2>2, <2>3, <2>6, <2>7, <2>8, ZenonT(30) DEF IInv, Good
<1>3. CASE /\ ~WriteOwned(t) /\ count' = count - 1
           /\ write_wait' = Append(write_wait, t)
           /\ state' = [state EXCEPT ![t] = "UNINTERRUPTIBLE"]
           /\ pc' = [pc EXCEPT ![t] = "wsched"] /\ UNCHANGED timeout
  <2>1. /\ Act' = Act \ {t} /\ Waits' = Waits /\ QueuedR' = QueuedR
        /\ QueuedW' = QueuedW \cup {t} /\ Readers' = Readers /\ Writers' = Writers
    BY <1>0, <1>3
    DEF IInv, Types, Act, Waits, QueuedR, QueuedW, Readers, Writers, ReadLocs
  <2>2. Types'
    BY <1>0, <1>3 DEF IInv, Types, Locs
  <2>3. QueueOf(write_wait', QueuedW')
    BY <1>1, <1>3, <2>1, QueueAdd, ZenonT(30) DEF IInv, Queues
  <2>4. CountOf(count', Act', Waits')
    BY <1>1, <1>3, <2>1, Recount, ZenonT(30) DEF IInv, Counted
  <2>5. Queues' /\ Counted' /\ Excludes' /\ LockStep
    BY <1>0, <2>1, <2>3, <2>4, ZenonT(30) DEF IInv, Queues, Counted, Excludes, LockStep
  <2>6. Places' /\ SawOther' /\ GrantedAwake'
    BY <1>0, <1>3, ZenonT(30) DEF IInv, Types, Places, SawOther, GrantedAwake, ReadLocs
  <2>7. Act' # {}
    <3>1. Active(count) # 1
      BY <1>0, <1>3, ZenonT(30) DEF IInv, SawOther, WriteOwned
    <3>2. Act # {t}
      <4>1. CountOf(count, Act, Waits)
        BY ZenonT(30) DEF IInv, Counted
      <4>2. Cardinality({t}) = 1
        BY FS_Singleton, ZenonT(30)
      <4> QED
        BY <3>1, <4>1, <4>2, CountMeans, ZenonT(30)
    <3> QED
      BY <1>1, <2>1, <3>2, ZenonT(30)
  <2> QED
    BY <2>2, <2>5, <2>6, <2>7, ServedIf, ZenonT(30) DEF IInv, Good
<1> QED
  BY <1>2, <1>3, ZenonT(30) DEF WriteQueue, Done, Goto

(* writer_trylock(), and a writer that gives up or goes back to sleep *)
LEMMA WriteScheduledGood ==
  ASSUME IInv, NEW t \in Tasks, WriteScheduled(t)
  PROVE  Good
<1>0. /\ pc[t] = "wsched" /\ UNCHANGED <<wait_readers, read_wait, task, old>>
      /\ ~task[t] /\ count \in Int
  BY ZenonT(30) DEF WriteScheduled, IInv, Places, Types, ReadLocs
<1>1. t \notin Act /\ t \in Waits /\ t \in QueuedW /\ t \notin Readers \cup Writers \cup QueuedR
  BY <1>0, ZenonT(30) DEF Act, Waits, QueuedR, QueuedW, Readers, Writers, ReadLocs
<1>2. QueueOf(ListDel(write_wait, t), QueuedW \ {t})
  BY <1>1, QueueDel, ZenonT(30) DEF IInv, Queues
<1>3. CASE /\ WriterTrylock /\ count' = count + 1
           /\ write_wait' = ListDel(write_wait, t)
           /\ pc' = [pc EXCEPT ![t] = "writing"]
           /\ timeout' = [timeout EXCEPT ![t] = "max"] /\ UNCHANGED state
  <2>1. /\ Act' = Act \cup {t} /\ Waits' = Waits /\ QueuedR' = QueuedR
        /\ QueuedW' = QueuedW \ {t} /\ Readers' = Readers /\ Writers' = Writers \cup {t}
    BY <1>0, <1>3
    DEF IInv, Types, Act, Waits, QueuedR, QueuedW, Readers, Writers, ReadLocs
  <2>2. Types'
    BY <1>0, <1>3 DEF IInv, Types, Locs
  <2>3. CountOf(count', Act', Waits')
    BY <1>1, <1>3, <2>1, Recount, ZenonT(30) DEF IInv, Counted
  <2>4. Queues' /\ Counted'
    BY <1>0, <1>2, <1>3, <2>1, <2>3, ZenonT(30) DEF IInv, Queues, Counted
  <2>5. Readers = {} /\ Writers = {}
    <3>1. Act = {}
      BY <1>3, CountMeans, ZenonT(30) DEF IInv, Counted, WriterTrylock
    <3> QED
      BY <3>1, Apart, ZenonT(30) DEF ApartFacts
  <2>6. Lock!AcquireWrite(t)
    BY <2>1, <2>5, ZenonT(30) DEF Lock!AcquireWrite
  <2>7. Excludes' /\ LockStep
    BY <2>1, <2>5, <2>6, ZenonT(30) DEF Excludes, LockStep, Lock!Next
  <2>8. Places' /\ SawOther' /\ GrantedAwake'
    BY <1>0, <1>3, ZenonT(30) DEF IInv, Types, Places, SawOther, GrantedAwake, Active, ReadLocs
  <2>9. Served'
    BY <2>1, ServedIf, ZenonT(30)
  <2> QED
    BY <2>2, <2>4, <2>7, <2>8, <2>9, ZenonT(30) DEF IInv, Good
<1>4. Act # {} \/ WriterTrylock
  BY CountMeans, ZenonT(30) DEF IInv, Counted, WriterTrylock
<1>5. CASE /\ ~WriterTrylock /\ count' = GiveUp(count)
           /\ write_wait' = ListDel(write_wait, t)
           /\ pc' = [pc EXCEPT ![t] = "idle"]
           /\ timeout' = [timeout EXCEPT ![t] = "max"] /\ UNCHANGED state
  <2>1. /\ Act' = Act /\ Waits' = Waits \ {t} /\ QueuedR' = QueuedR
        /\ QueuedW' = QueuedW \ {t} /\ Readers' = Readers /\ Writers' = Writers
    BY <1>0, <1>5
    DEF IInv, Types, Act, Waits, QueuedR, QueuedW, Readers, Writers, ReadLocs
  <2>2. Types'
    <3>1. count' \in Int
      BY <1>0, <1>5, LdsemAssumption DEF GiveUp, WAIT_BIAS
    <3> QED
      BY <1>0, <1>5, <3>1, ZenonT(30) DEF IInv, Types, Locs
  <2>3. CountOf(count', Act', Waits')
    BY <1>1, <1>5, <2>1, Recount, ZenonT(30) DEF IInv, Counted, GiveUp
  <2>4. Queues' /\ Counted' /\ Excludes' /\ LockStep
    BY <1>0, <1>2, <1>5, <2>1, <2>3, ZenonT(30) DEF IInv, Queues, Counted, Excludes, LockStep
  <2>5. Places' /\ SawOther' /\ GrantedAwake'
    BY <1>0, <1>5, ZenonT(30) DEF IInv, Types, Places, SawOther, GrantedAwake, Active, ReadLocs
  <2>6. Served'
    BY <1>4, <1>5, <2>1, ServedIf, ZenonT(30)
  <2> QED
    BY <2>2, <2>4, <2>5, <2>6, ZenonT(30) DEF IInv, Good
<1>6. CASE /\ ~WriterTrylock
           /\ state' = [state EXCEPT ![t] = "UNINTERRUPTIBLE"]
           /\ UNCHANGED <<count, write_wait, pc, timeout>>
  <2>1. Types'
    BY <1>0, <1>6, ZenonT(30) DEF IInv, Types
  <2>2. UNCHANGED sets
    BY <1>0, <1>6, ZenonT(30) DEF sets, Act, Waits, QueuedR, QueuedW, Readers, Writers
  <2>3. Places' /\ SawOther' /\ GrantedAwake'
    BY <1>0, <1>6, ZenonT(30) DEF IInv, Types, Places, SawOther, GrantedAwake, Active
  <2> QED
    BY <1>0, <1>4, <1>6, <2>1, <2>2, <2>3, Silent, ZenonT(30)
<1> QED
  BY <1>3, <1>5, <1>6, ZenonT(30) DEF WriteScheduled, Done, Goto

(* __ldsem_wake(), when the tasks of A are active, those of W wait, and    *)
(* those of S among them are the readers on the list: it grants the lock   *)
(* to all of S or to nobody.                                               *)
GrantsTo(G, A, W, S, awake) ==
  /\ G = {} \/ G = S
  /\ CountOf(count', A \cup G, W \ G)
  /\ wait_readers' \in Nat /\ wait_readers' = Len(read_wait')
  /\ QueueOf(read_wait', S \ G)
  /\ task' = [u \in Tasks |-> u \in S \ G]
  /\ state' \in [Tasks -> {"RUNNING", "UNINTERRUPTIBLE"}]
  /\ \A u \in Tasks : state'[u] = awake[u] \/ state'[u] = "RUNNING"
  /\ \A u \in G : state'[u] = "RUNNING"
  /\ G # {} => W \ G = {}

(* __ldsem_wake() wakes the first queued writer; without one it grants     *)
(* the lock to the queued readers, unless a task is active.                *)
LEMMA LdsemWakeGrants ==
  ASSUME NEW c, NEW A, NEW W, CountOf(c, A, W),
         NEW l, NEW S, QueueOf(l, S), S \subseteq W, S \cap A = {},
         QueueOf(write_wait, QueuedW), W \subseteq S \cup QueuedW \cup A,
         NEW awake \in [Tasks -> {"RUNNING", "UNINTERRUPTIBLE"}],
         LdsemWake(c, Len(l), l, awake)
  PROVE  \E G : /\ GrantsTo(G, A, W, S, awake)
                /\ write_wait # <<>> => state'[Head(write_wait)] = "RUNNING"
                /\ write_wait = <<>> => S = {} \/ A \cup G # {}
<1> DEFINE n == Len(l)
           r == WakeReaders(c, n)
           adjusted == c + n * (1 - WAIT_BIAS)
           G == IF write_wait = <<>> /\ l # <<>> /\ r.granted THEN S ELSE {}
           woken == IF write_wait # <<>> THEN {Head(write_wait)} ELSE G
<1>1. /\ Range(l) = S /\ (l = <<>> <=> S = {}) /\ Cardinality(S) = n /\ n \in Nat
      /\ S \subseteq Tasks
  BY QueueFacts, ZenonT(30) DEF QueueOf
<1>2. /\ count' = IF G # {} THEN r.count ELSE c
      /\ wait_readers' = IF G # {} THEN 0 ELSE n
      /\ read_wait' = IF G # {} THEN <<>> ELSE l
      /\ task' = [u \in Tasks |-> u \in S \ G]
      /\ state' = [u \in Tasks |-> IF u \in woken THEN "RUNNING" ELSE awake[u]]
  BY <1>1, ZenonT(30) DEF LdsemWake
<1>3. /\ r.granted <=> adjusted > 0
      /\ r.granted => r.count = adjusted
  BY DEF WakeReaders
<1>4. CountOf(adjusted, A \cup S, W \ S)
  BY <1>1, Granted, ZenonT(30)
<1>5. adjusted > 0 <=> W \ S = {} /\ A \cup S # {}
  BY <1>4, CountMeans, ZenonT(30)
<1>6. write_wait # <<>> => Head(write_wait) \in Tasks
  BY QueueFacts, ZenonT(30) DEF QueuedW
<1>7. G = {} \/ (G = S /\ adjusted > 0 /\ r.count = adjusted)
  BY <1>3, ZenonT(30)
<1>8. /\ state' \in [Tasks -> {"RUNNING", "UNINTERRUPTIBLE"}]
      /\ \A u \in Tasks : state'[u] = awake[u] \/ state'[u] = "RUNNING"
      /\ \A u \in G : state'[u] = "RUNNING"
      /\ write_wait # <<>> => state'[Head(write_wait)] = "RUNNING"
  BY <1>1, <1>2, <1>6, ZenonT(30)
<1>9. write_wait = <<>> => S = {} \/ A \cup G # {}
  <2> SUFFICES ASSUME write_wait = <<>>, S # {}, G = {} PROVE A # {}
    BY ZenonT(30)
  <2>1. ~ (adjusted > 0)
    BY <1>1, <1>3, ZenonT(30)
  <2>2. W \ S # {}
    BY <1>5, <2>1, ZenonT(30)
  <2>3. QueuedW = {}
    BY QueueFacts, ZenonT(30)
  <2> QED
    BY <2>2, <2>3, ZenonT(30)
<1> HIDE DEF G
<1>10. CountOf(count', A \cup G, W \ G)
  <2>1. CASE G = {}
    <3>1. A \cup {} = A /\ W \ {} = W
      BY ZenonT(30)
    <3> QED
      BY <1>2, <2>1, <3>1, ZenonT(30)
  <2>2. CASE G # {}
    BY <1>2, <1>4, <1>7, <2>2, ZenonT(30)
  <2> QED
    BY <2>1, <2>2, ZenonT(30)
<1>11. wait_readers' \in Nat /\ wait_readers' = Len(read_wait') /\ QueueOf(read_wait', S \ G)
  <2>1. CASE G = {}
    <3>1. S \ {} = S
      BY ZenonT(30)
    <3> QED
      BY <1>1, <1>2, <2>1, <3>1, ZenonT(30)
  <2>2. CASE G # {}
    <3>1. S \ G = {} /\ read_wait' = <<>> /\ wait_readers' = 0
      BY <1>2, <1>7, <2>2, ZenonT(30)
    <3>2. QueueOf(<<>>, {}) /\ Len(<<>>) = 0
      BY DEF QueueOf, IsInjective, Contains
    <3> QED
      BY <3>1, <3>2, ZenonT(30)
  <2> QED
    BY <2>1, <2>2, ZenonT(30)
<1>12. GrantsTo(G, A, W, S, awake)
  BY <1>2, <1>5, <1>7, <1>8, <1>10, <1>11, ZenonT(30) DEF GrantsTo
<1> QED
  BY <1>8, <1>9, <1>12, ZenonT(30)

(* Task t wakes the readers S on the list, itself among them if it has     *)
(* just queued.                                                            *)
WakesAmong(t, S) ==
  \/ pc[t] = "wake" /\ pc' = [pc EXCEPT ![t] = "idle"] /\ S = QueuedR
  \/ pc[t] = "rfail" /\ pc' = [pc EXCEPT ![t] = "rloop"] /\ S = QueuedR \cup {t}

(* The sets after a grant to G. *)
LEMMA AfterGrant ==
  ASSUME IInv, NEW t \in Tasks, NEW G, NEW S, G \subseteq S,
         task' = [u \in Tasks |-> u \in S \ G], WakesAmong(t, S)
  PROVE  /\ Act' = (Act \ {t}) \cup G
         /\ Waits' = (Waits \cup S) \ G
         /\ QueuedR' = S \ G
         /\ QueuedW' = QueuedW
         /\ Readers' = Readers \cup G
         /\ Writers' = Writers
         /\ Places'
<1> USE DEF WakesAmong
<1>1. \A u \in Tasks : u # t => pc'[u] = pc[u] /\ (u \in S <=> u \in QueuedR)
  <2>1. \A u \in Tasks : u # t => pc'[u] = pc[u]
    <3>1. pc \in [Tasks -> Locs]
      BY ZenonT(30) DEF IInv, Types
    <3> QED
      BY <3>1, ZenonT(30)
  <2>2. \A u \in Tasks : u # t => (u \in S <=> u \in QueuedR)
    BY ZenonT(30)
  <2> QED
    BY <2>1, <2>2, ZenonT(30)
<1>2. \A u \in Tasks : u \in QueuedR => pc[u] \in ReadLocs /\ task[u]
  BY ZenonT(30) DEF QueuedR
<1>3. \A u \in Tasks : task[u] => u \in QueuedR
  BY ZenonT(30) DEF IInv, Places, QueuedR
<1>4. \A u \in Tasks : task'[u] <=> u \in S \ G
  BY ZenonT(30)
<1>5. G \subseteq Tasks /\ S \subseteq Tasks
  BY ZenonT(30) DEF QueuedR
<1>6. CASE pc[t] = "wake" /\ pc' = [pc EXCEPT ![t] = "idle"] /\ S = QueuedR
  <2>1. pc'[t] = "idle" /\ t \notin QueuedR
    BY <1>6, ZenonT(30) DEF IInv, Types, QueuedR, ReadLocs
  <2>2. Act' = (Act \ {t}) \cup G
    BY <1>1, <1>2, <1>3, <1>4, <1>5, <1>6, <2>1 DEF Act, ReadLocs
  <2>3. Waits' = (Waits \cup S) \ G
    BY <1>1, <1>2, <1>3, <1>4, <1>5, <1>6, <2>1 DEF Waits, ReadLocs
  <2>4. QueuedR' = S \ G /\ QueuedW' = QueuedW /\ Writers' = Writers
    BY <1>1, <1>2, <1>4, <1>5, <1>6, <2>1 DEF QueuedR, QueuedW, Writers, ReadLocs
  <2>5. Readers' = Readers \cup G
    BY <1>1, <1>2, <1>3, <1>4, <1>5, <1>6, <2>1 DEF Readers, ReadLocs
  <2>6. Places'
    BY <1>1, <1>2, <1>4, <1>6, <2>1, ZenonT(30) DEF Places
  <2> QED
    BY <2>2, <2>3, <2>4, <2>5, <2>6, ZenonT(30)
<1>7. CASE pc[t] = "rfail" /\ pc' = [pc EXCEPT ![t] = "rloop"] /\ S = QueuedR \cup {t}
  <2>1. pc'[t] = "rloop" /\ t \notin QueuedR /\ t \in S /\ "rloop" \in ReadLocs
    BY <1>7, ZenonT(30) DEF IInv, Types, QueuedR, ReadLocs
  <2>2. Act' = (Act \ {t}) \cup G
    BY <1>1, <1>2, <1>3, <1>4, <1>5, <1>7, <2>1 DEF Act, ReadLocs
  <2>3. Waits' = (Waits \cup S) \ G
    BY <1>1, <1>2, <1>3, <1>4, <1>5, <1>7, <2>1 DEF Waits, ReadLocs
  <2>4. QueuedR' = S \ G /\ QueuedW' = QueuedW /\ Writers' = Writers
    BY <1>1, <1>2, <1>4, <1>5, <1>7, <2>1 DEF QueuedR, QueuedW, Writers, ReadLocs
  <2>5. Readers' = Readers \cup G
    BY <1>1, <1>2, <1>3, <1>4, <1>5, <1>7, <2>1 DEF Readers, ReadLocs
  <2>6. Places'
    BY <1>1, <1>2, <1>4, <1>7, <2>1, ZenonT(30) DEF Places
  <2> QED
    BY <2>2, <2>3, <2>4, <2>5, <2>6, ZenonT(30)
<1> QED
  BY <1>6, <1>7, ZenonT(30)

(* What a grant to G keeps, besides the wakeups. *)
LEMMA GrantGood ==
  ASSUME IInv, NEW t \in Tasks, NEW G, NEW S, NEW l \in {"idle", "rloop"},
         GrantsTo(G, Act \ {t}, Waits \cup S, S, state),
         Act' = (Act \ {t}) \cup G, Waits' = (Waits \cup S) \ G,
         QueuedR' = S \ G, QueuedW' = QueuedW, Readers' = Readers \cup G, Writers' = Writers,
         pc' = [pc EXCEPT ![t] = l], Places', QueuedR \subseteq S,
         write_wait' = write_wait, timeout' = timeout,
         old' = old \/ old' = [old EXCEPT ![t] = 0],
         Served'
  PROVE  Good
<1>1. /\ CountOf(count', (Act \ {t}) \cup G, (Waits \cup S) \ G)
      /\ wait_readers' \in Nat /\ wait_readers' = Len(read_wait')
      /\ QueueOf(read_wait', S \ G)
      /\ task' = [u \in Tasks |-> u \in S \ G]
      /\ state' \in [Tasks -> {"RUNNING", "UNINTERRUPTIBLE"}]
      /\ \A u \in Tasks : state'[u] = state[u] \/ state'[u] = "RUNNING"
      /\ \A u \in G : state'[u] = "RUNNING"
      /\ G # {} => (Waits \cup S) \ G = {}
      /\ G = {} \/ G = S
  BY ZenonT(30) DEF GrantsTo
<1>2. Types'
  <2>1. count' \in Int
    BY <1>1, CountMeans, ZenonT(30)
  <2>2. old' \in [Tasks -> Int]
    <3>1. old \in [Tasks -> Int] /\ 0 \in Int
      BY DEF IInv, Types
    <3> QED
      BY <3>1, ZenonT(30)
  <2>3. pc' \in [Tasks -> Locs]
    <3>1. pc \in [Tasks -> Locs] /\ l \in Locs
      BY ZenonT(30) DEF IInv, Types, Locs
    <3> QED
      BY <3>1, ZenonT(30)
  <2>4. task' \in [Tasks -> BOOLEAN]
    BY <1>1
  <2> QED
    BY <1>1, <2>1, <2>2, <2>3, <2>4, ZenonT(30) DEF IInv, Types
<1>3. Queues' /\ Counted'
  BY <1>1, ZenonT(30) DEF IInv, Queues, Counted
<1>4. G # {} => Writers = {}
  <2>1. Writers \subseteq Waits' /\ Writers \subseteq Waits
    BY Apart, ApartNext, ZenonT(30) DEF ApartFacts
  <2> QED
    BY <1>1, <2>1, ZenonT(30)
<1>5. Excludes' /\ LockStep
  <2>1. CASE G = {}
    <3>1. Readers' = Readers
      BY <2>1, ZenonT(30)
    <3> QED
      BY <3>1, ZenonT(30) DEF IInv, Excludes, LockStep
  <2>2. CASE G # {}
    <3>1. Lock!AcquireRead(G)
      BY <1>4, <2>2, ZenonT(30) DEF Lock!AcquireRead
    <3>2. G \in SUBSET Tasks
      BY <1>1, ZenonT(30) DEF QueueOf, Readers
    <3> QED
      BY <1>4, <2>2, <3>1, <3>2, ZenonT(30) DEF Excludes, LockStep, Lock!Next
  <2> QED
    BY <2>1, <2>2, ZenonT(30)
<1>6. SawOther' /\ GrantedAwake'
  <2>1. \A u \in Tasks : pc'[u] = IF u = t THEN l ELSE pc[u]
    BY ZenonT(30) DEF IInv, Types
  <2>2. SawOther'
    <3>1. \A u \in Tasks : u # t => old'[u] = old[u]
      BY ZenonT(30) DEF IInv, Types
    <3> QED
      BY <2>1, <3>1, ZenonT(30) DEF IInv, SawOther, Active
  <2>3. ASSUME NEW u \in Tasks, pc'[u] = "rsched", ~task'[u]
        PROVE  state'[u] = "RUNNING"
    <3>1. pc[u] = "rsched"
      BY <2>1, <2>3, ZenonT(30)
    <3>2. CASE task[u]
      <4>1. u \in QueuedR
        BY <3>1, <3>2, ZenonT(30) DEF QueuedR, ReadLocs
      <4>2. u \in G
        BY <1>1, <2>3, <4>1, ZenonT(30)
      <4> QED
        BY <1>1, <4>2, ZenonT(30)
    <3>3. CASE ~task[u]
      BY <1>1, <3>1, <3>3, ZenonT(30) DEF IInv, GrantedAwake
    <3> QED
      BY <3>2, <3>3, ZenonT(30)
  <2> QED
    BY <2>2, <2>3, ZenonT(30) DEF GrantedAwake
<1> QED
  BY <1>2, <1>3, <1>5, <1>6, ZenonT(30) DEF IInv, Good

(* ldsem_wake() *)
LEMMA WakeGood ==
  ASSUME IInv, NEW t \in Tasks, Wake(t)
  PROVE  Good
<1>0. /\ pc[t] = "wake" /\ pc' = [pc EXCEPT ![t] = "idle"]
      /\ LdsemWake(count, Len(read_wait), read_wait, state)
      /\ UNCHANGED <<write_wait, timeout, old>>
  BY ZenonT(30) DEF Wake, Goto, IInv, Queues
<1>1. CountOf(count, Act, Waits) /\ QueueOf(read_wait, QueuedR) /\ QueueOf(write_wait, QueuedW)
  BY ZenonT(30) DEF IInv, Counted, Queues
<1>2. /\ QueuedR \subseteq Waits /\ QueuedR \cap Act = {}
      /\ Waits \subseteq QueuedR \cup QueuedW \cup Act
  BY Apart, ZenonT(30) DEF ApartFacts
<1>3. state \in [Tasks -> {"RUNNING", "UNINTERRUPTIBLE"}]
  BY ZenonT(30) DEF IInv, Types
<1>4. PICK G : /\ GrantsTo(G, Act, Waits, QueuedR, state)
               /\ write_wait # <<>> => state'[Head(write_wait)] = "RUNNING"
               /\ write_wait = <<>> => QueuedR = {} \/ Act \cup G # {}
  BY <1>0, <1>1, <1>2, <1>3, LdsemWakeGrants, ZenonT(30)
<1>5. t \notin Act /\ Act \ {t} = Act /\ Waits \cup QueuedR = Waits
  BY <1>0, <1>2, ZenonT(30) DEF Act, ReadLocs
<1>6. G \subseteq QueuedR /\ task' = [u \in Tasks |-> u \in QueuedR \ G]
  BY <1>4, ZenonT(30) DEF GrantsTo
<1>7. /\ Act' = (Act \ {t}) \cup G /\ Waits' = (Waits \cup QueuedR) \ G
      /\ QueuedR' = QueuedR \ G /\ QueuedW' = QueuedW
      /\ Readers' = Readers \cup G /\ Writers' = Writers /\ Places'
  <2>1. WakesAmong(t, QueuedR)
    BY <1>0, ZenonT(30) DEF WakesAmong
  <2> QED
    BY <1>6, <2>1, AfterGrant, ZenonT(30)
<1>8. Served'
  <2>1. CASE write_wait # <<>>
    <3>1. PICK h \in QueuedW : h = Head(write_wait)
      BY <1>1, <2>1, QueueFacts, ZenonT(30)
    <3>2. h \in Tasks /\ pc[h] = "wsched" /\ h # t /\ state'[h] = "RUNNING"
      BY <1>0, <1>4, <2>1, <3>1, ZenonT(30) DEF QueuedW
    <3>3. Awake(h)'
      BY <1>0, <3>2, ZenonT(30) DEF IInv, Types, Awake
    <3> QED
      BY <3>2, <3>3, ServedIf, ZenonT(30)
  <2>2. CASE write_wait = <<>> /\ QueuedR = {}
    <3>1. QueuedW = {}
      BY <1>1, <2>2, QueueFacts, ZenonT(30)
    <3>2. (QueuedR \cup QueuedW)' = {}
      BY <1>7, <2>2, <3>1, ZenonT(30)
    <3> QED
      BY <3>2, ServedIf, ZenonT(30)
  <2>3. CASE Act \cup G # {}
    BY <1>5, <1>7, <2>3, ServedIf, ZenonT(30)
  <2> QED
    BY <1>4, <2>1, <2>2, <2>3, ZenonT(30)
<1>9. GrantsTo(G, Act \ {t}, Waits \cup QueuedR, QueuedR, state)
  BY <1>4, <1>5, ZenonT(30)
<1> QED
  BY <1>0, <1>7, <1>8, <1>9, GrantGood, ZenonT(30)

(* down_read_failed() up to the unlock *)
LEMMA ReadQueueGood ==
  ASSUME IInv, NEW t \in Tasks, ReadQueue(t)
  PROVE  Good
<1>0. /\ pc[t] = "rfail" /\ old' = [old EXCEPT ![t] = 0] /\ UNCHANGED write_wait
      /\ ~task[t] /\ count \in Int
  BY ZenonT(30) DEF ReadQueue, IInv, Places, Types, ReadLocs
<1>1. t \in Act /\ t \notin Waits \cup QueuedR \cup QueuedW \cup Readers \cup Writers
  BY <1>0, ZenonT(30) DEF Act, Waits, QueuedR, QueuedW, Readers, Writers, ReadLocs
<1>2. CASE /\ count > 0 /\ pc' = [pc EXCEPT ![t] = "reading"]
           /\ timeout' = [timeout EXCEPT ![t] = "max"]
           /\ UNCHANGED <<count, wait_readers, read_wait, task, state>>
  <2>1. /\ Act' = Act /\ Waits' = Waits /\ QueuedR' = QueuedR /\ QueuedW' = QueuedW
        /\ Readers' = Readers \cup {t} /\ Writers' = Writers
    BY <1>0, <1>2
    DEF IInv, Types, Act, Waits, QueuedR, QueuedW, Readers, Writers, ReadLocs
  <2>2. Types'
    BY <1>0, <1>2 DEF IInv, Types, Locs
  <2>3. Queues' /\ Counted'
    BY <1>0, <1>2, <2>1, ZenonT(30) DEF IInv, Queues, Counted
  <2>4. Writers = {}
    <3>1. Waits = {}
      BY <1>2, CountMeans, ZenonT(30) DEF IInv, Counted
    <3> QED
      BY <3>1, Apart, ZenonT(30) DEF ApartFacts
  <2>5. Lock!AcquireRead({t})
    BY <2>1, <2>4, ZenonT(30) DEF Lock!AcquireRead
  <2>6. Excludes' /\ LockStep
    BY <2>1, <2>4, <2>5, ZenonT(30) DEF Excludes, LockStep, Lock!Next
  <2>7. Places' /\ SawOther' /\ GrantedAwake'
    BY <1>0, <1>2, ZenonT(30) DEF IInv, Types, Places, SawOther, GrantedAwake, Active, ReadLocs
  <2>8. Served'
    BY <1>1, <2>1, ServedIf, ZenonT(30)
  <2> QED
    BY <2>2, <2>3, <2>6, <2>7, <2>8, ZenonT(30) DEF IInv, Good
<1> DEFINE c == count - 1 + WAIT_BIAS
           readers == Append(read_wait, t)
           S == QueuedR \cup {t}
           A == Act \ {t}
           W == Waits \cup S
<1>3. CASE /\ IF Active(c) = 0 THEN LdsemWake(c, wait_readers + 1, readers, state)
              ELSE NoWake(c, wait_readers + 1, readers)
           /\ pc' = [pc EXCEPT ![t] = "rloop"] /\ UNCHANGED timeout
  <2>1. QueueOf(readers, S) /\ QueueOf(write_wait, QueuedW)
    BY <1>1, QueueAdd, ZenonT(30) DEF IInv, Queues
  <2>2. /\ Len(readers) = wait_readers + 1 /\ Range(readers) = S
        /\ Len(readers) \in Nat
    <3>1. read_wait \in Seq(Tasks) /\ wait_readers = Len(read_wait)
      BY ZenonT(30) DEF IInv, Queues, QueueOf
    <3>2. Len(readers) = wait_readers + 1
      BY <3>1
    <3> QED
      BY <2>1, <3>2, QueueFacts, ZenonT(30)
  <2>3. CountOf(c, A, W)
    <3>1. CountOf(count - 1, A, Waits)
      BY <1>1, Recount, ZenonT(30) DEF IInv, Counted
    <3>2. CountOf(c, A, Waits \cup {t})
      BY <1>1, <3>1, Recount, ZenonT(30)
    <3>3. W = Waits \cup {t}
      BY Apart, ZenonT(30) DEF ApartFacts
    <3> QED
      BY <3>2, <3>3, ZenonT(30)
  <2>4. S \subseteq W /\ S \cap A = {} /\ W \subseteq S \cup QueuedW \cup A
    BY Apart, ZenonT(30) DEF ApartFacts
  <2>5. state \in [Tasks -> {"RUNNING", "UNINTERRUPTIBLE"}]
    BY ZenonT(30) DEF IInv, Types
  <2>6. ASSUME NEW G, GrantsTo(G, A, W, S, state),
               \/ A \cup G # {}
               \/ write_wait # <<>> /\ state'[Head(write_wait)] = "RUNNING"
        PROVE  Good
    <3>1. G \subseteq S /\ task' = [u \in Tasks |-> u \in S \ G]
      BY <2>6, ZenonT(30) DEF GrantsTo
    <3>2. /\ Act' = A \cup G /\ Waits' = W \ G
          /\ QueuedR' = S \ G /\ QueuedW' = QueuedW
          /\ Readers' = Readers \cup G /\ Writers' = Writers /\ Places'
      <4>1. WakesAmong(t, S)
        BY <1>0, <1>3, ZenonT(30) DEF WakesAmong
      <4> HIDE DEF S
      <4> QED
        BY <3>1, <4>1, AfterGrant, ZenonT(30)
    <3>3. Served'
      <4>1. CASE A \cup G # {}
        BY <3>2, <4>1, ServedIf, ZenonT(30)
      <4>2. CASE write_wait # <<>> /\ state'[Head(write_wait)] = "RUNNING"
        <5>1. PICK h \in QueuedW : h = Head(write_wait)
          BY <2>1, <4>2, QueueFacts, ZenonT(30)
        <5>2. h \in Tasks /\ pc[h] = "wsched" /\ h # t /\ state'[h] = "RUNNING"
          BY <1>0, <4>2, <5>1, ZenonT(30) DEF QueuedW
        <5>3. Awake(h)'
          BY <1>0, <1>3, <5>2, ZenonT(30) DEF IInv, Types, Awake
        <5> QED
          BY <5>2, <5>3, ServedIf, ZenonT(30)
      <4> QED
        BY <2>6, <4>1, <4>2, ZenonT(30)
    <3> QED
      BY <1>0, <1>3, <2>6, <3>2, <3>3, GrantGood, ZenonT(30)
  <2>7. CASE Active(c) = 0
    <3>1. LdsemWake(c, Len(readers), readers, state)
      BY <1>3, <2>2, <2>7, ZenonT(30)
    <3>2. PICK G : /\ GrantsTo(G, A, W, S, state)
                   /\ write_wait # <<>> => state'[Head(write_wait)] = "RUNNING"
                   /\ write_wait = <<>> => S = {} \/ A \cup G # {}
      <4> HIDE DEF c, readers, S, A, W
      <4> QED
        BY <2>1, <2>3, <2>4, <2>5, <3>1, LdsemWakeGrants, ZenonT(30)
    <3> QED
      BY <2>6, <3>2, ZenonT(30)
  <2>8. CASE Active(c) # 0
    <3>1. NoWake(c, Len(readers), readers)
      BY <1>3, <2>2, <2>8, ZenonT(30)
    <3>2. A # {}
      <4> HIDE DEF c, A, W
      <4> QED
        BY <2>3, <2>8, CountMeans, ZenonT(30)
    <3>3. A \cup {} = A /\ W \ {} = W /\ S \ {} = S
      BY ZenonT(30)
    <3>4. GrantsTo({}, A, W, S, state)
      <4> HIDE DEF c, readers, S, A, W
      <4> QED
        BY <2>1, <2>2, <2>3, <2>5, <3>1, <3>3, ZenonT(30) DEF GrantsTo, NoWake
    <3> QED
      BY <2>6, <3>2, <3>4, ZenonT(30)
  <2> QED
    BY <2>7, <2>8, ZenonT(30)
<1> QED
  BY <1>2, <1>3, ZenonT(30) DEF ReadQueue, Done, Goto

-----------------------------------------------------------------------------
(* The invariant holds at the start, with the lock free. *)
LEMMA InitIInv == Init => IInv
<1> SUFFICES ASSUME Init PROVE IInv
  BY ZenonT(30)
<1>1. Types
  BY DEF Init, Types, Locs
<1>2. /\ Act = {} /\ Waits = {} /\ QueuedR = {} /\ QueuedW = {}
      /\ Readers = {} /\ Writers = {}
  BY ZenonT(30) DEF Init, Act, Waits, QueuedR, QueuedW, Readers, Writers, ReadLocs
<1>3. Queues
  <2>1. QueueOf(<<>>, {}) /\ Len(<<>>) = 0
    BY DEF QueueOf, IsInjective, Contains
  <2> QED
    BY <1>2, <2>1 DEF Init, Queues
<1>4. Counted
  <2>1. Cardinality({}) = 0 /\ B * 0 = 0
    BY LdsemAssumption, FS_EmptySet
  <2> QED
    BY <1>2, <2>1 DEF Init, Counted, CountOf
<1>5. Places /\ SawOther /\ GrantedAwake
  BY ZenonT(30) DEF Init, Places, SawOther, GrantedAwake
<1> QED
  BY <1>1, <1>2, <1>3, <1>4, <1>5, ZenonT(30) DEF IInv, Excludes, Served

(* Every step keeps it, and is a step of the reader/writer lock or none. *)
LEMMA StepGood ==
  ASSUME IInv, [Next]_vars
  PROVE  Good
<1>1. CASE UNCHANGED vars
  <2>1. UNCHANGED <<count, wait_readers, read_wait, write_wait, task, pc, state, timeout, old>>
    BY <1>1, ZenonT(30) DEF vars
  <2>2. Types' /\ Places' /\ SawOther' /\ GrantedAwake'
    BY <2>1, ZenonT(30) DEF IInv, Types, Places, SawOther, GrantedAwake, Active
  <2>3. UNCHANGED sets
    BY <2>1, ZenonT(30) DEF sets, Act, Waits, QueuedR, QueuedW, Readers, Writers
  <2>4. \A u \in Tasks : Awake(u) => Awake(u)'
    BY <2>1, ZenonT(30) DEF Awake
  <2> QED
    BY <2>1, <2>2, <2>3, <2>4, Silent, ZenonT(30)
<1>2. ASSUME NEW t \in Tasks,
             DownRead(t) \/ ReadQueue(t) \/ ReadLoop(t) \/ ReadCheck(t)
               \/ ReadScheduled(t) \/ UpRead(t)
      PROVE  Good
  BY <1>2, DownReadGood, ReadQueueGood, ReadLoopGood, ReadCheckGood, ReadScheduledGood,
     UpReadGood, ZenonT(30)
<1>3. ASSUME NEW t \in Tasks,
             DownWrite(t) \/ WriteQueue(t) \/ WriteScheduled(t) \/ UpWrite(t)
      PROVE  Good
  BY <1>3, DownWriteGood, WriteQueueGood, WriteScheduledGood, UpWriteGood, ZenonT(30)
<1>4. ASSUME NEW t \in Tasks, Wake(t) \/ TimerExpires(t) \/ StrayWakeup(t)
      PROVE  Good
  BY <1>4, WakeGood, WokenGood, ZenonT(30)
<1> QED
  BY <1>1, <1>2, <1>3, <1>4, ZenonT(30) DEF Next

(* Sizes of sets of tasks add up. *)
LEMMA DisjointUnion ==
  ASSUME NEW S, S \subseteq Tasks, NEW T, T \subseteq Tasks, S \cap T = {}
  PROVE  Cardinality(S \cup T) = Cardinality(S) + Cardinality(T)
<1>1. Cardinality(S \cap T) = 0
  BY FS_EmptySet, ZenonT(30)
<1>2. Cardinality(S) \in Nat /\ Cardinality(T) \in Nat /\ IsFiniteSet(S) /\ IsFiniteSet(T)
  BY Sizes, ZenonT(30)
<1>3. Cardinality(S \cup T) = Cardinality(S) + Cardinality(T) - Cardinality(S \cap T)
  BY <1>2, FS_Union, ZenonT(30)
<1> QED
  BY <1>1, <1>2, <1>3

(* The same for the four parts of sem->count. *)
LEMMA FourSizes ==
  ASSUME NEW S, S \subseteq Tasks, NEW T, T \subseteq Tasks, NEW U, U \subseteq Tasks,
         NEW V, V \subseteq Tasks,
         S \cap T = {}, (S \cup T) \cap U = {}, (S \cup T \cup U) \cap V = {}
  PROVE  Cardinality(S \cup T \cup U \cup V)
           = Cardinality(S) + Cardinality(T) + Cardinality(U) + Cardinality(V)
<1>1. Cardinality(S \cup T) = Cardinality(S) + Cardinality(T)
  BY DisjointUnion, ZenonT(30)
<1>2. Cardinality(S \cup T \cup U) = Cardinality(S \cup T) + Cardinality(U)
  <2>1. S \cup T \subseteq Tasks
    BY ZenonT(30)
  <2> QED
    BY <2>1, DisjointUnion, ZenonT(30)
<1>3. Cardinality(S \cup T \cup U \cup V) = Cardinality(S \cup T \cup U) + Cardinality(V)
  <2>1. S \cup T \cup U \subseteq Tasks
    BY ZenonT(30)
  <2> QED
    BY <2>1, DisjointUnion, ZenonT(30)
<1> QED
  BY <1>1, <1>2, <1>3, ZenonT(30)

(* tty_ldsem.c keeps sem->count exact, whatever timers expire: its active  *)
(* half counts the holders and the tasks between a fast path and a slow    *)
(* path, its upper half holds one wait bias for every active writer and    *)
(* every task on a list, and wait_readers is the length of the readers'    *)
(* list.  So the count stays within its two halves.                        *)
THEOREM LdsemCountExact == Spec => []CountExact
<1>1. IInv => CountExact
  <2> SUFFICES ASSUME IInv PROVE CountExact
    BY ZenonT(30)
  <2> DEFINE rf == Trying("rfail")
             wf == Trying("wfail")
             a == Cardinality(Act)
             k == Cardinality(Waits)
  <2>1. /\ Readers \subseteq Tasks /\ Writers \subseteq Tasks /\ rf \subseteq Tasks
        /\ wf \subseteq Tasks /\ QueuedR \subseteq Tasks /\ QueuedW \subseteq Tasks
    BY ZenonT(30) DEF Readers, Writers, Trying, QueuedR, QueuedW
  <2>2. Act = Readers \cup Writers \cup rf \cup wf
    BY ZenonT(30) DEF Act, Readers, Writers, Trying, ReadLocs
  <2>3. Waits = Writers \cup wf \cup QueuedR \cup QueuedW
    BY ZenonT(30) DEF Waits, Writers, Trying, QueuedR, QueuedW
  <2>4. /\ Readers \cap Writers = {} /\ (Readers \cup Writers) \cap rf = {}
        /\ (Readers \cup Writers \cup rf) \cap wf = {}
        /\ Writers \cap wf = {} /\ (Writers \cup wf) \cap QueuedR = {}
        /\ (Writers \cup wf \cup QueuedR) \cap QueuedW = {}
    BY ZenonT(30) DEF Readers, Writers, Trying, QueuedR, QueuedW, ReadLocs
  <2> HIDE DEF rf, wf
  <2>5. a = Cardinality(Readers) + Cardinality(Writers) + Cardinality(rf) + Cardinality(wf)
    BY <2>1, <2>2, <2>4, FourSizes
  <2>6. k = Cardinality(Writers) + Cardinality(wf)
            + Cardinality(QueuedR) + Cardinality(QueuedW)
    BY <2>1, <2>3, <2>4, FourSizes
  <2>7. QueueOf(read_wait, QueuedR) /\ QueueOf(write_wait, QueuedW)
    BY ZenonT(30) DEF IInv, Queues
  <2>8. k = Cardinality(Writers) + Cardinality(wf) + Len(read_wait) + Len(write_wait)
    BY <2>6, <2>7, QueueFacts, ZenonT(30)
  <2>9. /\ Active(count) = a /\ count \in Int /\ count = a - B * k
        /\ WAIT_BIAS * Cardinality(Tasks) <= count /\ count <= Cardinality(Tasks)
    <3>1. CountOf(count, Act, Waits)
      BY ZenonT(30) DEF IInv, Counted
    <3> QED
      BY <3>1, CountMeans, ZenonT(30) DEF CountOf
  <2>10. a \in Nat /\ k \in Nat /\ B \in Nat /\ Cardinality(Tasks) \in Nat
    BY Sizes, Apart, LdsemAssumption, ZenonT(30) DEF ApartFacts
  <2> HIDE DEF a, k
  <2>11. count - Active(count) = WAIT_BIAS * k
    BY <2>9, <2>10 DEF WAIT_BIAS
  <2>12. count \in WAIT_BIAS * Cardinality(Tasks) .. Cardinality(Tasks)
    BY <2>9, <2>10, LdsemAssumption DEF WAIT_BIAS
  <2>13. TypeOK
    BY <2>7, <2>12, ZenonT(30) DEF IInv, Types, TypeOK, QueueOf
  <2>14. ActiveExact
    BY <2>5, <2>9, ZenonT(30) DEF ActiveExact, rf, wf
  <2> QED
    BY <2>8, <2>11, <2>13, <2>14, ZenonT(30) DEF CountExact, IInv, Queues, wf
<1>2. IInv /\ [Next]_vars => IInv'
  BY StepGood, ZenonT(30) DEF Good
<1> QED
  BY <1>1, <1>2, InitIInv, PTL DEF Spec

(* No waiter of a line discipline semaphore is forgotten: while tasks wait *)
(* and nobody holds the lock, a task is between its fast path and the      *)
(* lists, about to call ldsem_wake(), or a queued writer is awake; and     *)
(* whoever was granted the lock by __ldsem_wake_readers() is awake.        *)
THEOREM LdsemLosesNoWakeup == Spec => []NoLostWakeup
<1>1. IInv => NoLostWakeup
  <2> SUFFICES ASSUME IInv PROVE NoLostWakeup
    BY ZenonT(30)
  <2>1. /\ read_wait = <<>> <=> QueuedR = {}
        /\ write_wait = <<>> <=> QueuedW = {}
    BY QueueFacts, ZenonT(30) DEF IInv, Queues
  <2> QED
    BY <2>1, ZenonT(30) DEF NoLostWakeup, IInv, Served, GrantedAwake, Awake
<1>2. IInv /\ [Next]_vars => IInv'
  BY StepGood, ZenonT(30) DEF Good
<1> QED
  BY <1>1, <1>2, InitIInv, PTL DEF Spec

(* ldsem_down_read(), ldsem_down_write() and their releases implement the  *)
(* reader/writer lock of RWLock, whichever of the five places that take    *)
(* the lock (two fast paths, two slow paths, a grant) they go through.     *)
THEOREM LdsemIsRWLock == Spec => ImplementsRWLock
<1>1. Init => Lock!Init
  BY ZenonT(30) DEF Init, Lock!Init, Readers, Writers
<1>2. IInv /\ [Next]_vars => [Lock!Next]_<<Readers, Writers>>
  BY StepGood, ZenonT(30) DEF Good, LockStep
<1>3. IInv /\ [Next]_vars => IInv'
  BY StepGood, ZenonT(30) DEF Good
<1> QED
  BY <1>1, <1>2, <1>3, InitIInv, PTL DEF Spec, ImplementsRWLock, Lock!Spec
=============================================================================
