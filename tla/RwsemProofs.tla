----------------------------- MODULE RwsemProofs -----------------------------
(***************************************************************************)
(* Proofs about Rwsem, for every finite set of tasks and every bias that   *)
(* is larger than their number.                                            *)
(***************************************************************************)
EXTENDS Rwsem, TLAPS, FiniteSetTheorems

(* list_del() of the entry at one place of a list: the entries that are    *)
(* behind it move up by one.                                               *)
LEMMA ListDelAtProperties ==
  ASSUME NEW S, NEW s \in Seq(S), NEW i \in 1 .. Len(s)
  PROVE  /\ ListDelAt(s, i) \in Seq(S)
         /\ Len(ListDelAt(s, i)) = Len(s) - 1
         /\ \A j \in 1 .. Len(s) - 1 :
              ListDelAt(s, i)[j] = IF j < i THEN s[j] ELSE s[j + 1]
<1>1. Len(s) \in Nat /\ Len(s) - 1 \in Nat
  OBVIOUS
<1>2. \A j \in 1 .. Len(s) - 1 : s[IF j < i THEN j ELSE j + 1] \in S
  BY <1>1
<1>3. ListDelAt(s, i) \in [1 .. Len(s) - 1 -> S]
  BY <1>2 DEF ListDelAt
<1>4. ListDelAt(s, i) \in Seq(S) /\ Len(ListDelAt(s, i)) = Len(s) - 1
  BY <1>1, <1>3
<1> QED
  BY <1>1, <1>4 DEF ListDelAt

(* Every non-empty set of natural numbers has a least element. *)
LEMMA MinExists ==
  ASSUME NEW I, I \subseteq Nat, I # {}
  PROVE  /\ Min(I) \in I
         /\ \A j \in I : Min(I) <= j
<1> DEFINE R == OpToRel(<, Nat)
<1>1. IsWellFoundedOn(R, Nat)
  BY NatLessThanWellFounded, ZenonT(30)
<1>2. \A j, k \in Nat : j < k => <<j, k>> \in R
  BY DEF OpToRel
<1> HIDE DEF R
<1>3. PICK k \in I : \A j \in I : ~ (<<j, k>> \in R)
  BY <1>1, WFMin, ZenonT(30)
<1>4. ASSUME NEW j \in I PROVE k <= j
  <2>1. j \in Nat /\ k \in Nat
    OBVIOUS
  <2>2. ~ (j < k)
    BY <1>2, <1>3, <2>1, ZenonT(30)
  <2> QED
    BY <2>1, <2>2
<1> QED
  BY <1>4, ZenonT(30) DEF Min

(* The arithmetic of the count.  With a readers and x writers active, no   *)
(* more than there are tasks, the sum without the waiting bias is negative *)
(* as soon as there is a writer, so the sign tells readers from writers.   *)
LEMMA SignTellsWriters ==
  ASSUME NEW a \in Nat, NEW x \in Nat, a + x < B
  PROVE  /\ a + WRITE_BIAS * x >= 0 => x = 0
         /\ a + WRITE_BIAS * x = 0 => a = 0 /\ x = 0
<1>1. B \in Nat /\ B > 0 /\ WRITE_BIAS = 1 - B
  BY RwsemAssumption DEF WRITE_BIAS, WAITING_BIAS
<1>2. ASSUME x >= 1 PROVE WRITE_BIAS * x <= WRITE_BIAS
  <2>1. WRITE_BIAS * x = WRITE_BIAS + WRITE_BIAS * (x - 1)
    BY <1>1
  <2>2. WRITE_BIAS * (x - 1) <= 0
    BY <1>1, <1>2
  <2> QED
    BY <1>1, <2>1, <2>2
<1>3. WRITE_BIAS * x \in Int
  BY <1>1
<1>4. x = 0 => WRITE_BIAS * x = 0
  BY <1>1
<1> QED
  BY <1>1, <1>2, <1>3, <1>4

(* ... and its low half is the number of active tasks. *)
LEMMA LowHalf ==
  ASSUME NEW r \in Nat, r < B, NEW k \in Int
  PROVE  Active(r - B * k) = r
<1>1. B \in Nat /\ B > 0 /\ B * k \in Int
  BY RwsemAssumption
<1> DEFINE z == r - B * k
           m == z % B
           q == z \div B
<1>2. z \in Int /\ q \in Int /\ m \in 0 .. B - 1 /\ z = B * q + m
  BY <1>1
<1>3. B * (q + k) = r - m
  <2>1. B * (q + k) = B * q + B * k
    BY <1>1, <1>2
  <2> QED
    BY <1>1, <1>2, <2>1
<1> HIDE DEF z, m, q
<1>4. q + k \in Int /\ r - m < B /\ r - m > -B
  BY <1>1, <1>2
<1>5. ~ (q + k >= 1)
  <2> SUFFICES ASSUME q + k >= 1 PROVE FALSE
    BY ZenonT(30)
  <2>1. B * (q + k) >= B
    BY <1>1, <1>4
  <2> QED
    BY <1>1, <1>3, <1>4, <2>1
<1>6. ~ (q + k <= -1)
  <2> SUFFICES ASSUME q + k <= -1 PROVE FALSE
    BY ZenonT(30)
  <2>1. B * (q + k) <= -B
    BY <1>1, <1>4
  <2> QED
    BY <1>1, <1>3, <1>4, <2>1
<1>7. q + k = 0
  BY <1>4, <1>5, <1>6
<1>8. r - m = 0
  BY <1>1, <1>3, <1>7
<1> QED
  BY <1>2, <1>8 DEF Active, z, m

Entries == [task : Tasks, type : {"R", "W"}]

(* The list l has one entry for each reader of R and each writer of W, and *)
(* no other.                                                               *)
ListOf(l, R, W) ==
  /\ l \in Seq(Entries) /\ R \subseteq Tasks /\ W \subseteq Tasks /\ R \cap W = {}
  /\ \A i, j \in 1 .. Len(l) : l[i].task = l[j].task => i = j
  /\ \A i \in 1 .. Len(l) : l[i].task \in (IF l[i].type = "R" THEN R ELSE W)
  /\ \A u \in R : \E i \in 1 .. Len(l) : l[i].task = u
  /\ \A u \in W : \E i \in 1 .. Len(l) : l[i].task = u

(* The entries of a wait list are readers and writers. *)
LEMMA EntryTypes ==
  ASSUME NEW l, NEW R, NEW W, ListOf(l, R, W)
  PROVE  \A i \in 1 .. Len(l) :
           /\ l[i] \in Entries
           /\ l[i].task \in Tasks
           /\ l[i].type \in {"R", "W"}
<1>1. l \in Seq(Entries)
  BY ZenonT(30) DEF ListOf
<1>2. \A i \in 1 .. Len(l) : l[i] \in Entries
  BY <1>1
<1> QED
  BY <1>2, ZenonT(30) DEF Entries

(* list_add_tail() *)
LEMMA Joined ==
  ASSUME NEW l, NEW R, NEW W, ListOf(l, R, W),
         NEW t \in Tasks, t \notin R, t \notin W, NEW y \in {"R", "W"}
  PROVE  ListOf(Append(l, Waiter(t, y)),
                IF y = "R" THEN R \cup {t} ELSE R, IF y = "W" THEN W \cup {t} ELSE W)
<1> DEFINE a == Append(l, Waiter(t, y))
           n == Len(l)
<1>0. l \in Seq(Entries) /\ n \in Nat
  BY DEF ListOf
<1>1. Waiter(t, y) \in Entries /\ Waiter(t, y).task = t /\ Waiter(t, y).type = y
  BY ZenonT(30) DEF Entries, Waiter
<1>2. /\ a \in Seq(Entries)
      /\ Len(a) = n + 1
      /\ \A i \in 1 .. n : a[i] = l[i]
      /\ a[n + 1] = Waiter(t, y)
  BY <1>0, <1>1
<1>3. \A i \in 1 .. n : l[i].task # t
  BY DEF ListOf
<1> HIDE DEF a, n
<1>4. 1 .. n + 1 = 1 .. n \cup {n + 1} /\ n + 1 \notin 1 .. n
  BY <1>0
<1>5. \A i, j \in 1 .. n + 1 : a[i].task = a[j].task => i = j
  BY <1>1, <1>2, <1>3, <1>4 DEF ListOf, n
<1>6. \A i \in 1 .. n + 1 :
        a[i].task \in (IF a[i].type = "R" THEN IF y = "R" THEN R \cup {t} ELSE R
                                          ELSE IF y = "W" THEN W \cup {t} ELSE W)
  BY <1>1, <1>2, <1>4, ZenonT(30) DEF ListOf, n
<1>7. /\ \A u \in R : \E i \in 1 .. n + 1 : a[i].task = u
      /\ \A u \in W : \E i \in 1 .. n + 1 : a[i].task = u
      /\ \E i \in 1 .. n + 1 : a[i].task = t
  <2>1. ASSUME NEW u \in R \cup W PROVE \E i \in 1 .. n + 1 : a[i].task = u
    <3>1. PICK i \in 1 .. n : l[i].task = u
      BY ZenonT(30) DEF ListOf, n
    <3> QED
      BY <3>1, <1>2, <1>4, ZenonT(30)
  <2>2. n + 1 \in 1 .. n + 1 /\ a[n + 1].task = t
    BY <1>1, <1>2, <1>4, ZenonT(30)
  <2> QED
    BY <2>1, <2>2, ZenonT(30)
<1> QED
  BY <1>2, <1>5, <1>6, <1>7 DEF ListOf, a, n

(* list_del() *)
LEMMA Left ==
  ASSUME NEW R, NEW W, ListOf(wait_list, R, W), NEW t \in R \cup W
  PROVE  /\ ListOf(Leave(t), R \ {t}, W \ {t})
         /\ Len(wait_list) = Len(Leave(t)) + 1
<1> DEFINE l == wait_list
           n == Len(l)
           I == {i \in 1 .. n : l[i].task = t}
           k == Min(I)
           r == ListDelAt(l, k)
<1>0. l \in Seq(Entries) /\ n \in Nat
  BY DEF ListOf
<1>1. I # {} /\ I \subseteq Nat
  BY <1>0 DEF ListOf
<1>2. Leave(t) = r
  BY <1>1, ZenonT(30) DEF Leave, FirstPos
<1>3. k \in 1 .. n /\ l[k].task = t
  BY <1>1, MinExists, ZenonT(30)
<1> HIDE DEF k
<1>4. /\ r \in Seq(Entries)
      /\ Len(r) = n - 1
      /\ \A j \in 1 .. n - 1 : r[j] = IF j < k THEN l[j] ELSE l[j + 1]
  BY <1>0, <1>3, ListDelAtProperties, ZenonT(30)
<1> HIDE DEF r, I
<1> DEFINE from(j) == IF j < k THEN j ELSE j + 1
<1>5. \A j \in 1 .. n - 1 : from(j) \in 1 .. n /\ from(j) # k /\ r[j] = l[from(j)]
  BY <1>0, <1>3, <1>4
<1>6. \A i, j \in 1 .. n - 1 : from(i) = from(j) => i = j
  BY <1>0, <1>3
<1>7. \A i \in 1 .. n : i # k => \E j \in 1 .. n - 1 : from(j) = i
  <2> SUFFICES ASSUME NEW i \in 1 .. n, i # k
               PROVE  \E j \in 1 .. n - 1 : from(j) = i
    BY ZenonT(30)
  <2>1. CASE i < k
    <3>1. i \in 1 .. n - 1 /\ from(i) = i
      BY <2>1, <1>0, <1>3
    <3> QED
      BY <3>1, ZenonT(30)
  <2>2. CASE i > k
    <3>1. i - 1 \in 1 .. n - 1 /\ from(i - 1) = i
      BY <2>2, <1>0, <1>3
    <3> QED
      BY <3>1, ZenonT(30)
  <2> QED
    BY <2>1, <2>2, <1>0, <1>3
<1> HIDE DEF from
<1>8. \A i, j \in 1 .. n : l[i].task = l[j].task => i = j
  BY ZenonT(30) DEF ListOf
<1>9. \A i, j \in 1 .. n - 1 : r[i].task = r[j].task => i = j
  BY <1>5, <1>6, <1>8, SMTT(30)
<1>10. \A j \in 1 .. n - 1 :
         r[j].task \in (IF r[j].type = "R" THEN R \ {t} ELSE W \ {t})
  <2> SUFFICES ASSUME NEW j \in 1 .. n - 1
               PROVE  r[j].task \in (IF r[j].type = "R" THEN R \ {t} ELSE W \ {t})
    BY ZenonT(30)
  <2>1. from(j) \in 1 .. n /\ from(j) # k /\ r[j] = l[from(j)]
    BY <1>5, ZenonT(30)
  <2>2. l[from(j)].task # t
    BY <2>1, <1>3, <1>8, ZenonT(30)
  <2>3. l[from(j)].task \in (IF l[from(j)].type = "R" THEN R ELSE W)
    BY <2>1, ZenonT(30) DEF ListOf
  <2> QED
    BY <2>1, <2>2, <2>3
<1>11. ASSUME NEW u \in R \cup W, u # t
       PROVE  \E j \in 1 .. n - 1 : r[j].task = u
  <2>1. PICK i \in 1 .. n : l[i].task = u
    BY ZenonT(30) DEF ListOf
  <2>2. PICK j \in 1 .. n - 1 : from(j) = i
    BY <1>3, <1>7, <1>11, <2>1, ZenonT(30)
  <2> QED
    BY <1>5, <2>1, <2>2, ZenonT(30)
<1> QED
  BY <1>0, <1>2, <1>4, <1>9, <1>10, <1>11 DEF ListOf

IsMark(r, c, l, y) == r = MarkWake(c, l, y)

(* __rwsem_mark_wake(): the readers that it grants the lock leave the      *)
(* list, all of them are counted, and the waiting bias goes with the last  *)
(* waiter.                                                                 *)
MarkedOK(r, c, l, y, R, W) ==
  /\ r.granted \subseteq R /\ r.woken \subseteq Tasks
  /\ ListOf(r.list, R \ r.granted, W)
  /\ IsFiniteSet(r.granted)
  /\ r.count = c + Cardinality(r.granted)
                 + (IF r.granted # {} /\ r.list = <<>> THEN B ELSE 0)
  /\ r.granted = {} => r.list = l
  /\ r.granted # {} => ~Stolen(c, y)

(* __rwsem_mark_wake() grants the semaphore to the readers at the head or  *)
(* marks the writer there, and leaves count and list right.                *)
LEMMA Marked ==
  ASSUME NEW l, NEW R, NEW W, ListOf(l, R, W), l # <<>>, NEW c \in Int, NEW y,
         NEW r, IsMark(r, c, l, y)
  PROVE  MarkedOK(r, c, l, y, R, W)
<1> USE DEF IsMark, MarkedOK
<1> DEFINE I == {j \in 1 .. Len(l) : l[j].type = "W"}
           i == IF I # {} THEN Min(I) ELSE 0
           n == IF i = 0 THEN Len(l) ELSE i - 1
           readers == {l[j].task : j \in 1 .. n}
           rest == SubSeq(l, n + 1, Len(l))
<1>0. l \in Seq(Entries) /\ Len(l) \in Nat /\ Len(l) > 0 /\ B \in Nat
  BY RwsemAssumption DEF ListOf
<1>1. /\ i \in 0 .. Len(l)
      /\ i # 0 => i \in I
      /\ i = 0 => I = {}
      /\ \A j \in I : i <= j
  <2>1. I \subseteq Nat
    BY <1>0
  <2>2. CASE I = {}
    BY <1>0, <2>2
  <2>3. CASE I # {}
    <3>0. i = Min(I)
      BY <2>3, ZenonT(30)
    <3> HIDE DEF I
    <3>1. i = Min(I) /\ Min(I) \in I /\ \A j \in I : Min(I) <= j
      BY <2>1, <2>3, <3>0, MinExists, ZenonT(30)
    <3> HIDE DEF i
    <3>2. i \in I /\ \A j \in I : i <= j
      BY <3>1, ZenonT(30)
    <3>3. i \in 1 .. Len(l)
      BY <3>2, ZenonT(30) DEF I
    <3> QED
      BY <1>0, <2>3, <3>2, <3>3
  <2> QED
    BY <2>2, <2>3, ZenonT(30)
<1>2. n \in 0 .. Len(l) /\ \A j \in 1 .. n : j \in 1 .. Len(l) /\ l[j].type # "W"
  <2> HIDE DEF i
  <2> QED
    BY <1>0, <1>1
<1>3. r = IF n = 0 THEN
            [count |-> c, list |-> l, granted |-> {},
             woken |-> IF y = "ANY" THEN {Head(l).task} ELSE {}]
          ELSE IF Stolen(c, y) THEN
            [count |-> c, list |-> l, granted |-> {}, woken |-> {}]
          ELSE
            [count |-> c + n - (IF n = Len(l) THEN WAITING_BIAS ELSE 0),
             list |-> rest, granted |-> readers, woken |-> readers]
  BY ZenonT(30) DEF MarkWake, FirstPos
<1> HIDE DEF n
<1>4. Head(l).task \in Tasks
  <2>1. Head(l) = l[1] /\ 1 \in 1 .. Len(l)
    BY <1>0
  <2> QED
    BY <2>1, EntryTypes, ZenonT(30)
<1>5. CASE n = 0 \/ Stolen(c, y)
  <2>1. r.count = c /\ r.list = l /\ r.granted = {} /\ r.woken \subseteq Tasks
    BY <1>3, <1>4, <1>5
  <2>2. R \ {} = R
    BY ZenonT(30)
  <2> QED
    BY <2>1, <2>2, FS_EmptySet
<1>6. CASE n # 0 /\ ~Stolen(c, y)
  <2>1. /\ r.count = c + n - (IF n = Len(l) THEN WAITING_BIAS ELSE 0)
        /\ r.list = rest /\ r.granted = readers /\ r.woken = readers
    <3>1. r = [count |-> c + n - (IF n = Len(l) THEN WAITING_BIAS ELSE 0),
               list |-> rest, granted |-> readers, woken |-> readers]
      BY <1>3, <1>6, ZenonT(30)
    <3> HIDE DEF rest, readers
    <3> QED
      BY <3>1
  <2>2. readers \subseteq R /\ readers \subseteq Tasks
    <3>1. \A j \in 1 .. n : l[j].type = "R"
      BY <1>2, EntryTypes, ZenonT(30)
    <3> QED
      BY <1>2, <3>1 DEF ListOf
  <2>3. IsFiniteSet(readers) /\ Cardinality(readers) = n /\ readers # {}
    <3> DEFINE f == [j \in 1 .. n |-> l[j].task]
    <3>1. f \in Bijection(1 .. n, readers)
      <4>1. f \in [1 .. n -> readers]
        BY ZenonT(30)
      <4>2. \A j, k \in 1 .. n : f[j] = f[k] => j = k
        BY <1>2, ZenonT(30) DEF ListOf
      <4>3. \A u \in readers : \E j \in 1 .. n : f[j] = u
        BY ZenonT(30)
      <4> QED
        BY <4>1, <4>2, <4>3, ZenonT(30) DEF Bijection, Injection, Surjection, IsInjective
    <3>2. IsFiniteSet(1 .. n) /\ Cardinality(1 .. n) = n
      BY <1>0, <1>2, <1>6, FS_Interval
    <3>3. ExistsBijection(1 .. n, readers)
      BY <3>1, ZenonT(30) DEF ExistsBijection
    <3>4. IsFiniteSet(readers) /\ Cardinality(readers) = n
      BY <3>2, <3>3, FS_Bijection, ZenonT(30)
    <3>5. 1 \in 1 .. n
      BY <1>0, <1>2, <1>6
    <3> QED
      BY <3>4, <3>5, ZenonT(30)
  <2>4. /\ rest \in Seq(Entries)
        /\ Len(rest) = Len(l) - n
        /\ \A j \in 1 .. Len(l) - n : n + j \in 1 .. Len(l) /\ rest[j] = l[n + j]
    BY <1>0, <1>2
  <2> HIDE DEF rest
  <2>5. rest = <<>> <=> n = Len(l)
    BY <1>0, <1>2, <2>4
  <2>6. \A j, k \in 1 .. Len(l) : l[j].task = l[k].task => j = k
    BY ZenonT(30) DEF ListOf
  <2>7. \A j, k \in 1 .. Len(rest) : rest[j].task = rest[k].task => j = k
    <3> SUFFICES ASSUME NEW j \in 1 .. Len(rest), NEW k \in 1 .. Len(rest),
                        rest[j].task = rest[k].task
                 PROVE  j = k
      BY ZenonT(30)
    <3>1. n + j = n + k
      BY <2>4, <2>6
    <3> QED
      BY <3>1, <1>0, <1>2
  <2>8. \A j \in 1 .. Len(rest) : rest[j].task \notin readers
    <3> SUFFICES ASSUME NEW j \in 1 .. Len(rest), NEW k \in 1 .. n, rest[j].task = l[k].task
                 PROVE  FALSE
      BY ZenonT(30)
    <3>1. n + j = k
      BY <1>2, <2>4, <2>6
    <3> QED
      BY <3>1, <1>0, <1>2, <2>4
  <2>9. \A j \in 1 .. Len(rest) :
          rest[j].task \in (IF rest[j].type = "R" THEN R \ readers ELSE W)
    <3> SUFFICES ASSUME NEW j \in 1 .. Len(rest)
                 PROVE  rest[j].task \in (IF rest[j].type = "R" THEN R \ readers ELSE W)
      BY ZenonT(30)
    <3>1. n + j \in 1 .. Len(l) /\ rest[j] = l[n + j]
      BY <2>4, ZenonT(30)
    <3>2. l[n + j].task \in (IF l[n + j].type = "R" THEN R ELSE W)
      BY <3>1, ZenonT(30) DEF ListOf
    <3> HIDE DEF readers
    <3> QED
      BY <2>8, <3>1, <3>2, ZenonT(30)
  <2>10. ASSUME NEW u \in R \cup W, u \notin readers
         PROVE  \E j \in 1 .. Len(rest) : rest[j].task = u
    <3>1. PICK k \in 1 .. Len(l) : l[k].task = u
      BY ZenonT(30) DEF ListOf
    <3>2. ~ (k <= n)
      BY <1>0, <1>2, <2>10, <3>1
    <3>3. k - n \in 1 .. Len(l) - n /\ n + (k - n) = k
      BY <1>0, <1>2, <3>2
    <3> QED
      BY <2>4, <3>1, <3>3, ZenonT(30)
  <2>11. W \cap readers = {}
    BY <2>2, ZenonT(30) DEF ListOf
  <2>12. ListOf(rest, R \ readers, W)
    BY <2>4, <2>7, <2>9, <2>10, <2>11, ZenonT(30) DEF ListOf
  <2>13. r.count = c + n + (IF rest = <<>> THEN B ELSE 0)
    BY <1>0, <1>2, <2>1, <2>5 DEF WAITING_BIAS
  <2> QED
    BY <1>6, <2>1, <2>2, <2>3, <2>12, <2>13, ZenonT(30)
<1> QED
  BY <1>5, <1>6, ZenonT(30)

Types ==
  /\ count \in Int
  /\ task \in [Tasks -> BOOLEAN]
  /\ pc \in [Tasks -> Locs]
  /\ state \in [Tasks -> Modes \cup {"RUNNING"}]
  /\ mode \in [Tasks -> Modes]
  /\ cnt \in [Tasks -> Int]
  /\ wake_q \in [Tasks -> SUBSET Tasks]
  /\ kill \in [Tasks -> BOOLEAN]

(* The tasks between the fast path and the slow path, and the queued ones. *)
Rfail == {t \in Tasks : pc[t] = "rfail"}
Wfail == {t \in Tasks : pc[t] = "wfail"}
QueuedR == {t \in Tasks : pc[t] \in ReadLocs /\ task[t]}
QueuedW == {t \in Tasks : pc[t] \in WriteLocs}
sets == <<Readers, Rfail, Writers, Wfail, QueuedR, QueuedW>>

Bias(l) == IF l = <<>> THEN 0 ELSE WAITING_BIAS
Trying == Cardinality(Readers) + Cardinality(Rfail)
Writing == Cardinality(Writers) + Cardinality(Wfail)

(* The inductive invariant: the list holds the tasks whose place in the    *)
(* code says that they wait, the count is exact, and the lock excludes.    *)
Excludes == Writers = {} \/ (Readers = {} /\ \E t \in Tasks : Writers = {t})
IInv ==
  /\ Types
  /\ ListOf(wait_list, QueuedR, QueuedW)
  /\ count = Trying + WRITE_BIAS * Writing + Bias(wait_list)
  /\ Excludes

Numbers ==
  /\ B \in Nat /\ B > 0 /\ WAITING_BIAS = -B /\ WRITE_BIAS = 1 - B
  /\ \A x \in Int : /\ WRITE_BIAS * x \in Int
                    /\ WRITE_BIAS * (x + 1) = WRITE_BIAS * x + WRITE_BIAS
                    /\ WRITE_BIAS * (x - 1) = WRITE_BIAS * x - WRITE_BIAS

(* The arithmetic of the biases, for every number of tasks below the       *)
(* bias.                                                                   *)
LEMMA NumbersHold == Numbers
<1>1. B \in Nat /\ B > 0 /\ WAITING_BIAS = -B /\ WRITE_BIAS = 1 - B
  <2>1. B \in Nat /\ B > 0
    BY RwsemAssumption, FS_CardinalityType
  <2> QED
    BY <2>1 DEF WRITE_BIAS, WAITING_BIAS
<1>2. \A a, x \in Int : a * x \in Int /\ a * (x + 1) = a * x + a /\ a * (x - 1) = a * x - a
  OBVIOUS
<1> QED
  BY <1>1, <1>2 DEF Numbers

(* Sizes of disjoint sets add up. *)
LEMMA DisjointUnion ==
  ASSUME NEW S, IsFiniteSet(S), NEW T, IsFiniteSet(T), S \cap T = {}
  PROVE  /\ IsFiniteSet(S \cup T)
         /\ Cardinality(S \cup T) = Cardinality(S) + Cardinality(T)
<1>1. Cardinality(S \cap T) = 0
  BY FS_EmptySet, ZenonT(30)
<1>2. Cardinality(S) \in Nat /\ Cardinality(T) \in Nat
  BY FS_CardinalityType, ZenonT(30)
<1>3. /\ IsFiniteSet(S \cup T)
      /\ Cardinality(S \cup T) = Cardinality(S) + Cardinality(T) - Cardinality(S \cap T)
  BY FS_Union, ZenonT(30)
<1> QED
  BY <1>1, <1>2, <1>3

(* The four sets of active tasks are disjoint, so there are fewer than B;  *)
(* and one less if there is a task outside them.                           *)
LEMMA Sizes ==
  /\ IsFiniteSet(Readers) /\ IsFiniteSet(Rfail) /\ IsFiniteSet(Writers) /\ IsFiniteSet(Wfail)
  /\ Cardinality(Readers) \in Nat /\ Cardinality(Rfail) \in Nat
  /\ Cardinality(Writers) \in Nat /\ Cardinality(Wfail) \in Nat
  /\ Trying \in Nat /\ Writing \in Nat
  /\ Trying + Writing <= Cardinality(Tasks)
  /\ \A t \in Tasks : t \notin Readers \cup Rfail \cup Writers \cup Wfail
       => Trying + Writing + 1 <= Cardinality(Tasks)
  /\ Cardinality(Tasks) \in Nat /\ Cardinality(Tasks) < B
<1>0. IsFiniteSet(Tasks) /\ Cardinality(Tasks) \in Nat /\ Cardinality(Tasks) < B
  BY RwsemAssumption, FS_CardinalityType, ZenonT(30)
<1>1. /\ Readers \subseteq Tasks /\ Rfail \subseteq Tasks
      /\ Writers \subseteq Tasks /\ Wfail \subseteq Tasks
  BY ZenonT(30) DEF Readers, Rfail, Writers, Wfail
<1>2. /\ Readers \cap Rfail = {} /\ (Readers \cup Rfail) \cap Writers = {}
      /\ (Readers \cup Rfail \cup Writers) \cap Wfail = {}
  BY ZenonT(30) DEF Readers, Rfail, Writers, Wfail, ReadLocs
<1>3. /\ IsFiniteSet(Readers) /\ Cardinality(Readers) \in Nat
      /\ IsFiniteSet(Rfail) /\ Cardinality(Rfail) \in Nat
      /\ IsFiniteSet(Writers) /\ Cardinality(Writers) \in Nat
      /\ IsFiniteSet(Wfail) /\ Cardinality(Wfail) \in Nat
  BY <1>0, <1>1, FS_Subset, FS_CardinalityType, ZenonT(30)
<1> DEFINE all == Readers \cup Rfail \cup Writers \cup Wfail
<1>4. IsFiniteSet(all) /\ Cardinality(all) = Trying + Writing
  <2>1. /\ IsFiniteSet(Readers \cup Rfail)
        /\ Cardinality(Readers \cup Rfail) = Cardinality(Readers) + Cardinality(Rfail)
    BY <1>2, <1>3, DisjointUnion, ZenonT(30)
  <2>2. /\ IsFiniteSet(Readers \cup Rfail \cup Writers)
        /\ Cardinality(Readers \cup Rfail \cup Writers)
             = Cardinality(Readers) + Cardinality(Rfail) + Cardinality(Writers)
    BY <1>2, <1>3, <2>1, DisjointUnion, ZenonT(30)
  <2>3. /\ IsFiniteSet(all)
        /\ Cardinality(all) = Cardinality(Readers) + Cardinality(Rfail)
                                + Cardinality(Writers) + Cardinality(Wfail)
    BY <1>2, <1>3, <2>2, DisjointUnion, ZenonT(30)
  <2> QED
    BY <1>3, <2>3 DEF Trying, Writing
<1>5. all \subseteq Tasks
  BY <1>1, ZenonT(30)
<1> HIDE DEF all
<1>6. Cardinality(all) <= Cardinality(Tasks)
  BY <1>0, <1>5, FS_Subset, ZenonT(30)
<1>7. ASSUME NEW t \in Tasks, t \notin all
      PROVE  Cardinality(all) + 1 <= Cardinality(Tasks)
  <2>1. all \cup {t} \subseteq Tasks /\ Cardinality(all \cup {t}) = Cardinality(all) + 1
    BY <1>4, <1>5, <1>7, FS_AddElement, ZenonT(30)
  <2> QED
    BY <1>0, <2>1, FS_Subset, ZenonT(30)
<1> QED
  BY <1>0, <1>3, <1>4, <1>6, <1>7 DEF Trying, Writing, all

(* What the tests of the count in the code find out. *)
LEMMA CountMeans ==
  ASSUME IInv
  PROVE  /\ Active(count) = Trying + Writing
         /\ count >= Bias(wait_list) => Writers = {} /\ Wfail = {}
         /\ count = Bias(wait_list) =>
              Readers = {} /\ Rfail = {} /\ Writers = {} /\ Wfail = {}
         /\ Active(count) = 0 => Readers = {} /\ Rfail = {} /\ Writers = {} /\ Wfail = {}
<1> DEFINE k == Writing + (IF wait_list = <<>> THEN 0 ELSE 1)
<1>0. Numbers /\ Trying \in Nat /\ Writing \in Nat /\ Trying + Writing < B
  <2>1. Trying \in Nat /\ Writing \in Nat /\ Trying + Writing < B
    BY NumbersHold, Sizes DEF Numbers
  <2> QED
    BY <2>1, NumbersHold, ZenonT(30)
<1>1. count = (Trying + Writing) - B * k /\ k \in Int
  <2>1. WRITE_BIAS * Writing = Writing - B * Writing
    BY <1>0 DEF Numbers
  <2>2. B * k = B * Writing + (IF wait_list = <<>> THEN 0 ELSE B)
    BY <1>0 DEF Numbers
  <2>3. B * Writing \in Int /\ B \in Int
    BY <1>0 DEF Numbers
  <2> QED
    BY <1>0, <2>1, <2>2, <2>3 DEF IInv, Bias, Numbers
<1>2. Active(count) = Trying + Writing
  BY <1>0, <1>1, LowHalf
<1>3. /\ count >= Bias(wait_list) => Writing = 0
      /\ count = Bias(wait_list) => Trying = 0 /\ Writing = 0
  <2>1. /\ Trying + WRITE_BIAS * Writing >= 0 => Writing = 0
        /\ Trying + WRITE_BIAS * Writing = 0 => Trying = 0 /\ Writing = 0
    BY <1>0, SignTellsWriters, ZenonT(30)
  <2>2. WRITE_BIAS * Writing \in Int /\ Bias(wait_list) \in Int
    BY <1>0 DEF Numbers, Bias
  <2> QED
    BY <1>0, <2>1, <2>2 DEF IInv
<1>4. /\ Writing = 0 => Writers = {} /\ Wfail = {}
      /\ Trying = 0 => Readers = {} /\ Rfail = {}
  BY Sizes, FS_EmptySet DEF Writing, Trying
<1> QED
  BY <1>0, <1>2, <1>3, <1>4

LockStep == Lock!Next \/ UNCHANGED <<Readers, Writers>>

(* Every step below keeps the invariant and is a step of RWLock. *)
Good == IInv' /\ LockStep

(* The count follows when dt more tasks try or read and dw more write. *)
LEMMA Recount ==
  ASSUME IInv, Types', ListOf(wait_list, QueuedR, QueuedW)', Excludes',
         NEW dt \in Int, NEW dw \in {-1, 0, 1},
         Trying' = Trying + dt, Writing' = Writing + dw,
         count' = count + dt + WRITE_BIAS * dw + Bias(wait_list') - Bias(wait_list)
  PROVE  IInv'
<1>1. Numbers /\ Trying \in Nat /\ Writing \in Nat
  BY NumbersHold, Sizes, ZenonT(30)
<1>2. /\ WRITE_BIAS * (Writing + dw) = WRITE_BIAS * Writing + WRITE_BIAS * dw
      /\ WRITE_BIAS * Writing \in Int /\ WRITE_BIAS * dw \in Int
  BY <1>1 DEF Numbers
<1>3. Bias(wait_list) \in Int /\ Bias(wait_list') \in Int
  BY <1>1 DEF Numbers, Bias
<1>4. count' = Trying' + WRITE_BIAS * Writing' + Bias(wait_list')
  BY <1>1, <1>2, <1>3 DEF IInv
<1>5. Bias(wait_list)' = Bias(wait_list')
  BY ZenonT(30) DEF Bias
<1> QED
  BY <1>4, <1>5, ZenonT(30) DEF IInv

(* A step that changes neither the count nor the list nor a set of tasks   *)
(* keeps the invariant.                                                    *)
LEMMA Silent ==
  ASSUME IInv, Types', UNCHANGED <<count, wait_list>>, UNCHANGED sets
  PROVE  Good
<1>1. /\ Readers' = Readers /\ Rfail' = Rfail /\ Writers' = Writers /\ Wfail' = Wfail
      /\ QueuedR' = QueuedR /\ QueuedW' = QueuedW
      /\ count' = count /\ wait_list' = wait_list
  BY ZenonT(30) DEF sets
<1>2. Trying' = Trying /\ Writing' = Writing /\ Bias(wait_list)' = Bias(wait_list)
  BY <1>1, ZenonT(30) DEF Trying, Writing, Bias
<1>3. IInv'
  BY <1>1, <1>2, ZenonT(30) DEF IInv, Excludes
<1> QED
  BY <1>1, <1>3, ZenonT(30) DEF Good, LockStep

(* Steps that move no task between the sets. *)
LEMMA ReadLoopGood ==
  ASSUME IInv, NEW t \in Tasks, ReadLoop(t)
  PROVE  Good
<1>1. Types'
  BY ZenonT(30) DEF IInv, Types, Locs, ReadLocs, WriteLocs, Modes, ReadLoop, At, SetState, Goto
<1>2. UNCHANGED sets
  BY ZenonT(30) DEF IInv, Types, sets, Readers, Rfail, Writers, Wfail, QueuedR, QueuedW, ReadLocs,
      WriteLocs, ReadLoop, At, SetState, Goto
<1>3. UNCHANGED <<count, wait_list>>
  BY ZenonT(30) DEF ReadLoop
<1> QED
  BY <1>1, <1>2, <1>3, Silent, ZenonT(30)

(* __rwsem_down_read_failed_common(): the reader looks at waiter.task. *)
LEMMA ReadCheckGood ==
  ASSUME IInv, NEW t \in Tasks, ReadCheck(t)
  PROVE  Good
<1>1. Types'
  <2>1. CASE task[t]
    BY <2>1, ZenonT(30) DEF IInv, Types, Locs, ReadLocs, WriteLocs, Modes, ReadCheck, Goto
  <2>2. CASE ~task[t]
    <3>1. /\ SetState(t, "RUNNING") /\ Done(t, "reading")
          /\ UNCHANGED <<count, wait_list, task, cnt, wake_q>>
      BY <2>2, ZenonT(30) DEF ReadCheck
    <3> QED
      BY <3>1, ZenonT(30) DEF IInv, Types, Locs, ReadLocs, WriteLocs, Modes, SetState, Done
  <2> QED
    BY <2>1, <2>2, ZenonT(30)
<1>2. UNCHANGED sets
  BY DEF IInv, Types, sets, Readers, Rfail, Writers, Wfail, QueuedR, QueuedW, ReadLocs,
      WriteLocs, ReadCheck, At, SetState, Goto, Done
<1>3. UNCHANGED <<count, wait_list>>
  BY ZenonT(30) DEF ReadCheck
<1> QED
  BY <1>1, <1>2, <1>3, Silent, ZenonT(30)

(* The reader is back from schedule(). *)
LEMMA ReadScheduledGood ==
  ASSUME IInv, NEW t \in Tasks, ReadScheduled(t)
  PROVE  Good
<1>1. Types'
  BY ZenonT(30) DEF IInv, Types, Locs, ReadLocs, WriteLocs, Modes, ReadScheduled, At, Goto
<1>2. UNCHANGED sets
  BY ZenonT(30) DEF IInv, Types, sets, Readers, Rfail, Writers, Wfail, QueuedR, QueuedW, ReadLocs,
      WriteLocs, ReadScheduled, At, Goto
<1>3. UNCHANGED <<count, wait_list>>
  BY ZenonT(30) DEF ReadScheduled
<1> QED
  BY <1>1, <1>2, <1>3, Silent, ZenonT(30)

(* The writer goes on to sleep, unless it is killed. *)
LEMMA WriteCheckGood ==
  ASSUME IInv, NEW t \in Tasks, WriteCheck(t)
  PROVE  Good
<1>1. Types'
  BY ZenonT(30) DEF IInv, Types, Locs, ReadLocs, WriteLocs, Modes, WriteCheck, At, Goto
<1>2. UNCHANGED sets
  BY ZenonT(30) DEF IInv, Types, sets, Readers, Rfail, Writers, Wfail, QueuedR, QueuedW, ReadLocs,
      WriteLocs, WriteCheck, At, Goto
<1>3. UNCHANGED <<count, wait_list>>
  BY ZenonT(30) DEF WriteCheck
<1> QED
  BY <1>1, <1>2, <1>3, Silent, ZenonT(30)

(* The writer is back from schedule(). *)
LEMMA WriteScheduledGood ==
  ASSUME IInv, NEW t \in Tasks, WriteScheduled(t)
  PROVE  Good
<1>1. Types'
  BY ZenonT(30) DEF IInv, Types, Locs, ReadLocs, WriteLocs, Modes, WriteScheduled, At, SetState, Goto
<1>2. UNCHANGED sets
  BY ZenonT(30) DEF IInv, Types, sets, Readers, Rfail, Writers, Wfail, QueuedR, QueuedW, ReadLocs,
      WriteLocs, WriteScheduled, At, SetState, Goto
<1>3. UNCHANGED <<count, wait_list>>
  BY ZenonT(30) DEF WriteScheduled
<1> QED
  BY <1>1, <1>2, <1>3, Silent, ZenonT(30)

(* The writer reads sem->count. *)
LEMMA WriteReadGood ==
  ASSUME IInv, NEW t \in Tasks, WriteRead(t)
  PROVE  Good
<1>1. Types'
  BY DEF IInv, Types, Locs, ReadLocs, WriteLocs, Modes, WriteRead, At, Goto
<1>2. UNCHANGED sets
  BY ZenonT(30) DEF IInv, Types, sets, Readers, Rfail, Writers, Wfail, QueuedR, QueuedW, ReadLocs,
      WriteLocs, WriteRead, At, Goto
<1>3. UNCHANGED <<count, wait_list>>
  BY ZenonT(30) DEF WriteRead
<1> QED
  BY <1>1, <1>2, <1>3, Silent, ZenonT(30)

(* wake_up_q() *)
LEMMA WakeUpQGood ==
  ASSUME IInv, NEW t \in Tasks, WakeUpQ(t)
  PROVE  Good
<1>1. Types'
  BY ZenonT(30) DEF IInv, Types, Locs, ReadLocs, WriteLocs, Modes, WakeUpQ
<1>2. UNCHANGED sets
  BY ZenonT(30) DEF IInv, Types, sets, Readers, Rfail, Writers, Wfail, QueuedR, QueuedW, ReadLocs,
      WriteLocs, WakeUpQ
<1>3. UNCHANGED <<count, wait_list>>
  BY ZenonT(30) DEF WakeUpQ
<1> QED
  BY <1>1, <1>2, <1>3, Silent, ZenonT(30)

(* A fatal signal. *)
LEMMA KillGood ==
  ASSUME IInv, NEW t \in Tasks, Kill(t)
  PROVE  Good
<1>1. Types'
  BY ZenonT(30) DEF IInv, Types, Locs, ReadLocs, WriteLocs, Modes, Kill, SetState
<1>2. UNCHANGED sets
  BY ZenonT(30) DEF IInv, Types, sets, Readers, Rfail, Writers, Wfail, QueuedR, QueuedW, ReadLocs,
      WriteLocs, Kill, SetState
<1>3. UNCHANGED <<count, wait_list>>
  BY ZenonT(30) DEF Kill
<1> QED
  BY <1>1, <1>2, <1>3, Silent, ZenonT(30)

(* A wakeup from elsewhere. *)
LEMMA StrayWakeupGood ==
  ASSUME IInv, NEW t \in Tasks, StrayWakeup(t)
  PROVE  Good
<1>1. Types'
  BY ZenonT(30) DEF IInv, Types, Locs, ReadLocs, WriteLocs, Modes, StrayWakeup, SetState
<1>2. UNCHANGED sets
  BY ZenonT(30) DEF IInv, Types, sets, Readers, Rfail, Writers, Wfail, QueuedR, QueuedW, ReadLocs,
      WriteLocs, StrayWakeup, SetState
<1>3. UNCHANGED <<count, wait_list>>
  BY ZenonT(30) DEF StrayWakeup
<1> QED
  BY <1>1, <1>2, <1>3, Silent, ZenonT(30)

(* The number of elements when t joins or leaves a set. *)
LEMMA PlusMinusOne ==
  ASSUME NEW S, IsFiniteSet(S), NEW t
  PROVE  /\ t \notin S => Cardinality(S \cup {t}) = Cardinality(S) + 1
         /\ t \in S => Cardinality(S \ {t}) = Cardinality(S) - 1
BY FS_AddElement, FS_RemoveElement, ZenonT(30)

(* down_read(), down_read_trylock() *)
LEMMA DownReadGood ==
  ASSUME IInv, NEW t \in Tasks, DownRead(t)
  PROVE  Good
<1>0. count \in Int
  BY ZenonT(30) DEF IInv, Types
<1>1. CASE count + 1 >= 0
  <2>1. /\ pc[t] = "idle"
        /\ count' = count + 1
        /\ count + 1 >= 0
        /\ Goto(t, "reading")
        /\ UNCHANGED mode
        /\ UNCHANGED <<wait_list, task, state, cnt, wake_q, kill>>
    BY <1>0, <1>1 DEF DownRead, At, Up
  <2>2. Types'
    BY <2>1, NumbersHold DEF IInv, Types, Locs, ReadLocs, WriteLocs, Modes, Numbers, Goto
  <2>3. /\ Readers' = Readers \cup {t} /\ t \notin Readers
        /\ Rfail' = Rfail
        /\ Writers' = Writers
        /\ Wfail' = Wfail
        /\ QueuedR' = QueuedR
        /\ QueuedW' = QueuedW
    BY <2>1, ZenonT(30) DEF IInv, Types, Readers, Rfail, Writers, Wfail, QueuedR, QueuedW, ReadLocs,
        WriteLocs, Goto
  <2>4. Trying' = Trying + 1 /\ Writing' = Writing + 0
    <3>1. Cardinality(Readers') = Cardinality(Readers) + 1
      BY <2>3, Sizes, PlusMinusOne, ZenonT(30)
    <3> QED
      BY <2>3, <3>1, Sizes DEF Trying, Writing
  <2>5. Excludes' /\ LockStep
    <3>1. Writers = {}
      <4>1. t \notin Readers \cup Rfail \cup Writers \cup Wfail
        BY <2>1, ZenonT(30) DEF Readers, Rfail, Writers, Wfail, ReadLocs
      <4>2. Trying + 1 \in Nat /\ Writing \in Nat /\ (Trying + 1) + Writing < B
        BY <4>1, Sizes, NumbersHold DEF Numbers
      <4>3. (Trying + 1) + WRITE_BIAS * Writing >= 0
        <5>1. count = Trying + WRITE_BIAS * Writing + Bias(wait_list) /\ count + 1 >= 0
          BY <2>1, ZenonT(30) DEF IInv
        <5>2. /\ WRITE_BIAS * Writing \in Int /\ Trying \in Int
              /\ Bias(wait_list) \in Int /\ Bias(wait_list) <= 0
          BY Sizes, NumbersHold DEF Numbers, Bias
        <5> QED
          BY <5>1, <5>2
      <4>4. Writing = 0
        BY <4>2, <4>3, SignTellsWriters, ZenonT(30)
      <4> QED
        BY <4>4, Sizes, FS_EmptySet DEF Writing
    <3>2. Lock!AcquireRead({t})
      BY <2>3, <3>1, ZenonT(30) DEF Lock!AcquireRead
    <3> QED
      BY <2>3, <3>1, <3>2, ZenonT(30) DEF Excludes, LockStep, Lock!Next
  <2>6. ListOf(wait_list, QueuedR, QueuedW)'
    BY <2>1, <2>3, ZenonT(30) DEF IInv
  <2>7. count' = count + 1 + WRITE_BIAS * 0 + Bias(wait_list') - Bias(wait_list)
    <3>1. Bias(wait_list') = Bias(wait_list) /\ Bias(wait_list) \in Int
      BY <2>1, NumbersHold DEF Bias, Numbers
    <3> QED
      BY <2>1, <3>1, NumbersHold DEF Numbers, IInv, Types
  <2> QED
    BY <2>2, <2>4, <2>5, <2>6, <2>7, Recount DEF Good
<1>2. CASE count + 1 < 0
  <2>1. /\ pc[t] = "idle"
        /\ count' = count + 1
        /\ Goto(t, "rfail")
        /\ \E m \in Modes : mode' = [mode EXCEPT ![t] = m]
        /\ UNCHANGED <<wait_list, task, state, cnt, wake_q, kill>>
    BY <1>0, <1>2 DEF DownRead, At, Up
  <2>2. Types'
    BY <2>1, NumbersHold DEF IInv, Types, Locs, ReadLocs, WriteLocs, Modes, Numbers, Goto
  <2>3. /\ Readers' = Readers
        /\ Rfail' = Rfail \cup {t} /\ t \notin Rfail
        /\ Writers' = Writers
        /\ Wfail' = Wfail
        /\ QueuedR' = QueuedR
        /\ QueuedW' = QueuedW
    BY <2>1, ZenonT(30) DEF IInv, Types, Readers, Rfail, Writers, Wfail, QueuedR, QueuedW, ReadLocs,
        WriteLocs, Goto
  <2>4. Trying' = Trying + 1 /\ Writing' = Writing + 0
    <3>1. Cardinality(Rfail') = Cardinality(Rfail) + 1
      BY <2>3, Sizes, PlusMinusOne, ZenonT(30)
    <3> QED
      BY <2>3, <3>1, Sizes DEF Trying, Writing
  <2>5. Excludes' /\ LockStep
    BY <2>3, ZenonT(30) DEF Excludes, IInv, LockStep
  <2>6. ListOf(wait_list, QueuedR, QueuedW)'
    BY <2>1, <2>3, ZenonT(30) DEF IInv
  <2>7. count' = count + 1 + WRITE_BIAS * 0 + Bias(wait_list') - Bias(wait_list)
    <3>1. Bias(wait_list') = Bias(wait_list) /\ Bias(wait_list) \in Int
      BY <2>1, NumbersHold DEF Bias, Numbers
    <3> QED
      BY <2>1, <3>1, NumbersHold DEF Numbers, IInv, Types
  <2> QED
    BY <2>2, <2>4, <2>5, <2>6, <2>7, Recount DEF Good
<1> QED
  BY <1>1, <1>2, ZenonT(30) DEF DownRead, Up

(* down_write(), down_write_trylock() *)
LEMMA DownWriteGood ==
  ASSUME IInv, NEW t \in Tasks, DownWrite(t)
  PROVE  Good
<1>1. CASE Active(count) = 0
  <2>1. /\ pc[t] = "idle"
        /\ count' = count + WRITE_BIAS
        /\ Active(count) = 0
        /\ Goto(t, "writing")
        /\ UNCHANGED mode
        /\ UNCHANGED <<wait_list, task, state, cnt, wake_q, kill>>
    BY <1>1, ZenonT(30) DEF DownWrite, At, Up
  <2>2. Types'
    BY <2>1, NumbersHold DEF IInv, Types, Locs, ReadLocs, WriteLocs, Modes, Numbers, Goto
  <2>3. /\ Readers' = Readers
        /\ Rfail' = Rfail
        /\ Writers' = Writers \cup {t} /\ t \notin Writers
        /\ Wfail' = Wfail
        /\ QueuedR' = QueuedR
        /\ QueuedW' = QueuedW
    BY <2>1, ZenonT(30) DEF IInv, Types, Readers, Rfail, Writers, Wfail, QueuedR, QueuedW, ReadLocs,
        WriteLocs, Goto
  <2>4. Trying' = Trying + 0 /\ Writing' = Writing + 1
    <3>1. Cardinality(Writers') = Cardinality(Writers) + 1
      BY <2>3, Sizes, PlusMinusOne, ZenonT(30)
    <3> QED
      BY <2>3, <3>1, Sizes DEF Trying, Writing
  <2>5. Excludes' /\ LockStep
    <3>1. Writers = {} /\ Readers = {}
      BY <2>1, CountMeans, ZenonT(30)
    <3>2. Lock!AcquireWrite(t)
      BY <2>3, <3>1, ZenonT(30) DEF Lock!AcquireWrite
    <3> QED
      BY <2>3, <3>1, <3>2, ZenonT(30) DEF Excludes, LockStep, Lock!Next
  <2>6. ListOf(wait_list, QueuedR, QueuedW)'
    BY <2>1, <2>3, ZenonT(30) DEF IInv
  <2>7. count' = count + 0 + WRITE_BIAS * 1 + Bias(wait_list') - Bias(wait_list)
    <3>1. Bias(wait_list') = Bias(wait_list) /\ Bias(wait_list) \in Int
      BY <2>1, NumbersHold DEF Bias, Numbers
    <3> QED
      BY <2>1, <3>1, NumbersHold DEF Numbers, IInv, Types
  <2> QED
    BY <2>2, <2>4, <2>5, <2>6, <2>7, Recount DEF Good
<1>2. CASE Active(count) # 0
  <2>1. /\ pc[t] = "idle"
        /\ count' = count + WRITE_BIAS
        /\ Goto(t, "wfail")
        /\ \E m \in Modes : mode' = [mode EXCEPT ![t] = m]
        /\ UNCHANGED <<wait_list, task, state, cnt, wake_q, kill>>
    BY <1>2, ZenonT(30) DEF DownWrite, At, Up
  <2>2. Types'
    BY <2>1, NumbersHold DEF IInv, Types, Locs, ReadLocs, WriteLocs, Modes, Numbers, Goto
  <2>3. /\ Readers' = Readers
        /\ Rfail' = Rfail
        /\ Writers' = Writers
        /\ Wfail' = Wfail \cup {t} /\ t \notin Wfail
        /\ QueuedR' = QueuedR
        /\ QueuedW' = QueuedW
    BY <2>1, ZenonT(30) DEF IInv, Types, Readers, Rfail, Writers, Wfail, QueuedR, QueuedW, ReadLocs,
        WriteLocs, Goto
  <2>4. Trying' = Trying + 0 /\ Writing' = Writing + 1
    <3>1. Cardinality(Wfail') = Cardinality(Wfail) + 1
      BY <2>3, Sizes, PlusMinusOne, ZenonT(30)
    <3> QED
      BY <2>3, <3>1, Sizes DEF Trying, Writing
  <2>5. Excludes' /\ LockStep
    BY <2>3, ZenonT(30) DEF Excludes, IInv, LockStep
  <2>6. ListOf(wait_list, QueuedR, QueuedW)'
    BY <2>1, <2>3, ZenonT(30) DEF IInv
  <2>7. count' = count + 0 + WRITE_BIAS * 1 + Bias(wait_list') - Bias(wait_list)
    <3>1. Bias(wait_list') = Bias(wait_list) /\ Bias(wait_list) \in Int
      BY <2>1, NumbersHold DEF Bias, Numbers
    <3> QED
      BY <2>1, <3>1, NumbersHold DEF Numbers, IInv, Types
  <2> QED
    BY <2>2, <2>4, <2>5, <2>6, <2>7, Recount DEF Good
<1> QED
  BY <1>1, <1>2, ZenonT(30) DEF DownWrite, Up

(* The writer takes its active bias back. *)
LEMMA WriteUndoGood ==
  ASSUME IInv, NEW t \in Tasks, WriteUndo(t)
  PROVE  Good
<1>1. /\ pc[t] = "wfail"
      /\ count' = count - WRITE_BIAS
      /\ Goto(t, "wqueue")
      /\ UNCHANGED <<wait_list, task, state, mode, cnt, wake_q, kill>>
  BY ZenonT(30) DEF WriteUndo, At, Up
<1>2. Types'
  BY <1>1, NumbersHold DEF IInv, Types, Locs, ReadLocs, WriteLocs, Modes, Numbers, Goto
<1>3. /\ Readers' = Readers
      /\ Rfail' = Rfail
      /\ Writers' = Writers
      /\ Wfail' = Wfail \ {t} /\ t \in Wfail
      /\ QueuedR' = QueuedR
      /\ QueuedW' = QueuedW
  BY <1>1, ZenonT(30) DEF IInv, Types, Readers, Rfail, Writers, Wfail, QueuedR, QueuedW, ReadLocs,
      WriteLocs, Goto
<1>4. Trying' = Trying + 0 /\ Writing' = Writing + -1
  <2>1. Cardinality(Wfail') = Cardinality(Wfail) - 1
    BY <1>3, Sizes, PlusMinusOne, ZenonT(30)
  <2> QED
    BY <1>3, <2>1, Sizes DEF Trying, Writing
<1>5. Excludes' /\ LockStep
  BY <1>3, ZenonT(30) DEF Excludes, IInv, LockStep
<1>6. ListOf(wait_list, QueuedR, QueuedW)'
  BY <1>1, <1>3, ZenonT(30) DEF IInv
<1>7. count' = count + 0 + WRITE_BIAS * (-1) + Bias(wait_list') - Bias(wait_list)
  <2>1. Bias(wait_list') = Bias(wait_list) /\ Bias(wait_list) \in Int
    BY <1>1, NumbersHold DEF Bias, Numbers
  <2> QED
    BY <1>1, <2>1, NumbersHold DEF Numbers, IInv, Types
<1> QED
  BY <1>2, <1>4, <1>5, <1>6, <1>7, Recount DEF Good

(* up_read() *)
LEMMA UpReadGood ==
  ASSUME IInv, NEW t \in Tasks, UpRead(t)
  PROVE  Good
<1>1. /\ pc[t] = "reading"
      /\ count' = count - 1
      /\ \E x \in {"wake", "idle"} : Goto(t, x)
      /\ UNCHANGED <<wait_list, task, state, mode, cnt, wake_q, kill>>
  BY ZenonT(30) DEF UpRead, At, Up
<1>2. Types'
  BY <1>1, NumbersHold DEF IInv, Types, Locs, ReadLocs, WriteLocs, Modes, Numbers, Goto
<1>3. /\ Readers' = Readers \ {t} /\ t \in Readers
      /\ Rfail' = Rfail
      /\ Writers' = Writers
      /\ Wfail' = Wfail
      /\ QueuedR' = QueuedR
      /\ QueuedW' = QueuedW
  BY <1>1, ZenonT(30) DEF IInv, Types, Readers, Rfail, Writers, Wfail, QueuedR, QueuedW, ReadLocs,
      WriteLocs, Goto
<1>4. Trying' = Trying + -1 /\ Writing' = Writing + 0
  <2>1. Cardinality(Readers') = Cardinality(Readers) - 1
    BY <1>3, Sizes, PlusMinusOne, ZenonT(30)
  <2> QED
    BY <1>3, <2>1, Sizes DEF Trying, Writing
<1>5. Excludes' /\ LockStep
  <2>1. Lock!ReleaseRead(t)
    BY <1>3, ZenonT(30) DEF Lock!ReleaseRead
  <2> QED
    BY <1>3, <2>1, ZenonT(30) DEF IInv, Excludes, LockStep, Lock!Next
<1>6. ListOf(wait_list, QueuedR, QueuedW)'
  BY <1>1, <1>3, ZenonT(30) DEF IInv
<1>7. count' = count + -1 + WRITE_BIAS * 0 + Bias(wait_list') - Bias(wait_list)
  <2>1. Bias(wait_list') = Bias(wait_list) /\ Bias(wait_list) \in Int
    BY <1>1, NumbersHold DEF Bias, Numbers
  <2> QED
    BY <1>1, <2>1, NumbersHold DEF Numbers, IInv, Types
<1> QED
  BY <1>2, <1>4, <1>5, <1>6, <1>7, Recount DEF Good

(* up_write() *)
LEMMA UpWriteGood ==
  ASSUME IInv, NEW t \in Tasks, UpWrite(t)
  PROVE  Good
<1>1. /\ pc[t] = "writing"
      /\ count' = count - WRITE_BIAS
      /\ \E x \in {"wake", "idle"} : Goto(t, x)
      /\ UNCHANGED <<wait_list, task, state, mode, cnt, wake_q, kill>>
  BY SMTT(30) DEF UpWrite, At, Up
<1>2. Types'
  BY <1>1, NumbersHold DEF IInv, Types, Locs, ReadLocs, WriteLocs, Modes, Numbers, Goto
<1>3. /\ Readers' = Readers
      /\ Rfail' = Rfail
      /\ Writers' = Writers \ {t} /\ t \in Writers
      /\ Wfail' = Wfail
      /\ QueuedR' = QueuedR
      /\ QueuedW' = QueuedW
  BY <1>1, ZenonT(30) DEF IInv, Types, Readers, Rfail, Writers, Wfail, QueuedR, QueuedW, ReadLocs,
      WriteLocs, Goto
<1>4. Trying' = Trying + 0 /\ Writing' = Writing + -1
  <2>1. Cardinality(Writers') = Cardinality(Writers) - 1
    BY <1>3, Sizes, PlusMinusOne, ZenonT(30)
  <2> QED
    BY <1>3, <2>1, Sizes DEF Trying, Writing
<1>5. Excludes' /\ LockStep
  <2>1. Lock!ReleaseWrite(t)
    BY <1>3, ZenonT(30) DEF Lock!ReleaseWrite
  <2> QED
    BY <1>3, <2>1, ZenonT(30) DEF IInv, Excludes, LockStep, Lock!Next
<1>6. ListOf(wait_list, QueuedR, QueuedW)'
  BY <1>1, <1>3, ZenonT(30) DEF IInv
<1>7. count' = count + 0 + WRITE_BIAS * (-1) + Bias(wait_list') - Bias(wait_list)
  <2>1. Bias(wait_list') = Bias(wait_list) /\ Bias(wait_list) \in Int
    BY <1>1, NumbersHold DEF Bias, Numbers
  <2> QED
    BY <1>1, <2>1, NumbersHold, SMTT(30) DEF Numbers, IInv, Types
<1> QED
  BY <1>2, <1>4, <1>5, <1>6, <1>7, Recount DEF Good

(* downgrade_write() *)
LEMMA DowngradeWriteGood ==
  ASSUME IInv, NEW t \in Tasks, DowngradeWrite(t)
  PROVE  Good
<1>1. /\ pc[t] = "writing"
      /\ count' = count - WAITING_BIAS
      /\ \E x \in {"dwake", "reading"} : Goto(t, x)
      /\ UNCHANGED <<wait_list, task, state, mode, cnt, wake_q, kill>>
  BY ZenonT(30) DEF DowngradeWrite, At, Up
<1>2. Types'
  BY <1>1, NumbersHold DEF IInv, Types, Locs, ReadLocs, WriteLocs, Modes, Numbers, Goto
<1>3. /\ Readers' = Readers \cup {t} /\ t \notin Readers
      /\ Rfail' = Rfail
      /\ Writers' = Writers \ {t} /\ t \in Writers
      /\ Wfail' = Wfail
      /\ QueuedR' = QueuedR
      /\ QueuedW' = QueuedW
  BY <1>1, ZenonT(30) DEF IInv, Types, Readers, Rfail, Writers, Wfail, QueuedR, QueuedW, ReadLocs,
      WriteLocs, Goto
<1>4. Trying' = Trying + 1 /\ Writing' = Writing + -1
  <2>1. Cardinality(Readers') = Cardinality(Readers) + 1
    BY <1>3, Sizes, PlusMinusOne, ZenonT(30)
  <2>2. Cardinality(Writers') = Cardinality(Writers) - 1
    BY <1>3, Sizes, PlusMinusOne, ZenonT(30)
  <2>3. Trying' = Trying + 1
    BY <1>3, <2>1, Sizes DEF Trying
  <2>4. Writing' = Writing + -1
    BY <1>3, <2>2, Sizes DEF Writing
  <2> QED
    BY <2>3, <2>4, ZenonT(30)
<1>5. Excludes' /\ LockStep
  <2>1. Lock!Downgrade(t)
    BY <1>3, ZenonT(30) DEF Lock!Downgrade
  <2> QED
    BY <1>3, <2>1, ZenonT(30) DEF IInv, Excludes, LockStep, Lock!Next
<1>6. ListOf(wait_list, QueuedR, QueuedW)'
  BY <1>1, <1>3, ZenonT(30) DEF IInv
<1>7. count' = count + 1 + WRITE_BIAS * (-1) + Bias(wait_list') - Bias(wait_list)
  <2>1. Bias(wait_list') = Bias(wait_list) /\ Bias(wait_list) \in Int
    BY <1>1, NumbersHold, SMTT(30) DEF Bias, Numbers
  <2> QED
    BY <1>1, <2>1, NumbersHold, SMTT(30) DEF Numbers, IInv, Types
<1> QED
  BY <1>2, <1>4, <1>5, <1>6, <1>7, Recount DEF Good

(* What __rwsem_mark_wake() does to the count, with the bias of the list. *)
LEMMA MarkedCount ==
  ASSUME NEW l, NEW R, NEW W, ListOf(l, R, W), l # <<>>, NEW c \in Int, NEW y,
         NEW r, IsMark(r, c, l, y)
  PROVE  /\ Cardinality(r.granted) \in Nat
         /\ r.count = c + Cardinality(r.granted) + Bias(r.list) - Bias(l)
<1>1. /\ IsFiniteSet(r.granted)
      /\ r.count = c + Cardinality(r.granted)
                     + (IF r.granted # {} /\ r.list = <<>> THEN B ELSE 0)
      /\ r.granted = {} => r.list = l
  <2>1. MarkedOK(r, c, l, y, R, W)
    BY Marked, ZenonT(30)
  <2> QED
    BY <2>1, ZenonT(30) DEF MarkedOK
<1>2. Cardinality(r.granted) \in Nat /\ B \in Nat /\ WAITING_BIAS = -B
  BY <1>1, FS_CardinalityType, NumbersHold, ZenonT(30) DEF Numbers
<1>3. Bias(l) = -B
  BY <1>2, ZenonT(30) DEF Bias
<1>4. CASE r.list = <<>>
  <2>1. Bias(r.list) = 0 /\ r.granted # {}
    BY <1>1, <1>4, ZenonT(30) DEF Bias
  <2> QED
    BY <1>1, <1>2, <1>3, <1>4, <2>1
<1>5. CASE r.list # <<>>
  <2>1. Bias(r.list) = -B
    BY <1>2, <1>5, SMTT(30) DEF Bias
  <2> QED
    BY <1>1, <1>2, <1>3, <1>5, <2>1
<1> QED
  BY <1>4, <1>5, ZenonT(30)

(* What a wakeup does, whether it looks at the list or not. *)
ResultOK(r, c, l, y, R, W) ==
  /\ r.granted \in SUBSET R /\ r.woken \in SUBSET Tasks /\ IsFiniteSet(r.granted)
  /\ ListOf(r.list, R \ r.granted, W)
  /\ Cardinality(r.granted) \in Nat /\ r.count \in Int
  /\ r.count = c + Cardinality(r.granted) + Bias(r.list) - Bias(l)
  /\ r.granted # {} => r # NoWake(c, l) /\ l # <<>> /\ ~Stolen(c, y)

(* Whether or not rwsem_wake() finds something to mark. *)
LEMMA Result ==
  ASSUME NEW l, NEW R, NEW W, ListOf(l, R, W), NEW c \in Int, NEW y,
         NEW r, r = NoWake(c, l) \/ (l # <<>> /\ IsMark(r, c, l, y))
  PROVE  ResultOK(r, c, l, y, R, W)
<1> USE DEF ResultOK
<1>0. Bias(l) \in Int /\ Bias(r.list) \in Int
  BY NumbersHold DEF Numbers, Bias
<1>1. CASE r = NoWake(c, l)
  <2>1. r.granted = {} /\ r.woken = {} /\ r.list = l /\ r.count = c
    BY <1>1, ZenonT(30) DEF NoWake
  <2>2. R \ {} = R /\ Cardinality({}) = 0 /\ IsFiniteSet({})
    BY FS_EmptySet, SMTT(30)
  <2> QED
    BY <1>0, <2>1, <2>2
<1>2. CASE r # NoWake(c, l)
  <2>1. l # <<>> /\ IsMark(r, c, l, y)
    BY <1>2, ZenonT(30)
  <2>2. MarkedOK(r, c, l, y, R, W)
    BY <2>1, Marked, ZenonT(30)
  <2>3. /\ Cardinality(r.granted) \in Nat
        /\ r.count = c + Cardinality(r.granted) + Bias(r.list) - Bias(l)
    BY <2>1, MarkedCount, ZenonT(30)
  <2> QED
    BY <1>0, <1>2, <2>1, <2>2, <2>3 DEF MarkedOK
<1> QED
  BY <1>1, <1>2, SMTT(30)

(* A step that changes the queue to that of R and W, and grants the lock   *)
(* to the readers g among them.                                            *)
LEMMA Grants ==
  ASSUME IInv, Types', NEW R, NEW W, NEW g \in SUBSET R, NEW df \in {-1, 0},
         IsFiniteSet(g), g \cap Readers = {}, R \subseteq Tasks,
         Readers' = Readers \cup g, Writers' = Writers, Wfail' = Wfail,
         Cardinality(Rfail)' = Cardinality(Rfail) + df,
         ListOf(wait_list', R \ g, W), QueuedR' = R \ g, QueuedW' = W,
         g # {} => Writers = {},
         count' = count + df + Cardinality(g) + Bias(wait_list') - Bias(wait_list)
  PROVE  Good
<1> DEFINE dt == df + Cardinality(g)
<1>1. /\ Cardinality(g) \in Nat
      /\ Cardinality(Readers \cup g) = Cardinality(Readers) + Cardinality(g)
  BY Sizes, DisjointUnion, FS_CardinalityType, ZenonT(30)
<1>2. dt \in Int
  BY <1>1
<1>3. Trying' = Trying + dt
  BY <1>1, Sizes DEF Trying
<1>4. Writing' = Writing + 0
  BY Sizes DEF Writing
<1>5. Excludes'
  BY ZenonT(30) DEF IInv, Excludes
<1>6. ListOf(wait_list, QueuedR, QueuedW)'
  BY ZenonT(30)
<1>7. count' = count + dt + WRITE_BIAS * 0 + Bias(wait_list') - Bias(wait_list)
  <2>1. /\ WRITE_BIAS * 0 = 0 /\ Bias(wait_list') \in Int /\ Bias(wait_list) \in Int
        /\ count \in Int
    BY NumbersHold DEF Numbers, Bias, IInv, Types
  <2> QED
    BY <1>1, <2>1
<1>8. IInv'
  <2> HIDE DEF dt
  <2> QED
    BY <1>2, <1>3, <1>4, <1>5, <1>6, <1>7, Recount, ZenonT(30)
<1>9. LockStep
  <2>1. CASE g = {}
    BY <2>1, ZenonT(30) DEF LockStep
  <2>2. CASE g # {}
    <3>1. Lock!AcquireRead(g) /\ g \in SUBSET Tasks
      BY <2>2, ZenonT(30) DEF Lock!AcquireRead
    <3> QED
      BY <3>1, ZenonT(30) DEF LockStep, Lock!Next
  <2> QED
    BY <2>1, <2>2, ZenonT(30)
<1> QED
  BY <1>8, <1>9, ZenonT(30) DEF Good

(* Where a task is in the code decides whether it can be queued. *)
LEMMA QueuedApart ==
  /\ QueuedR \cap Readers = {}
  /\ \A t \in Tasks : pc[t] \notin ReadLocs => t \notin QueuedR
  /\ \A t \in Tasks : pc[t] \notin WriteLocs => t \notin QueuedW
BY ZenonT(30) DEF QueuedR, QueuedW, Readers, ReadLocs

(* rwsem_wake() *)
LEMMA WakeGood ==
  ASSUME IInv, NEW t \in Tasks, Wake(t)
  PROVE  Good
<1> DEFINE y == IF pc[t] = "wake" THEN "ANY" ELSE "READ_OWNED"
           r == IF wait_list = <<>> THEN NoWake(count, wait_list)
                ELSE MarkWake(count, wait_list, y)
           g == r.granted
<1>1. /\ pc[t] \in {"wake", "dwake"}
      /\ count' = r.count /\ wait_list' = r.list
      /\ task' = [u \in Tasks |-> task[u] /\ u \notin g]
      /\ wake_q' = [wake_q EXCEPT ![t] = Unmarked(r.woken)]
      /\ pc' = [pc EXCEPT ![t] = IF pc[t] = "wake" THEN "idle" ELSE "reading"]
      /\ UNCHANGED <<state, mode, cnt, kill>>
  BY SMTT(30) DEF Wake, Apply, Goto
<1>2. /\ g \subseteq QueuedR /\ r.woken \subseteq Tasks /\ IsFiniteSet(g)
      /\ ListOf(r.list, QueuedR \ g, QueuedW)
      /\ Cardinality(g) \in Nat /\ r.count \in Int
      /\ r.count = count + 0 + Cardinality(g) + Bias(r.list) - Bias(wait_list)
      /\ g # {} => wait_list # <<>> /\ ~Stolen(count, y)
  <2>0. count \in Int /\ ListOf(wait_list, QueuedR, QueuedW) /\ \A l : Bias(l) \in Int
    BY NumbersHold DEF IInv, Types, Numbers, Bias
  <2>1. r = NoWake(count, wait_list) \/ (wait_list # <<>> /\ IsMark(r, count, wait_list, y))
    BY ZenonT(30) DEF IsMark
  <2> HIDE DEF r, y
  <2>2. ResultOK(r, count, wait_list, y, QueuedR, QueuedW)
    BY <2>0, <2>1, Result, SMTT(30)
  <2> QED
    BY <2>0, <2>2 DEF ResultOK
<1>3. g # {} => Writers = {}
  <2>1. CASE pc[t] = "dwake"
    <3>1. t \in Readers
      BY <2>1, ZenonT(30) DEF Readers
    <3> QED
      BY <3>1, ZenonT(30) DEF IInv, Excludes
  <2>2. CASE pc[t] = "wake"
    <3>1. g # {} => wait_list # <<>> /\ ~(count < WAITING_BIAS)
      BY <1>2, <2>2, ZenonT(30) DEF Stolen
    <3>2. WAITING_BIAS \in Int /\ count \in Int
      BY NumbersHold DEF Numbers, IInv, Types
    <3> HIDE DEF g
    <3>3. g # {} => count >= Bias(wait_list)
      BY <3>1, <3>2 DEF Bias
    <3> QED
      BY <3>3, CountMeans, SMTT(30)
  <2> QED
    BY <1>1, <2>1, <2>2, ZenonT(30)
<1> HIDE DEF r, y, g
<1>4. Types'
  <2>1. Unmarked(r.woken) \subseteq Tasks
    BY <1>2, ZenonT(30) DEF Unmarked
  <2> QED
    BY <1>1, <1>2, <2>1, ZenonT(30) DEF IInv, Types, Locs
<1>5. /\ Readers' = Readers \cup g /\ Writers' = Writers /\ Wfail' = Wfail /\ Rfail' = Rfail
      /\ QueuedR' = QueuedR \ g /\ QueuedW' = QueuedW
  BY <1>1, <1>2, ZenonT(60)
  DEF IInv, Types, Readers, Rfail, Writers, Wfail, QueuedR, QueuedW, ReadLocs, WriteLocs
<1>6. /\ Cardinality(Rfail)' = Cardinality(Rfail) + 0
      /\ g \cap Readers = {} /\ QueuedR \subseteq Tasks
  <2>1. Cardinality(Rfail)' = Cardinality(Rfail) + 0
    BY <1>5, Sizes
  <2>2. g \cap Readers = {}
    BY <1>2, QueuedApart, ZenonT(30)
  <2>3. QueuedR \subseteq Tasks
    BY ZenonT(30) DEF QueuedR
  <2> QED
    BY <2>1, <2>2, <2>3, ZenonT(30)
<1> QED
  BY <1>1, <1>2, <1>3, <1>4, <1>5, <1>6, Grants, ZenonT(60)

(* What leaving the list does to its bias. *)
LEMMA LeftCount ==
  ASSUME IInv, NEW t \in QueuedR \cup QueuedW
  PROVE  /\ ListOf(Leave(t), QueuedR \ {t}, QueuedW \ {t})
         /\ wait_list # <<>>
         /\ CountAfterLeave(t) = count + Bias(Leave(t)) - Bias(wait_list)
         /\ CountWhenTaken(wait_list) = WRITE_BIAS + Bias(Leave(t))
<1>1. ListOf(wait_list, QueuedR, QueuedW) /\ count \in Int
  BY ZenonT(30) DEF IInv, Types
<1>2. /\ ListOf(Leave(t), QueuedR \ {t}, QueuedW \ {t})
      /\ Len(wait_list) = Len(Leave(t)) + 1
  BY <1>1, Left, ZenonT(30)
<1>3. /\ wait_list \in Seq(Entries) /\ Leave(t) \in Seq(Entries)
      /\ Len(wait_list) \in Nat /\ Len(Leave(t)) \in Nat
  BY <1>1, <1>2 DEF ListOf
<1>4. /\ wait_list = <<>> <=> Len(wait_list) = 0
      /\ Leave(t) = <<>> <=> Len(Leave(t)) = 0
  BY <1>3
<1>5. wait_list # <<>> /\ (Leave(t) = <<>> <=> Len(wait_list) = 1)
  BY <1>2, <1>3, <1>4
<1>6. WAITING_BIAS \in Int /\ WRITE_BIAS \in Int
  BY NumbersHold DEF Numbers
<1> QED
  BY <1>1, <1>2, <1>5, <1>6 DEF Bias, CountAfterLeave, CountWhenTaken

(* rwsem_try_write_lock() has succeeded. *)
LEMMA Taken ==
  ASSUME IInv, Types', NEW t \in Tasks,
         Readers = {}, Rfail = {}, Writers = {}, Wfail = {},
         Readers' = {}, Rfail' = {}, Writers' = {t}, Wfail' = {},
         ListOf(wait_list', QueuedR', QueuedW'),
         count = Bias(wait_list), count' = WRITE_BIAS + Bias(wait_list')
  PROVE  Good
<1>1. Cardinality({}) = 0 /\ Cardinality({t}) = 1
  BY FS_EmptySet, FS_Singleton, ZenonT(30)
<1>2. Trying' = Trying + 0 /\ Writing' = Writing + 1
  BY <1>1 DEF Trying, Writing
<1>3. Excludes'
  BY ZenonT(30) DEF Excludes
<1>4. /\ WRITE_BIAS * 1 = WRITE_BIAS /\ WRITE_BIAS \in Int
      /\ Bias(wait_list') \in Int /\ Bias(wait_list) \in Int
  BY NumbersHold DEF Numbers, Bias
<1>5. count' = count + 0 + WRITE_BIAS * 1 + Bias(wait_list') - Bias(wait_list)
  BY <1>4
<1>6. ListOf(wait_list, QueuedR, QueuedW)'
  BY ZenonT(30)
<1>7. IInv'
  BY <1>2, <1>3, <1>5, <1>6, Recount
<1>8. Lock!AcquireWrite(t)
  BY ZenonT(30) DEF Lock!AcquireWrite
<1> QED
  BY <1>7, <1>8, ZenonT(30) DEF Good, LockStep, Lock!Next

(* A killed reader leaves the list. *)
LEMMA ReadSignalGood ==
  ASSUME IInv, NEW t \in Tasks, ReadSignal(t)
  PROVE  Good
<1>1. CASE ~task[t]
  <2>1. /\ pc[t] = "rsignal"
        /\ pc' = [pc EXCEPT ![t] = "reading"]
        /\ mode' = [mode EXCEPT ![t] = "UNINTERRUPTIBLE"]
        /\ kill' = [kill EXCEPT ![t] = FALSE]
        /\ state' = [state EXCEPT ![t] = "RUNNING"]
        /\ UNCHANGED <<count, wait_list, task, cnt, wake_q>>
    BY <1>1, ZenonT(30) DEF ReadSignal, At, Done, SetState
  <2>2. Types'
    BY <2>1, ZenonT(30) DEF IInv, Types, Locs, Modes
  <2>3. UNCHANGED sets
    BY <1>1, <2>1, ZenonT(30)
    DEF IInv, Types, sets, Readers, Rfail, Writers, Wfail, QueuedR, QueuedW, ReadLocs, WriteLocs
  <2> QED
    BY <2>1, <2>2, <2>3, Silent, ZenonT(30)
<1>2. CASE task[t]
  <2>1. /\ pc[t] = "rsignal"
        /\ pc' = [pc EXCEPT ![t] = "idle"]
        /\ mode' = [mode EXCEPT ![t] = "UNINTERRUPTIBLE"]
        /\ kill' = [kill EXCEPT ![t] = FALSE]
        /\ state' = [state EXCEPT ![t] = "RUNNING"]
        /\ task' = [task EXCEPT ![t] = FALSE]
        /\ wait_list' = Leave(t) /\ count' = CountAfterLeave(t)
        /\ UNCHANGED <<cnt, wake_q>>
    BY <1>2, ZenonT(30) DEF ReadSignal, At, Done, SetState
  <2>2. t \in QueuedR /\ t \notin QueuedW
    BY <1>2, <2>1, ZenonT(30) DEF QueuedR, QueuedW, ReadLocs, WriteLocs
  <2>3. /\ ListOf(Leave(t), QueuedR \ {t}, QueuedW \ {t})
        /\ count' = count + Bias(Leave(t)) - Bias(wait_list)
    BY <2>1, <2>2, LeftCount, SMTT(30)
  <2>4. /\ Readers' = Readers /\ Writers' = Writers /\ Wfail' = Wfail /\ Rfail' = Rfail
        /\ QueuedR' = QueuedR \ {t} /\ QueuedW' = QueuedW
    BY <1>2, <2>1, ZenonT(30)
    DEF IInv, Types, Readers, Rfail, Writers, Wfail, QueuedR, QueuedW, ReadLocs, WriteLocs
  <2>5. /\ count \in Int /\ Bias(Leave(t)) \in Int /\ Bias(wait_list) \in Int
    BY NumbersHold DEF IInv, Types, Numbers, Bias
  <2>6. Types'
    BY <2>1, <2>3, <2>5, SMTT(30) DEF IInv, Types, Locs, Modes
  <2>7. /\ {} \in SUBSET (QueuedR \ {t}) /\ IsFiniteSet({}) /\ {} \cap Readers = {}
        /\ QueuedR \ {t} \subseteq Tasks /\ Readers \cup {} = Readers
        /\ (QueuedR \ {t}) \ {} = QueuedR \ {t} /\ QueuedW \ {t} = QueuedW
    BY <2>2, FS_EmptySet, ZenonT(30) DEF QueuedR
  <2>8. count' = count + 0 + Cardinality({}) + Bias(wait_list') - Bias(wait_list)
    BY <2>1, <2>3, <2>5, FS_EmptySet
  <2>9. Cardinality(Rfail)' = Cardinality(Rfail) + 0
    BY <2>4, Sizes
  <2>10. ListOf(wait_list', (QueuedR \ {t}) \ {}, QueuedW)
    BY <2>1, <2>3, <2>7, ZenonT(30)
  <2>11. Readers' = Readers \cup {} /\ QueuedR' = (QueuedR \ {t}) \ {}
    BY <2>4, <2>7, ZenonT(30)
  <2> QED
    BY <2>4, <2>6, <2>7, <2>8, <2>9, <2>10, <2>11, Grants, ZenonT(30)
<1> QED
  BY <1>1, <1>2, ZenonT(30)

(* rwsem_try_write_lock() *)
LEMMA WriteTryGood ==
  ASSUME IInv, NEW t \in Tasks, WriteTry(t)
  PROVE  Good
<1>1. CASE ~TryWriteLock(cnt[t], count)
  <2>1. /\ pc[t] = "wtry"
        /\ pc' = [pc EXCEPT ![t] = "wcheck"]
        /\ cnt' = [cnt EXCEPT ![t] = 0]
        /\ UNCHANGED <<count, wait_list, state, mode, kill, task, wake_q>>
    BY <1>1, ZenonT(30) DEF WriteTry, At, Goto
  <2>2. Types'
    BY <2>1, SMTT(30) DEF IInv, Types, Locs, WriteLocs
  <2>3. UNCHANGED sets
    BY <2>1, ZenonT(30)
    DEF IInv, Types, sets, Readers, Rfail, Writers, Wfail, QueuedR, QueuedW, ReadLocs, WriteLocs
  <2> QED
    BY <2>1, <2>2, <2>3, Silent, SMTT(30)
<1>2. CASE TryWriteLock(cnt[t], count)
  <2>1. /\ pc[t] = "wtry"
        /\ pc' = [pc EXCEPT ![t] = "writing"]
        /\ mode' = [mode EXCEPT ![t] = "UNINTERRUPTIBLE"]
        /\ kill' = [kill EXCEPT ![t] = FALSE]
        /\ state' = [state EXCEPT ![t] = "RUNNING"]
        /\ cnt' = [cnt EXCEPT ![t] = 0]
        /\ wait_list' = Leave(t) /\ count' = CountWhenTaken(wait_list)
        /\ UNCHANGED <<task, wake_q>>
    BY <1>2, ZenonT(30) DEF WriteTry, At, Done, SetState
  <2>2. t \in QueuedW /\ t \notin QueuedR
    BY <2>1, ZenonT(30) DEF QueuedR, QueuedW, ReadLocs, WriteLocs
  <2>3. /\ ListOf(Leave(t), QueuedR \ {t}, QueuedW \ {t}) /\ wait_list # <<>>
        /\ CountWhenTaken(wait_list) = WRITE_BIAS + Bias(Leave(t))
    BY <2>2, LeftCount, ZenonT(30)
  <2>4. count = Bias(wait_list)
    BY <1>2, <2>3, ZenonT(30) DEF TryWriteLock, Bias
  <2>5. Readers = {} /\ Rfail = {} /\ Writers = {} /\ Wfail = {}
    <3>1. Bias(wait_list) \in Int
      BY NumbersHold, SMTT(30) DEF Numbers, Bias
    <3> QED
      BY <2>4, <3>1, CountMeans, ZenonT(30)
  <2>6. /\ Readers' = Readers /\ Writers' = Writers \cup {t}
        /\ Wfail' = Wfail /\ Rfail' = Rfail
        /\ QueuedR' = QueuedR \ {t} /\ QueuedW' = QueuedW \ {t}
    BY <2>1, <2>2, ZenonT(30)
    DEF IInv, Types, Readers, Rfail, Writers, Wfail, QueuedR, QueuedW, ReadLocs, WriteLocs
  <2>7. Types'
    <3>1. CountWhenTaken(wait_list) \in Int
      BY <2>3, NumbersHold DEF Numbers, Bias
    <3> QED
      BY <2>1, <3>1 DEF IInv, Types, Locs, Modes
  <2>8. /\ Readers' = {} /\ Writers' = {t} /\ Rfail' = {} /\ Wfail' = {}
        /\ ListOf(wait_list', QueuedR', QueuedW') /\ count' = WRITE_BIAS + Bias(wait_list')
    BY <2>1, <2>3, <2>5, <2>6, ZenonT(30)
  <2> QED
    BY <2>4, <2>5, <2>7, <2>8, Taken, SMTT(30)
<1> QED
  BY <1>1, <1>2, ZenonT(30)

(* A killed writer leaves the list and passes its wakeup on. *)
LEMMA WriteSignalGood ==
  ASSUME IInv, NEW t \in Tasks, WriteSignal(t)
  PROVE  Good
<1> DEFINE l == Leave(t)
           r == IF l = <<>> THEN NoWake(CountAfterLeave(t), l) ELSE MarkWake(count, l, "ANY")
           g == r.granted
           W == QueuedW \ {t}
<1>1. /\ pc[t] = "wsignal"
      /\ count' = r.count /\ wait_list' = r.list
      /\ task' = [u \in Tasks |-> task[u] /\ u \notin g]
      /\ wake_q' = [wake_q EXCEPT ![t] = Unmarked(r.woken)]
      /\ pc' = [pc EXCEPT ![t] = "idle"]
      /\ mode' = [mode EXCEPT ![t] = "UNINTERRUPTIBLE"]
      /\ kill' = [kill EXCEPT ![t] = FALSE]
      /\ state' = [state EXCEPT ![t] = "RUNNING"]
      /\ cnt' = cnt
  BY ZenonT(30) DEF WriteSignal, Apply, Done, SetState, At
<1>2. t \in QueuedW /\ t \notin QueuedR /\ QueuedR \ {t} = QueuedR
  BY <1>1, ZenonT(30) DEF QueuedR, QueuedW, ReadLocs, WriteLocs
<1>3. /\ ListOf(l, QueuedR, W) /\ wait_list # <<>>
      /\ CountAfterLeave(t) = count + Bias(l) - Bias(wait_list)
  BY <1>2, LeftCount, ZenonT(30)
<1>4. /\ \A k : Bias(k) \in Int
      /\ count \in Int /\ CountAfterLeave(t) \in Int /\ WAITING_BIAS \in Int
  BY <1>3, NumbersHold DEF IInv, Types, Numbers, Bias
<1>5. /\ \/ r = NoWake(CountAfterLeave(t), l)
         \/ l # <<>> /\ IsMark(r, CountAfterLeave(t), l, "ANY")
      /\ l # <<>> => CountAfterLeave(t) = count
  BY ZenonT(30) DEF IsMark, CountAfterLeave
<1> HIDE DEF r, l, W
<1>6. ResultOK(r, CountAfterLeave(t), l, "ANY", QueuedR, W)
  BY <1>3, <1>4, <1>5, Result, SMTT(30)
<1>7. /\ g \in SUBSET QueuedR /\ r.woken \subseteq Tasks /\ IsFiniteSet(g)
      /\ ListOf(r.list, QueuedR \ g, W)
      /\ Cardinality(g) \in Nat /\ r.count \in Int
      /\ r.count = CountAfterLeave(t) + Cardinality(g) + Bias(r.list) - Bias(l)
      /\ g # {} => l # <<>> /\ ~Stolen(CountAfterLeave(t), "ANY")
  BY <1>6, SMTT(30) DEF ResultOK
<1> HIDE DEF g
<1>8. /\ r.count = count + 0 + Cardinality(g) + Bias(r.list) - Bias(wait_list)
      /\ g # {} => ~Stolen(count, "ANY")
  BY <1>3, <1>4, <1>5, <1>7, SMTT(30)
<1>9. g # {} => Writers = {}
  <2>1. Bias(wait_list) = WAITING_BIAS
    BY <1>3, ZenonT(30) DEF Bias
  <2>2. g # {} => ~(count < WAITING_BIAS)
    BY <1>8, ZenonT(30) DEF Stolen
  <2>3. g # {} => count >= Bias(wait_list)
    BY <1>4, <2>1, <2>2
  <2> QED
    BY <2>3, CountMeans, ZenonT(30)
<1>10. Types'
  <2>1. Unmarked(r.woken) \subseteq Tasks
    BY <1>7, ZenonT(30) DEF Unmarked
  <2> QED
    BY <1>1, <1>7, <2>1, ZenonT(30) DEF IInv, Types, Locs, Modes
<1>11. /\ Readers' = Readers \cup g /\ Writers' = Writers /\ Wfail' = Wfail /\ Rfail' = Rfail
       /\ QueuedR' = QueuedR \ g /\ QueuedW' = W
  BY <1>1, <1>7, ZenonT(30)
  DEF IInv, Types, Readers, Rfail, Writers, Wfail, QueuedR, QueuedW, ReadLocs, WriteLocs, W
<1>12. /\ Cardinality(Rfail)' = Cardinality(Rfail) + 0
       /\ g \cap Readers = {} /\ QueuedR \subseteq Tasks
  <2>1. Cardinality(Rfail)' = Cardinality(Rfail) + 0
    BY <1>11, Sizes
  <2>2. g \cap Readers = {}
    BY <1>7, QueuedApart, ZenonT(30)
  <2>3. QueuedR \subseteq Tasks
    BY ZenonT(30) DEF QueuedR
  <2> QED
    BY <2>1, <2>2, <2>3, ZenonT(30)
<1>13. /\ count' = count + 0 + Cardinality(g) + Bias(wait_list') - Bias(wait_list)
       /\ ListOf(wait_list', QueuedR \ g, W)
  BY <1>1, <1>7, <1>8, ZenonT(30)
<1> QED
  BY <1>7, <1>9, <1>10, <1>11, <1>12, <1>13, Grants, ZenonT(30)

(* A reader joins the wait list. *)
LEMMA ReadQueueGood ==
  ASSUME IInv, NEW t \in Tasks, ReadQueue(t)
  PROVE  Good
<1> DEFINE l == Append(wait_list, Waiter(t, "R"))
           c == count - 1 + (IF wait_list = <<>> THEN WAITING_BIAS ELSE 0)
           p == c = WAITING_BIAS \/ (c > WAITING_BIAS /\ wait_list = <<>>)
           r == IF p THEN MarkWake(c, l, "ANY") ELSE NoWake(c, l)
           g == r.granted
           R == QueuedR \cup {t}
<1>1. /\ pc[t] = "rfail"
      /\ count' = r.count /\ wait_list' = r.list
      /\ task' = [u \in Tasks |-> (task[u] \/ u = t) /\ u \notin g]
      /\ wake_q' = [wake_q EXCEPT ![t] = Unmarked(r.woken)]
      /\ pc' = [pc EXCEPT ![t] = "rloop"]
      /\ UNCHANGED <<state, mode, cnt, kill>>
  BY ZenonT(60) DEF ReadQueue, Goto, At
<1>2. t \notin QueuedR /\ t \notin QueuedW
  BY <1>1, ZenonT(30) DEF QueuedR, QueuedW, ReadLocs, WriteLocs
<1>3. ListOf(l, R, QueuedW) /\ l # <<>>
  <2>1. ListOf(wait_list, QueuedR, QueuedW)
    BY ZenonT(30) DEF IInv
  <2>2. ListOf(l, R, QueuedW)
    <3>1. ListOf(l, IF "R" = "R" THEN QueuedR \cup {t} ELSE QueuedR,
                    IF "R" = "W" THEN QueuedW \cup {t} ELSE QueuedW)
      BY <1>2, <2>1, Joined, ZenonT(60)
    <3> QED
      BY <3>1, ZenonT(30)
  <2>3. l # <<>>
    <3>1. PICK i \in 1 .. Len(l) : l[i].task = t
      BY <2>2, ZenonT(30) DEF ListOf
    <3> QED
      BY <3>1
  <2> QED
    BY <2>2, <2>3, ZenonT(30)
<1>4. /\ \A k : Bias(k) \in Int
      /\ count \in Int /\ WAITING_BIAS \in Int /\ Bias(l) = WAITING_BIAS
  BY <1>3, NumbersHold DEF IInv, Types, Numbers, Bias
<1>5. /\ c = count - 1 + Bias(l) - Bias(wait_list) /\ c \in Int
  <2> HIDE DEF l
  <2> QED
    BY <1>4 DEF Bias
<1>6. /\ r = NoWake(c, l) \/ (l # <<>> /\ IsMark(r, c, l, "ANY"))
      /\ r # NoWake(c, l) => p
  <2> HIDE DEF c, l, p
  <2> QED
    BY <1>3, ZenonT(30) DEF IsMark
<1>7. p => c >= WAITING_BIAS
  <2> HIDE DEF c
  <2> QED
    BY <1>4, <1>5
<1> HIDE DEF r, l, c, p, R
<1>8. ResultOK(r, c, l, "ANY", R, QueuedW)
  BY <1>3, <1>5, <1>6, Result, SMTT(30)
<1>9. /\ g \in SUBSET R /\ r.woken \subseteq Tasks /\ IsFiniteSet(g)
      /\ ListOf(r.list, R \ g, QueuedW)
      /\ Cardinality(g) \in Nat /\ r.count \in Int
      /\ r.count = c + Cardinality(g) + Bias(r.list) - Bias(l)
      /\ g # {} => p
  BY <1>6, <1>8, SMTT(30) DEF ResultOK
<1> HIDE DEF g
<1>10. r.count = count + -1 + Cardinality(g) + Bias(r.list) - Bias(wait_list)
  BY <1>4, <1>5, <1>9
<1>11. g # {} => Writers = {}
  <2>1. g # {} => count >= Bias(wait_list)
    BY <1>4, <1>5, <1>7, <1>9, SMTT(30)
  <2> QED
    BY <2>1, CountMeans, ZenonT(30)
<1>12. Types'
  <2>1. Unmarked(r.woken) \subseteq Tasks
    BY <1>9, ZenonT(30) DEF Unmarked
  <2> QED
    BY <1>1, <1>9, <2>1, ZenonT(30) DEF IInv, Types, Locs, ReadLocs
<1>13. /\ Readers' = Readers \cup g /\ Writers' = Writers /\ Wfail' = Wfail
       /\ Rfail' = Rfail \ {t} /\ t \in Rfail
       /\ QueuedR' = R \ g /\ QueuedW' = QueuedW
  BY <1>1, <1>9, ZenonT(60)
  DEF IInv, Types, Readers, Rfail, Writers, Wfail, QueuedR, QueuedW, ReadLocs, WriteLocs, R
<1>14. g \cap Readers = {} /\ R \subseteq Tasks
  <2>1. t \notin Readers
    BY <1>1, ZenonT(30) DEF Readers, ReadLocs
  <2> QED
    BY <1>9, <2>1, QueuedApart, ZenonT(30) DEF QueuedR, R
<1>15. Cardinality(Rfail)' = Cardinality(Rfail) + -1
  BY <1>13, Sizes, PlusMinusOne, ZenonT(30)
<1> QED
  BY <1>1, <1>9, <1>10, <1>11, <1>12, <1>13, <1>14, <1>15, Grants, ZenonT(30)

(* A writer joins the wait list. *)
LEMMA WriteQueueGood ==
  ASSUME IInv, NEW t \in Tasks, WriteQueue(t)
  PROVE  Good
<1> DEFINE l == Append(wait_list, Waiter(t, "W"))
           c == IF wait_list = <<>> THEN count + WAITING_BIAS ELSE count
           p == wait_list # <<>> /\ c > WAITING_BIAS
           r == IF p THEN MarkWake(c, l, "READERS") ELSE NoWake(c, l)
           g == r.granted
           W == QueuedW \cup {t}
           woken == [u \in Tasks |-> IF u \in Unmarked(r.woken) THEN "RUNNING" ELSE state[u]]
<1>1. /\ pc[t] = "wqueue"
      /\ UNCHANGED <<cnt, wake_q>>
      /\ \/ /\ TryWriteLock(c, r.count)
            /\ count' = CountWhenTaken(r.list)
            /\ wait_list' = wait_list /\ state' = woken /\ task' = task
            /\ pc' = [pc EXCEPT ![t] = "writing"]
            /\ mode' = [mode EXCEPT ![t] = "UNINTERRUPTIBLE"]
            /\ kill' = [kill EXCEPT ![t] = FALSE]
         \/ /\ count' = r.count /\ wait_list' = r.list
            /\ state' = [woken EXCEPT ![t] = mode[t]]
            /\ task' = [u \in Tasks |-> task[u] /\ u \notin g]
            /\ pc' = [pc EXCEPT ![t] = "wcheck"]
            /\ UNCHANGED <<mode, kill>>
  BY ZenonT(30) DEF WriteQueue, Goto, At, Done
<1>2. t \notin QueuedR /\ t \notin QueuedW
  BY <1>1, ZenonT(30) DEF QueuedR, QueuedW, ReadLocs, WriteLocs
<1>3. ListOf(l, QueuedR, W) /\ l # <<>> /\ (wait_list = <<>> <=> Len(l) = 1)
  <2>1. ListOf(wait_list, QueuedR, QueuedW)
    BY ZenonT(30) DEF IInv
  <2>2. ListOf(l, QueuedR, W)
    <3>1. ListOf(l, IF "W" = "R" THEN QueuedR \cup {t} ELSE QueuedR,
                    IF "W" = "W" THEN QueuedW \cup {t} ELSE QueuedW)
      BY <1>2, <2>1, Joined, ZenonT(30)
    <3> QED
      BY <3>1, ZenonT(30)
  <2>3. wait_list \in Seq(Entries) /\ Waiter(t, "W") \in Entries
    BY <2>1, ZenonT(30) DEF ListOf, Waiter, Entries
  <2>4. l # <<>> /\ Len(l) = Len(wait_list) + 1 /\ Len(wait_list) \in Nat
    BY <2>3
  <2>5. wait_list = <<>> <=> Len(wait_list) = 0
    BY <2>3
  <2> HIDE DEF l
  <2> QED
    BY <2>2, <2>4, <2>5
<1>4. /\ \A k : Bias(k) \in Int
      /\ count \in Int /\ WAITING_BIAS \in Int /\ WRITE_BIAS \in Int
      /\ Bias(l) = WAITING_BIAS
  BY <1>3, NumbersHold DEF IInv, Types, Numbers, Bias
<1>5. /\ c = count + Bias(l) - Bias(wait_list) /\ c \in Int
  <2> HIDE DEF l
  <2> QED
    BY <1>4 DEF Bias
<1>6. /\ r = NoWake(c, l) \/ (l # <<>> /\ IsMark(r, c, l, "READERS"))
      /\ r # NoWake(c, l) => p
  <2> HIDE DEF c, l, p
  <2> QED
    BY <1>3, ZenonT(30) DEF IsMark
<1>7. /\ p => c > WAITING_BIAS
      /\ c = WAITING_BIAS => ~p
  <2> HIDE DEF c
  <2> QED
    BY <1>4, <1>5
<1> HIDE DEF r, l, c, p, W
<1>8. ResultOK(r, c, l, "READERS", QueuedR, W)
  BY <1>3, <1>5, <1>6, Result, SMTT(30)
<1>9. /\ g \in SUBSET QueuedR /\ r.woken \subseteq Tasks /\ IsFiniteSet(g)
      /\ ListOf(r.list, QueuedR \ g, W)
      /\ Cardinality(g) \in Nat /\ r.count \in Int
      /\ r.count = c + Cardinality(g) + Bias(r.list) - Bias(l)
      /\ g # {} => p
  BY <1>6, <1>8, ZenonT(30) DEF ResultOK
<1> HIDE DEF g
<1>10. woken \in [Tasks -> Modes \cup {"RUNNING"}]
  BY ZenonT(30) DEF IInv, Types
<1> HIDE DEF woken
<1>11. CASE /\ TryWriteLock(c, r.count)
            /\ count' = CountWhenTaken(r.list)
            /\ wait_list' = wait_list /\ state' = woken /\ task' = task
            /\ pc' = [pc EXCEPT ![t] = "writing"]
            /\ mode' = [mode EXCEPT ![t] = "UNINTERRUPTIBLE"]
            /\ kill' = [kill EXCEPT ![t] = FALSE]
  <2>1. c = WAITING_BIAS /\ r = NoWake(c, l)
    BY <1>6, <1>7, <1>11, ZenonT(30) DEF TryWriteLock
  <2>2. count = Bias(wait_list)
    BY <1>4, <1>5, <2>1
  <2>3. Readers = {} /\ Rfail = {} /\ Writers = {} /\ Wfail = {}
    BY <1>4, <2>2, CountMeans, ZenonT(30)
  <2>4. r.list = l
    BY <2>1, ZenonT(30) DEF NoWake
  <2>5. count' = WRITE_BIAS + Bias(wait_list) /\ count' \in Int
    BY <1>3, <1>4, <1>11, <2>4, SMTT(30) DEF CountWhenTaken, Bias
  <2>6. Types'
    BY <1>1, <1>10, <1>11, <2>5, SMTT(30) DEF IInv, Types, Locs, Modes
  <2>7. /\ Readers' = Readers /\ Writers' = Writers \cup {t}
        /\ Wfail' = Wfail /\ Rfail' = Rfail
        /\ QueuedR' = QueuedR /\ QueuedW' = QueuedW
    BY <1>1, <1>11, ZenonT(30)
    DEF IInv, Types, Readers, Rfail, Writers, Wfail, QueuedR, QueuedW, ReadLocs, WriteLocs
  <2>8. /\ Readers' = {} /\ Writers' = {t} /\ Rfail' = {} /\ Wfail' = {}
        /\ ListOf(wait_list', QueuedR', QueuedW') /\ count' = WRITE_BIAS + Bias(wait_list')
    BY <1>11, <2>3, <2>5, <2>7, ZenonT(30) DEF IInv
  <2> QED
    BY <2>2, <2>3, <2>6, <2>8, Taken, ZenonT(30)
<1>12. CASE /\ count' = r.count /\ wait_list' = r.list
            /\ state' = [woken EXCEPT ![t] = mode[t]]
            /\ task' = [u \in Tasks |-> task[u] /\ u \notin g]
            /\ pc' = [pc EXCEPT ![t] = "wcheck"]
            /\ UNCHANGED <<mode, kill>>
  <2>1. r.count = count + 0 + Cardinality(g) + Bias(r.list) - Bias(wait_list)
    <3>1. /\ r.count = c + Cardinality(g) + Bias(r.list) - Bias(l)
          /\ c = count + Bias(l) - Bias(wait_list)
          /\ Cardinality(g) \in Int /\ Bias(r.list) \in Int /\ Bias(l) \in Int
          /\ Bias(wait_list) \in Int /\ count \in Int
      BY <1>4, <1>5, <1>9, SMTT(30)
    <3> QED
      BY <3>1, SMTT(30)
  <2>2. g # {} => Writers = {}
    <3>1. g # {} => count >= Bias(wait_list)
      BY <1>4, <1>5, <1>7, <1>9
    <3> QED
      BY <3>1, CountMeans, ZenonT(30)
  <2>3. Types'
    BY <1>1, <1>9, <1>10, <1>12, ZenonT(30) DEF IInv, Types, Locs, WriteLocs
  <2>4. /\ Readers' = Readers \cup g /\ Writers' = Writers /\ Wfail' = Wfail /\ Rfail' = Rfail
        /\ QueuedR' = QueuedR \ g /\ QueuedW' = W
    BY <1>1, <1>9, <1>12, ZenonT(60)
    DEF IInv, Types, Readers, Rfail, Writers, Wfail, QueuedR, QueuedW, ReadLocs, WriteLocs, W
  <2>5. Cardinality(Rfail)' = Cardinality(Rfail) + 0
    BY <2>4, Sizes
  <2>6. g \cap Readers = {} /\ QueuedR \subseteq Tasks
    BY <1>9, QueuedApart, ZenonT(30) DEF QueuedR
  <2> QED
    BY <1>9, <1>12, <2>1, <2>2, <2>3, <2>4, <2>5, <2>6, Grants, ZenonT(30)
<1> QED
  BY <1>1, <1>11, <1>12, ZenonT(30)

-----------------------------------------------------------------------------
(* The invariant holds at the start, with the semaphore free. *)
LEMMA InitIInv == Init => IInv
<1> SUFFICES ASSUME Init PROVE IInv
  BY ZenonT(30)
<1>1. Types
  BY DEF Init, Types, Locs, Modes
<1>2. /\ Readers = {} /\ Rfail = {} /\ Writers = {} /\ Wfail = {}
      /\ QueuedR = {} /\ QueuedW = {}
  BY ZenonT(30) DEF Init, Readers, Rfail, Writers, Wfail, QueuedR, QueuedW, ReadLocs, WriteLocs
<1>3. ListOf(wait_list, {}, {})
  BY DEF Init, ListOf
<1>4. count = Trying + WRITE_BIAS * Writing + Bias(wait_list)
  <2>1. Trying = 0 /\ Writing = 0
    BY <1>2, FS_EmptySet DEF Trying, Writing
  <2>2. WRITE_BIAS * 0 = 0
    BY NumbersHold DEF Numbers
  <2> QED
    BY <2>1, <2>2 DEF Init, Bias
<1> QED
  BY <1>1, <1>2, <1>3, <1>4, ZenonT(30) DEF IInv, Excludes

(* Every step keeps it, and is a step of the reader/writer lock or none. *)
LEMMA StepGood ==
  ASSUME IInv, [Next]_vars
  PROVE  Good
<1>1. CASE UNCHANGED vars
  <2>1. Types'
    BY <1>1, SMTT(30) DEF IInv, Types, vars
  <2>2. UNCHANGED sets
    BY <1>1, ZenonT(30) DEF vars, sets, Readers, Rfail, Writers, Wfail, QueuedR, QueuedW
  <2> QED
    BY <1>1, <2>1, <2>2, Silent, ZenonT(30) DEF vars
<1>2. ASSUME NEW t \in Tasks, DownRead(t) \/ DownWrite(t) PROVE Good
  BY <1>2, DownReadGood, DownWriteGood, ZenonT(30)
<1>3. ASSUME NEW t \in Tasks, UpRead(t) \/ UpWrite(t) \/ DowngradeWrite(t) PROVE Good
  BY <1>3, UpReadGood, UpWriteGood, DowngradeWriteGood, ZenonT(30)
<1>4. ASSUME NEW t \in Tasks, Kill(t) \/ StrayWakeup(t) PROVE Good
  BY <1>4, KillGood, StrayWakeupGood, ZenonT(30)
<1>5. ASSUME NEW t \in Tasks, Slow(t) PROVE Good
  BY <1>5, ReadQueueGood, ReadLoopGood, ReadCheckGood, ReadScheduledGood, ReadSignalGood,
     WriteUndoGood, WriteQueueGood, WriteCheckGood, WriteScheduledGood, WriteReadGood,
     WriteTryGood, WriteSignalGood, WakeGood, WakeUpQGood, ZenonT(30)
  DEF Slow
<1> QED
  BY <1>1, <1>2, <1>3, <1>4, <1>5, ZenonT(30) DEF Next

(* The fast paths and slow paths of rwsem.h and rwsem-xadd.c keep          *)
(* sem->count exact: each holder and each task between the two paths is in *)
(* it once, each writer with its bias, the list with the waiting bias; so  *)
(* it stays within its bounds whatever the tasks do.                       *)
THEOREM CountIsExact == Spec => []CountExact
<1>1. IInv => CountExact
  <2> SUFFICES ASSUME IInv PROVE CountExact
    BY ZenonT(30)
  <2> DEFINE N == Cardinality(Tasks)
  <2>1. /\ Trying \in Nat /\ Writing \in Nat /\ N \in Nat
        /\ Trying <= N /\ Writing <= N
    BY Sizes
  <2>2. /\ B \in Nat /\ WAITING_BIAS = -B /\ WRITE_BIAS \in Int /\ WRITE_BIAS <= 0
        /\ Bias(wait_list) \in {0, -B}
    BY NumbersHold DEF Numbers, Bias
  <2> HIDE DEF N
  <2>3. /\ WRITE_BIAS * Writing \in Int /\ WRITE_BIAS * N \in Int
        /\ WRITE_BIAS * Writing <= 0 /\ WRITE_BIAS * N <= WRITE_BIAS * Writing
    <3>1. \A a \in Int, x, y \in Nat : a <= 0 /\ x <= y => a * y <= a * x /\ a * x <= 0
      <4> SUFFICES ASSUME NEW a \in Int, NEW x \in Nat, NEW y \in Nat, a <= 0, x <= y
                   PROVE  a * y <= a * x /\ a * x <= 0
        BY ZenonT(30)
      <4>1. a * y = a * x + a * (y - x) /\ a * x \in Int
        OBVIOUS
      <4>2. a * x <= 0
        OBVIOUS
      <4>3. a * (y - x) <= 0 /\ a * (y - x) \in Int
        <5>1. y - x \in Nat
          OBVIOUS
        <5>2. \A d \in Nat : a * d <= 0 /\ a * d \in Int
          OBVIOUS
        <5> QED
          BY <5>1, <5>2, ZenonT(30)
      <4> QED
        BY <4>1, <4>2, <4>3
    <3>2. \A a, x \in Int : a * x \in Int
      OBVIOUS
    <3> QED
      BY <2>1, <2>2, <3>1, <3>2
  <2>4. count = Trying + WRITE_BIAS * Writing + Bias(wait_list) /\ count \in Int
    BY ZenonT(30) DEF IInv, Types
  <2>5. count \in WRITE_BIAS * N + WAITING_BIAS .. N
    BY <2>1, <2>2, <2>3, <2>4, SMTT(30)
  <2>6. TypeOK
    BY <2>5, ZenonT(30) DEF IInv, Types, ListOf, Entries, TypeOK, N
  <2> QED
    BY <2>4, <2>6, ZenonT(30) DEF CountExact, Trying, Writing, Bias, Rfail, Wfail
<1>2. IInv /\ [Next]_vars => IInv'
  BY StepGood, ZenonT(30) DEF Good
<1> QED
  BY <1>1, <1>2, InitIInv, PTL DEF Spec

(* down_read(), down_write(), up_read(), up_write() and downgrade_write()  *)
(* implement the reader/writer lock of RWLock: a grant by                  *)
(* __rwsem_mark_wake() admits readers only while no writer is in, and      *)
(* rwsem_try_write_lock() and the fast path admit a writer only alone.     *)
THEOREM RwsemIsRWLock == Spec => ImplementsRWLock
<1>1. Init => Lock!Init
  BY ZenonT(30) DEF Init, Lock!Init, Readers, Writers, ReadLocs
<1>2. IInv /\ [Next]_vars => [Lock!Next]_<<Readers, Writers>>
  BY StepGood, ZenonT(30) DEF Good, LockStep
<1>3. IInv /\ [Next]_vars => IInv'
  BY StepGood, ZenonT(30) DEF Good
<1> QED
  BY <1>1, <1>2, <1>3, InitIInv, PTL DEF Spec, ImplementsRWLock, Lock!Spec

-----------------------------------------------------------------------------
(* Wakeups.  Somebody attends to the queue who is about to look at it, or  *)
(* is a queued writer that runs or that a wake_up_q() will make run.       *)
OnQ(t) == \E u \in Tasks : t \in wake_q[u]
Awake(t) == state[t] = "RUNNING" \/ OnQ(t)
Attends(t) ==
  \/ pc[t] \in {"rfail", "wfail", "wqueue", "wake", "wsignal", "wread", "wtry"}
  \/ pc[t] \in {"wcheck", "wsched"} /\ Awake(t)

(* The invariant of the wakeups, which needs that of the count: a queue    *)
(* that nobody keeps waiting is attended to, a queued writer tries with    *)
(* the count of a free lock only, and granted readers are or will be       *)
(* awake.                                                                  *)
Served == wait_list # <<>> /\ Readers = {} /\ Writers = {} => \E t \in Tasks : Attends(t)
SawFree == \A t \in Tasks : pc[t] = "wtry" => cnt[t] = WAITING_BIAS
GrantedAwake == \A t \in Tasks : pc[t] = "rsched" /\ ~task[t] => Awake(t)
WInv == Served /\ SawFree /\ GrantedAwake

(* __rwsem_mark_wake() wakes whom it grants the lock; with nobody granted, *)
(* no writer in the way and "ANY" it wakes the writer at the head.         *)
WakesOK(r, c, l, y, W) ==
  /\ r.granted \subseteq r.woken
  /\ r.granted = {} => r.count = c /\ r.list = l
  /\ y = "ANY" /\ r.granted = {} /\ ~(c < WAITING_BIAS) => \E h \in W : h \in r.woken

(* Every result of __rwsem_mark_wake() is like that. *)
LEMMA MarkWakes ==
  ASSUME NEW l, NEW R, NEW W, ListOf(l, R, W), l # <<>>, NEW c, NEW y,
         NEW r, IsMark(r, c, l, y)
  PROVE  WakesOK(r, c, l, y, W)
<1> DEFINE I == {j \in 1 .. Len(l) : l[j].type = "W"}
           i == IF I # {} THEN Min(I) ELSE 0
           n == IF i = 0 THEN Len(l) ELSE i - 1
           readers == {l[j].task : j \in 1 .. n}
           rest == SubSeq(l, n + 1, Len(l))
<1>0. l \in Seq(Entries) /\ Len(l) \in Nat /\ Len(l) # 0 /\ Head(l) = l[1]
  BY DEF ListOf
<1>1. i \in Nat /\ (i # 0 => i \in I)
  <2>1. I \subseteq Nat
    BY <1>0
  <2>2. CASE I # {}
    <3>1. Min(I) \in I
      BY <2>1, <2>2, MinExists, ZenonT(30)
    <3> QED
      BY <2>1, <2>2, <3>1, ZenonT(30)
  <2> QED
    BY <2>2
<1>2. r = IF n = 0 THEN
            [count |-> c, list |-> l, granted |-> {},
             woken |-> IF y = "ANY" THEN {Head(l).task} ELSE {}]
          ELSE IF Stolen(c, y) THEN
            [count |-> c, list |-> l, granted |-> {}, woken |-> {}]
          ELSE
            [count |-> c + n - (IF n = Len(l) THEN WAITING_BIAS ELSE 0),
             list |-> rest, granted |-> readers, woken |-> readers]
  BY ZenonT(30) DEF IsMark, MarkWake, FirstPos
<1>3. n \in Nat /\ (n = 0 => i = 1)
  <2> HIDE DEF i
  <2> QED
    BY <1>0, <1>1
<1>4. n = 0 => Head(l).task \in W
  <2> SUFFICES ASSUME n = 0 PROVE Head(l).task \in W
    BY ZenonT(30)
  <2>1. 1 \in 1 .. Len(l) /\ l[1].type = "W"
    <3> HIDE DEF i
    <3>1. i = 1
      BY <1>3, ZenonT(30)
    <3>2. i # 0
      BY <3>1
    <3> QED
      BY <1>1, <3>1, <3>2, ZenonT(30)
  <2>2. l[1].task \in (IF l[1].type = "R" THEN R ELSE W)
    BY <2>1, ZenonT(30) DEF ListOf
  <2>3. l[1].type # "R"
    BY <2>1
  <2> QED
    BY <1>0, <2>2, <2>3, ZenonT(30)
<1> HIDE DEF n
<1>5. CASE n = 0
  <2>1. r = [count |-> c, list |-> l, granted |-> {},
             woken |-> IF y = "ANY" THEN {Head(l).task} ELSE {}]
    BY <1>2, <1>5, ZenonT(30)
  <2>2. r.count = c /\ r.list = l /\ r.granted = {} /\ (y = "ANY" => r.woken = {Head(l).task})
    BY <2>1
  <2> QED
    BY <1>4, <1>5, <2>2, ZenonT(30) DEF WakesOK
<1>6. CASE n # 0 /\ Stolen(c, y)
  <2>1. r = [count |-> c, list |-> l, granted |-> {}, woken |-> {}]
    BY <1>2, <1>6, ZenonT(30)
  <2>2. r.count = c /\ r.list = l /\ r.granted = {} /\ c < WAITING_BIAS
    BY <1>6, <2>1, ZenonT(30) DEF Stolen
  <2> QED
    BY <2>2, ZenonT(30) DEF WakesOK
<1>7. CASE n # 0 /\ ~Stolen(c, y)
  <2>1. 1 \in 1 .. n
    BY <1>3, <1>7
  <2>2. readers # {}
    BY <2>1, ZenonT(30)
  <2>3. r = [count |-> c + n - (IF n = Len(l) THEN WAITING_BIAS ELSE 0),
             list |-> rest, granted |-> readers, woken |-> readers]
    BY <1>2, <1>7, ZenonT(30)
  <2> HIDE DEF readers, rest
  <2>4. r.granted = readers /\ r.woken = readers
    BY <2>3
  <2> QED
    BY <2>2, <2>4, ZenonT(30) DEF WakesOK
<1> QED
  BY <1>5, <1>6, <1>7, ZenonT(30)

-----------------------------------------------------------------------------
(* What no step of a task does to the others. *)
Keeps(t) ==
  /\ \A u \in Tasks : u # t =>
       /\ pc'[u] = pc[u] /\ cnt'[u] = cnt[u]
       /\ state[u] = "RUNNING" => state'[u] = "RUNNING"
       /\ task[u] /\ ~task'[u] => Awake(u)'
  /\ \A u \in Tasks : OnQ(u) => Awake(u)'
  /\ pc'[t] = "rsched" /\ ~task'[t] =>
       pc[t] = "rsched" /\ ~task[t] /\ (state[t] = "RUNNING" => state'[t] = "RUNNING")
  /\ pc'[t] = "wtry" => cnt'[t] = WAITING_BIAS

(* A step that takes no wakeup away keeps what is said about the tasks     *)
(* that are awake.                                                         *)
LEMMA KeptAwake ==
  ASSUME SawFree, GrantedAwake, NEW t \in Tasks, Keeps(t)
  PROVE  SawFree' /\ GrantedAwake'
<1>1. ASSUME NEW u \in Tasks, pc'[u] = "wtry" PROVE cnt'[u] = WAITING_BIAS
  BY <1>1, ZenonT(30) DEF Keeps, SawFree
<1>2. ASSUME NEW u \in Tasks, pc'[u] = "rsched", ~task'[u] PROVE Awake(u)'
  <2>1. CASE u = t
    <3>1. Awake(u)
      BY <1>2, <2>1, ZenonT(30) DEF Keeps, GrantedAwake
    <3> QED
      BY <1>2, <2>1, <3>1, ZenonT(30) DEF Keeps, Awake
  <2>2. CASE u # t
    <3>1. CASE task[u]
      BY <1>2, <2>2, <3>1, ZenonT(30) DEF Keeps
    <3>2. CASE ~task[u]
      <4>1. Awake(u)
        BY <1>2, <2>2, <3>2, ZenonT(30) DEF Keeps, GrantedAwake
      <4> QED
        BY <2>2, <4>1, ZenonT(30) DEF Keeps, Awake
    <3> QED
      BY <3>1, <3>2, ZenonT(30)
  <2> QED
    BY <2>1, <2>2, ZenonT(30)
<1>3. WAITING_BIAS' = WAITING_BIAS
  BY ZenonT(30) DEF WAITING_BIAS
<1> QED
  BY <1>1, <1>2, <1>3, ZenonT(30) DEF SawFree, GrantedAwake

(* A queue that was attended to still is. *)
LEMMA KeptServed ==
  ASSUME Served, NEW t \in Tasks, Keeps(t), wait_list' # <<>> => wait_list # <<>>,
         Readers' = {} /\ Writers' = {} => Readers = {} /\ Writers = {},
         Attends(t) => Attends(t)'
  PROVE  Served'
<1>1. ASSUME NEW u \in Tasks, u # t, Attends(u) PROVE Attends(u)'
  BY <1>1, ZenonT(30) DEF Keeps, Attends, Awake
<1> QED
  BY <1>1, ZenonT(30) DEF Served

(* Who is active will look at the queue. *)
LEMMA ServedActive ==
  Readers \cup Rfail \cup Writers \cup Wfail # {} => Served
BY ZenonT(30) DEF Served, Rfail, Wfail, Attends

(* While a task is active, there is one that holds the semaphore or        *)
(* attends to the queue.                                                   *)
LEMMA ServedActiveNext ==
  (Readers \cup Rfail \cup Writers \cup Wfail # {} => Served)'
BY ServedActive, PTL

(* The count when nobody is active. *)
LEMMA CountFree ==
  IInv /\ Readers \cup Rfail \cup Writers \cup Wfail = {}
    => count = Bias(wait_list) /\ Active(count) = 0
<1> SUFFICES ASSUME IInv, Readers \cup Rfail \cup Writers \cup Wfail = {}
             PROVE  count = Bias(wait_list) /\ Active(count) = 0
  BY ZenonT(30)
<1>1. Readers = {} /\ Rfail = {} /\ Writers = {} /\ Wfail = {}
  BY ZenonT(30)
<1>2. Trying = 0 /\ Writing = 0
  BY <1>1, FS_EmptySet DEF Trying, Writing
<1>3. WRITE_BIAS * 0 = 0 /\ Bias(wait_list) \in Int
  BY NumbersHold DEF Numbers, Bias
<1>4. Active(count) = 0
  BY <1>2, CountMeans
<1> QED
  BY <1>2, <1>3, <1>4 DEF IInv

(* With nobody active, the count is the waiting bias or 0. *)
LEMMA CountFreeNext ==
  (IInv /\ Readers \cup Rfail \cup Writers \cup Wfail = {}
    => count = Bias(wait_list) /\ Active(count) = 0)'
BY CountFree, PTL

(* Steps of t that mark and wake nobody. *)
OnlyOwn(t) ==
  /\ \A u \in Tasks : u # t =>
       pc'[u] = pc[u] /\ cnt'[u] = cnt[u] /\ state'[u] = state[u] /\ task'[u] = task[u]
  /\ wake_q' = wake_q
  /\ pc'[t] = "rsched" => task'[t]
  /\ pc'[t] = "wtry" => cnt'[t] = WAITING_BIAS

(* A step that changes only the state of its own task takes no wakeup      *)
(* away.                                                                   *)
LEMMA OwnKeeps ==
  ASSUME NEW t \in Tasks, OnlyOwn(t)
  PROVE  Keeps(t)
<1>1. \A u \in Tasks : OnQ(u) => Awake(u)'
  BY ZenonT(30) DEF OnlyOwn, OnQ, Awake
<1> QED
  BY <1>1, ZenonT(30) DEF OnlyOwn, Keeps

(* down_read(), down_read_trylock() *)
LEMMA DownReadWakes ==
  ASSUME IInv, WInv, IInv', NEW t \in Tasks, DownRead(t)
  PROVE  WInv'
<1>1. OnlyOwn(t)
  BY ZenonT(30) DEF DownRead, OnlyOwn, Goto, IInv, Types
<1>2. Keeps(t)
  BY <1>1, OwnKeeps, ZenonT(30)
<1>3. t \in Readers' \cup Rfail'
  BY ZenonT(30) DEF DownRead, Goto, IInv, Types, Readers, Rfail
<1> QED
  BY <1>2, <1>3, KeptAwake, ServedActiveNext, ZenonT(30) DEF WInv

(* down_write(), down_write_trylock() *)
LEMMA DownWriteWakes ==
  ASSUME IInv, WInv, IInv', NEW t \in Tasks, DownWrite(t)
  PROVE  WInv'
<1>1. OnlyOwn(t)
  BY ZenonT(30) DEF DownWrite, OnlyOwn, Goto, IInv, Types
<1>2. Keeps(t)
  BY <1>1, OwnKeeps, ZenonT(30)
<1>3. t \in Writers' \cup Wfail'
  BY ZenonT(30) DEF DownWrite, Goto, IInv, Types, Writers, Wfail
<1> QED
  BY <1>2, <1>3, KeptAwake, ServedActiveNext, ZenonT(30) DEF WInv

(* downgrade_write() *)
LEMMA DowngradeWriteWakes ==
  ASSUME IInv, WInv, IInv', NEW t \in Tasks, DowngradeWrite(t)
  PROVE  WInv'
<1>1. OnlyOwn(t)
  BY ZenonT(30) DEF DowngradeWrite, OnlyOwn, Goto, IInv, Types
<1>2. Keeps(t)
  BY <1>1, OwnKeeps, ZenonT(30)
<1>3. t \in Readers'
  BY ZenonT(30) DEF DowngradeWrite, Goto, IInv, Types, Readers
<1> QED
  BY <1>2, <1>3, KeptAwake, ServedActiveNext, ZenonT(30) DEF WInv

(* The last one out calls rwsem_wake(). *)
LEMMA LastOutWakes ==
  ASSUME IInv, WInv, IInv', NEW t \in Tasks, NEW k \in {1, 2}, NEW bias,
         bias = 1 - B * (k - 1), Up(t, bias)
  PROVE  WInv'
<1>1. OnlyOwn(t)
  BY ZenonT(30) DEF Up, OnlyOwn, Goto, IInv, Types
<1>2. Keeps(t)
  BY <1>1, OwnKeeps, ZenonT(30)
<1>3. Served'
  <2> SUFFICES ASSUME wait_list' # <<>>, (Readers \cup Rfail \cup Writers \cup Wfail)' = {}
               PROVE  Served'
    BY ServedActiveNext, ZenonT(30) DEF Served
  <2>1. count' = Bias(wait_list)'
    BY CountFreeNext, ZenonT(30)
  <2>2. count' = -B /\ B \in Nat /\ B > 0 /\ count \in Int
    BY <2>1, NumbersHold DEF Bias, Numbers, IInv, Types
  <2>3. count' = count - bias
    BY ZenonT(30) DEF Up
  <2>4. count = 1 - B * k
    BY <2>2, <2>3
  <2>5. 1 < B
    <3>1. Cardinality(Tasks) # 0
      BY RwsemAssumption, FS_EmptySet, ZenonT(30)
    <3> QED
      BY <2>2, <3>1, Sizes
  <2>6. Active(count) = 1
    BY <2>4, <2>5, LowHalf
  <2>7. pc'[t] = "wake"
    <3>1. count' < 0
      BY <2>2
    <3> QED
      BY <2>6, <3>1, ZenonT(30) DEF Up, Goto, IInv, Types
  <2> QED
    BY <2>7, ZenonT(30) DEF Served, Attends
<1> QED
  BY <1>2, <1>3, KeptAwake, ZenonT(30) DEF WInv

(* up_read() and up_write(): the last active task goes on to               *)
(* rwsem_wake().                                                           *)
LEMMA UpWakes ==
  ASSUME IInv, WInv, IInv', NEW t \in Tasks, UpRead(t) \/ UpWrite(t)
  PROVE  WInv'
<1>1. B \in Int /\ WRITE_BIAS = 1 - B
  BY NumbersHold DEF Numbers
<1>2. CASE UpRead(t)
  <2>1. 1 = 1 - B * (1 - 1)
    BY <1>1
  <2> QED
    BY <1>2, <2>1, LastOutWakes DEF UpRead
<1>3. CASE UpWrite(t)
  <2>1. WRITE_BIAS = 1 - B * (2 - 1)
    BY <1>1
  <2> QED
    BY <1>3, <2>1, LastOutWakes DEF UpWrite
<1> QED
  BY <1>2, <1>3, ZenonT(30)

(* Steps that leave the list and the holders alone. *)
LEMMA ReadLoopWakes ==
  ASSUME IInv, WInv, NEW t \in Tasks, ReadLoop(t)
  PROVE  WInv'
<1>1. OnlyOwn(t)
  BY ZenonT(30) DEF ReadLoop, OnlyOwn, Goto, SetState, IInv, Types
<1>2. Keeps(t)
  BY <1>1, OwnKeeps, ZenonT(30)
<1>3. wait_list' = wait_list /\ Readers' = Readers /\ Writers' = Writers
  BY ZenonT(30) DEF ReadLoop, At, Goto, SetState, IInv, Types, Readers, Writers, ReadLocs
<1>4. Attends(t) => Attends(t)'
  BY ZenonT(30) DEF ReadLoop, At, Goto, SetState, IInv, Types, Attends, Awake, OnQ
<1> QED
  BY <1>2, <1>3, <1>4, KeptAwake, KeptServed, ZenonT(30) DEF WInv

(* __rwsem_down_read_failed_common(): the reader looks at waiter.task. *)
LEMMA ReadCheckWakes ==
  ASSUME IInv, WInv, NEW t \in Tasks, ReadCheck(t)
  PROVE  WInv'
<1>1. OnlyOwn(t)
  BY ZenonT(30) DEF ReadCheck, OnlyOwn, Goto, SetState, Done, IInv, Types
<1>2. Keeps(t)
  BY <1>1, OwnKeeps, ZenonT(30)
<1>3. wait_list' = wait_list /\ Readers' = Readers /\ Writers' = Writers
  BY DEF ReadCheck, At, Goto, SetState, Done, IInv, Types, Readers, Writers, ReadLocs
<1>4. Attends(t) => Attends(t)'
  BY ZenonT(30) DEF ReadCheck, At, Goto, SetState, Done, IInv, Types, Attends, Awake, OnQ
<1> QED
  BY <1>2, <1>3, <1>4, KeptAwake, KeptServed, ZenonT(30) DEF WInv

(* The reader is back from schedule(). *)
LEMMA ReadScheduledWakes ==
  ASSUME IInv, WInv, NEW t \in Tasks, ReadScheduled(t)
  PROVE  WInv'
<1>1. OnlyOwn(t)
  BY ZenonT(30) DEF ReadScheduled, OnlyOwn, Goto, IInv, Types
<1>2. Keeps(t)
  BY <1>1, OwnKeeps, ZenonT(30)
<1>3. wait_list' = wait_list /\ Readers' = Readers /\ Writers' = Writers
  BY ZenonT(30) DEF ReadScheduled, At, Goto, IInv, Types, Readers, Writers, ReadLocs
<1>4. Attends(t) => Attends(t)'
  BY ZenonT(30) DEF ReadScheduled, At, Goto, IInv, Types, Attends, Awake, OnQ
<1> QED
  BY <1>2, <1>3, <1>4, KeptAwake, KeptServed, ZenonT(30) DEF WInv

(* The writer takes its active bias back. *)
LEMMA WriteUndoWakes ==
  ASSUME IInv, WInv, NEW t \in Tasks, WriteUndo(t)
  PROVE  WInv'
<1>1. OnlyOwn(t)
  BY ZenonT(30) DEF WriteUndo, OnlyOwn, Goto, IInv, Types
<1>2. Keeps(t)
  BY <1>1, OwnKeeps, ZenonT(30)
<1>3. wait_list' = wait_list /\ Readers' = Readers /\ Writers' = Writers
  BY ZenonT(30) DEF WriteUndo, At, Goto, IInv, Types, Readers, Writers, ReadLocs
<1>4. Attends(t) => Attends(t)'
  BY ZenonT(30) DEF WriteUndo, At, Goto, IInv, Types, Attends, Awake, OnQ
<1> QED
  BY <1>2, <1>3, <1>4, KeptAwake, KeptServed, ZenonT(30) DEF WInv

(* The writer goes on to sleep, unless it is killed. *)
LEMMA WriteCheckWakes ==
  ASSUME IInv, WInv, NEW t \in Tasks, WriteCheck(t)
  PROVE  WInv'
<1>1. OnlyOwn(t)
  BY ZenonT(30) DEF WriteCheck, OnlyOwn, Goto, IInv, Types
<1>2. Keeps(t)
  BY <1>1, OwnKeeps, ZenonT(30)
<1>3. wait_list' = wait_list /\ Readers' = Readers /\ Writers' = Writers
  BY ZenonT(30) DEF WriteCheck, At, Goto, IInv, Types, Readers, Writers, ReadLocs
<1>4. Attends(t) => Attends(t)'
  BY ZenonT(30) DEF WriteCheck, At, Goto, IInv, Types, Attends, Awake, OnQ
<1> QED
  BY <1>2, <1>3, <1>4, KeptAwake, KeptServed, ZenonT(30) DEF WInv

(* The writer is back from schedule(). *)
LEMMA WriteScheduledWakes ==
  ASSUME IInv, WInv, NEW t \in Tasks, WriteScheduled(t)
  PROVE  WInv'
<1>1. OnlyOwn(t)
  BY ZenonT(30) DEF WriteScheduled, OnlyOwn, Goto, SetState, IInv, Types
<1>2. Keeps(t)
  BY <1>1, OwnKeeps, ZenonT(30)
<1>3. wait_list' = wait_list /\ Readers' = Readers /\ Writers' = Writers
  BY ZenonT(30) DEF WriteScheduled, At, Goto, SetState, IInv, Types, Readers, Writers, ReadLocs
<1>4. Attends(t) => Attends(t)'
  BY ZenonT(30) DEF WriteScheduled, At, Goto, SetState, IInv, Types, Attends, Awake, OnQ
<1> QED
  BY <1>2, <1>3, <1>4, KeptAwake, KeptServed, ZenonT(30) DEF WInv

(* wake_up_q() *)
LEMMA WakeUpQWakes ==
  ASSUME IInv, WInv, NEW t \in Tasks, WakeUpQ(t)
  PROVE  WInv'
<1>1. /\ \A u \in Tasks : state[u] = "RUNNING" => state'[u] = "RUNNING"
      /\ UNCHANGED <<wait_list, task, pc, cnt>>
  BY ZenonT(30) DEF WakeUpQ, IInv, Types
<1>2. \A u \in Tasks : OnQ(u) => Awake(u)'
  BY ZenonT(30) DEF WakeUpQ, OnQ, Awake, IInv, Types
<1>3. Keeps(t)
  BY <1>1, <1>2, ZenonT(30) DEF Keeps, WInv, SawFree
<1>4. Readers' = Readers /\ Writers' = Writers /\ wait_list' = wait_list
  BY <1>1, ZenonT(30) DEF Readers, Writers
<1>5. Attends(t) => Attends(t)'
  BY <1>1, <1>2, ZenonT(30) DEF Attends, Awake
<1> QED
  BY <1>3, <1>4, <1>5, KeptAwake, KeptServed, ZenonT(30) DEF WInv

(* A fatal signal. *)
LEMMA KillWakes ==
  ASSUME IInv, WInv, NEW t \in Tasks, Kill(t)
  PROVE  WInv'
<1>1. /\ \A u \in Tasks : state[u] = "RUNNING" => state'[u] = "RUNNING"
      /\ UNCHANGED <<wait_list, task, pc, cnt>>
  BY ZenonT(30) DEF Kill, SetState, IInv, Types
<1>2. \A u \in Tasks : OnQ(u) => Awake(u)'
  BY ZenonT(30) DEF Kill, OnQ, Awake, IInv, Types
<1>3. Keeps(t)
  BY <1>1, <1>2, ZenonT(30) DEF Keeps, WInv, SawFree
<1>4. Readers' = Readers /\ Writers' = Writers /\ wait_list' = wait_list
  BY <1>1, ZenonT(30) DEF Readers, Writers
<1>5. Attends(t) => Attends(t)'
  BY <1>1, <1>2, ZenonT(30) DEF Attends, Awake
<1> QED
  BY <1>3, <1>4, <1>5, KeptAwake, KeptServed, ZenonT(30) DEF WInv

(* A wakeup from elsewhere. *)
LEMMA StrayWakeupWakes ==
  ASSUME IInv, WInv, NEW t \in Tasks, StrayWakeup(t)
  PROVE  WInv'
<1>1. /\ \A u \in Tasks : state[u] = "RUNNING" => state'[u] = "RUNNING"
      /\ UNCHANGED <<wait_list, task, pc, cnt>>
  BY ZenonT(30) DEF StrayWakeup, SetState, IInv, Types
<1>2. \A u \in Tasks : OnQ(u) => Awake(u)'
  BY ZenonT(30) DEF StrayWakeup, OnQ, Awake, IInv, Types
<1>3. Keeps(t)
  BY <1>1, <1>2, ZenonT(30) DEF Keeps, WInv, SawFree
<1>4. Readers' = Readers /\ Writers' = Writers /\ wait_list' = wait_list
  BY <1>1, ZenonT(30) DEF Readers, Writers
<1>5. Attends(t) => Attends(t)'
  BY <1>1, <1>2, ZenonT(30) DEF Attends, Awake
<1> QED
  BY <1>3, <1>4, <1>5, KeptAwake, KeptServed, ZenonT(30) DEF WInv

(* A killed reader leaves the list. *)
LEMMA ReadSignalWakes ==
  ASSUME IInv, WInv, NEW t \in Tasks, ReadSignal(t)
  PROVE  WInv'
<1>1. OnlyOwn(t)
  BY ZenonT(30) DEF ReadSignal, OnlyOwn, SetState, Done, IInv, Types
<1>2. Keeps(t)
  BY <1>1, OwnKeeps, ZenonT(30)
<1>3. Readers' = Readers /\ Writers' = Writers
  BY DEF ReadSignal, At, SetState, Done, IInv, Types, Readers, Writers, ReadLocs
<1>4. wait_list' # <<>> => wait_list # <<>>
  <2>1. CASE ~task[t]
    BY <2>1, ZenonT(30) DEF ReadSignal
  <2>2. CASE task[t]
    <3>1. t \in QueuedR
      BY <2>2, ZenonT(30) DEF ReadSignal, At, QueuedR, ReadLocs
    <3> QED
      BY <3>1, LeftCount, ZenonT(30)
  <2> QED
    BY <2>1, <2>2, ZenonT(30)
<1>5. ~Attends(t)
  BY ZenonT(30) DEF ReadSignal, At, Attends
<1> QED
  BY <1>2, <1>3, <1>4, <1>5, KeptAwake, KeptServed, ZenonT(30) DEF WInv

(* The writer reads sem->count. *)
LEMMA WriteReadWakes ==
  ASSUME IInv, WInv, IInv', NEW t \in Tasks, WriteRead(t)
  PROVE  WInv'
<1>0. t \in QueuedW
  BY ZenonT(30) DEF WriteRead, At, QueuedW, WriteLocs
<1>1. wait_list # <<>>
  BY <1>0, LeftCount, ZenonT(30)
<1>2. Active(count) = 0 => count = WAITING_BIAS
  <2>1. Active(count) = 0 => Readers \cup Rfail \cup Writers \cup Wfail = {}
    BY CountMeans, ZenonT(30)
  <2> QED
    BY <1>1, <2>1, CountFree, ZenonT(30) DEF Bias
<1>3. OnlyOwn(t)
  <2>1. pc'[t] = "wtry" => cnt'[t] = WAITING_BIAS
    BY <1>2, ZenonT(30) DEF WriteRead, Goto, IInv, Types
  <2> QED
    BY <2>1, ZenonT(30) DEF WriteRead, OnlyOwn, Goto, IInv, Types
<1>4. Keeps(t)
  BY <1>3, OwnKeeps, ZenonT(30)
<1>5. Served'
  <2>1. CASE Active(count) = 0
    <3>1. pc'[t] = "wtry"
      BY <2>1, ZenonT(30) DEF WriteRead, Goto, IInv, Types
    <3> QED
      BY <3>1, ZenonT(30) DEF Served, Attends
  <2>2. CASE Active(count) # 0
    <3>1. Readers \cup Rfail \cup Writers \cup Wfail # {}
      BY <2>2, CountFree, ZenonT(30)
    <3>2. Readers' = Readers /\ Rfail' = Rfail /\ Writers' = Writers /\ Wfail' = Wfail
      BY ZenonT(30) DEF WriteRead, At, Goto, IInv, Types, Readers, Rfail, Writers, Wfail, ReadLocs
    <3> QED
      BY <3>1, <3>2, ServedActiveNext, ZenonT(30)
  <2> QED
    BY <2>1, <2>2, ZenonT(30)
<1> QED
  BY <1>4, <1>5, KeptAwake, ZenonT(30) DEF WInv

(* rwsem_try_write_lock() *)
LEMMA WriteTryWakes ==
  ASSUME IInv, WInv, IInv', NEW t \in Tasks, WriteTry(t)
  PROVE  WInv'
<1>1. OnlyOwn(t)
  BY ZenonT(30) DEF WriteTry, OnlyOwn, Goto, Done, SetState, IInv, Types
<1>2. Keeps(t)
  BY <1>1, OwnKeeps, ZenonT(30)
<1>3. CASE TryWriteLock(cnt[t], count)
  <2>1. t \in Writers'
    BY <1>3, ZenonT(30) DEF WriteTry, Done, IInv, Types, Writers
  <2> QED
    BY <1>2, <2>1, KeptAwake, ServedActiveNext, ZenonT(30) DEF WInv
<1>4. CASE ~TryWriteLock(cnt[t], count)
  <2>1. t \in QueuedW /\ cnt[t] = WAITING_BIAS
    BY ZenonT(30) DEF WriteTry, At, QueuedW, WriteLocs, WInv, SawFree
  <2>2. wait_list # <<>>
    BY <2>1, LeftCount, ZenonT(30)
  <2>3. count # Bias(wait_list)
    BY <1>4, <2>1, <2>2, ZenonT(30) DEF TryWriteLock, Bias
  <2>4. Readers \cup Rfail \cup Writers \cup Wfail # {}
    BY <2>3, CountFree, ZenonT(30)
  <2>5. Readers' = Readers /\ Rfail' = Rfail /\ Writers' = Writers /\ Wfail' = Wfail
    BY <1>4, ZenonT(30)
    DEF WriteTry, At, Goto, IInv, Types, Readers, Rfail, Writers, Wfail, ReadLocs
  <2> QED
    BY <1>2, <2>4, <2>5, KeptAwake, ServedActiveNext, ZenonT(30) DEF WInv
<1> QED
  BY <1>3, <1>4, ZenonT(30)

(* wake_q_add() of the tasks of S to the empty wake_q of t. *)
Marks(t, S) == wake_q[t] = {} /\ wake_q' = [wake_q EXCEPT ![t] = Unmarked(S)]

(* wake_q_add() of the tasks of S leaves those on a wake_q there. *)
LEMMA MarksWake ==
  ASSUME Types, NEW t \in Tasks, NEW S, Marks(t, S)
  PROVE  /\ \A u \in Tasks : OnQ(u) => OnQ(u)'
         /\ \A u \in S : u \in Tasks => OnQ(u)'
<1>1. wake_q'[t] = Unmarked(S) /\ \A v \in Tasks : v # t => wake_q'[v] = wake_q[v]
  BY ZenonT(30) DEF Types, Marks
<1>2. ASSUME NEW u \in Tasks, OnQ(u) PROVE OnQ(u)'
  <2>1. PICK v \in Tasks : u \in wake_q[v]
    BY <1>2, ZenonT(30) DEF OnQ
  <2>2. v # t
    BY <2>1, ZenonT(30) DEF Marks
  <2> QED
    BY <1>1, <2>1, <2>2, ZenonT(30) DEF OnQ
<1>3. ASSUME NEW u \in S, u \in Tasks PROVE OnQ(u)'
  <2>1. CASE OnQ(u)
    BY <1>2, <1>3, <2>1, ZenonT(30)
  <2>2. CASE ~OnQ(u)
    <3>1. u \in Unmarked(S)
      BY <2>2, ZenonT(30) DEF Unmarked, OnQ
    <3> QED
      BY <1>1, <3>1, ZenonT(30) DEF OnQ
  <2> QED
    BY <2>1, <2>2, ZenonT(30)
<1> QED
  BY <1>2, <1>3, ZenonT(30)

(* Steps of t that grant the lock to the readers g. *)
OnlyGrants(t, g) ==
  /\ \A u \in Tasks : u # t =>
       /\ pc'[u] = pc[u] /\ cnt'[u] = cnt[u] /\ state'[u] = state[u]
       /\ task[u] /\ ~task'[u] => u \in g
  /\ pc'[t] \notin {"rsched", "wtry"}

(* A grant comes with its wakeup. *)
LEMMA GrantKeeps ==
  ASSUME Types, NEW t \in Tasks, NEW S, Marks(t, S), NEW g, g \subseteq S, OnlyGrants(t, g)
  PROVE  Keeps(t)
<1>1. /\ \A u \in Tasks : OnQ(u) => Awake(u)'
      /\ \A u \in g : u \in Tasks => Awake(u)'
  BY MarksWake, ZenonT(30) DEF Awake
<1> QED
  BY <1>1, ZenonT(30) DEF Keeps, OnlyGrants

(* After __rwsem_mark_wake() a reader has the lock, or someone is active,  *)
(* or the writer at the head is marked.                                    *)
LEMMA MarkServes ==
  ASSUME Types, IInv', NEW t \in Tasks, NEW r, Marks(t, r.woken),
         NEW c, NEW l, NEW W, WakesOK(r, c, l, "ANY", W), W \subseteq QueuedW',
         count' = r.count, r.granted \subseteq Readers'
  PROVE  Served'
<1> SUFFICES ASSUME wait_list' # <<>>, (Readers \cup Rfail \cup Writers \cup Wfail)' = {}
             PROVE  Served'
  BY ServedActiveNext, ZenonT(30) DEF Served
<1>1. count' = WAITING_BIAS
  BY CountFreeNext, ZenonT(30) DEF Bias, WAITING_BIAS
<1>2. r.granted = {}
  BY ZenonT(30)
<1>3. c = WAITING_BIAS
  BY <1>1, <1>2, ZenonT(30) DEF WakesOK
<1>4. ~(c < WAITING_BIAS)
  BY <1>3, NumbersHold DEF Numbers
<1>5. PICK h \in W : h \in r.woken
  BY <1>2, <1>4, ZenonT(30) DEF WakesOK
<1>6. h \in Tasks /\ pc'[h] \in WriteLocs
  BY ZenonT(30) DEF QueuedW
<1>7. OnQ(h)'
  BY <1>5, <1>6, MarksWake, ZenonT(30)
<1>8. Attends(h)'
  BY <1>6, <1>7, ZenonT(30) DEF Attends, Awake, WriteLocs
<1> QED
  BY <1>6, <1>8, ZenonT(30) DEF Served

(* rwsem_wake() *)
LEMMA WakeWakes ==
  ASSUME IInv, WInv, IInv', NEW t \in Tasks, Wake(t)
  PROVE  WInv'
<1> DEFINE w == IF pc[t] = "wake" THEN "ANY" ELSE "READ_OWNED"
           r == IF wait_list = <<>> THEN NoWake(count, wait_list)
                ELSE MarkWake(count, wait_list, w)
<1>1. /\ pc[t] \in {"wake", "dwake"}
      /\ Marks(t, r.woken)
      /\ count' = r.count /\ wait_list' = r.list
      /\ task' = [u \in Tasks |-> task[u] /\ u \notin r.granted]
      /\ pc' = [pc EXCEPT ![t] = IF pc[t] = "wake" THEN "idle" ELSE "reading"]
      /\ UNCHANGED <<state, cnt>>
  BY ZenonT(30) DEF Wake, Apply, Goto, Marks
<1>2. wait_list = <<>> => r = NoWake(count, wait_list)
  BY ZenonT(30)
<1>3. wait_list # <<>> => IsMark(r, count, wait_list, w)
  BY ZenonT(30) DEF IsMark
<1>4. pc[t] = "wake" => w = "ANY"
  BY ZenonT(30)
<1> HIDE DEF r, w
<1>5. Types /\ ListOf(wait_list, QueuedR, QueuedW) /\ count \in Int
  BY ZenonT(30) DEF IInv, Types
<1>6. CASE wait_list = <<>>
  <2>1. r.granted = {} /\ r.list = <<>>
    BY <1>2, <1>6 DEF NoWake
  <2>2. OnlyGrants(t, r.granted)
    BY <1>1, <1>5, ZenonT(30) DEF OnlyGrants, Types
  <2>3. Keeps(t)
    <3>1. r.granted \subseteq r.woken
      BY <2>1, ZenonT(30)
    <3> QED
      BY <1>1, <1>5, <2>2, <3>1, GrantKeeps, ZenonT(30)
  <2>4. Served'
    BY <1>1, <2>1, ZenonT(30) DEF Served
  <2> QED
    BY <2>3, <2>4, KeptAwake, ZenonT(30) DEF WInv
<1>7. CASE wait_list # <<>>
  <2>1. WakesOK(r, count, wait_list, w, QueuedW)
    BY <1>3, <1>5, <1>7, MarkWakes, ZenonT(30)
  <2>2. MarkedOK(r, count, wait_list, w, QueuedR, QueuedW)
    BY <1>3, <1>5, <1>7, Marked, ZenonT(30)
  <2>3. r.granted \subseteq r.woken /\ r.granted \subseteq QueuedR
    BY <2>1, <2>2, ZenonT(30) DEF WakesOK, MarkedOK
  <2>4. OnlyGrants(t, r.granted)
    BY <1>1, <1>5, ZenonT(30) DEF OnlyGrants, Types
  <2>5. Keeps(t)
    BY <1>1, <1>5, <2>3, <2>4, GrantKeeps, ZenonT(30)
  <2>6. CASE pc[t] = "dwake"
    <3>1. t \in Readers'
      BY <1>1, <1>5, <2>6, ZenonT(30) DEF Types, Readers
    <3> QED
      BY <2>5, <3>1, KeptAwake, ServedActiveNext, ZenonT(30) DEF WInv
  <2>7. CASE pc[t] = "wake"
    <3>1. WakesOK(r, count, wait_list, "ANY", QueuedW)
      BY <1>4, <2>1, <2>7, ZenonT(30)
    <3>2. QueuedW \subseteq QueuedW' /\ r.granted \subseteq Readers'
      BY <1>1, <1>5, <2>3, <2>7, ZenonT(30) DEF Types, QueuedW, QueuedR, Readers, ReadLocs, WriteLocs
    <3>3. Served'
      BY <1>1, <1>5, <3>1, <3>2, MarkServes, ZenonT(30)
    <3> QED
      BY <2>5, <3>3, KeptAwake, ZenonT(30) DEF WInv
  <2> QED
    BY <1>1, <2>6, <2>7, ZenonT(30)
<1> QED
  BY <1>6, <1>7, ZenonT(30)

(* A killed writer leaves the list and passes its wakeup on. *)
LEMMA WriteSignalWakes ==
  ASSUME IInv, WInv, IInv', NEW t \in Tasks, WriteSignal(t)
  PROVE  WInv'
<1> DEFINE l == Leave(t)
           r == IF l = <<>> THEN NoWake(CountAfterLeave(t), l) ELSE MarkWake(count, l, "ANY")
           W == QueuedW \ {t}
<1>1. /\ pc[t] = "wsignal"
      /\ Marks(t, r.woken)
      /\ count' = r.count /\ wait_list' = r.list
      /\ task' = [u \in Tasks |-> task[u] /\ u \notin r.granted]
      /\ pc' = [pc EXCEPT ![t] = "idle"]
      /\ state' = [state EXCEPT ![t] = "RUNNING"]
      /\ cnt' = cnt
  BY ZenonT(30) DEF WriteSignal, Apply, Done, SetState, At, Marks
<1>2. t \in QueuedW /\ QueuedR \ {t} = QueuedR
  BY <1>1, ZenonT(30) DEF QueuedR, QueuedW, ReadLocs, WriteLocs
<1>3. ListOf(l, QueuedR, W)
  BY <1>2, LeftCount, ZenonT(30)
<1>4. /\ l = <<>> => r = NoWake(CountAfterLeave(t), l)
      /\ l # <<>> => IsMark(r, count, l, "ANY")
  BY ZenonT(30) DEF IsMark
<1> HIDE DEF r, l
<1>5. Types /\ count \in Int
  BY ZenonT(30) DEF IInv, Types
<1>6. OnlyGrants(t, r.granted)
  BY <1>1, <1>5, ZenonT(30) DEF OnlyGrants, Types
<1>7. CASE l = <<>>
  <2>1. r.granted = {} /\ r.list = <<>>
    BY <1>4, <1>7 DEF NoWake
  <2>2. r.granted \subseteq r.woken
    BY <2>1, ZenonT(30)
  <2>3. Keeps(t)
    BY <1>1, <1>5, <1>6, <2>2, GrantKeeps, ZenonT(30)
  <2>4. Served'
    BY <1>1, <2>1, ZenonT(30) DEF Served
  <2> QED
    BY <2>3, <2>4, KeptAwake, ZenonT(30) DEF WInv
<1>8. CASE l # <<>>
  <2> HIDE DEF W
  <2>1. WakesOK(r, count, l, "ANY", W)
    BY <1>3, <1>4, <1>8, MarkWakes, ZenonT(30)
  <2>2. MarkedOK(r, count, l, "ANY", QueuedR, W)
    BY <1>3, <1>4, <1>5, <1>8, Marked, ZenonT(30)
  <2>3. r.granted \subseteq r.woken /\ r.granted \subseteq QueuedR
    BY <2>1, <2>2, ZenonT(30) DEF WakesOK, MarkedOK
  <2>4. Keeps(t)
    BY <1>1, <1>5, <1>6, <2>3, GrantKeeps, ZenonT(30)
  <2>5. W \subseteq QueuedW' /\ r.granted \subseteq Readers'
    BY <1>1, <1>5, <2>3, ZenonT(30) DEF Types, QueuedW, QueuedR, Readers, ReadLocs, WriteLocs, W
  <2>6. Served'
    BY <1>1, <1>5, <2>1, <2>5, MarkServes, ZenonT(30)
  <2> QED
    BY <2>4, <2>6, KeptAwake, ZenonT(30) DEF WInv
<1> QED
  BY <1>7, <1>8, ZenonT(30)

(* list_add_tail() of t, which is not queued yet. *)
LEMMA JoinedQueue ==
  ASSUME IInv, NEW t \in Tasks, t \notin QueuedR, t \notin QueuedW
  PROVE  /\ ListOf(Append(wait_list, Waiter(t, "R")), QueuedR \cup {t}, QueuedW)
         /\ ListOf(Append(wait_list, Waiter(t, "W")), QueuedR, QueuedW \cup {t})
         /\ \A y \in {"R", "W"} : Append(wait_list, Waiter(t, y)) # <<>>
<1>1. ListOf(wait_list, QueuedR, QueuedW)
  BY ZenonT(30) DEF IInv
<1>2. ListOf(Append(wait_list, Waiter(t, "R")),
             IF "R" = "R" THEN QueuedR \cup {t} ELSE QueuedR,
             IF "R" = "W" THEN QueuedW \cup {t} ELSE QueuedW)
  BY <1>1, Joined, ZenonT(60)
<1>3. ListOf(Append(wait_list, Waiter(t, "W")),
             IF "W" = "R" THEN QueuedR \cup {t} ELSE QueuedR,
             IF "W" = "W" THEN QueuedW \cup {t} ELSE QueuedW)
  BY <1>1, Joined, ZenonT(60)
<1>4. ASSUME NEW y \in {"R", "W"} PROVE Append(wait_list, Waiter(t, y)) # <<>>
  <2>1. wait_list \in Seq(Entries) /\ Waiter(t, y) \in Entries
    BY <1>1, ZenonT(30) DEF ListOf, Waiter, Entries
  <2> QED
    BY <2>1
<1> QED
  BY <1>2, <1>3, <1>4, ZenonT(30)

(* A reader joins the wait list. *)
LEMMA ReadQueueWakes ==
  ASSUME IInv, WInv, IInv', NEW t \in Tasks, ReadQueue(t)
  PROVE  WInv'
<1> DEFINE l == Append(wait_list, Waiter(t, "R"))
           c == count - 1 + (IF wait_list = <<>> THEN WAITING_BIAS ELSE 0)
           p == c = WAITING_BIAS \/ (c > WAITING_BIAS /\ wait_list = <<>>)
           r == IF p THEN MarkWake(c, l, "ANY") ELSE NoWake(c, l)
           R == QueuedR \cup {t}
<1>1. /\ pc[t] = "rfail"
      /\ Marks(t, r.woken)
      /\ count' = r.count /\ wait_list' = r.list
      /\ task' = [u \in Tasks |-> (task[u] \/ u = t) /\ u \notin r.granted]
      /\ pc' = [pc EXCEPT ![t] = "rloop"]
      /\ UNCHANGED <<state, cnt>>
  BY ZenonT(60) DEF ReadQueue, Goto, At, Marks
<1>2. t \notin QueuedR /\ t \notin QueuedW
  BY <1>1, ZenonT(30) DEF QueuedR, QueuedW, ReadLocs, WriteLocs
<1>3. ListOf(l, R, QueuedW) /\ l # <<>>
  BY <1>2, JoinedQueue, ZenonT(30)
<1>4. Types /\ count \in Int /\ WAITING_BIAS \in Int /\ c \in Int
  BY NumbersHold DEF IInv, Types, Numbers
<1>5. /\ p => IsMark(r, c, l, "ANY")
      /\ ~p => r = NoWake(c, l) /\ c # WAITING_BIAS
  <2> HIDE DEF c, l
  <2> QED
    BY ZenonT(30) DEF IsMark
<1> HIDE DEF r, l, c, p
<1>6. OnlyGrants(t, r.granted)
  BY <1>1, <1>4, ZenonT(30) DEF OnlyGrants, Types
<1>7. CASE ~p
  <2>1. r.granted = {} /\ r.count = c
    BY <1>5, <1>7 DEF NoWake
  <2>2. r.granted \subseteq r.woken
    BY <2>1, ZenonT(30)
  <2>3. Keeps(t)
    BY <1>1, <1>4, <1>6, <2>2, GrantKeeps, ZenonT(30)
  <2>4. Served'
    <3>1. count' # WAITING_BIAS
      BY <1>1, <1>5, <1>7, <2>1, ZenonT(30)
    <3> QED
      BY <3>1, ServedActiveNext, CountFreeNext, ZenonT(30) DEF Served, Bias, WAITING_BIAS
  <2> QED
    BY <2>3, <2>4, KeptAwake, ZenonT(30) DEF WInv
<1>8. CASE p
  <2> HIDE DEF R
  <2>1. WakesOK(r, c, l, "ANY", QueuedW)
    BY <1>3, <1>5, <1>8, MarkWakes, ZenonT(30)
  <2>2. MarkedOK(r, c, l, "ANY", R, QueuedW)
    BY <1>3, <1>4, <1>5, <1>8, Marked, ZenonT(30)
  <2>3. r.granted \subseteq r.woken /\ r.granted \subseteq R
    BY <2>1, <2>2, ZenonT(30) DEF WakesOK, MarkedOK
  <2>4. Keeps(t)
    BY <1>1, <1>4, <1>6, <2>3, GrantKeeps, ZenonT(30)
  <2>5. QueuedW \subseteq QueuedW' /\ r.granted \subseteq Readers'
    BY <1>1, <1>4, <2>3, ZenonT(30) DEF Types, QueuedW, QueuedR, Readers, ReadLocs, WriteLocs, R
  <2>6. Served'
    BY <1>1, <1>4, <2>1, <2>5, MarkServes, ZenonT(30)
  <2> QED
    BY <2>4, <2>6, KeptAwake, ZenonT(30) DEF WInv
<1> QED
  BY <1>7, <1>8, ZenonT(30)

(* A writer joins the wait list. *)
LEMMA WriteQueueWakes ==
  ASSUME IInv, WInv, IInv', NEW t \in Tasks, WriteQueue(t)
  PROVE  WInv'
<1> DEFINE l == Append(wait_list, Waiter(t, "W"))
           c == IF wait_list = <<>> THEN count + WAITING_BIAS ELSE count
           p == wait_list # <<>> /\ c > WAITING_BIAS
           r == IF p THEN MarkWake(c, l, "READERS") ELSE NoWake(c, l)
           W == QueuedW \cup {t}
           woken == [u \in Tasks |-> IF u \in Unmarked(r.woken) THEN "RUNNING" ELSE state[u]]
<1>1. /\ pc[t] = "wqueue"
      /\ UNCHANGED <<cnt, wake_q>>
      /\ \/ /\ state' = woken /\ task' = task
            /\ pc' = [pc EXCEPT ![t] = "writing"]
         \/ /\ ~TryWriteLock(c, r.count)
            /\ count' = r.count /\ wait_list' = r.list
            /\ state' = [woken EXCEPT ![t] = mode[t]]
            /\ task' = [u \in Tasks |-> task[u] /\ u \notin r.granted]
            /\ pc' = [pc EXCEPT ![t] = "wcheck"]
  BY ZenonT(30) DEF WriteQueue, Goto, At, Done
<1>2. t \notin QueuedR /\ t \notin QueuedW
  BY <1>1, ZenonT(30) DEF QueuedR, QueuedW, ReadLocs, WriteLocs
<1>3. ListOf(l, QueuedR, W) /\ l # <<>>
  BY <1>2, JoinedQueue, ZenonT(30)
<1>4. Types /\ count \in Int /\ WAITING_BIAS \in Int /\ c \in Int
  BY NumbersHold DEF IInv, Types, Numbers
<1>5. /\ p => IsMark(r, c, l, "READERS")
      /\ ~p => r = NoWake(c, l)
  <2> HIDE DEF c, l
  <2> QED
    BY ZenonT(30) DEF IsMark
<1>6. p => c # WAITING_BIAS
  <2> HIDE DEF c
  <2> QED
    BY <1>4
<1> HIDE DEF r, l, c, p, W
<1>7. /\ \A u \in r.granted : u \in r.woken /\ u \in QueuedR
      /\ r.granted = {} => r.count = c
  <2>1. CASE ~p
    <3>1. r.granted = {} /\ r.count = c
      BY <1>5, <2>1 DEF NoWake
    <3> QED
      BY <3>1, ZenonT(30)
  <2>2. CASE p
    <3>1. WakesOK(r, c, l, "READERS", W)
      BY <1>3, <1>5, <2>2, MarkWakes, ZenonT(30)
    <3>2. MarkedOK(r, c, l, "READERS", QueuedR, W)
      BY <1>3, <1>4, <1>5, <2>2, Marked, ZenonT(30)
    <3> QED
      BY <3>1, <3>2, ZenonT(30) DEF WakesOK, MarkedOK
  <2> QED
    BY <2>1, <2>2, ZenonT(30)
<1>8. /\ \A u \in Tasks : state[u] = "RUNNING" => woken[u] = "RUNNING"
      /\ \A u \in Tasks : u \in r.woken => woken[u] = "RUNNING" \/ OnQ(u)
      /\ DOMAIN woken = Tasks
  BY ZenonT(30) DEF Unmarked, OnQ
<1> HIDE DEF woken
<1>9. /\ \A u \in Tasks : u # t => state'[u] = woken[u] /\ pc'[u] = pc[u] /\ cnt'[u] = cnt[u]
      /\ \A u \in Tasks : u # t /\ task[u] /\ ~task'[u] => u \in r.granted
      /\ pc'[t] \in {"writing", "wcheck"}
  BY <1>1, <1>4, <1>8, ZenonT(30) DEF Types
<1>10. \A u \in Tasks : OnQ(u) => OnQ(u)'
  BY <1>1, ZenonT(30) DEF OnQ
<1>11. Keeps(t)
  <2>1. ASSUME NEW u \in Tasks, u # t
        PROVE  /\ pc'[u] = pc[u] /\ cnt'[u] = cnt[u]
               /\ state[u] = "RUNNING" => state'[u] = "RUNNING"
               /\ task[u] /\ ~task'[u] => Awake(u)'
    BY <1>7, <1>8, <1>9, <1>10, <2>1, ZenonT(30) DEF Awake
  <2> QED
    BY <1>9, <1>10, <2>1, ZenonT(30) DEF Keeps, Awake
<1>12. Served'
  <2>1. CASE pc' = [pc EXCEPT ![t] = "writing"]
    <3>1. t \in Writers'
      BY <1>4, <2>1, ZenonT(30) DEF Types, Writers
    <3> QED
      BY <3>1, ServedActiveNext, ZenonT(30)
  <2>2. CASE /\ ~TryWriteLock(c, r.count)
             /\ count' = r.count /\ wait_list' = r.list
             /\ task' = [u \in Tasks |-> task[u] /\ u \notin r.granted]
             /\ pc' = [pc EXCEPT ![t] = "wcheck"]
    <3> SUFFICES ASSUME wait_list' # <<>>, (Readers \cup Rfail \cup Writers \cup Wfail)' = {}
                 PROVE  FALSE
      BY ServedActiveNext, ZenonT(30) DEF Served
    <3>1. r.count = WAITING_BIAS
      BY <2>2, CountFreeNext, ZenonT(30) DEF Bias, WAITING_BIAS
    <3>2. r.granted \subseteq Readers'
      BY <1>1, <1>4, <1>7, <2>2, ZenonT(30) DEF Types, QueuedR, Readers, ReadLocs
    <3>3. r.count = c
      BY <1>7, <3>2, ZenonT(30)
    <3> QED
      BY <2>2, <3>1, <3>3, ZenonT(30) DEF TryWriteLock
  <2> QED
    BY <1>1, <2>1, <2>2, ZenonT(30)
<1> QED
  BY <1>11, <1>12, KeptAwake, ZenonT(30) DEF WInv

(* Every step keeps the invariant about wakeups. *)
LEMMA StepWakes ==
  ASSUME IInv, WInv, IInv', [Next]_vars
  PROVE  WInv'
<1>1. CASE UNCHANGED vars
  BY <1>1, ZenonT(30) DEF vars, WInv, Served, SawFree, GrantedAwake, Readers, Writers, Attends, Awake, OnQ
<1>2. ASSUME NEW t \in Tasks, DownRead(t) \/ DownWrite(t) PROVE WInv'
  BY <1>2, DownReadWakes, DownWriteWakes, ZenonT(30)
<1>3. ASSUME NEW t \in Tasks, UpRead(t) \/ UpWrite(t) \/ DowngradeWrite(t) PROVE WInv'
  BY <1>3, UpWakes, DowngradeWriteWakes, ZenonT(30)
<1>4. ASSUME NEW t \in Tasks, Kill(t) \/ StrayWakeup(t) PROVE WInv'
  BY <1>4, KillWakes, StrayWakeupWakes, ZenonT(30)
<1>5. ASSUME NEW t \in Tasks, Slow(t) PROVE WInv'
  BY <1>5, ReadQueueWakes, ReadLoopWakes, ReadCheckWakes, ReadScheduledWakes, ReadSignalWakes,
     WriteUndoWakes, WriteQueueWakes, WriteCheckWakes, WriteScheduledWakes, WriteReadWakes,
     WriteTryWakes, WriteSignalWakes, WakeWakes, WakeUpQWakes, ZenonT(30)
  DEF Slow
<1> QED
  BY <1>1, <1>2, <1>3, <1>4, <1>5, ZenonT(30) DEF Next

(* The slow paths lose no wakeup: while tasks are queued and nobody holds  *)
(* the semaphore, somebody is about to look at the queue or a queued       *)
(* writer is awake, because up_read() and up_write() call rwsem_wake() as  *)
(* the last active task, a woken writer that finds a task active leaves    *)
(* the wakeup to it, and a killed writer passes its wakeup on; and a       *)
(* reader is granted the semaphore only together with its wakeup.          *)
THEOREM RwsemLosesNoWakeup == Spec => []NoLostWakeup
<1>1. Init => WInv
  BY ZenonT(30) DEF Init, WInv, Served, SawFree, GrantedAwake
<1>2. IInv /\ [Next]_vars => IInv'
  BY StepGood, ZenonT(30) DEF Good
<1>3. IInv /\ WInv /\ IInv' /\ [Next]_vars => WInv'
  BY StepWakes, ZenonT(30)
<1>4. WInv => NoLostWakeup
  <2> SUFFICES ASSUME WInv PROVE NoLostWakeup
    BY ZenonT(30)
  <2>1. ASSUME NEW t \in Tasks, Attends(t) PROVE \E u \in Tasks : Moving(u)
    BY <2>1, ZenonT(30) DEF Attends, Awake, OnQ, Moving
  <2> QED
    BY <2>1, ZenonT(30) DEF WInv, Served, GrantedAwake, Awake, OnQ, NoLostWakeup
<1> QED
  BY <1>1, <1>2, <1>3, <1>4, InitIInv, PTL DEF Spec
=============================================================================
