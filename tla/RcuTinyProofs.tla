---------------------------- MODULE RcuTinyProofs ----------------------------
(***************************************************************************)
(* Proofs about RcuTiny, for any sets of callbacks.                        *)
(***************************************************************************)
EXTENDS RcuTiny, List, TLAPS, WellFoundedInduction

(* Every non-empty set of natural numbers has a least element. *)
LEMMA MinExists ==
  ASSUME NEW I, I \subseteq Nat, I # {}
  PROVE  /\ Min(I) \in I
         /\ \A j \in I : Min(I) <= j
<1> DEFINE R == OpToRel(<, Nat)
<1>1. IsWellFoundedOn(R, Nat)
  BY NatLessThanWellFounded, ZenonT(30)
<1>2. \A j, k \in Nat : j < k => <<j, k>> \in R
  BY DEF OpToRel
<1> HIDE DEF R
<1>3. PICK k \in I : \A j \in I : ~ (<<j, k>> \in R)
  BY <1>1, WFMin, ZenonT(30)
<1>4. ASSUME NEW j \in I PROVE k <= j
  <2>1. j \in Nat /\ k \in Nat
    OBVIOUS
  <2>2. ~ (j < k)
    BY <1>2, <1>3, <2>1, ZenonT(30)
  <2> QED
    BY <2>1, <2>2
<1> QED
  BY <1>4, ZenonT(30) DEF Min

(* The pointer p, with the next fields in m, leads through the callbacks   *)
(* of s, in that order, and ends there.                                    *)
Chain(m, p, s) ==
  /\ s \in Seq(Callbacks)
  /\ \A i, j \in 1 .. Len(s) : s[i] = s[j] => i = j
  /\ p = IF s = <<>> THEN NULL ELSE s[1]
  /\ \A i \in 1 .. Len(s) : m[s[i]] = IF i = Len(s) THEN NULL ELSE s[i + 1]

On(s) == {s[i] : i \in 1 .. Len(s)}

(* Where a pointer to the end of the first n callbacks of s points. *)
EndOf(f, s, n) == IF n = 0 THEN f ELSE s[n]

Ready(o, s, n) == \A i \in 1 .. n : o[s[i]] = {}

(* The list of flavour f is s, and its first n callbacks are done. *)
ListIs(f, s, n) ==
  /\ Chain(mem, mem[f], s)
  /\ n \in 0 .. Len(s)
  /\ donetail[f] = EndOf(f, s, n)
  /\ curtail[f] = EndOf(f, s, Len(s))
  /\ Ready(old, s, n)

(* What is left of the local list of __rcu_process_callbacks(). *)
Cursor == IF softirq = "invoke" THEN list ELSE IF softirq = "run" THEN next ELSE NULL
LocalIs(g) == Chain(mem, Cursor, g) /\ Ready(old, g, Len(g))

(* The callbacks that are posted are those on the lists, each once. *)
Holds(s, g, p, r) ==
  \A f \in Flavours :
    /\ On(s[f]) \cup (IF r = f THEN On(g) ELSE {}) = p \cap CallbacksOf(f)
    /\ On(s[f]) \cap On(g) = {}

Shape(s, n, g) ==
  /\ \A f \in Flavours : ListIs(f, s[f], n[f])
  /\ LocalIs(g)
  /\ Holds(s, g, posted, rcp)

(* The inductive invariant.  Critical sections are where they may be, a    *)
(* callback waits only for sections that have not ended, both lists are    *)
(* chains on which the done part waits for nothing, so is the local list,  *)
(* and together they hold what was posted, each callback once.             *)
Contexts ==
  /\ mode = "user" => NoSection("task")
  /\ softirq # "none" => <<"task", "bh">> \notin rd
  /\ softirq \notin {"before", "other", "run"} => NoSection("softirq")
  /\ ~hardirq => NoSection("hardirq")
  /\ <<"hardirq", "bh">> \notin rd
Waiting == \A c \in Callbacks : old[c] \subseteq Inside(FlavourOf(c))
Lists ==
  \E s \in [Flavours -> Seq(Callbacks)], n \in [Flavours -> Nat], g \in Seq(Callbacks) :
    Shape(s, n, g)

IInv == TypeOK /\ Contexts /\ Waiting /\ Lists

-----------------------------------------------------------------------------
(* Chains. *)
LEMMA EmptyLen ==
  ASSUME NEW S, NEW s \in Seq(S)
  PROVE  s = <<>> <=> Len(s) = 0
OBVIOUS

(* NULL is the chain of no callbacks. *)
LEMMA ChainEmpty ==
  ASSUME NEW m
  PROVE  Chain(m, NULL, <<>>) /\ On(<<>>) = {}
BY DEF Chain, On

(* A chain is NULL exactly if no callback is on it. *)
LEMMA ChainNull ==
  ASSUME NEW m, NEW p, NEW s, Chain(m, p, s)
  PROVE  /\ p = NULL <=> s = <<>>
         /\ On(s) \subseteq Callbacks
         /\ p # NULL => p \in On(s)
<1>1. s \in Seq(Callbacks) /\ Len(s) \in Nat /\ p = (IF s = <<>> THEN NULL ELSE s[1])
  BY DEF Chain
<1>2. On(s) \subseteq Callbacks
  BY <1>1 DEF On
<1>3. s # <<>> => 1 \in 1 .. Len(s)
  BY <1>1
<1>4. s # <<>> => s[1] \in On(s)
  BY <1>3, ZenonT(30) DEF On
<1>5. s # <<>> => s[1] # NULL
  BY <1>2, <1>4, RcuTinyAssumption, ZenonT(30)
<1> QED
  BY <1>1, <1>2, <1>4, <1>5, ZenonT(30)

(* Stores elsewhere do not change a chain. *)
LEMMA ChainFrame ==
  ASSUME NEW m, NEW k, NEW p, NEW s, Chain(m, p, s), \A c \in On(s) : k[c] = m[c]
  PROVE  Chain(k, p, s)
<1>1. \A i \in 1 .. Len(s) : k[s[i]] = m[s[i]]
  BY ZenonT(30) DEF On
<1> QED
  BY <1>1, ZenonT(30) DEF Chain

(* The pointers that the code follows lead to the callbacks of the chain   *)
(* and to no other.                                                        *)
LEMMA ChainHangs ==
  ASSUME NEW p, NEW s, Chain(mem, p, s)
  PROVE  HangOn(p) = On(s)
<1>0. /\ s \in Seq(Callbacks) /\ Len(s) \in Nat
      /\ p = IF s = <<>> THEN NULL ELSE s[1]
      /\ \A i \in 1 .. Len(s) : mem[s[i]] = IF i = Len(s) THEN NULL ELSE s[i + 1]
  BY DEF Chain
<1>1. On(s) \subseteq Callbacks /\ p \in On(s) \cup {NULL}
  BY ChainNull, ZenonT(30)
<1>2. \A d \in On(s) : mem[d] \in On(s) \cup {NULL}
  <2> SUFFICES ASSUME NEW i \in 1 .. Len(s) PROVE mem[s[i]] \in On(s) \cup {NULL}
    BY ZenonT(30) DEF On
  <2>1. i # Len(s) => i + 1 \in 1 .. Len(s)
    BY <1>0
  <2> QED
    BY <1>0, <2>1, ZenonT(30) DEF On
<1>3. HangOn(p) \subseteq On(s)
  BY <1>1, <1>2, ZenonT(30) DEF HangOn
<1>4. ASSUME NEW S \in SUBSET Callbacks, p \in S \cup {NULL},
             \A d \in S : mem[d] \in S \cup {NULL}
      PROVE  On(s) \subseteq S
  <2> DEFINE I == {i \in 1 .. Len(s) : s[i] \notin S}
  <2> SUFFICES ASSUME I # {} PROVE FALSE
    BY ZenonT(30) DEF On
  <2>1. I \subseteq Nat
    BY <1>0
  <2>2. PICK k \in I : \A j \in I : k <= j
    BY <2>1, MinExists, ZenonT(30)
  <2>3. k \in 1 .. Len(s) /\ s[k] \notin S
    BY <2>2, ZenonT(30)
  <2>4. s[k] \in Callbacks /\ s[k] # NULL
    BY <1>1, <2>3, RcuTinyAssumption, ZenonT(30) DEF On
  <2>5. k # 1
    <3> SUFFICES ASSUME k = 1 PROVE FALSE
      BY ZenonT(30)
    <3>1. s # <<>>
      BY <1>0, <2>3
    <3> QED
      BY <1>0, <1>4, <2>3, <2>4, <3>1, ZenonT(30)
  <2>6. k - 1 \in 1 .. Len(s) /\ k - 1 # Len(s) /\ (k - 1) + 1 = k /\ ~ (k <= k - 1)
    BY <1>0, <2>3, <2>5
  <2>7. k - 1 \notin I
    BY <2>2, <2>6, ZenonT(30)
  <2>8. s[k - 1] \in S
    BY <2>6, <2>7, ZenonT(30)
  <2>9. mem[s[k - 1]] = s[k]
    BY <1>0, <2>6, ZenonT(30)
  <2> QED
    BY <1>4, <2>3, <2>4, <2>8, <2>9, ZenonT(30)
<1>5. On(s) \subseteq HangOn(p)
  BY <1>1, <1>4, ZenonT(30) DEF HangOn
<1> QED
  BY <1>3, <1>5, ZenonT(30)

(* __call_rcu(): the stores that add c behind the chain s at the list head *)
(* f, and the chain a that they make.                                      *)
Memories == [Locations -> Callbacks \cup {NULL}]
Adds(m, k, f, s, c, a) ==
  /\ m \in Memories /\ f \in Flavours /\ Chain(m, m[f], s)
  /\ c \in Callbacks /\ c \notin On(s)
  /\ k = [m EXCEPT ![c] = NULL, ![EndOf(f, s, Len(s))] = c]
  /\ a = Append(s, c)
Added(k, f, s, c, a) ==
  /\ Chain(k, k[f], a)
  /\ On(a) = On(s) \cup {c}
  /\ EndOf(f, a, Len(a)) = c

(* __call_rcu() writes the callback through curtail: one more at the end. *)
LEMMA ChainAppend ==
  ASSUME NEW m, NEW k, NEW f, NEW s, NEW c, NEW a, Adds(m, k, f, s, c, a)
  PROVE  Added(k, f, s, c, a)
<1> DEFINE e == EndOf(f, s, Len(s))
           n == Len(s)
<1>a. /\ m \in Memories /\ f \in Flavours /\ Chain(m, m[f], s)
      /\ c \in Callbacks /\ c \notin On(s)
  BY ZenonT(30) DEF Adds
<1>0. /\ s \in Seq(Callbacks) /\ n \in Nat
      /\ \A i, j \in 1 .. n : s[i] = s[j] => i = j
      /\ m[f] = IF s = <<>> THEN NULL ELSE s[1]
      /\ \A i \in 1 .. n : m[s[i]] = IF i = n THEN NULL ELSE s[i + 1]
  BY <1>a DEF Chain
<1>1. /\ a \in Seq(Callbacks) /\ Len(a) = n + 1
      /\ \A i \in 1 .. n : a[i] = s[i]
      /\ a[n + 1] = c
  BY <1>0, <1>a DEF Adds
<1>2. f \in Locations /\ c \in Locations /\ f \notin Callbacks /\ f # c
  BY <1>a, RcuTinyAssumption, ZenonT(30) DEF Locations
<1>3. \A i \in 1 .. n : s[i] \in Callbacks /\ s[i] \in Locations /\ s[i] # c /\ s[i] # f
  <2>1. \A i \in 1 .. n : s[i] \in Callbacks
    BY <1>0
  <2>2. \A i \in 1 .. n : s[i] # c
    BY <1>a, ZenonT(30) DEF On
  <2> QED
    BY <1>2, <2>1, <2>2, ZenonT(30) DEF Locations
<1>4. e \in Locations /\ e # c /\ (n = 0 => e = f) /\ (n # 0 => e = s[n] /\ e # f)
  <2>1. n # 0 => n \in 1 .. n
    BY <1>0
  <2> QED
    BY <1>2, <1>3, <2>1, ZenonT(30) DEF EndOf
<1> HIDE DEF e, n
<1>5. k[e] = c /\ k[c] = NULL /\ \A x \in Locations : x # e /\ x # c => k[x] = m[x]
  BY <1>2, <1>4, <1>a, ZenonT(30) DEF e, n, Adds, Memories
<1>6. 1 .. n + 1 = 1 .. n \cup {n + 1} /\ n + 1 \notin 1 .. n
  BY <1>0
<1>7. \A i, j \in 1 .. n + 1 : a[i] = a[j] => i = j
  <2>1. \A i \in 1 .. n : a[i] = s[i] /\ a[i] # a[n + 1]
    BY <1>1, <1>3, ZenonT(30)
  <2>2. \A i, j \in 1 .. n : a[i] = a[j] => i = j
    <3> SUFFICES ASSUME NEW i \in 1 .. n, NEW j \in 1 .. n, a[i] = a[j] PROVE i = j
      BY ZenonT(30)
    <3>1. s[i] = s[j]
      BY <2>1, ZenonT(30)
    <3> QED
      BY <1>0, <3>1, ZenonT(30)
  <2>3. \A i \in 1 .. n + 1 : i = n + 1 \/ i \in 1 .. n
    BY <1>6, ZenonT(30)
  <2> QED
    BY <2>1, <2>2, <2>3, ZenonT(30)
<1>8. k[f] = a[1] /\ a # <<>>
  <2>1. CASE n = 0
    <3>0. n + 1 = 1
      BY <2>1
    <3>1. k[f] = c /\ a[1] = c /\ Len(a) = 1
      BY <1>1, <1>4, <1>5, <2>1, <3>0, ZenonT(30)
    <3> QED
      BY <1>1, <3>0, <3>1, EmptyLen
  <2>2. CASE n # 0
    <3>1. 1 \in 1 .. n /\ s # <<>>
      BY <1>0, <2>2 DEF n
    <3>2. k[f] = m[f]
      BY <1>2, <1>4, <1>5, <2>2, ZenonT(30)
    <3>3. k[f] = a[1]
      BY <1>0, <1>1, <3>1, <3>2, ZenonT(30)
    <3>4. Len(a) # 0
      BY <1>0, <1>1
    <3> QED
      BY <1>1, <3>3, <3>4
  <2> QED
    BY <2>1, <2>2, ZenonT(30)
<1>9. ASSUME NEW i \in 1 .. n + 1
      PROVE  k[a[i]] = IF i = n + 1 THEN NULL ELSE a[i + 1]
  <2>1. CASE i = n + 1
    BY <1>1, <1>5, <2>1, ZenonT(30)
  <2>2. CASE i = n /\ n # 0
    <3>1. i \in 1 .. n /\ i # n + 1 /\ a[i] = s[n]
      BY <1>0, <1>1, <2>2
    <3> QED
      BY <1>1, <1>4, <1>5, <2>2, <3>1, ZenonT(30)
  <2>3. CASE i # n + 1 /\ i # n
    <3>1. i \in 1 .. n /\ i + 1 \in 1 .. n /\ n \in 1 .. n /\ n # 0
      BY <1>0, <2>3
    <3>2. s[i] # s[n]
      BY <1>0, <2>3, <3>1, ZenonT(30)
    <3>3. k[s[i]] = m[s[i]]
      BY <1>3, <1>4, <1>5, <3>1, <3>2, ZenonT(30)
    <3>4. m[s[i]] = s[i + 1] /\ a[i] = s[i] /\ a[i + 1] = s[i + 1]
      BY <1>0, <1>1, <2>3, <3>1, ZenonT(30)
    <3> QED
      BY <2>3, <3>3, <3>4, ZenonT(30)
  <2>4. i = n => n # 0
    BY <1>0
  <2> QED
    BY <2>1, <2>2, <2>3, <2>4, ZenonT(30)
<1>10. Chain(k, k[f], a)
  BY <1>1, <1>7, <1>8, <1>9, ZenonT(30) DEF Chain
<1>11. On(a) = On(s) \cup {c}
  <2>1. On(a) = {a[i] : i \in 1 .. n + 1}
    BY <1>1, ZenonT(30) DEF On
  <2>2. On(s) = {s[i] : i \in 1 .. n}
    BY ZenonT(30) DEF On, n
  <2> QED
    BY <1>1, <1>6, <2>1, <2>2
<1>12. EndOf(f, a, Len(a)) = c
  <2>1. Len(a) # 0
    BY <1>0, <1>1
  <2> QED
    BY <1>1, <2>1, ZenonT(30) DEF EndOf
<1> QED
  BY <1>10, <1>11, <1>12, ZenonT(30) DEF Added

(* The stores that cut the chain s at f behind its first n callbacks: g is *)
(* what is taken off, r what stays.                                        *)
Cuts(m, k, f, s, n, g, r) ==
  /\ m \in Memories /\ f \in Flavours /\ Chain(m, m[f], s)
  /\ n \in 1 .. Len(s)
  /\ k = [m EXCEPT ![f] = m[s[n]], ![s[n]] = NULL]
  /\ g = SubSeq(s, 1, n) /\ r = SubSeq(s, n + 1, Len(s))
Parted(m, k, f, s, n, g, r) ==
  /\ g \in Seq(Callbacks) /\ r \in Seq(Callbacks)
  /\ Chain(k, m[f], g)
  /\ Chain(k, k[f], r)
  /\ On(s) = On(g) \cup On(r)
  /\ On(g) \cap On(r) = {}
  /\ Len(g) = n
  /\ \A i \in 1 .. n : g[i] = s[i]
  /\ EndOf(f, r, Len(r)) = IF n = Len(s) THEN f ELSE s[Len(s)]

(* rcu_process_callbacks() cuts the list at donetail: the done part is     *)
(* the local list, the rest stays.                                         *)
LEMMA ChainSplit ==
  ASSUME NEW m, NEW k, NEW f, NEW s, NEW n, NEW g, NEW r, Cuts(m, k, f, s, n, g, r)
  PROVE  Parted(m, k, f, s, n, g, r)
<1> DEFINE l == Len(s)
<1>a. /\ m \in Memories /\ f \in Flavours /\ Chain(m, m[f], s)
      /\ n \in 1 .. Len(s)
  BY ZenonT(30) DEF Cuts
<1>0. /\ s \in Seq(Callbacks) /\ l \in Nat /\ n \in Nat
      /\ \A i, j \in 1 .. l : s[i] = s[j] => i = j
      /\ m[f] = IF s = <<>> THEN NULL ELSE s[1]
      /\ \A i \in 1 .. l : m[s[i]] = IF i = l THEN NULL ELSE s[i + 1]
  BY <1>a DEF Chain
<1>b. s \in Seq(Callbacks) /\ n \in 1 .. Len(s)
      /\ g = SubSeq(s, 1, n) /\ r = SubSeq(s, n + 1, Len(s))
  BY <1>0, <1>a, ZenonT(30) DEF Cuts
<1>1. /\ g \in Seq(Callbacks) /\ Len(g) = n
      /\ \A i \in 1 .. n : g[i] = s[i]
  BY <1>b
<1>2. /\ r \in Seq(Callbacks) /\ Len(r) = l - n
      /\ \A i \in 1 .. l - n : r[i] = s[n + i]
  BY <1>b
<1>3. f \in Locations /\ f \notin Callbacks
  BY <1>a, RcuTinyAssumption, ZenonT(30) DEF Locations
<1>4. \A i \in 1 .. l : s[i] \in Locations /\ s[i] # f
  <2>1. \A i \in 1 .. l : s[i] \in Callbacks
    BY <1>0
  <2> QED
    BY <1>3, <2>1, ZenonT(30) DEF Locations
<1>5. n \in 1 .. l
  BY <1>a, ZenonT(30)
<1> HIDE DEF l
<1>6. k[f] = m[s[n]] /\ k[s[n]] = NULL
      /\ \A x \in Locations : x # f /\ x # s[n] => k[x] = m[x]
  BY <1>3, <1>4, <1>5, <1>a, ZenonT(30) DEF Cuts, Memories
<1>7. \A i \in 1 .. l : i # n => k[s[i]] = IF i = l THEN NULL ELSE s[i + 1]
  <2> SUFFICES ASSUME NEW i \in 1 .. l, i # n
               PROVE  k[s[i]] = IF i = l THEN NULL ELSE s[i + 1]
    BY ZenonT(30)
  <2>1. s[i] \in Locations /\ s[i] # f /\ s[i] # s[n]
    BY <1>0, <1>4, <1>5, ZenonT(30)
  <2>2. k[s[i]] = m[s[i]]
    BY <1>6, <2>1, ZenonT(30)
  <2> QED
    BY <1>0, <2>2, ZenonT(30)
<1>8. (\A i \in 1 .. n : i \in 1 .. l /\ (i # n => i # l /\ i + 1 \in 1 .. n))
      /\ 1 \in 1 .. n
  BY <1>0, <1>5
<1>9. \A i \in 1 .. l - n :
        /\ n + i \in 1 .. l /\ n + i \notin 1 .. n /\ n + i # n
        /\ n + i = l <=> i = l - n
        /\ i # l - n => i + 1 \in 1 .. l - n /\ (n + i) + 1 = n + (i + 1)
  BY <1>0, <1>5
<1>10. Chain(k, m[f], g)
  <2>1. \A i, j \in 1 .. n : g[i] = g[j] => i = j
    <3> SUFFICES ASSUME NEW i \in 1 .. n, NEW j \in 1 .. n, g[i] = g[j] PROVE i = j
      BY ZenonT(30)
    <3>1. s[i] = s[j] /\ i \in 1 .. l /\ j \in 1 .. l
      BY <1>1, <1>8, ZenonT(30)
    <3> QED
      BY <1>0, <3>1, ZenonT(30)
  <2>2. s # <<>> /\ g # <<>>
    <3>1. l # 0 /\ n # 0
      BY <1>0, <1>5
    <3> QED
      BY <1>0, <1>1, <3>1, EmptyLen, ZenonT(30) DEF l
  <2>3. m[f] = g[1]
    BY <1>0, <1>1, <1>8, <2>2, ZenonT(30)
  <2>4. \A i \in 1 .. n : k[g[i]] = IF i = n THEN NULL ELSE g[i + 1]
    BY <1>1, <1>6, <1>7, <1>8, ZenonT(30)
  <2>5. m[f] = IF g = <<>> THEN NULL ELSE g[1]
    BY <2>2, <2>3, ZenonT(30)
  <2>6. /\ g \in Seq(Callbacks)
        /\ \A i, j \in 1 .. Len(g) : g[i] = g[j] => i = j
        /\ \A i \in 1 .. Len(g) : k[g[i]] = IF i = Len(g) THEN NULL ELSE g[i + 1]
    BY <1>1, <2>1, <2>4
  <2> QED
    BY <2>5, <2>6 DEF Chain
<1>11. Chain(k, k[f], r)
  <2>1. \A i, j \in 1 .. l - n : r[i] = r[j] => i = j
    <3> SUFFICES ASSUME NEW i \in 1 .. l - n, NEW j \in 1 .. l - n, r[i] = r[j]
                 PROVE  i = j
      BY ZenonT(30)
    <3>0. s[n + i] = s[n + j] /\ n + i \in 1 .. l /\ n + j \in 1 .. l
      BY <1>2, <1>9, ZenonT(30)
    <3>1. n + i = n + j
      BY <1>0, <3>0, ZenonT(30)
    <3> QED
      BY <1>0, <3>1
  <2>2. k[f] = IF r = <<>> THEN NULL ELSE r[1]
    <3>1. CASE n = l
      <4>1. r = <<>>
        BY <1>0, <1>2, <3>1
      <4> QED
        BY <1>0, <1>5, <1>6, <3>1, <4>1, ZenonT(30)
    <3>2. CASE n # l
      <4>0. l - n # 0 /\ 1 \in 1 .. l - n
        BY <1>0, <1>5, <3>2
      <4>1. r # <<>> /\ 1 \in 1 .. l - n
        BY <1>2, <4>0, EmptyLen, ZenonT(30)
      <4> QED
        BY <1>0, <1>2, <1>5, <1>6, <3>2, <4>1, ZenonT(30)
    <3> QED
      BY <3>1, <3>2, ZenonT(30)
  <2>3. \A i \in 1 .. l - n : k[r[i]] = IF i = l - n THEN NULL ELSE r[i + 1]
    <3> SUFFICES ASSUME NEW i \in 1 .. l - n
                 PROVE  k[r[i]] = IF i = l - n THEN NULL ELSE r[i + 1]
      BY ZenonT(30)
    <3>1. k[r[i]] = IF n + i = l THEN NULL ELSE s[(n + i) + 1]
      BY <1>2, <1>7, <1>9, ZenonT(30)
    <3> QED
      BY <1>2, <1>9, <3>1, ZenonT(30)
  <2> QED
    BY <1>2, <2>1, <2>2, <2>3, ZenonT(30) DEF Chain
<1>12. On(s) = On(g) \cup On(r)
  <2>1. \A i \in 1 .. l : i \in 1 .. n \/ (i - n \in 1 .. l - n /\ n + (i - n) = i)
    BY <1>0
  <2>2. On(s) = {s[i] : i \in 1 .. l} /\ On(g) = {g[i] : i \in 1 .. n}
        /\ On(r) = {r[i] : i \in 1 .. l - n}
    BY <1>1, <1>2, ZenonT(30) DEF On, l
  <2>3. On(s) \subseteq On(g) \cup On(r)
    <3> SUFFICES ASSUME NEW i \in 1 .. l PROVE s[i] \in On(g) \cup On(r)
      BY <2>2, ZenonT(30)
    <3>1. CASE i \in 1 .. n
      BY <1>1, <2>2, <3>1, ZenonT(30)
    <3>2. CASE i - n \in 1 .. l - n /\ n + (i - n) = i
      <4>1. r[i - n] = s[i]
        BY <1>2, <3>2, ZenonT(30)
      <4> QED
        BY <2>2, <3>2, <4>1, ZenonT(30)
    <3> QED
      BY <2>1, <3>1, <3>2, ZenonT(30)
  <2>4. On(g) \subseteq On(s) /\ On(r) \subseteq On(s)
    <3>1. \A i \in 1 .. n : g[i] \in On(s)
      BY <1>1, <1>8, <2>2, ZenonT(30)
    <3>2. \A i \in 1 .. l - n : r[i] \in On(s)
      BY <1>2, <1>9, <2>2, ZenonT(30)
    <3> QED
      BY <2>2, <3>1, <3>2, ZenonT(30)
  <2> QED
    BY <2>3, <2>4, ZenonT(30)
<1>13. On(g) \cap On(r) = {}
  <2>1. On(g) = {g[i] : i \in 1 .. n} /\ On(r) = {r[i] : i \in 1 .. l - n}
    BY <1>1, <1>2, ZenonT(30) DEF On
  <2> SUFFICES ASSUME NEW i \in 1 .. n, NEW j \in 1 .. l - n, g[i] = r[j] PROVE FALSE
    BY <2>1, ZenonT(30)
  <2>2. s[i] = s[n + j] /\ i \in 1 .. l /\ n + j \in 1 .. l
    BY <1>1, <1>2, <1>8, <1>9, ZenonT(30)
  <2>3. i = n + j
    BY <1>0, <2>2, ZenonT(30)
  <2> QED
    BY <1>9, <2>3, ZenonT(30)
<1>14. EndOf(f, r, Len(r)) = IF n = Len(s) THEN f ELSE s[Len(s)]
  <2>1. CASE n = l
    <3>1. Len(r) = 0
      BY <1>0, <1>2, <2>1
    <3> QED
      BY <2>1, <3>1, ZenonT(30) DEF EndOf, l
  <2>2. CASE n # l
    <3>1. Len(r) # 0 /\ Len(r) = l - n /\ l - n \in 1 .. l - n /\ n + (l - n) = l
      BY <1>0, <1>2, <1>5, <2>2
    <3> QED
      BY <1>2, <2>2, <3>1, ZenonT(30) DEF EndOf, l
  <2> QED
    BY <2>1, <2>2, ZenonT(30)
<1> QED
  BY <1>1, <1>2, <1>10, <1>11, <1>12, <1>13, <1>14, ZenonT(30) DEF Parted

(* The first callback of a chain is taken off. *)
TakesOff(m, p, s, t) == Chain(m, p, s) /\ p # NULL /\ t = Tail(s)
TakenOff(m, p, s, t) ==
  /\ Chain(m, m[p], t)
  /\ On(s) = On(t) \cup {p}
  /\ p \notin On(t)
  /\ p = s[1]
  /\ Len(s) # 0
  /\ Len(t) + 1 = Len(s)
  /\ \A i \in 1 .. Len(t) : t[i] = s[i + 1]

(* The loop of rcu_process_callbacks() takes the first callback off the    *)
(* local list.                                                             *)
LEMMA ChainTail ==
  ASSUME NEW m, NEW p, NEW s, NEW t, TakesOff(m, p, s, t)
  PROVE  TakenOff(m, p, s, t)
<1> DEFINE l == Len(s)
<1>a. Chain(m, p, s) /\ p # NULL /\ t = Tail(s)
  BY ZenonT(30) DEF TakesOff
<1>0. /\ s \in Seq(Callbacks) /\ l \in Nat
      /\ \A i, j \in 1 .. l : s[i] = s[j] => i = j
      /\ p = IF s = <<>> THEN NULL ELSE s[1]
      /\ \A i \in 1 .. l : m[s[i]] = IF i = l THEN NULL ELSE s[i + 1]
  BY <1>a DEF Chain
<1>1. s # <<>> /\ l # 0 /\ p = s[1]
  BY <1>0, <1>a
<1>2. /\ t \in Seq(Callbacks) /\ Len(t) = l - 1
      /\ \A i \in 1 .. l - 1 : t[i] = s[i + 1]
  BY <1>0, <1>1, <1>a
<1> HIDE DEF l
<1>3. /\ 1 \in 1 .. l
      /\ \A i \in 1 .. l - 1 :
           /\ i + 1 \in 1 .. l /\ i + 1 # 1
           /\ i + 1 = l <=> i = l - 1
           /\ i # l - 1 => i + 1 \in 1 .. l - 1
      /\ \A i \in 1 .. l : i = 1 \/ (i - 1 \in 1 .. l - 1 /\ (i - 1) + 1 = i)
      /\ (l - 1) + 1 = l
  BY <1>0, <1>1
<1>4. Chain(m, m[p], t)
  <2>1. \A i, j \in 1 .. l - 1 : t[i] = t[j] => i = j
    <3> SUFFICES ASSUME NEW i \in 1 .. l - 1, NEW j \in 1 .. l - 1, t[i] = t[j]
                 PROVE  i = j
      BY ZenonT(30)
    <3>1. i + 1 = j + 1
      BY <1>0, <1>2, <1>3, ZenonT(30)
    <3> QED
      BY <3>1
  <2>2. m[p] = IF t = <<>> THEN NULL ELSE t[1]
    <3>1. CASE l = 1
      <4>1. t = <<>>
        BY <1>2, <3>1
      <4> QED
        BY <1>0, <1>1, <1>3, <3>1, <4>1, ZenonT(30)
    <3>2. CASE l # 1
      <4>1. t # <<>> /\ 1 \in 1 .. l - 1
        BY <1>0, <1>1, <1>2, <3>2
      <4> QED
        BY <1>0, <1>1, <1>2, <1>3, <3>2, <4>1, ZenonT(30)
    <3> QED
      BY <3>1, <3>2, ZenonT(30)
  <2>3. \A i \in 1 .. l - 1 : m[t[i]] = IF i = l - 1 THEN NULL ELSE t[i + 1]
    <3> SUFFICES ASSUME NEW i \in 1 .. l - 1
                 PROVE  m[t[i]] = IF i = l - 1 THEN NULL ELSE t[i + 1]
      BY ZenonT(30)
    <3>1. m[t[i]] = IF i + 1 = l THEN NULL ELSE s[(i + 1) + 1]
      BY <1>0, <1>2, <1>3, ZenonT(30)
    <3> QED
      BY <1>2, <1>3, <3>1, ZenonT(30)
  <2> QED
    BY <1>2, <2>1, <2>2, <2>3, ZenonT(30) DEF Chain
<1>5. On(s) = {s[i] : i \in 1 .. l} /\ On(t) = {t[i] : i \in 1 .. l - 1}
  BY <1>2, ZenonT(30) DEF On, l
<1>6. p \notin On(t)
  <2> SUFFICES ASSUME NEW i \in 1 .. l - 1, t[i] = p PROVE FALSE
    BY <1>5, ZenonT(30)
  <2> QED
    BY <1>0, <1>1, <1>2, <1>3, ZenonT(30)
<1>7. On(s) \subseteq On(t) \cup {p}
  <2> SUFFICES ASSUME NEW i \in 1 .. l PROVE s[i] \in On(t) \cup {p}
    BY <1>5, ZenonT(30)
  <2>1. CASE i = 1
    BY <1>1, <2>1, ZenonT(30)
  <2>2. CASE i - 1 \in 1 .. l - 1 /\ (i - 1) + 1 = i
    <3>1. t[i - 1] = s[i]
      BY <1>2, <2>2, ZenonT(30)
    <3> QED
      BY <1>5, <2>2, <3>1, ZenonT(30)
  <2> QED
    BY <1>3, <2>1, <2>2, ZenonT(30)
<1>8. On(t) \cup {p} \subseteq On(s)
  <2>1. \A i \in 1 .. l - 1 : t[i] \in On(s)
    BY <1>2, <1>3, <1>5, ZenonT(30)
  <2>2. p \in On(s)
    BY <1>1, <1>3, <1>5, ZenonT(30)
  <2> QED
    BY <1>5, <2>1, <2>2, ZenonT(30)
<1> QED
  BY <1>1, <1>2, <1>3, <1>4, <1>6, <1>7, <1>8, ZenonT(30) DEF TakenOff, l

(* The two flavours and their callbacks. *)
LEMMA Owners ==
  /\ \A c \in Callbacks : FlavourOf(c) \in Flavours /\ c \in CallbacksOf(FlavourOf(c))
  /\ \A f \in Flavours : CallbacksOf(f) \subseteq Callbacks
  /\ \A f \in Flavours : \A c \in CallbacksOf(f) : FlavourOf(c) = f
  /\ \A f, h \in Flavours : f # h => CallbacksOf(f) \cap CallbacksOf(h) = {}
BY RcuTinyAssumption DEF FlavourOf, CallbacksOf, Callbacks, Flavours

(* Callbacks that wait for nothing still do when they wait for less. *)
LEMMA ReadyFrame ==
  ASSUME NEW o, NEW q, NEW s, NEW n, Ready(o, s, n),
         \A i \in 1 .. n : q[s[i]] \subseteq o[s[i]]
  PROVE  Ready(q, s, n)
BY ZenonT(30) DEF Ready

(* Which callbacks are ready depends only on the sections that they wait   *)
(* for.                                                                    *)
LEMMA ReadySame ==
  ASSUME NEW o, NEW q, NEW s, NEW n \in Nat, n <= Len(s), Len(s) \in Nat,
         Ready(o, s, n), \A c \in On(s) : q[c] = o[c]
  PROVE  Ready(q, s, n)
<1>1. \A i \in 1 .. n : i \in 1 .. Len(s)
  OBVIOUS
<1>2. \A i \in 1 .. n : s[i] \in On(s)
  BY <1>1, ZenonT(30) DEF On
<1> QED
  BY <1>2, ZenonT(30) DEF Ready

-----------------------------------------------------------------------------
(* What every step needs to know of the chains. *)
LEMMA Known ==
  ASSUME TypeOK, NEW s \in [Flavours -> Seq(Callbacks)], NEW n \in [Flavours -> Nat],
         NEW g \in Seq(Callbacks), Shape(s, n, g)
  PROVE  /\ \A f \in Flavours : On(s[f]) \subseteq posted \cap CallbacksOf(f)
         /\ \A f \in Flavours : On(s[f]) \subseteq Callbacks
         /\ \A f \in Flavours : On(s[f]) \cap On(g) = {}
         /\ On(g) \subseteq posted \cap CallbacksOf(rcp)
         /\ Callbacks \subseteq Locations /\ Flavours \subseteq Locations
         /\ \A f \in Flavours : f \notin Callbacks
         /\ \A f, h \in Flavours : f # h => On(s[f]) \cap On(s[h]) = {}
<1>1. Holds(s, g, posted, rcp) /\ rcp \in Flavours
  BY ZenonT(30) DEF Shape, TypeOK
<1>2. \A f \in Flavours : On(s[f]) \subseteq posted \cap CallbacksOf(f)
  BY <1>1, ZenonT(30) DEF Holds
<1>3. \A f \in Flavours : On(s[f]) \subseteq Callbacks
  BY <1>2, Owners, ZenonT(30)
<1>4. \A f \in Flavours : On(s[f]) \cap On(g) = {}
  BY <1>1, ZenonT(30) DEF Holds
<1>5. On(g) \subseteq posted \cap CallbacksOf(rcp)
  BY <1>1, ZenonT(30) DEF Holds
<1>6. Callbacks \subseteq Locations /\ Flavours \subseteq Locations
      /\ \A f \in Flavours : f \notin Callbacks
  BY RcuTinyAssumption, ZenonT(30) DEF Locations
<1>7. \A f, h \in Flavours : f # h => On(s[f]) \cap On(s[h]) = {}
  BY <1>2, Owners, ZenonT(30)
<1> QED
  BY <1>2, <1>3, <1>4, <1>5, <1>6, <1>7, ZenonT(30)

(* The local list is empty when there is none. *)
LEMMA NoLocal ==
  ASSUME NEW s, NEW n, NEW g, Shape(s, n, g), Cursor = NULL
  PROVE  g = <<>> /\ On(g) = {}
<1>1. Chain(mem, Cursor, g)
  BY ZenonT(30) DEF Shape, LocalIs
<1>2. Cursor = NULL <=> g = <<>>
  BY <1>1, ChainNull
<1>3. g = <<>>
  BY <1>2, ZenonT(30)
<1> QED
  BY <1>3, ChainEmpty

(* Steps that leave the lists alone. *)
LEMMA Still ==
  ASSUME NEW s \in [Flavours -> Seq(Callbacks)], NEW n \in [Flavours -> Nat],
         NEW g \in Seq(Callbacks), Shape(s, n, g),
         UNCHANGED <<mem, donetail, curtail, posted, Cursor>>,
         rcp' = rcp \/ Cursor = NULL,
         \A c \in Callbacks : old'[c] \subseteq old[c]
  PROVE  Shape(s, n, g)'
<1>1. \A f \in Flavours : ListIs(f, s[f], n[f])'
  <2> SUFFICES ASSUME NEW f \in Flavours PROVE ListIs(f, s[f], n[f])'
    BY ZenonT(30)
  <2>1. ListIs(f, s[f], n[f])
    BY ZenonT(30) DEF Shape
  <2>2. \A i \in 1 .. n[f] : s[f][i] \in Callbacks
    BY <2>1 DEF ListIs
  <2>3. Ready(old', s[f], n[f])
    BY <2>1, <2>2, ReadyFrame, ZenonT(30) DEF ListIs
  <2> QED
    BY <2>1, <2>3, ZenonT(30) DEF ListIs
<1>2. LocalIs(g)'
  <2>1. LocalIs(g)
    BY ZenonT(30) DEF Shape
  <2>2. \A i \in 1 .. Len(g) : g[i] \in Callbacks
    OBVIOUS
  <2>3. Ready(old', g, Len(g))
    BY <2>1, <2>2, ReadyFrame, ZenonT(30) DEF LocalIs
  <2> QED
    BY <2>1, <2>3, ZenonT(30) DEF LocalIs
<1>3. Holds(s, g, posted, rcp)'
  <2>1. Holds(s, g, posted, rcp) /\ Chain(mem, Cursor, g)
    BY ZenonT(30) DEF Shape, LocalIs
  <2>2. CASE rcp' = rcp
    BY <2>1, <2>2, ZenonT(30) DEF Holds
  <2>3. CASE Cursor = NULL
    <3>1. On(g) = {}
      BY <2>3, NoLocal, ZenonT(30)
    <3> QED
      BY <2>1, <3>1, ZenonT(30) DEF Holds
  <2> QED
    BY <2>2, <2>3, ZenonT(30)
<1> QED
  BY <1>1, <1>2, <1>3, ZenonT(30) DEF Shape

(* A step that touches no list keeps what is said about the lists. *)
LEMMA StillLists ==
  ASSUME Lists, UNCHANGED <<mem, donetail, curtail, posted, Cursor>>,
         rcp' = rcp \/ Cursor = NULL,
         \A c \in Callbacks : old'[c] \subseteq old[c]
  PROVE  Lists'
<1>1. PICK s \in [Flavours -> Seq(Callbacks)], n \in [Flavours -> Nat],
           g \in Seq(Callbacks) : Shape(s, n, g)
  BY ZenonT(30) DEF Lists
<1>2. Shape(s, n, g)'
  BY <1>1, Still, ZenonT(30)
<1> QED
  BY <1>2, ZenonT(30) DEF Lists

(* A quiescent state makes all of a list done; it is reported only when    *)
(* nothing on the list waits for a critical section.                       *)
LEMMA QsLists ==
  ASSUME Lists, Waiting, NEW fs \in SUBSET Flavours, \A f \in fs : Inside(f) = {},
         Qs(fs), UNCHANGED <<mem, curtail, posted, Cursor, rcp, old>>
  PROVE  Lists'
<1>1. PICK s \in [Flavours -> Seq(Callbacks)], n \in [Flavours -> Nat],
           g \in Seq(Callbacks) : Shape(s, n, g)
  BY ZenonT(30) DEF Lists
<1>2. [f \in Flavours |-> IF f \in Quiescent(fs) THEN Len(s[f]) ELSE n[f]]
        \in [Flavours -> Nat]
  OBVIOUS
<1>3. PICK k \in [Flavours -> Nat] :
        \A f \in Flavours : k[f] = IF f \in Quiescent(fs) THEN Len(s[f]) ELSE n[f]
  BY <1>2, ZenonT(30)
<1>4. \A f \in Flavours : ListIs(f, s[f], k[f])'
  <2> SUFFICES ASSUME NEW f \in Flavours PROVE ListIs(f, s[f], k[f])'
    BY ZenonT(30)
  <2>1. ListIs(f, s[f], n[f]) /\ Chain(mem, mem[f], s[f])
    BY <1>1, ZenonT(30) DEF Shape, ListIs
  <2>2. CASE f \in Quiescent(fs)
    <3>1. Inside(f) = {} /\ donetail'[f] = curtail[f] /\ k[f] = Len(s[f])
      BY <1>3, <2>2, ZenonT(30) DEF Qs, Quiescent
    <3>2. On(s[f]) \subseteq posted \cap CallbacksOf(f)
      BY <1>1, ZenonT(30) DEF Shape, Holds
    <3>3. \A c \in On(s[f]) : c \in Callbacks /\ FlavourOf(c) = f
      BY <3>2, Owners, ZenonT(30)
    <3>4. \A c \in On(s[f]) : old[c] = {}
      BY <3>1, <3>3, ZenonT(30) DEF Waiting
    <3>5. Ready(old', s[f], Len(s[f]))
      BY <3>4, ZenonT(30) DEF Ready, On
    <3>6. Len(s[f]) \in 0 .. Len(s[f])
      <4>1. Len(s[f]) \in Nat
        OBVIOUS
      <4> QED
        BY <4>1
    <3> QED
      BY <2>1, <3>1, <3>5, <3>6, ZenonT(30) DEF ListIs
  <2>3. CASE f \notin Quiescent(fs)
    <3>1. donetail'[f] = donetail[f] /\ k[f] = n[f]
      BY <1>3, <2>3, ZenonT(30) DEF Qs
    <3> QED
      BY <2>1, <3>1, ZenonT(30) DEF ListIs
  <2> QED
    BY <2>2, <2>3, ZenonT(30)
<1>5. LocalIs(g)' /\ Holds(s, g, posted, rcp)'
  BY <1>1, ZenonT(30) DEF Shape, LocalIs, Holds
<1>6. Shape(s, k, g)'
  BY <1>4, <1>5, ZenonT(30) DEF Shape
<1> QED
  BY <1>6, ZenonT(30) DEF Lists

(* __call_rcu(): the list of the flavour grows by one at its end. *)
LEMMA CallLists ==
  ASSUME TypeOK, Lists, NEW c \in Callbacks, Call(c)
  PROVE  Lists'
<1>1. PICK s \in [Flavours -> Seq(Callbacks)], n \in [Flavours -> Nat],
           g \in Seq(Callbacks) : Shape(s, n, g)
  BY ZenonT(30) DEF Lists
<1>2. PICK h \in Flavours : h = FlavourOf(c)
  BY Owners, ZenonT(30)
<1>3. /\ c \notin posted
      /\ mem' = [mem EXCEPT ![c] = NULL, ![curtail[h]] = c]
      /\ curtail' = [curtail EXCEPT ![h] = c]
      /\ posted' = posted \cup {c}
      /\ old' = [old EXCEPT ![c] = Inside(h)]
      /\ UNCHANGED <<donetail, rcp, Cursor>>
  BY <1>2 DEF Call, cpu, locals, Cursor
<1>4. /\ mem \in [Locations -> Callbacks \cup {NULL}]
      /\ curtail \in [Flavours -> Locations]
      /\ old \in [Callbacks -> SUBSET Levels]
  BY ZenonT(30) DEF TypeOK
<1>5. /\ \A f \in Flavours : On(s[f]) \subseteq posted \cap CallbacksOf(f)
      /\ \A f \in Flavours : On(s[f]) \cap On(g) = {}
      /\ On(g) \cap {c} = {}
  <2>1. Holds(s, g, posted, rcp) /\ rcp \in Flavours
    BY <1>1, ZenonT(30) DEF Shape, TypeOK
  <2> QED
    BY <1>3, <2>1, ZenonT(30) DEF Holds
<1>6. \A f \in Flavours : c \notin On(s[f])
  BY <1>3, <1>5, ZenonT(30)
<1>7. ListIs(h, s[h], n[h]) /\ Chain(mem, mem[h], s[h]) /\ curtail[h] = EndOf(h, s[h], Len(s[h]))
  BY <1>1, ZenonT(30) DEF Shape, ListIs
<1>8. mem' = [mem EXCEPT ![c] = NULL, ![EndOf(h, s[h], Len(s[h]))] = c]
  BY <1>3, <1>7, ZenonT(30)
<1>9. PICK a : a = Append(s[h], c)
  BY ZenonT(30)
<1>10. /\ Chain(mem', mem'[h], a)
       /\ On(a) = On(s[h]) \cup {c}
       /\ EndOf(h, a, Len(a)) = c
  <2>1. Adds(mem, mem', h, s[h], c, a)
    BY <1>4, <1>6, <1>7, <1>8, <1>9, ZenonT(30) DEF Adds, Memories
  <2>2. Added(mem', h, s[h], c, a)
    BY <2>1, ChainAppend, ZenonT(30)
  <2> QED
    BY <2>2, ZenonT(30) DEF Added
<1>11. /\ a \in Seq(Callbacks) /\ Len(s[h]) \in Nat /\ Len(a) = Len(s[h]) + 1
       /\ \A i \in 1 .. Len(s[h]) : a[i] = s[h][i]
  <2>1. s[h] \in Seq(Callbacks)
    BY ZenonT(30)
  <2> QED
    BY <1>9, <2>1
<1>12. /\ EndOf(h, s[h], Len(s[h])) = h \/ EndOf(h, s[h], Len(s[h])) \in On(s[h])
       /\ EndOf(h, s[h], Len(s[h])) \in Locations
  <2>1. Len(s[h]) # 0 => Len(s[h]) \in 1 .. Len(s[h])
    BY <1>11
  <2>2. EndOf(h, s[h], Len(s[h])) = h \/ EndOf(h, s[h], Len(s[h])) \in On(s[h])
    BY <2>1, ZenonT(30) DEF EndOf, On
  <2> QED
    BY <1>4, <1>7, <2>2, ZenonT(30)
<1>13. ASSUME NEW x \in Locations, x # c, x # h, x \notin On(s[h])
       PROVE  mem'[x] = mem[x]
  <2>1. PICK e \in Locations : e = EndOf(h, s[h], Len(s[h]))
    BY <1>12, ZenonT(30)
  <2>2. mem' = [mem EXCEPT ![c] = NULL, ![e] = c] /\ x # e
    BY <1>8, <1>12, <1>13, <2>1, ZenonT(30) 
  <2> QED
    BY <1>4, <1>13, <2>2
<1>14. \A d \in Callbacks : d # c => old'[d] = old[d]
  BY <1>3, <1>4, ZenonT(30)
<1>15. Callbacks \subseteq Locations /\ Flavours \subseteq Locations
       /\ \A f \in Flavours : f \notin Callbacks
  BY RcuTinyAssumption, ZenonT(30) DEF Locations
<1>16. PICK t \in [Flavours -> Seq(Callbacks)] :
         t[h] = a /\ \A f \in Flavours : f # h => t[f] = s[f]
  <2>1. [s EXCEPT ![h] = a] \in [Flavours -> Seq(Callbacks)]
    BY <1>11
  <2> QED
    BY <2>1, ZenonT(30)
<1>17. \A f \in Flavours : ListIs(f, t[f], n[f])'
  <2> SUFFICES ASSUME NEW f \in Flavours PROVE ListIs(f, t[f], n[f])'
    BY ZenonT(30)
  <2>1. CASE f = h
    <3>1. donetail'[h] = EndOf(h, s[h], n[h]) /\ n[h] \in 0 .. Len(s[h]) /\ Ready(old, s[h], n[h])
      BY <1>3, <1>7, ZenonT(30) DEF ListIs
    <3>2. n[h] \in 0 .. Len(a) /\ (n[h] # 0 => n[h] \in 1 .. Len(s[h]))
          /\ \A i \in 1 .. n[h] : i \in 1 .. Len(s[h])
      BY <1>11, <3>1
    <3>3. donetail'[h] = EndOf(h, a, n[h])
      BY <1>11, <3>1, <3>2, ZenonT(30) DEF EndOf
    <3>4. \A i \in 1 .. n[h] : a[i] = s[h][i] /\ s[h][i] \in On(s[h]) /\ s[h][i] \in Callbacks
      <4>1. On(s[h]) \subseteq Callbacks
        BY <1>7, ChainNull, ZenonT(30)
      <4> QED
        BY <1>11, <3>2, <4>1, ZenonT(30) DEF On
    <3>5. \A i \in 1 .. n[h] : old'[a[i]] = old[s[h][i]]
      BY <1>6, <1>14, <3>4, ZenonT(30)
    <3>6. Ready(old', a, n[h])
      BY <3>1, <3>5, ZenonT(30) DEF Ready
    <3>7. curtail'[h] = EndOf(h, a, Len(a))
      BY <1>3, <1>4, <1>10, ZenonT(30)
    <3> QED
      BY <1>10, <1>16, <2>1, <3>2, <3>3, <3>6, <3>7, ZenonT(30) DEF ListIs
  <2>2. CASE f # h
    <3>1. ListIs(f, s[f], n[f]) /\ Chain(mem, mem[f], s[f]) /\ t[f] = s[f]
      BY <1>1, <1>16, <2>2, ZenonT(30) DEF Shape, ListIs
    <3>2. On(s[f]) \cap On(s[h]) = {} /\ On(s[f]) \subseteq Callbacks /\ On(s[h]) \subseteq Callbacks
      BY <1>5, <2>2, Owners, ZenonT(30)
    <3>3. \A d \in On(s[f]) : mem'[d] = mem[d] /\ old'[d] = old[d]
      BY <1>6, <1>13, <1>14, <1>15, <3>2, ZenonT(30)
    <3>4. mem'[f] = mem[f] /\ curtail'[f] = curtail[f] /\ donetail'[f] = donetail[f]
      <4>1. f \in Locations /\ f # c /\ f \notin On(s[h])
        BY <1>15, <3>2, ZenonT(30)
      <4>2. mem'[f] = mem[f]
        BY <1>13, <2>2, <4>1, ZenonT(30)
      <4> QED
        BY <1>3, <1>4, <2>2, <4>2, ZenonT(30)
    <3>5. Chain(mem', mem'[f], s[f])
      BY <3>1, <3>3, <3>4, ChainFrame, ZenonT(30)
    <3>6. n[f] \in Nat /\ n[f] <= Len(s[f]) /\ Len(s[f]) \in Nat /\ Ready(old, s[f], n[f])
      BY <3>1 DEF ListIs
    <3>7. Ready(old', s[f], n[f])
      BY <3>3, <3>6, ReadySame, ZenonT(30)
    <3> QED
      BY <3>1, <3>4, <3>5, <3>7, ZenonT(30) DEF ListIs
  <2> QED
    BY <2>1, <2>2, ZenonT(30)
<1>18. LocalIs(g)'
  <2>1. Chain(mem, Cursor, g) /\ Ready(old, g, Len(g))
    BY <1>1, ZenonT(30) DEF Shape, LocalIs
  <2>2. On(g) \subseteq Callbacks
    BY <2>1, ChainNull, ZenonT(30)
  <2>3. \A d \in On(g) : mem'[d] = mem[d] /\ old'[d] = old[d]
    BY <1>5, <1>13, <1>14, <1>15, <2>2, ZenonT(30)
  <2>4. Chain(mem', Cursor, g)
    BY <2>1, <2>3, ChainFrame, ZenonT(30)
  <2>5. Len(g) \in Nat /\ Len(g) <= Len(g)
    OBVIOUS
  <2>6. Ready(old', g, Len(g))
    BY <2>1, <2>3, <2>5, ReadySame, ZenonT(30)
  <2> QED
    BY <1>3, <2>4, <2>6, ZenonT(30) DEF LocalIs
<1>19. Holds(t, g, posted, rcp)'
  <2>1. Holds(s, g, posted, rcp)
    BY <1>1, ZenonT(30) DEF Shape
  <2> SUFFICES ASSUME NEW f \in Flavours
               PROVE  /\ On(t[f]) \cup (IF rcp = f THEN On(g) ELSE {})
                           = posted' \cap CallbacksOf(f)
                      /\ On(t[f]) \cap On(g) = {}
    BY <1>3, ZenonT(30) DEF Holds
  <2>2. /\ On(s[f]) \cup (IF rcp = f THEN On(g) ELSE {}) = posted \cap CallbacksOf(f)
        /\ On(s[f]) \cap On(g) = {}
    BY <2>1, ZenonT(30) DEF Holds
  <2>3. CASE f = h
    <3>1. c \in CallbacksOf(f) /\ On(t[f]) = On(s[f]) \cup {c}
      BY <1>2, <1>10, <1>16, <2>3, Owners, ZenonT(30)
    <3>2. posted' \cap CallbacksOf(f) = (posted \cap CallbacksOf(f)) \cup {c}
      BY <1>3, <3>1
    <3> QED
      BY <1>5, <2>2, <3>1, <3>2
  <2>4. CASE f # h
    <3>1. c \notin CallbacksOf(f) /\ t[f] = s[f]
      BY <1>2, <1>16, <2>4, Owners, ZenonT(30)
    <3>2. posted' \cap CallbacksOf(f) = posted \cap CallbacksOf(f)
      BY <1>3, <3>1
    <3> QED
      BY <2>2, <3>1, <3>2, ZenonT(30)
  <2> QED
    BY <2>3, <2>4, ZenonT(30)
<1>20. Shape(t, n, g)'
  BY <1>17, <1>18, <1>19, ZenonT(30) DEF Shape
<1> QED
  BY <1>20, ZenonT(30) DEF Lists

(* The done part of the list becomes the local list. *)
LEMMA SpliceLists ==
  ASSUME TypeOK, Lists, Splice
  PROVE  Lists'
<1>1. PICK s \in [Flavours -> Seq(Callbacks)], n \in [Flavours -> Nat],
           b \in Seq(Callbacks) : Shape(s, n, b)
  BY ZenonT(30) DEF Lists
<1>2. PICK h \in Flavours : h = rcp
  BY ZenonT(30) DEF TypeOK
<1>3. /\ softirq = "splice" /\ donetail[h] # h
      /\ list' = mem[h] /\ softirq' = "invoke"
      /\ mem' = [mem EXCEPT ![h] = mem[donetail[h]], ![donetail[h]] = NULL]
      /\ curtail' = [curtail EXCEPT ![h] = IF curtail[h] = donetail[h] THEN h ELSE curtail[h]]
      /\ donetail' = [donetail EXCEPT ![h] = h]
      /\ UNCHANGED <<rcp, posted, old>>
  BY <1>2, ZenonT(30) DEF Splice, SplicedTail
<1>4. /\ mem \in Memories
      /\ curtail \in [Flavours -> Locations] /\ donetail \in [Flavours -> Locations]
  BY ZenonT(30) DEF TypeOK, Memories
<1>5. Cursor = NULL /\ Cursor' = mem[h]
  BY <1>3 DEF Cursor
<1>6. /\ Chain(mem, mem[h], s[h]) /\ n[h] \in 0 .. Len(s[h])
      /\ donetail[h] = EndOf(h, s[h], n[h])
      /\ curtail[h] = EndOf(h, s[h], Len(s[h]))
      /\ Ready(old, s[h], n[h])
  BY <1>1, ZenonT(30) DEF Shape, ListIs
<1>7. n[h] # 0 /\ donetail[h] = s[h][n[h]]
  BY <1>3, <1>6, ZenonT(30) DEF EndOf
<1>8. n[h] \in 1 .. Len(s[h]) /\ Len(s[h]) # 0 /\ Len(s[h]) \in 1 .. Len(s[h])
  <2>1. Len(s[h]) \in Nat
    OBVIOUS
  <2> QED
    BY <1>6, <1>7, <2>1
<1>9. PICK g, r : g = SubSeq(s[h], 1, n[h]) /\ r = SubSeq(s[h], n[h] + 1, Len(s[h]))
  BY ZenonT(30)
<1>10. Cuts(mem, mem', h, s[h], n[h], g, r)
  BY <1>3, <1>4, <1>6, <1>7, <1>8, <1>9, ZenonT(30) DEF Cuts
<1>11. Parted(mem, mem', h, s[h], n[h], g, r)
  BY <1>10, ChainSplit, ZenonT(30)
<1>12. /\ g \in Seq(Callbacks) /\ r \in Seq(Callbacks)
       /\ Chain(mem', mem[h], g) /\ Chain(mem', mem'[h], r)
       /\ On(s[h]) = On(g) \cup On(r) /\ On(g) \cap On(r) = {}
       /\ Len(g) = n[h] /\ \A i \in 1 .. n[h] : g[i] = s[h][i]
       /\ EndOf(h, r, Len(r)) = IF n[h] = Len(s[h]) THEN h ELSE s[h][Len(s[h])]
  BY <1>11, ZenonT(30) DEF Parted
<1>13. curtail'[h] = EndOf(h, r, Len(r))
  <2>1. curtail[h] = s[h][Len(s[h])]
    BY <1>6, <1>8, ZenonT(30) DEF EndOf
  <2>2. curtail[h] = donetail[h] <=> n[h] = Len(s[h])
    BY <1>6, <1>7, <1>8, <2>1, ZenonT(30) DEF Chain
  <2>3. curtail'[h] = IF curtail[h] = donetail[h] THEN h ELSE curtail[h]
    BY <1>3, <1>4, ZenonT(30)
  <2> QED
    BY <1>12, <2>1, <2>2, <2>3, ZenonT(30)
<1>14. PICK t \in [Flavours -> Seq(Callbacks)] :
         t[h] = r /\ \A f \in Flavours : f # h => t[f] = s[f]
  <2>1. [s EXCEPT ![h] = r] \in [Flavours -> Seq(Callbacks)]
    BY <1>12
  <2> QED
    BY <2>1, ZenonT(30)
<1>15. PICK k \in [Flavours -> Nat] :
         k[h] = 0 /\ \A f \in Flavours : f # h => k[f] = n[f]
  <2>1. [n EXCEPT ![h] = 0] \in [Flavours -> Nat]
    OBVIOUS
  <2> QED
    BY <2>1, ZenonT(30)
<1>16. \A f \in Flavours : ListIs(f, t[f], k[f])'
  <2> SUFFICES ASSUME NEW f \in Flavours PROVE ListIs(f, t[f], k[f])'
    BY ZenonT(30)
  <2>1. CASE f = h
    <3>1. 0 \in 0 .. Len(r) /\ Ready(old', r, 0)
      <4>1. Len(r) \in Nat
        BY <1>12
      <4> QED
        BY <4>1 DEF Ready
    <3>2. donetail'[h] = EndOf(h, r, 0)
      BY <1>3, <1>4, ZenonT(30) DEF EndOf
    <3> QED
      BY <1>12, <1>13, <1>14, <1>15, <2>1, <3>1, <3>2, ZenonT(30) DEF ListIs
  <2>2. CASE f # h
    <3>1. ListIs(f, s[f], n[f]) /\ Chain(mem, mem[f], s[f]) /\ t[f] = s[f] /\ k[f] = n[f]
      BY <1>1, <1>14, <1>15, <2>2, ZenonT(30) DEF Shape, ListIs
    <3>2. /\ On(s[f]) \cap On(s[h]) = {}
          /\ On(s[f]) \subseteq Locations /\ h \notin On(s[f])
          /\ f \in Locations /\ f \notin On(s[h])
      BY <1>1, <2>2, Known, ZenonT(30)
    <3>3. donetail[h] \in On(s[h])
      BY <1>7, <1>8, ZenonT(30) DEF On
    <3>4. \A x \in Locations : x # h /\ x # donetail[h] => mem'[x] = mem[x]
      BY <1>3, <1>4, ZenonT(30) DEF Memories
    <3>5. \A d \in On(s[f]) : mem'[d] = mem[d]
      BY <3>2, <3>3, <3>4, ZenonT(30)
    <3>6. mem'[f] = mem[f] /\ curtail'[f] = curtail[f] /\ donetail'[f] = donetail[f]
      <4>1. mem'[f] = mem[f]
        BY <2>2, <3>2, <3>3, <3>4, ZenonT(30)
      <4> QED
        BY <1>3, <1>4, <2>2, <4>1, ZenonT(30)
    <3>7. Chain(mem', mem'[f], s[f])
      BY <3>1, <3>5, <3>6, ChainFrame, ZenonT(30)
    <3> QED
      BY <1>3, <3>1, <3>6, <3>7, ZenonT(30) DEF ListIs
  <2> QED
    BY <2>1, <2>2, ZenonT(30)
<1>17. LocalIs(g)'
  <2>1. Ready(old', g, Len(g))
    BY <1>3, <1>6, <1>12, ZenonT(30) DEF Ready
  <2> QED
    BY <1>5, <1>12, <2>1, ZenonT(30) DEF LocalIs
<1>18. Holds(t, g, posted, rcp)'
  <2>1. Holds(s, b, posted, rcp)
    BY <1>1, ZenonT(30) DEF Shape
  <2>2. On(b) = {}
    BY <1>1, <1>5, NoLocal, ZenonT(30)
  <2> SUFFICES ASSUME NEW f \in Flavours
               PROVE  /\ On(t[f]) \cup (IF rcp = f THEN On(g) ELSE {})
                           = posted \cap CallbacksOf(f)
                      /\ On(t[f]) \cap On(g) = {}
    BY <1>3, ZenonT(30) DEF Holds
  <2>3. On(s[f]) = posted \cap CallbacksOf(f)
    BY <2>1, <2>2, ZenonT(30) DEF Holds
  <2>4. CASE f = h
    BY <1>2, <1>12, <1>14, <2>3, <2>4, ZenonT(30)
  <2>5. CASE f # h
    <3>1. On(s[f]) \cap On(s[h]) = {}
      BY <1>1, <2>5, Known, ZenonT(30)
    <3> QED
      BY <1>2, <1>12, <1>14, <2>3, <2>5, <3>1, ZenonT(30)
  <2> QED
    BY <2>4, <2>5, ZenonT(30)
<1>19. Shape(t, k, g)'
  BY <1>16, <1>17, <1>18, ZenonT(30) DEF Shape
<1> QED
  BY <1>12, <1>19, ZenonT(30) DEF Lists

(* The first callback of the local list begins. *)
LEMMA InvokeLists ==
  ASSUME TypeOK, Lists, NEW c \in Callbacks, Invoke(c)
  PROVE  Lists' /\ c \in posted /\ old[c] = {}
<1>1. PICK s \in [Flavours -> Seq(Callbacks)], n \in [Flavours -> Nat],
           g \in Seq(Callbacks) : Shape(s, n, g)
  BY ZenonT(30) DEF Lists
<1>2. /\ softirq = "invoke" /\ list = c /\ next' = mem[c] /\ softirq' = "run"
      /\ posted' = posted \ {c}
      /\ UNCHANGED <<mem, donetail, curtail, rcp, old>>
  BY ZenonT(30) DEF Invoke, lists
<1>3. Cursor = c /\ Cursor' = mem[c] /\ c # NULL
  BY <1>2, RcuTinyAssumption DEF Cursor
<1>4. Chain(mem, c, g) /\ Ready(old, g, Len(g))
  BY <1>1, <1>3, ZenonT(30) DEF Shape, LocalIs
<1>5. PICK t : t = Tail(g)
  BY ZenonT(30)
<1>6. /\ Chain(mem, mem[c], t) /\ On(g) = On(t) \cup {c} /\ c \notin On(t)
      /\ c = g[1] /\ Len(g) # 0 /\ Len(t) + 1 = Len(g)
      /\ \A i \in 1 .. Len(t) : t[i] = g[i + 1]
  <2>1. TakesOff(mem, c, g, t)
    BY <1>3, <1>4, <1>5, ZenonT(30) DEF TakesOff
  <2>2. TakenOff(mem, c, g, t)
    BY <2>1, ChainTail, ZenonT(30)
  <2> QED
    BY <2>2, ZenonT(30) DEF TakenOff
<1>7. t \in Seq(Callbacks) /\ Len(t) \in Nat /\ Len(g) \in Nat
  BY <1>6 DEF Chain
<1>8. 1 \in 1 .. Len(g) /\ \A i \in 1 .. Len(t) : i + 1 \in 1 .. Len(g)
  BY <1>6, <1>7
<1>9. Ready(old, t, Len(t)) /\ old[c] = {}
  BY <1>4, <1>6, <1>8, ZenonT(30) DEF Ready
<1>10. LocalIs(t)'
  BY <1>2, <1>3, <1>6, <1>9, ZenonT(30) DEF LocalIs
<1>11. \A f \in Flavours : ListIs(f, s[f], n[f])'
  BY <1>1, <1>2, ZenonT(30) DEF Shape, ListIs
<1>12. c \in posted /\ c \in CallbacksOf(rcp) /\ rcp \in Flavours
  BY <1>1, <1>6, Known, ZenonT(30) DEF TypeOK
<1>13. Holds(s, t, posted, rcp)'
  <2>1. Holds(s, g, posted, rcp)
    BY <1>1, ZenonT(30) DEF Shape
  <2> SUFFICES ASSUME NEW f \in Flavours
               PROVE  /\ On(s[f]) \cup (IF rcp = f THEN On(t) ELSE {})
                           = posted' \cap CallbacksOf(f)
                      /\ On(s[f]) \cap On(t) = {}
    BY <1>2, ZenonT(30) DEF Holds
  <2>2. /\ On(s[f]) \cup (IF rcp = f THEN On(g) ELSE {}) = posted \cap CallbacksOf(f)
        /\ On(s[f]) \cap On(g) = {}
    BY <2>1, ZenonT(30) DEF Holds
  <2>3. CASE f = rcp
    <3>1. posted' \cap CallbacksOf(f) = (posted \cap CallbacksOf(f)) \ {c}
      BY <1>2
    <3> QED
      BY <1>6, <2>2, <2>3, <3>1
  <2>4. CASE f # rcp
    <3>1. c \notin CallbacksOf(f)
      BY <1>12, <2>4, Owners, ZenonT(30)
    <3>2. posted' \cap CallbacksOf(f) = posted \cap CallbacksOf(f)
      BY <1>2, <3>1
    <3> QED
      BY <1>6, <2>2, <2>4, <3>2
  <2> QED
    BY <2>3, <2>4, ZenonT(30)
<1>14. Shape(s, n, t)'
  BY <1>10, <1>11, <1>13, ZenonT(30) DEF Shape
<1> QED
  BY <1>7, <1>9, <1>12, <1>14, ZenonT(30) DEF Lists

-----------------------------------------------------------------------------
(* Levels and critical sections. *)
LEMMA NobodyInside ==
  ASSUME NEW f, \A l \in Levels : <<l, f>> \notin rd
  PROVE  Inside(f) = {}
BY ZenonT(30) DEF Inside

(* The level that the CPU is at. *)
LEMMA LevelFacts ==
  ASSUME TypeOK
  PROVE  /\ Level \in Levels
         /\ Level = "task" => ~hardirq /\ softirq = "none"
         /\ Level = "softirq" => ~hardirq /\ softirq # "none"
         /\ Level = "hardirq" => hardirq
BY DEF TypeOK, Level, Levels

(* What rcu_sched_qs() and rcu_bh_qs() report is true where they are       *)
(* called.                                                                 *)
LEMMA TickReportsTruth ==
  ASSUME TypeOK, Contexts, Tick, NEW f \in TickReports
  PROVE  f \in Flavours /\ Inside(f) = {}
<1>1. CASE mode = "user" /\ softirq = "none"
  <2>1. \A l \in Levels : NoSection(l)
    BY <1>1 DEF Contexts, Tick, Levels
  <2>2. f \in Flavours
    BY <1>1, ZenonT(30) DEF TickReports
  <2> QED
    BY <2>1, <2>2, NobodyInside, ZenonT(30) DEF NoSection
<1>2. CASE ~(mode = "user" /\ softirq = "none")
  <2>1. f = "bh" /\ f \in Flavours /\ ~in_softirq
    BY <1>2 DEF TickReports, Flavours
  <2>2. softirq = "none" /\ <<"task", "bh">> \notin rd
    BY <2>1, ZenonT(30) DEF in_softirq
  <2>3. NoSection("softirq") /\ <<"hardirq", "bh">> \notin rd
    BY <2>2 DEF Contexts
  <2>4. \A l \in Levels : <<l, "bh">> \notin rd
    BY <2>1, <2>2, <2>3, ZenonT(30) DEF Levels, NoSection
  <2> QED
    BY <2>1, <2>4, NobodyInside, ZenonT(30)
<1> QED
  BY <1>1, <1>2, ZenonT(30)

(* A context switch is reported to RCU only outside all read-side          *)
(* critical sections.                                                      *)
LEMMA ScheduleReportsTruth ==
  ASSUME TypeOK, Contexts, NEW m, Schedule(m), NEW f \in Flavours
  PROVE  Inside(f) = {}
<1>1. NoSection("task") /\ ~hardirq /\ softirq = "none"
  BY LevelFacts, ZenonT(30) DEF Schedule
<1>2. \A l \in Levels : NoSection(l)
  BY <1>1 DEF Contexts, Levels
<1> QED
  BY <1>2, NobodyInside, ZenonT(30) DEF NoSection

(* The end of a softirq is reported only outside the bh sections. *)
LEMMA EndReportsTruth ==
  ASSUME Contexts, SoftirqEnd
  PROVE  Inside("bh") = {}
<1>1. softirq = "qs"
  BY ZenonT(30) DEF SoftirqEnd
<1>2. <<"task", "bh">> \notin rd /\ NoSection("softirq") /\ <<"hardirq", "bh">> \notin rd
  BY <1>1 DEF Contexts
<1>3. \A l \in Levels : <<l, "bh">> \notin rd
  <2>1. "bh" \in Flavours
    BY ZenonT(30) DEF Flavours
  <2> QED
    BY <1>2, <2>1, ZenonT(30) DEF Levels, NoSection
<1> QED
  BY <1>3, NobodyInside, ZenonT(30)

-----------------------------------------------------------------------------
(* The next-state relation, one disjunct per action. *)
Steps ==
  \/ \E f \in Flavours : ReadLock(f)
  \/ \E f \in Flavours : ReadUnlock(f)
  \/ \E c \in Callbacks : Call(c)
  \/ \E m \in Modes : Schedule(m)
  \/ Trap \/ IrqEnter \/ IrqExit \/ IrqWakes \/ Tick
  \/ SoftirqStart \/ OthersDone \/ Splice \/ Return \/ ListDone \/ SoftirqEnd
  \/ \E c \in Callbacks : Invoke(c)
  \/ UNCHANGED vars

(* The steps, by the part of the state that they change. *)
LEMMA NextSteps ==
  ASSUME [Next]_vars
  PROVE  Steps
BY ZenonT(30) DEF Next, Irq, RunSoftirq, Steps

(* Every step keeps the types. *)
LEMMA TypesKept ==
  ASSUME TypeOK, Steps
  PROVE  TypeOK'
<1>1. ASSUME NEW f \in Flavours, ReadLock(f) PROVE TypeOK'
  BY <1>1, LevelFacts DEF ReadLock, TypeOK, lists, cpu, locals
<1>2. ASSUME NEW f \in Flavours, ReadUnlock(f) PROVE TypeOK'
  BY <1>2 DEF ReadUnlock, TypeOK, lists, cpu, locals
<1>3. ASSUME NEW c \in Callbacks, Call(c) PROVE TypeOK'
  <2>1. FlavourOf(c) \in Flavours /\ c \in Locations
    BY Owners, ZenonT(30) DEF Locations
  <2>2. Inside(FlavourOf(c)) \in SUBSET Levels
    BY ZenonT(30) DEF Inside
  <2>3. /\ mem' = [mem EXCEPT ![c] = NULL, ![curtail[FlavourOf(c)]] = c]
        /\ curtail' = [curtail EXCEPT ![FlavourOf(c)] = c]
        /\ posted' = posted \cup {c}
        /\ old' = [old EXCEPT ![c] = Inside(FlavourOf(c))]
        /\ need_resched' = KickIdle
        /\ UNCHANGED <<donetail, cpu, pending, locals, rd>>
    BY <1>3, ZenonT(30) DEF Call
  <2>4. mem' \in [Locations -> Callbacks \cup {NULL}]
    BY <2>1, <2>3 DEF TypeOK
  <2>5. curtail' \in [Flavours -> Locations]
    BY <2>1, <2>3 DEF TypeOK
  <2>6. old' \in [Callbacks -> SUBSET Levels]
    BY <2>2, <2>3 DEF TypeOK
  <2>7. posted' \in SUBSET Callbacks
    BY <2>3, ZenonT(30) DEF TypeOK
  <2>8. need_resched' \in BOOLEAN
    BY <2>3 DEF KickIdle
  <2> QED
    BY <2>3, <2>4, <2>5, <2>6, <2>7, <2>8, ZenonT(30) DEF TypeOK, cpu, locals
<1>4. ASSUME NEW fs, Qs(fs) PROVE donetail' \in [Flavours -> Locations] /\ pending' \in BOOLEAN
  BY <1>4 DEF Qs, TypeOK, Quiescent, Raises
<1>5. ASSUME NEW m \in Modes, Schedule(m) PROVE TypeOK'
  <2>1. donetail' \in [Flavours -> Locations] /\ pending' \in BOOLEAN
    BY <1>4, <1>5, ZenonT(30) DEF Schedule
  <2> QED
    BY <1>5, <2>1, ZenonT(30) DEF Schedule, TypeOK, locals
<1>6. CASE Trap
  BY <1>6 DEF Trap, TypeOK, lists, locals, Modes
<1>7. CASE IrqEnter \/ IrqExit \/ IrqWakes
  BY <1>7, ZenonT(30) DEF IrqEnter, IrqExit, IrqWakes, TypeOK, lists, cpu, locals
<1>8. CASE Tick
  <2>1. donetail' \in [Flavours -> Locations] /\ pending' \in BOOLEAN
    BY <1>4, <1>8, ZenonT(30) DEF Tick
  <2> QED
    BY <1>8, <2>1, ZenonT(30) DEF Tick, TypeOK, cpu, locals
<1>9. CASE SoftirqStart
  BY <1>9, ZenonT(30) DEF SoftirqStart, TypeOK, lists, locals
<1>10. CASE OthersDone
  BY <1>10 DEF OthersDone, TypeOK, lists, Flavours
<1>11. CASE Splice
  <2>1. rcp \in Locations
    BY ZenonT(30) DEF TypeOK, Locations
  <2>2. SplicedTail \in Locations
    BY <2>1, ZenonT(30) DEF TypeOK, SplicedTail
  <2>3. mem' \in [Locations -> Callbacks \cup {NULL}] /\ list' \in Callbacks \cup {NULL}
    BY <1>11, <2>1 DEF Splice, TypeOK
  <2>4. curtail' \in [Flavours -> Locations] /\ donetail' \in [Flavours -> Locations]
    BY <1>11, <2>1, <2>2 DEF Splice, TypeOK
  <2>5. softirq' = "invoke"
        /\ UNCHANGED <<mode, hardirq, need_resched, pending, rcp, next, rd, posted, old>>
    BY <1>11, ZenonT(30) DEF Splice
  <2> QED
    BY <2>3, <2>4, <2>5 DEF TypeOK
<1>12. ASSUME NEW c \in Callbacks, Invoke(c) PROVE TypeOK'
  <2>1. c \in Locations
    BY ZenonT(30) DEF Locations
  <2> QED
    BY <1>12, <2>1 DEF Invoke, TypeOK, lists
<1>13. CASE Return
  BY <1>13 DEF Return, Advance, TypeOK, lists
<1>14. CASE ListDone
  BY <1>14 DEF ListDone, TypeOK, lists, Flavours
<1>15. CASE SoftirqEnd
  <2>1. donetail' \in [Flavours -> Locations] /\ pending' \in BOOLEAN
    BY <1>4, <1>15, ZenonT(30) DEF SoftirqEnd
  <2> QED
    BY <1>15, <2>1 DEF SoftirqEnd, TypeOK, locals
<1>16. CASE UNCHANGED vars
  BY <1>16, ZenonT(30) DEF vars, lists, cpu, locals, TypeOK
<1> QED
  BY <1>1, <1>2, <1>3, <1>5, <1>6, <1>7, <1>8, <1>9, <1>10, <1>11, <1>12, <1>13, <1>14,
     <1>15, <1>16, ZenonT(30) DEF Steps

(* Critical sections stay where they may be. *)
LEMMA ContextsKept ==
  ASSUME TypeOK, Contexts, Steps
  PROVE  Contexts'
<1>0. /\ mode = "user" => NoSection("task")
      /\ softirq # "none" => <<"task", "bh">> \notin rd
      /\ softirq \notin {"before", "other", "run"} => NoSection("softirq")
      /\ ~hardirq => NoSection("hardirq")
      /\ <<"hardirq", "bh">> \notin rd
  BY ZenonT(30) DEF Contexts
<1>1. ASSUME NEW f \in Flavours, ReadLock(f) PROVE Contexts'
  <2>1. PICK l \in Levels : l = Level
    BY LevelFacts, ZenonT(30)
  <2>2. rd' = rd \cup {<<l, f>>} /\ UNCHANGED <<mode, softirq, hardirq>>
    BY <1>1, <2>1, ZenonT(30) DEF ReadLock, cpu
  <2>3. /\ l = "task" => ~hardirq /\ softirq = "none" /\ mode # "user"
        /\ l = "softirq" => softirq \in {"before", "other", "run"}
        /\ l = "hardirq" => hardirq /\ f = "sched"
    BY <1>1, <2>1, LevelFacts, ZenonT(30) DEF ReadLock, MayRead
  <2>4. ASSUME NEW k, k # l, NoSection(k) PROVE NoSection(k)'
    BY <2>2, <2>4 DEF NoSection
  <2>5. mode = "user" => NoSection("task")'
    BY <1>0, <2>3, <2>4, ZenonT(30)
  <2>6. softirq \notin {"before", "other", "run"} => NoSection("softirq")'
    BY <1>0, <2>3, <2>4, ZenonT(30)
  <2>7. ~hardirq => NoSection("hardirq")'
    BY <1>0, <2>3, <2>4, ZenonT(30)
  <2>8. softirq # "none" => <<"task", "bh">> \notin rd'
    BY <1>0, <2>2, <2>3
  <2>9. <<"hardirq", "bh">> \notin rd'
    BY <1>0, <2>2, <2>3
  <2> QED
    BY <2>2, <2>5, <2>6, <2>7, <2>8, <2>9, ZenonT(30) DEF Contexts
<1>2. ASSUME NEW f \in Flavours, ReadUnlock(f) PROVE Contexts'
  <2>1. rd' \subseteq rd /\ UNCHANGED <<mode, softirq, hardirq>>
    BY <1>2, ZenonT(30) DEF ReadUnlock, cpu
  <2> QED
    BY <1>0, <2>1, ZenonT(30) DEF Contexts, NoSection
<1>3. ASSUME UNCHANGED <<rd, mode, softirq, hardirq>> PROVE Contexts'
  BY <1>0, <1>3, ZenonT(30) DEF Contexts, NoSection
<1>4. ASSUME NEW c, Call(c) PROVE Contexts'
  BY <1>3, <1>4, ZenonT(30) DEF Call, cpu
<1>5. ASSUME NEW m, Schedule(m) \/ Trap PROVE Contexts'
  <2>1. NoSection("task") /\ UNCHANGED <<rd, softirq, hardirq>>
    BY <1>5, ZenonT(30) DEF Schedule, Trap
  <2> QED
    BY <1>0, <2>1, ZenonT(30) DEF Contexts, NoSection
<1>6. CASE IrqEnter \/ IrqExit
  <2>1. (hardirq' \/ NoSection("hardirq")) /\ UNCHANGED <<rd, mode, softirq>>
    BY <1>6, ZenonT(30) DEF IrqEnter, IrqExit
  <2> QED
    BY <1>0, <2>1, ZenonT(30) DEF Contexts, NoSection
<1>7. CASE IrqWakes \/ Tick
  BY <1>3, <1>7, ZenonT(30) DEF IrqWakes, Tick, cpu
<1>8. CASE SoftirqStart
  <2>1. /\ <<"task", "bh">> \notin rd /\ softirq' \in {"before", "other"}
        /\ UNCHANGED <<rd, mode, hardirq>>
    BY <1>8, ZenonT(30) DEF SoftirqStart, in_interrupt, in_softirq
  <2>2. softirq' \in {"before", "other", "run"}
    BY <2>1, ZenonT(30)
  <2> QED
    BY <1>0, <2>1, <2>2, ZenonT(30) DEF Contexts, NoSection
<1>9. ASSUME OthersDone \/ Splice \/ Return \/ ListDone PROVE Contexts'
  <2>1. softirq # "none" /\ UNCHANGED <<rd, mode, hardirq>>
    BY <1>9 DEF OthersDone, Splice, Return, ListDone
  <2>2. NoSection("softirq")
    <3>1. CASE OthersDone \/ Return
      BY <3>1, ZenonT(30) DEF OthersDone, Return
    <3>2. CASE Splice \/ ListDone
      <4>1. softirq \notin {"before", "other", "run"}
        BY <3>2 DEF Splice, ListDone
      <4> QED
        BY <1>0, <4>1, ZenonT(30)
    <3> QED
      BY <1>9, <3>1, <3>2, ZenonT(30)
  <2> QED
    BY <1>0, <2>1, <2>2, ZenonT(30) DEF Contexts, NoSection
<1>10. ASSUME NEW c, Invoke(c) PROVE Contexts'
  <2>1. softirq # "none" /\ softirq' = "run" /\ UNCHANGED <<rd, mode, hardirq>>
    BY <1>10 DEF Invoke
  <2> QED
    BY <1>0, <2>1, ZenonT(30) DEF Contexts, NoSection
<1>11. CASE SoftirqEnd
  <2>1. /\ softirq = "qs" /\ softirq' = "none" /\ UNCHANGED <<rd, mode, hardirq>>
    BY <1>11, ZenonT(30) DEF SoftirqEnd
  <2>2. NoSection("softirq")
    BY <1>0, <2>1
  <2> QED
    BY <1>0, <2>1, <2>2, ZenonT(30) DEF Contexts, NoSection
<1>12. CASE UNCHANGED vars
  BY <1>3, <1>12, ZenonT(30) DEF vars, cpu
<1> QED
  BY <1>1, <1>2, <1>4, <1>5, <1>6, <1>7, <1>8, <1>9, <1>10, <1>11, <1>12, ZenonT(30) DEF Steps

(* Nothing but critical sections and calls changes what is waited for. *)
Idle == UNCHANGED <<rd, old>>

(* All steps but three leave the read-side sections and the posted         *)
(* callbacks alone.                                                        *)
LEMMA MostlyIdle ==
  ASSUME Steps
  PROVE  \/ \E f \in Flavours : ReadLock(f) \/ ReadUnlock(f)
         \/ \E c \in Callbacks : Call(c)
         \/ Idle
BY ZenonT(30) DEF Steps, Idle, Schedule, Trap, IrqEnter, IrqExit, IrqWakes, Tick, SoftirqStart,
   OthersDone, Splice, Return, ListDone, SoftirqEnd, Invoke, vars

(* Sections begin and end at the running level. *)
LEMMA LockInside ==
  ASSUME TypeOK, NEW f \in Flavours, ReadLock(f)
  PROVE  /\ Level \in Levels /\ Level \notin Inside(f)
         /\ Inside(f)' = Inside(f) \cup {Level}
         /\ \A h \in Flavours : h # f => Inside(h)' = Inside(h)
<1>1. PICK l \in Levels : l = Level
  BY LevelFacts, ZenonT(30)
<1>2. rd' = rd \cup {<<l, f>>} /\ <<l, f>> \notin rd
  BY <1>1, ZenonT(30) DEF ReadLock
<1>3. l \notin Inside(f)
  BY <1>2, ZenonT(30) DEF Inside
<1>4. Inside(f)' = Inside(f) \cup {l}
  BY <1>2 DEF Inside
<1>5. \A h \in Flavours : h # f => Inside(h)' = Inside(h)
  BY <1>2 DEF Inside
<1> QED
  BY <1>1, <1>3, <1>4, <1>5, ZenonT(30)

(* The end of a read-side critical section: no callback of its flavour     *)
(* waits for it any more.                                                  *)
LEMMA UnlockInside ==
  ASSUME TypeOK, NEW f \in Flavours, ReadUnlock(f)
  PROVE  /\ Level \in Levels /\ Level \in Inside(f)
         /\ Inside(f)' = Inside(f) \ {Level}
         /\ \A h \in Flavours : h # f => Inside(h)' = Inside(h)
         /\ \A c \in Callbacks :
              old'[c] = IF FlavourOf(c) = f THEN old[c] \ {Level} ELSE old[c]
<1>1. PICK l \in Levels : l = Level
  BY LevelFacts, ZenonT(30)
<1>2. rd' = rd \ {<<l, f>>} /\ <<l, f>> \in rd
  BY <1>1, ZenonT(30) DEF ReadUnlock
<1>3. l \in Inside(f)
  BY <1>2, ZenonT(30) DEF Inside
<1>4. Inside(f)' = Inside(f) \ {l}
  BY <1>2 DEF Inside
<1>5. \A h \in Flavours : h # f => Inside(h)' = Inside(h)
  BY <1>2 DEF Inside
<1>6. \A c \in Callbacks : old'[c] = IF FlavourOf(c) = f THEN old[c] \ {Level} ELSE old[c]
  BY ZenonT(30) DEF ReadUnlock
<1> QED
  BY <1>1, <1>3, <1>4, <1>5, <1>6, ZenonT(30)

(* A new callback waits for the sections that are there. *)
LEMMA CallInside ==
  ASSUME TypeOK, NEW c \in Callbacks, Call(c)
  PROVE  /\ \A h \in Flavours : Inside(h)' = Inside(h)
         /\ c \notin posted /\ posted' = posted \cup {c}
         /\ old'[c] = Inside(FlavourOf(c))
         /\ \A d \in Callbacks : d # c => old'[d] = old[d]
<1>1. old \in [Callbacks -> SUBSET Levels]
  BY ZenonT(30) DEF TypeOK
<1>2. /\ c \notin posted /\ posted' = posted \cup {c}
      /\ old' = [old EXCEPT ![c] = Inside(FlavourOf(c))] /\ rd' = rd
  BY ZenonT(30) DEF Call
<1>3. \A h \in Flavours : Inside(h)' = Inside(h)
  BY <1>2, ZenonT(30) DEF Inside
<1>4. old'[c] = Inside(FlavourOf(c)) /\ \A d \in Callbacks : d # c => old'[d] = old[d]
  BY <1>1, <1>2, ZenonT(30)
<1> QED
  BY <1>2, <1>3, <1>4, ZenonT(30)

(* A callback waits only for sections that have not ended. *)
LEMMA WaitingKept ==
  ASSUME TypeOK, Waiting, Steps
  PROVE  Waiting'
<1> SUFFICES ASSUME NEW c \in Callbacks PROVE (old[c] \subseteq Inside(FlavourOf(c)))'
  BY ZenonT(30) DEF Waiting
<1>0. PICK h \in Flavours : h = FlavourOf(c)
  BY Owners, ZenonT(30)
<1>a. old[c] \subseteq Inside(h)
  BY <1>0, ZenonT(30) DEF Waiting
<1> SUFFICES old'[c] \subseteq Inside(h)'
  BY <1>0, ZenonT(30)
<1>1. ASSUME NEW f \in Flavours, ReadLock(f) PROVE old'[c] \subseteq Inside(h)'
  <2>1. old' = old /\ Inside(h) \subseteq Inside(h)'
    BY <1>1, LockInside, ZenonT(30) DEF ReadLock
  <2> QED
    BY <1>a, <2>1, ZenonT(30)
<1>2. ASSUME NEW f \in Flavours, ReadUnlock(f) PROVE old'[c] \subseteq Inside(h)'
  <2>1. CASE h = f
    <3>1. Inside(h)' = Inside(h) \ {Level} /\ old'[c] = old[c] \ {Level}
      BY <1>0, <1>2, <2>1, UnlockInside, ZenonT(30)
    <3> QED
      BY <1>a, <3>1, ZenonT(30)
  <2>2. CASE h # f
    <3>1. Inside(h)' = Inside(h) /\ old'[c] = old[c]
      BY <1>0, <1>2, <2>2, UnlockInside, ZenonT(30)
    <3> QED
      BY <1>a, <3>1, ZenonT(30)
  <2> QED
    BY <2>1, <2>2, ZenonT(30)
<1>3. ASSUME NEW d \in Callbacks, Call(d) PROVE old'[c] \subseteq Inside(h)'
  <2>1. Inside(h)' = Inside(h) /\ (c = d => old'[c] = Inside(h)) /\ (c # d => old'[c] = old[c])
    BY <1>0, <1>3, CallInside, ZenonT(30)
  <2> QED
    BY <1>a, <2>1, ZenonT(30)
<1>4. CASE Idle
  BY <1>a, <1>4, ZenonT(30) DEF Idle, Inside
<1> QED
  BY <1>1, <1>2, <1>3, <1>4, MostlyIdle, ZenonT(30)

(* The lists stay whole. *)
LEMMA ListsKept ==
  ASSUME IInv, Steps
  PROVE  Lists'
<1>0. TypeOK /\ Contexts /\ Waiting /\ Lists
  BY ZenonT(30) DEF IInv
<1>1. ASSUME UNCHANGED <<mem, donetail, curtail, posted, old, rcp, softirq, list, next>>
      PROVE  Lists'
  <2>1. UNCHANGED <<mem, donetail, curtail, posted, Cursor>> /\ rcp' = rcp
        /\ \A c \in Callbacks : old'[c] \subseteq old[c]
    BY <1>1, ZenonT(30) DEF Cursor
  <2> QED
    BY <1>0, <2>1, StillLists, ZenonT(30)
<1>2. ASSUME NEW f \in Flavours, ReadLock(f) PROVE Lists'
  BY <1>1, <1>2, ZenonT(30) DEF ReadLock, lists, cpu, locals
<1>3. ASSUME NEW f \in Flavours, ReadUnlock(f) PROVE Lists'
  <2>1. UNCHANGED <<mem, donetail, curtail, posted, Cursor>> /\ rcp' = rcp
    BY <1>3, ZenonT(30) DEF ReadUnlock, lists, cpu, locals, Cursor
  <2>2. \A c \in Callbacks : old'[c] \subseteq old[c]
    BY <1>0, <1>3, UnlockInside, ZenonT(30)
  <2> QED
    BY <1>0, <2>1, <2>2, StillLists, ZenonT(30)
<1>4. ASSUME NEW c \in Callbacks, Call(c) PROVE Lists'
  BY <1>0, <1>4, CallLists, ZenonT(30)
<1>5. ASSUME NEW m, Schedule(m) PROVE Lists'
  <2>1. Qs(Flavours) /\ UNCHANGED <<mem, curtail, posted, Cursor, rcp, old>>
    BY <1>5, ZenonT(30) DEF Schedule, locals, Cursor
  <2>2. \A f \in Flavours : Inside(f) = {}
    BY <1>0, <1>5, ScheduleReportsTruth, ZenonT(30)
  <2>3. Flavours \in SUBSET Flavours
    BY ZenonT(30)
  <2> QED
    BY <1>0, <2>1, <2>2, <2>3, QsLists, ZenonT(30)
<1>6. CASE Tick
  <2>1. Qs(TickReports) /\ UNCHANGED <<mem, curtail, posted, Cursor, rcp, old>>
    BY <1>6, ZenonT(30) DEF Tick, cpu, locals, Cursor
  <2>2. PICK fs : fs = TickReports
    BY ZenonT(30)
  <2>3. fs \in SUBSET Flavours /\ \A f \in fs : Inside(f) = {}
    BY <1>0, <1>6, <2>2, TickReportsTruth, ZenonT(30)
  <2>4. Qs(fs)
    BY <2>1, <2>2, ZenonT(30)
  <2> QED
    BY <1>0, <2>1, <2>3, <2>4, QsLists, ZenonT(30)
<1>7. CASE SoftirqEnd
  <2>1. Qs({"bh"}) /\ UNCHANGED <<mem, curtail, posted, rcp, old>>
        /\ softirq = "qs" /\ softirq' = "none"
    BY <1>7, ZenonT(30) DEF SoftirqEnd, locals
  <2>2. UNCHANGED <<mem, curtail, posted, Cursor, rcp, old>>
    BY <2>1 DEF Cursor
  <2>3. {"bh"} \in SUBSET Flavours
    BY ZenonT(30) DEF Flavours
  <2>4. \A f \in {"bh"} : Inside(f) = {}
    BY <1>0, <1>7, EndReportsTruth, ZenonT(30)
  <2> QED
    BY <1>0, <2>1, <2>2, <2>3, <2>4, QsLists, ZenonT(30)
<1>8. CASE Trap \/ IrqEnter \/ IrqExit \/ IrqWakes
  BY <1>1, <1>8, ZenonT(30) DEF Trap, IrqEnter, IrqExit, IrqWakes, lists, cpu, locals
<1>9. ASSUME UNCHANGED <<mem, donetail, curtail, posted, old, Cursor>>,
             rcp' = rcp \/ Cursor = NULL
      PROVE  Lists'
  <2>1. \A c \in Callbacks : old'[c] \subseteq old[c]
    BY <1>9, ZenonT(30)
  <2> QED
    BY <1>0, <1>9, <2>1, StillLists, ZenonT(30)
<1>10. CASE SoftirqStart
  <2>1. ~in_interrupt /\ softirq' \in {"before", "other"}
        /\ UNCHANGED <<mem, donetail, curtail, posted, old, rcp>>
    BY <1>10, ZenonT(30) DEF SoftirqStart, lists, locals
  <2>2. softirq = "none"
    BY <2>1, ZenonT(30) DEF in_interrupt, in_softirq
  <2>3. UNCHANGED Cursor
    BY <2>1, <2>2 DEF Cursor
  <2> QED
    BY <1>9, <2>1, <2>3, ZenonT(30)
<1>11. CASE OthersDone
  <2>1. softirq \in {"before", "other"} /\ softirq' \in {"splice", "qs"}
        /\ UNCHANGED <<mem, donetail, curtail, posted, old>>
    BY <1>11, ZenonT(30) DEF OthersDone, lists
  <2>2. UNCHANGED Cursor /\ Cursor = NULL
    BY <2>1 DEF Cursor
  <2> QED
    BY <1>9, <2>1, <2>2, ZenonT(30)
<1>12. CASE Splice
  BY <1>0, <1>12, SpliceLists, ZenonT(30)
<1>13. ASSUME NEW c \in Callbacks, Invoke(c) PROVE Lists'
  BY <1>0, <1>13, InvokeLists, ZenonT(30)
<1>14. CASE Return
  <2>1. softirq = "run" /\ softirq' = "invoke" /\ list' = next
        /\ UNCHANGED <<mem, donetail, curtail, posted, old, rcp>>
    BY <1>14, ZenonT(30) DEF Return, Advance, lists
  <2>2. UNCHANGED Cursor
    BY <2>1 DEF Cursor
  <2> QED
    BY <1>9, <2>1, <2>2, ZenonT(30)
<1>15. CASE ListDone
  <2>1. (softirq = "splice" \/ (softirq = "invoke" /\ list = NULL))
        /\ softirq' \in {"splice", "qs"}
        /\ UNCHANGED <<mem, donetail, curtail, posted, old>>
    BY <1>15, ZenonT(30) DEF ListDone, lists
  <2>2. UNCHANGED Cursor /\ Cursor = NULL
    BY <2>1 DEF Cursor
  <2> QED
    BY <1>9, <2>1, <2>2, ZenonT(30)
<1>16. CASE UNCHANGED vars
  BY <1>1, <1>16, ZenonT(30) DEF vars, lists, cpu, locals
<1> QED
  BY <1>2, <1>3, <1>4, <1>5, <1>6, <1>7, <1>8, <1>10, <1>11, <1>12, <1>13, <1>14, <1>15,
     <1>16, ZenonT(30) DEF Steps

(* The invariant holds at the start. *)
LEMMA InitGood ==
  ASSUME Init
  PROVE  IInv
<1>0. /\ mem = [l \in Locations |-> NULL]
      /\ donetail = [f \in Flavours |-> f] /\ curtail = [f \in Flavours |-> f]
      /\ mode = "kernel" /\ hardirq = FALSE /\ softirq = "none"
      /\ rcp = "sched" /\ rd = {} /\ posted = {} /\ old = [c \in Callbacks |-> {}]
  BY ZenonT(30) DEF Init
<1>1. TypeOK
  BY ZenonT(30) DEF Init, TypeOK, Locations, Modes, Flavours
<1>2. Contexts
  BY <1>0 DEF Contexts, NoSection
<1>3. Waiting
  BY <1>0, ZenonT(30) DEF Waiting
<1>4. Cursor = NULL
  BY <1>0 DEF Cursor
<1>5. PICK e : e = <<>>
  BY ZenonT(30)
<1>6. e \in Seq(Callbacks) /\ Len(e) = 0 /\ On(e) = {} /\ 0 \in 0 .. Len(e)
  BY <1>5 DEF On
<1>7. PICK s \in [Flavours -> Seq(Callbacks)], n \in [Flavours -> Nat] :
        \A f \in Flavours : s[f] = e /\ n[f] = 0
  <2>1. [f \in Flavours |-> e] \in [Flavours -> Seq(Callbacks)]
        /\ [f \in Flavours |-> 0] \in [Flavours -> Nat]
    BY <1>6
  <2> QED
    BY <2>1, ZenonT(30)
<1>8. Chain(mem, NULL, e)
  BY <1>5, ChainEmpty, ZenonT(30)
<1>9. \A o : Ready(o, e, 0)
  BY DEF Ready
<1>10. ASSUME NEW f \in Flavours PROVE ListIs(f, s[f], n[f])
  <2>1. f \in Locations
    BY ZenonT(30) DEF Locations
  <2>2. mem[f] = NULL /\ donetail[f] = f /\ curtail[f] = f
    BY <1>0, <2>1, ZenonT(30)
  <2> QED
    BY <1>6, <1>7, <1>8, <1>9, <2>2, ZenonT(30) DEF ListIs, EndOf
<1>11. LocalIs(e)
  BY <1>4, <1>6, <1>8, <1>9, ZenonT(30) DEF LocalIs
<1>12. Holds(s, e, posted, rcp)
  BY <1>0, <1>6, <1>7, ZenonT(30) DEF Holds
<1>13. Shape(s, n, e)
  BY <1>10, <1>11, <1>12, ZenonT(30) DEF Shape
<1>14. Lists
  BY <1>6, <1>13, ZenonT(30) DEF Lists
<1> QED
  BY <1>1, <1>2, <1>3, <1>14, ZenonT(30) DEF IInv

(* Every step keeps it. *)
LEMMA StepGood ==
  ASSUME IInv, [Next]_vars
  PROVE  IInv'
<1>1. Steps /\ TypeOK /\ Contexts /\ Waiting
  BY NextSteps, ZenonT(30) DEF IInv
<1>2. TypeOK' /\ Contexts' /\ Waiting'
  BY <1>1, TypesKept, ContextsKept, WaitingKept, ZenonT(30)
<1>3. Lists'
  BY <1>1, ListsKept, ZenonT(30)
<1> QED
  BY <1>2, <1>3, ZenonT(30) DEF IInv

(* So it always holds. *)
LEMMA RcuTinyInvariant == Spec => []IInv
<1>1. Init => IInv
  BY InitGood, ZenonT(30)
<1>2. IInv /\ [Next]_vars => IInv'
  BY StepGood, ZenonT(30)
<1> QED
  BY <1>1, <1>2, PTL DEF Spec

(* rcu_process_callbacks() and __call_rcu() lose no callback: whatever is  *)
(* posted while the softirq takes the done part off a list or runs a       *)
(* callback, the callbacks that hang on the list of a flavour and on the   *)
(* local list are those that were posted and have not begun.               *)
THEOREM RcuLosesNoCallback == Spec => []NothingLost
<1>1. ASSUME IInv PROVE NothingLost
  <2>1. PICK s \in [Flavours -> Seq(Callbacks)], n \in [Flavours -> Nat],
             g \in Seq(Callbacks) : Shape(s, n, g)
    BY <1>1, ZenonT(30) DEF IInv, Lists
  <2>2. Grabbed = On(g)
    <3>1. Chain(mem, Cursor, g)
      BY <2>1, ZenonT(30) DEF Shape, LocalIs
    <3>2. HangOn(Cursor) = On(g)
      BY <3>1, ChainHangs, ZenonT(30)
    <3>3. CASE softirq = "invoke"
      <4>1. Cursor = list /\ Grabbed = HangOn(list)
        BY <3>3 DEF Cursor, Grabbed
      <4> QED
        BY <3>2, <4>1, ZenonT(30)
    <3>4. CASE softirq = "run"
      <4>1. Cursor = next /\ Grabbed = HangOn(next)
        BY <3>4 DEF Cursor, Grabbed
      <4> QED
        BY <3>2, <4>1, ZenonT(30)
    <3>5. CASE softirq # "invoke" /\ softirq # "run"
      <4>1. Cursor = NULL /\ Grabbed = {}
        BY <3>5 DEF Cursor, Grabbed
      <4> QED
        BY <2>1, <4>1, NoLocal, ZenonT(30)
    <3> QED
      BY <3>3, <3>4, <3>5, ZenonT(30)
  <2>3. \A f \in Flavours : HangOn(mem[f]) = On(s[f])
    BY <2>1, ChainHangs, ZenonT(30) DEF Shape, ListIs
  <2>4. \A f \in Flavours : Queued(f) = posted \cap CallbacksOf(f)
    BY <2>1, <2>2, <2>3, ZenonT(30) DEF Shape, Holds, Queued
  <2> QED
    BY <1>1, <2>4, ZenonT(30) DEF IInv, NothingLost
<1> QED
  BY <1>1, RcuTinyInvariant, PTL

-----------------------------------------------------------------------------
(* What a step does to one flavour: a section begins or ends, a callback   *)
(* is posted or begins, or nothing.                                        *)
P(f) == posted \cap CallbacksOf(f)
O(f) == [c \in CallbacksOf(f) |-> old[c]]

Locks(f) ==
  \E r \in Levels :
    /\ r \notin Inside(f) /\ Inside(f)' = Inside(f) \cup {r}
    /\ UNCHANGED <<P(f), O(f)>>
Unlocks(f) ==
  \E r \in Levels :
    /\ r \in Inside(f) /\ Inside(f)' = Inside(f) \ {r}
    /\ O(f)' = [c \in CallbacksOf(f) |-> O(f)[c] \ {r}]
    /\ UNCHANGED P(f)
Posts(f) ==
  \E c \in CallbacksOf(f) :
    /\ c \notin P(f) /\ P(f)' = P(f) \cup {c}
    /\ O(f)' = [O(f) EXCEPT ![c] = Inside(f)]
    /\ UNCHANGED Inside(f)
Invokes(f) ==
  \E c \in CallbacksOf(f) :
    /\ c \in P(f) /\ O(f)[c] = {} /\ P(f)' = P(f) \ {c}
    /\ UNCHANGED <<Inside(f), O(f)>>
Nothing(f) == UNCHANGED <<Inside(f), P(f), O(f)>>

(* Every step is, for each of the two flavours, a step of GracePeriod or   *)
(* none.                                                                   *)
LEMMA FlavourSteps ==
  ASSUME IInv, [Next]_vars, NEW f \in Flavours
  PROVE  Locks(f) \/ Unlocks(f) \/ Posts(f) \/ Invokes(f) \/ Nothing(f)
<1>0. TypeOK /\ Lists /\ Steps /\ CallbacksOf(f) \subseteq Callbacks
  BY NextSteps, Owners, ZenonT(30) DEF IInv
<1>a. ASSUME posted' = posted PROVE P(f)' = P(f)
  BY <1>a, ZenonT(30) DEF P
<1>b. ASSUME \A c \in CallbacksOf(f) : old'[c] = old[c] PROVE O(f)' = O(f)
  BY <1>b, ZenonT(30) DEF O
<1>1. ASSUME NEW h \in Flavours, ReadLock(h) PROVE Locks(f) \/ Nothing(f)
  <2>1. UNCHANGED <<P(f), O(f)>>
    BY <1>1, <1>a, <1>b, ZenonT(30) DEF ReadLock
  <2>2. CASE h = f
    BY <1>0, <1>1, <2>1, <2>2, LockInside, ZenonT(30) DEF Locks
  <2>3. CASE h # f
    BY <1>0, <1>1, <2>1, <2>3, LockInside, ZenonT(30) DEF Nothing
  <2> QED
    BY <2>2, <2>3, ZenonT(30)
<1>2. ASSUME NEW h \in Flavours, ReadUnlock(h) PROVE Unlocks(f) \/ Nothing(f)
  <2>1. UNCHANGED P(f)
    BY <1>2, <1>a, ZenonT(30) DEF ReadUnlock
  <2>2. CASE h = f
    <3>1. \A c \in CallbacksOf(f) : old'[c] = old[c] \ {Level}
      BY <1>0, <1>2, <2>2, UnlockInside, Owners, ZenonT(30)
    <3>2. O(f)' = [c \in CallbacksOf(f) |-> O(f)[c] \ {Level}]
      BY <3>1, ZenonT(30) DEF O
    <3> QED
      BY <1>0, <1>2, <2>1, <2>2, <3>2, UnlockInside, ZenonT(30) DEF Unlocks
  <2>3. CASE h # f
    <3>1. \A c \in CallbacksOf(f) : FlavourOf(c) = f /\ c \in Callbacks
      BY <1>0, Owners, ZenonT(30)
    <3>2. \A c \in CallbacksOf(f) : old'[c] = old[c]
      BY <1>0, <1>2, <2>3, <3>1, UnlockInside, ZenonT(30)
    <3> QED
      BY <1>0, <1>2, <1>b, <2>1, <2>3, <3>2, UnlockInside, ZenonT(30) DEF Nothing
  <2> QED
    BY <2>2, <2>3, ZenonT(30)
<1>3. ASSUME NEW c \in Callbacks, Call(c) PROVE Posts(f) \/ Nothing(f)
  <2>0. /\ UNCHANGED Inside(f) /\ c \notin posted /\ posted' = posted \cup {c}
        /\ old'[c] = Inside(FlavourOf(c))
        /\ \A d \in Callbacks : d # c => old'[d] = old[d]
    BY <1>0, <1>3, CallInside, ZenonT(30)
  <2>1. CASE c \in CallbacksOf(f)
    <3>1. old'[c] = Inside(f) /\ \A d \in CallbacksOf(f) : d # c => old'[d] = old[d]
      BY <1>0, <2>0, <2>1, Owners, ZenonT(30)
    <3>2. O(f)' = [O(f) EXCEPT ![c] = Inside(f)]
      BY <2>1, <3>1, ZenonT(30) DEF O
    <3>3. c \notin P(f) /\ P(f)' = P(f) \cup {c}
      BY <2>0, <2>1 DEF P
    <3> QED
      BY <2>0, <2>1, <3>2, <3>3, ZenonT(30) DEF Posts
  <2>2. CASE c \notin CallbacksOf(f)
    <3>1. \A d \in CallbacksOf(f) : old'[d] = old[d]
      BY <1>0, <2>0, <2>2, ZenonT(30)
    <3>2. P(f)' = P(f)
      BY <2>0, <2>2 DEF P
    <3> QED
      BY <1>b, <2>0, <3>1, <3>2, ZenonT(30) DEF Nothing
  <2> QED
    BY <2>1, <2>2, ZenonT(30)
<1>4. ASSUME NEW c \in Callbacks, Invoke(c) PROVE Invokes(f) \/ Nothing(f)
  <2>0. c \in posted /\ old[c] = {} /\ posted' = posted \ {c} /\ UNCHANGED <<rd, old>>
    BY <1>0, <1>4, InvokeLists, ZenonT(30) DEF Invoke
  <2>1. UNCHANGED <<Inside(f), O(f)>>
    BY <1>b, <2>0, ZenonT(30) DEF Inside
  <2>2. CASE c \in CallbacksOf(f)
    <3>1. c \in P(f) /\ O(f)[c] = {} /\ P(f)' = P(f) \ {c}
      BY <2>0, <2>2 DEF P, O
    <3> QED
      BY <2>1, <2>2, <3>1, ZenonT(30) DEF Invokes
  <2>3. CASE c \notin CallbacksOf(f)
    <3>1. P(f)' = P(f)
      BY <2>0, <2>3 DEF P
    <3> QED
      BY <2>1, <3>1, ZenonT(30) DEF Nothing
  <2> QED
    BY <2>2, <2>3, ZenonT(30)
<1>5. ASSUME UNCHANGED <<rd, posted, old>> PROVE Nothing(f)
  BY <1>5, <1>a, <1>b, ZenonT(30) DEF Nothing, Inside
<1>6. \/ \E h \in Flavours : ReadLock(h) \/ ReadUnlock(h)
      \/ \E c \in Callbacks : Call(c) \/ Invoke(c)
      \/ UNCHANGED <<rd, posted, old>>
  BY <1>0, ZenonT(30) DEF Steps, Schedule, Trap, IrqEnter, IrqExit, IrqWakes, Tick, SoftirqStart,
     OthersDone, Splice, Return, ListDone, SoftirqEnd, vars
<1> QED
  BY <1>1, <1>2, <1>3, <1>4, <1>5, <1>6, ZenonT(30)

(* At the start there are no sections and no callbacks. *)
LEMMA FlavourInit ==
  ASSUME Init, NEW f
  PROVE  Inside(f) = {} /\ P(f) = {} /\ (f \in Flavours => O(f) = [c \in CallbacksOf(f) |-> {}])
<1>1. rd = {} /\ posted = {} /\ old = [c \in Callbacks |-> {}]
  BY ZenonT(30) DEF Init
<1>2. f \in Flavours => CallbacksOf(f) \subseteq Callbacks
  BY Owners, ZenonT(30)
<1>3. Inside(f) = {} /\ P(f) = {}
  BY <1>1, ZenonT(30) DEF Inside, P
<1>4. f \in Flavours => O(f) = [c \in CallbacksOf(f) |-> {}]
  BY <1>1, <1>2 DEF O
<1> QED
  BY <1>3, <1>4, ZenonT(30)

(* call_rcu_sched() keeps the promise of GracePeriod: a callback is        *)
(* invoked once for every call, and only after the sched read-side         *)
(* critical sections that were there at the call have all ended.           *)
THEOREM RcuSchedIsGracePeriod == Spec => ImplementsSched
<1>0. "sched" \in Flavours /\ CallbacksOf("sched") = SchedCallbacks
  BY DEF Flavours, CallbacksOf
<1>a. P("sched") = posted \cap SchedCallbacks /\ O("sched") = [c \in SchedCallbacks |-> old[c]]
  BY <1>0, ZenonT(30) DEF P, O
<1>b. P("sched")' = (posted \cap SchedCallbacks)'
      /\ O("sched")' = [c \in SchedCallbacks |-> old[c]]'
  BY <1>0, ZenonT(30) DEF P, O
<1>1. Init => Sched!Init
  <2> SUFFICES ASSUME Init PROVE Sched!Init
    BY ZenonT(30)
  <2>1. Inside("sched") = {} /\ P("sched") = {} /\ O("sched") = [c \in SchedCallbacks |-> {}]
    BY <1>0, FlavourInit, ZenonT(30)
  <2> QED
    BY <1>a, <2>1, ZenonT(30) DEF Sched!Init
<1>2. IInv /\ [Next]_vars
        => [Sched!Next]_<<Inside("sched"), posted \cap SchedCallbacks,
                          [c \in SchedCallbacks |-> old[c]]>>
  <2> SUFFICES ASSUME IInv, [Next]_vars
               PROVE  \/ Sched!Next
                      \/ UNCHANGED <<Inside("sched"), posted \cap SchedCallbacks,
                                     [c \in SchedCallbacks |-> old[c]]>>
    BY ZenonT(30)
  <2>1. CASE Locks("sched")
    BY <1>0, <1>a, <1>b, <2>1, ZenonT(30) DEF Locks, Sched!Next, Sched!ReadLock
  <2>2. CASE Unlocks("sched")
    BY <1>0, <1>a, <1>b, <2>2, ZenonT(30) DEF Unlocks, Sched!Next, Sched!ReadUnlock
  <2>3. CASE Posts("sched")
    BY <1>0, <1>a, <1>b, <2>3, ZenonT(30) DEF Posts, Sched!Next, Sched!Post
  <2>4. CASE Invokes("sched")
    BY <1>0, <1>a, <1>b, <2>4, ZenonT(30) DEF Invokes, Sched!Next, Sched!Invoke
  <2>5. CASE Nothing("sched")
    BY <1>a, <1>b, <2>5, ZenonT(30) DEF Nothing
  <2> QED
    BY <1>0, <2>1, <2>2, <2>3, <2>4, <2>5, FlavourSteps, ZenonT(30)
<1> QED
  BY <1>1, <1>2, RcuTinyInvariant, PTL DEF Spec, ImplementsSched, Sched!Spec

(* call_rcu_bh() keeps the same promise for the bh sections. *)
THEOREM RcuBhIsGracePeriod == Spec => ImplementsBh
<1>0. "bh" \in Flavours /\ CallbacksOf("bh") = BhCallbacks
  BY DEF Flavours, CallbacksOf
<1>a. P("bh") = posted \cap BhCallbacks /\ O("bh") = [c \in BhCallbacks |-> old[c]]
  BY <1>0, ZenonT(30) DEF P, O
<1>b. P("bh")' = (posted \cap BhCallbacks)'
      /\ O("bh")' = [c \in BhCallbacks |-> old[c]]'
  BY <1>0, ZenonT(30) DEF P, O
<1>1. Init => Bh!Init
  <2> SUFFICES ASSUME Init PROVE Bh!Init
    BY ZenonT(30)
  <2>1. Inside("bh") = {} /\ P("bh") = {} /\ O("bh") = [c \in BhCallbacks |-> {}]
    BY <1>0, FlavourInit, ZenonT(30)
  <2> QED
    BY <1>a, <2>1, ZenonT(30) DEF Bh!Init
<1>2. IInv /\ [Next]_vars
        => [Bh!Next]_<<Inside("bh"), posted \cap BhCallbacks,
                       [c \in BhCallbacks |-> old[c]]>>
  <2> SUFFICES ASSUME IInv, [Next]_vars
               PROVE  \/ Bh!Next
                      \/ UNCHANGED <<Inside("bh"), posted \cap BhCallbacks,
                                     [c \in BhCallbacks |-> old[c]]>>
    BY ZenonT(30)
  <2>1. CASE Locks("bh")
    BY <1>0, <1>a, <1>b, <2>1, ZenonT(30) DEF Locks, Bh!Next, Bh!ReadLock
  <2>2. CASE Unlocks("bh")
    BY <1>0, <1>a, <1>b, <2>2, ZenonT(30) DEF Unlocks, Bh!Next, Bh!ReadUnlock
  <2>3. CASE Posts("bh")
    BY <1>0, <1>a, <1>b, <2>3, ZenonT(30) DEF Posts, Bh!Next, Bh!Post
  <2>4. CASE Invokes("bh")
    BY <1>0, <1>a, <1>b, <2>4, ZenonT(30) DEF Invokes, Bh!Next, Bh!Invoke
  <2>5. CASE Nothing("bh")
    BY <1>a, <1>b, <2>5, ZenonT(30) DEF Nothing
  <2> QED
    BY <1>0, <2>1, <2>2, <2>3, <2>4, <2>5, FlavourSteps, ZenonT(30)
<1> QED
  BY <1>1, <1>2, RcuTinyInvariant, PTL DEF Spec, ImplementsBh, Bh!Spec
=============================================================================
