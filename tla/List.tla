-------------------------------- MODULE List --------------------------------
(***************************************************************************)
(* The linked lists of include/linux/list.h as sequences of their entries: *)
(* list_add_tail() is Append, list_first_entry() is Head.  These are the   *)
(* operations that reach into the middle of a list.  (SequencesExt has the *)
(* like, but extends Bags, whose theorems slow down every proof tenfold.)  *)
(***************************************************************************)
EXTENDS Sequences, FiniteSetsExt

Contains(l, x) == \E i \in 1 .. Len(l) : l[i] = x

(* list_for_each_entry() up to the first entry with P, 0 if there is none. *)
FirstPos(l, P(_)) ==
  LET I == {i \in 1 .. Len(l) : P(l[i])}
  IN IF I = {} THEN 0 ELSE Min(I)

(* list_del() of the entry at position i, and of the entry x. *)
ListDelAt(l, i) == [j \in 1 .. Len(l) - 1 |-> l[IF j < i THEN j ELSE j + 1]]
ListDel(l, x) ==
  IF Contains(l, x) THEN ListDelAt(l, CHOOSE i \in 1 .. Len(l) : l[i] = x) ELSE l

(* __list_add() of x between the entries at positions i - 1 and i. *)
ListAddAt(l, i, x) ==
  [j \in 1 .. Len(l) + 1 |-> IF j < i THEN l[j] ELSE IF j = i THEN x ELSE l[j - 1]]
=============================================================================
