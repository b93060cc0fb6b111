----------------------------- MODULE GracePeriod -----------------------------
(***************************************************************************)
(* What RCU promises: a callback that is posted while readers are in their *)
(* critical sections is invoked after all those readers have left them,    *)
(* and it is invoked once for every time it is posted.                     *)
(***************************************************************************)
CONSTANTS Readers, Callbacks
VARIABLES
  inside,   \* readers in a critical section
  posted,   \* callbacks that were posted and not invoked
  old       \* the readers that a posted callback still has to wait for

Init ==
  /\ inside = {}
  /\ posted = {}
  /\ old = [c \in Callbacks |-> {}]

ReadLock(r) ==
  /\ r \notin inside
  /\ inside' = inside \cup {r}
  /\ UNCHANGED <<posted, old>>

ReadUnlock(r) ==
  /\ r \in inside
  /\ inside' = inside \ {r}
  /\ old' = [c \in Callbacks |-> old[c] \ {r}]
  /\ UNCHANGED posted

Post(c) ==
  /\ c \notin posted
  /\ posted' = posted \cup {c}
  /\ old' = [old EXCEPT ![c] = inside]
  /\ UNCHANGED inside

Invoke(c) ==
  /\ c \in posted
  /\ old[c] = {}
  /\ posted' = posted \ {c}
  /\ UNCHANGED <<inside, old>>

Next ==
  \/ \E r \in Readers : ReadLock(r) \/ ReadUnlock(r)
  \/ \E c \in Callbacks : Post(c) \/ Invoke(c)

Spec == Init /\ [][Next]_<<inside, posted, old>>
=============================================================================
