------------------------------- MODULE RWLock -------------------------------
(***************************************************************************)
(* What a reader/writer lock promises: any number of readers, or one       *)
(* writer.  A release of the lock may admit several readers at once, and a *)
(* writer may become a reader without letting another writer in.           *)
(***************************************************************************)
CONSTANT Tasks
VARIABLES readers, writers

Init == readers = {} /\ writers = {}

AcquireRead(S) ==
  /\ writers = {}
  /\ readers' = readers \cup S
  /\ UNCHANGED writers

AcquireWrite(t) ==
  /\ writers = {} /\ readers = {}
  /\ writers' = {t}
  /\ UNCHANGED readers

ReleaseRead(t) ==
  /\ t \in readers
  /\ readers' = readers \ {t}
  /\ UNCHANGED writers

ReleaseWrite(t) ==
  /\ t \in writers
  /\ writers' = writers \ {t}
  /\ UNCHANGED readers

Downgrade(t) ==
  /\ t \in writers
  /\ writers' = writers \ {t}
  /\ readers' = readers \cup {t}

Next ==
  \/ \E S \in SUBSET Tasks : AcquireRead(S)
  \/ \E t \in Tasks :
       AcquireWrite(t) \/ ReleaseRead(t) \/ ReleaseWrite(t) \/ Downgrade(t)

Spec == Init /\ [][Next]_<<readers, writers>>
=============================================================================
