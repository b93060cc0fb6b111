CONSTANTS
  None = None
  t1 = t1
  t2 = t2
  t3 = t3
  l1 = l1
  l2 = l2
  Tasks = {t1, t2, t3}
  Locks = {l1, l2}
  WwSets <- MCWwSets
  Modes = {"INTERRUPTIBLE"}
  WwModes = {"UNINTERRUPTIBLE"}
SPECIFICATION Spec
SYMMETRY Symmetry
INVARIANTS
  MutualExclusion
  PickupWillHappen
  NoLostWakeup
  WaitListOrdered
  NoDeadlock
PROPERTIES
  HandoffHonoured
  BacksOffForOlder
