CONSTANTS
  t1 = t1
  t2 = t2
  Tasks = {t1, t2}
  N = 1
  MaxExtra = 1
SPECIFICATION FairSpec
INVARIANTS
  UnitsConserved
  NoWaiterLeftBehind
  QueueMatchesWaiters
PROPERTIES
  WaitersServed
