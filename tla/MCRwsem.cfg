CONSTANTS
  t1 = t1
  t2 = t2
  t3 = t3
  Tasks = {t1, t2, t3}
  B = 16
SPECIFICATION Spec
SYMMETRY TaskSymmetry
INVARIANTS
  CountExact
  NoLostWakeup
PROPERTIES
  ImplementsRWLock
