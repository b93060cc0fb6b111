CONSTANTS
  t1 = t1
  t2 = t2
  t3 = t3
  t4 = t4
  Tasks = {t1, t2, t3, t4}
  B = 16
  ReadTimeouts = {"max"}
  WriteTimeouts = {"max", "left"}
SPECIFICATION Spec
SYMMETRY TaskSymmetry
INVARIANTS
  CountExact
  NoLostWakeup
PROPERTY
  ImplementsRWLock
