CONSTANTS
  w1 = w1
  w2 = w2
  c1 = c1
  c2 = c2
  c3 = c3
  k1 = k1
  k2 = k2
  k3 = k3
  Works = {w1, w2}
  Callers = {c1, c2, c3}
  Workers = {k1, k2, k3}
  Rescuer = Rescuer
  None = None
  NR_COLORS = 3
  Uses <- MCUses
SPECIFICATION Spec
SYMMETRY Symmetry
INVARIANTS
  Accounting
  NonReentrant
  FlushWaits
  CancelSync
  NoWarning
  NoStall
