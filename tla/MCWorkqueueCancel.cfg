CONSTANTS
  w1 = w1
  c1 = c1
  k1 = k1
  k2 = k2
  k3 = k3
  Works = {w1}
  Callers = {c1}
  Workers = {k1, k2, k3}
  Rescuer = Rescuer
  None = None
  NR_COLORS = 3
  Uses <- CancelUses
SPECIFICATION Spec
INVARIANT
  FlushedIsIdle
