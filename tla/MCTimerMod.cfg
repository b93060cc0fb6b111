CONSTANTS
  None = None
  Tasklets = {a}
  HiTasklets = {}
  MAX_SOFTIRQ_RESTART = 2
  Timers = {t, u}
  IrqSafe = {u}
  LVL_BITS = 1
  LVL_CLK_SHIFT = 1
  LVL_DEPTH = 3
  BITS_PER_LONG = 4
  MaxLag = 1
  Uses <- ModUses
SPECIFICATION Spec
INVARIANTS
  ModTimerArms
