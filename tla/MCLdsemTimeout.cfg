CONSTANTS
  t1 = t1
  t2 = t2
  t3 = t3
  Tasks = {t1, t2, t3}
  B = 16
  ReadTimeouts = {"max", "left"}
  WriteTimeouts = {"max"}
SPECIFICATION SpecReadTimeout
INVARIANT
  ActiveExact
