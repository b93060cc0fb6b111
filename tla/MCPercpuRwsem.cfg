CONSTANTS
  Cb = Cb
  None = None
  Try = {FALSE, TRUE}
  Updaters = {w1, w2}
  Readers = {r1}
SPECIFICATION FairSpec
INVARIANTS
  FastPathClosed
  OpenAfterGracePeriod
  NoBug
  WriterIsWoken
PROPERTIES
  ImplementsRWLock
  WritersGetIn
  FastPathReopens
