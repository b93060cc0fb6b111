CONSTANTS
  None = None
  r1 = r1
  r2 = r2
  c1 = c1
  c2 = c2
  Readers = {r1, r2}
  Callbacks = {c1, c2}
SPECIFICATION FairSpec
INVARIANTS
  NothingLost
PROPERTIES
  ImplementsGracePeriod
  CallbacksInvoked
