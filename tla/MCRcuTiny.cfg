CONSTANTS
  NULL = NULL
  SchedCallbacks = {s1, s2}
  BhCallbacks = {b1}
SPECIFICATION FairSpec
INVARIANTS
  NothingLost
PROPERTIES
  ImplementsSched
  ImplementsBh
  CallbacksInvoked
