SPECIFICATION FairSpec
CONSTANTS
  Thread = {w, s1, s2}
  Waiters = {w}
  None = None
INVARIANTS
  TypeOK
  MutexOwned
  NoLostWakeup
PROPERTIES
  ImplementsEvent
