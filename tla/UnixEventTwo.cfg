SPECIFICATION FairSpec
CONSTANTS
  Thread = {w1, w2, s1}
  Waiters = {w1, w2}
  None = None
PROPERTY
  WaitersFreed
