SPECIFICATION Spec
CONSTANTS
  Sessions = {s1}
  Commands = {claude}
  Waiters = {}
  MayBeHelper = {}
  RingSeqBase = 3
  None = None
PROPERTIES
  RingLatchedUntilCleared
CHECK_DEADLOCK FALSE
