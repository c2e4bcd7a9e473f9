SPECIFICATION MCSpec
CONSTANTS
  Sessions = {s1, s2}
  Commands = {claude}
  Waiters = {w1, w2}
  MayBeHelper = {}
  RingSeqBase = 3
  None = None
  MaxSteps = 6
SYMMETRY Symmetric
INVARIANTS
  PublishedIsCurrent
PROPERTIES
  LosingAttentionArms
  AwaitIsHonest
CHECK_DEADLOCK FALSE
