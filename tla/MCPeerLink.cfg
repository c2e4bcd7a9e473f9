SPECIFICATION MCSpec
CONSTANTS
  w1 = w1
  w2 = w2
  Windows = {w1, w2}
  MayDispose = {w1}
  MayCrash = {w2}
  None = None
  Corpse = Corpse
  Lost = Lost
  Empty = Empty
  Sinks = {s1, s2}
  MaxSubs = 3
  MaxSpawns = 2
  Burrows = {b1}
  BurrowSockets = {bs1, bs2}
  ClientSockets = {c1}
  MaxClientSockets = 1
  MaxFileSwaps = 1
INVARIANTS
  RolesAreSound
  AttachedHasStream
  NoOrphanStream
PROPERTIES
  EveryWindowSettles
  AttachIsAnswered
  SweepsTakeEffect
CHECK_DEADLOCK FALSE
