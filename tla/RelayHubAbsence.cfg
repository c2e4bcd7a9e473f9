SPECIFICATION Spec
CONSTANTS
  Burrows = {b1, b2}
  BurrowSockets = {s1}
  ClientSockets = {}
  MaxClientSockets = 1
  MaxFileSwaps = 1
  None = None
INVARIANTS
  OnlyDeletedAreEvicted
CHECK_DEADLOCK FALSE
