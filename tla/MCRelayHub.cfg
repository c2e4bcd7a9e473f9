SPECIFICATION Spec
CONSTANTS
  Burrows = {b1, b2}
  BurrowSockets = {s1, s2}
  ClientSockets = {c1, c2}
  MaxClientSockets = 1
  MaxFileSwaps = 1
  None = None
SYMMETRY Symmetric
CONSTRAINT OneClientAfterSwap
INVARIANTS
  BurrowKnowsItsClients
  ClientKnowsItsBurrow
  ForwardingIsSound
  SweepSparesEnrolled
CHECK_DEADLOCK FALSE
