SPECIFICATION Spec
CONSTANTS
  Clients = {c1, c2}
  Minters = {m1, m2}
  MaxMints = 3
  MaxTokens = 2
  MaxPairings = 1
  TTL = 1
  MaxTime = 1
  MaxEpochs = 0
  None = None
INVARIANTS
  PanelIsRight
CHECK_DEADLOCK FALSE
