SPECIFICATION Spec
CONSTANTS
  w1 = w1
  w2 = w2
  w3 = w3
  Windows = {w1, w2, w3}
  MayDispose = {}
  MayCrash = {}
  None = None
  Corpse = Corpse
  Lost = Lost
  Empty = Empty
PROPERTIES
  BelievedBindStands
CHECK_DEADLOCK FALSE
