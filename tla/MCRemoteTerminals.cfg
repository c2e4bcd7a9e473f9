SPECIFICATION MCSpec
CONSTANTS
  Surfaces = {s1, s2}
  MaxAttaches = 3
  None = None
  Local = {w1}
  Peers = {w2}
  MaxChanges = 1
  MaxWatches = 2
  MaxCollects = 3
INVARIANTS
  StreamIsAttachment
  ViewerAgreesAtRest
  NoChangeLost
PROPERTIES
  EventsInOrder
  EveryChoiceSettles
  SnapshotsGoForward
CHECK_DEADLOCK FALSE
