SPECIFICATION MCSpec
CONSTANTS
  Sessions = {s1}
  Commands = {claude}
  Waiters = {w1}
  MayBeHelper = {s1}
  RingSeqBase = 3
  None = None
  TBusyCandidate = 6
  TBusyConfirm = 2
  TMightNeed = 8
  TSettled = 12
  TResize = 2
INVARIANTS
  AlarmsAreSound
PROPERTIES
  ClaimedNeverRings
  SeqCountsLatches
  RingsOutliveReports
  DeferralEnds
  DetectorKeepsItsPromise
  SettlesWhenOutputStops
CHECK_DEADLOCK FALSE
