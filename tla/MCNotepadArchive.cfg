SPECIFICATION Spec
CONSTANTS
  Surfaces = {s1, s2}
  Notes = {n1, n2}
  MaxEdits = 2
  MaxBatches = 2
  MaxOthers = 1
  Closures = {c1, c2}
  Absent = Absent
SYMMETRY Interchangeable
INVARIANTS
  ArchivedOnce
  StaleIsReplaced
CHECK_DEADLOCK FALSE
