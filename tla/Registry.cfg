SPECIFICATION Spec
CONSTANTS
  Requests = {r1, r2}
  Workers = {w1, w2}
  Jobs = {j1, j2, j3, j4}
  Keep = 1
  MaxDeliveries = 2
  LoadsMembers = TRUE
SYMMETRY Symmetry
CHECK_DEADLOCK FALSE
INVARIANTS
  StatusExplained
  RetriesOfFailures
  HistoryBounded
  NewestKept
