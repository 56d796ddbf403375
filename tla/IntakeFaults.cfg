SPECIFICATION Spec
CONSTANTS
  Files = {f1, f2}
  Workers = {w1, w2}
  PageCount = 2
  MaxQueued = 1
  MaxFaults = 1
CHECK_DEADLOCK FALSE
SYMMETRY Symmetry
INVARIANTS
  RowsMatchObjects
  PagesMatchImages
  NothingAfterDelete
