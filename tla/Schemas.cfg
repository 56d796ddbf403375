SPECIFICATION Spec
CONSTANTS
  Editors = {e1, e2}
  Workers = {w1, w2}
  Ids = {i1, i2, i3, i4}
SYMMETRY Symmetry
INVARIANTS
  VersionsDense
  OneActive
PROPERTIES
  StaysActive
CHECK_DEADLOCK FALSE
