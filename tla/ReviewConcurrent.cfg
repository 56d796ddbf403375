SPECIFICATION Spec
CONSTANTS
  Requests = {r1, r2}
  FieldIds = {f1, f2}
  LoadsMembers = TRUE
CHECK_DEADLOCK FALSE
SYMMETRY Symmetry
INVARIANTS
  SchemaBeforeReview
  ParentsExist
