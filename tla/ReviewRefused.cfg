SPECIFICATION Spec
CONSTANTS
  Requests = {r1}
  FieldIds = {f1}
  LoadsMembers = FALSE
CHECK_DEADLOCK FALSE
PROPERTIES
  RefusedOnlyWhenNotAwaiting
