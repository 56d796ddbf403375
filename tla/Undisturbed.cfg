SPECIFICATION Undisturbed
CONSTANTS
  Requests = {r1}
  Lexemes = {l1, l2}
  MetadataInputs <- AllForms
  FieldIds = {f1, f2}
  Files = {pdf1, pdf2}
  Workers = {w1}
  PageCount = 1
  MaxQueued = 1
  MaxFaults = 0
CHECK_DEADLOCK FALSE
INVARIANT
  ConfiguredStaysReady
PROPERTIES
  ImplementsStatusMachine
  ImplementsWorkflow
  CompleteWhenValid
  EventuallySplit
