SPECIFICATION Spec
CONSTANTS
  Requests = {r1, r2}
  Lexemes = {l1}
  MetadataInputs <- CompleteForm
SYMMETRY Symmetry
INVARIANT
  StagesEarned
