SPECIFICATION Pages
CONSTANTS
  Editors = {e1, e2}
  Workers = {w1}
  Ids = {i1, i2}
  PageCount = 2
  MaxSplits = 2
  Boxes <- SmallBoxes
  Readings <- SmallReadings
  PageWidth = 5
  PageHeight = 1
  PdfPages = 3
  Submissions <- SmallSubmissions
  MaxSaves = 3
  Nothing = Nothing
SYMMETRY Symmetry
CHECK_DEADLOCK FALSE
INVARIANTS
  OverlapsExplained
  LexemesOnPages
  ViewerShowsSubmission
  ScanLeavesNoGap
PROPERTY
  DeletionIsFinal
