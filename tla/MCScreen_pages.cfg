\* The output fills the backup, and the user pages down at any time.
CONSTANTS
  Cols = 2
  PageRows = 2
  Pages = 3
  ShiftedCells <- MCShiftedCells
  Chars = {"a"}
  FillBackup = TRUE
  PageDownEarly = TRUE
SPECIFICATION Spec
INVARIANTS TypeOK CountersAgree WindowMatches
PROPERTIES ImplementsTerminal EditsAreShown
