\* The user types while the shell prints.
CONSTANTS
  Cols = 2
  PageRows = 3
  Pages = 2
  ShiftedCells <- MCShiftedCells
  Chars = {"a"}
  FillBackup = FALSE
  PageDownEarly = TRUE
SPECIFICATION EchoSpec
INVARIANTS ColumnStops
CHECK_DEADLOCK FALSE
