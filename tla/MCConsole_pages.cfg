\* The user turns pages at any time, also before one has been filled; three
\* pages, so that a page key that comes while a page is copied or shifted is
\* followed by a page of new rows.
CONSTANTS
  Cols = 1
  PageRows = 3
  Pages = 3
  ShiftedCells <- MCShiftedCells
  Chars = {"a"}
  FillBackup = FALSE
  PageDownEarly = TRUE
SPECIFICATION ConsoleSpec
INVARIANTS HistoryIntact DisplayHeals
CHECK_DEADLOCK FALSE
