------------------------------- MODULE Screen -------------------------------
(***************************************************************************)
(* The text screen driver. Video memory is one array of rows: the display  *)
(* page in front and, right behind it, the backup pages that keep the      *)
(* history. A character is written to both; the page keys copy a window of *)
(* the history over the display page.                                      *)
(*                                                                         *)
(* Each operator below is one function of the driver, from the state s     *)
(* before it to the state after it, so that a caller composes them in the  *)
(* order of its calls. A cell is its character: the style byte behind each *)
(* character travels with it and is left out. Columns count cells, where   *)
(* the code counts bytes.                                                  *)
(***************************************************************************)
EXTENDS Integers, Sequences

CONSTANTS
  Cols,          \* cells of a row, 80 in the code
  PageRows,      \* rows of a page, 25
  Pages,         \* backup pages, 7
  ShiftedCells,  \* cells that move when the backup is full, 18000 / 2
  Chars,         \* printable characters
  FillBackup,    \* may the output fill the backup?
  PageDownEarly  \* may the user page down before a page has been filled?

ASSUME ScreenAssumption ==
  /\ Cols \in Nat \ {0}
  /\ PageRows \in Nat \ {0, 1}
  /\ Pages \in Nat \ {0, 1}
  /\ ShiftedCells \in 0 .. (Pages - 1) * PageRows * Cols
  /\ FillBackup \in BOOLEAN
  /\ PageDownEarly \in BOOLEAN

BackupRows == Pages * PageRows

Blank == "blank"
Cells == Chars \cup {Blank}
Rows == 0 .. PageRows + BackupRows - 1
Columns == 0 .. Cols - 1

VARIABLES
  scr,     \* the driver's state
  erased   \* history: has a page of the backup been erased since clearScreen?

vars == <<scr, erased>>

(* The row of video memory that holds a row of the backup. *)
Backup(row) == PageRows + row

-----------------------------------------------------------------------------
(* updateCursor: the hardware cursor goes to the current position. *)
UpdateCursor(s) == [s EXCEPT !.cursor = <<s.dispRow, s.column>>]

(* memcpy of n whole rows. Every call moves towards lower addresses, so    *)
(* the byte loop reads each cell before it overwrites it.                  *)
CopyRows(mem, dst, src, n) ==
  [cell \in Rows \X Columns |->
     IF cell[1] \in dst .. dst + n - 1
     THEN mem[<<cell[1] - dst + src, cell[2]>>]
     ELSE mem[cell]]

SetCell(mem, row, col, ch) ==
  [mem EXCEPT ![<<row, col>>] = ch]

(* The state after clearScreen. *)
ClearScreen ==
  UpdateCursor([column |-> 0, dispRow |-> 0, globRow |-> 0, lineShow |-> 0,
                cursor |-> <<0, 0>>,
                mem |-> [cell \in Rows \X Columns |-> Blank]])

(* Shows the page of the backup that starts at the given line. *)
ShowLine(s, line) ==
  [s EXCEPT !.lineShow = line,
            !.mem = CopyRows(s.mem, 0, Backup(line), PageRows)]

ScrollPageUp(s) ==
  ShowLine(s, IF s.lineShow - PageRows < 0 THEN 0 ELSE s.lineShow - PageRows)

(* Mutant of ScrollPageDown: it does not stop at the last page. *)
ScrollPageDownOn(s) == ShowLine(s, s.lineShow + PageRows)

ScrollPageDown(s) ==
  ShowLine(s, IF s.lineShow + PageRows > s.globRow - (PageRows - 1)
              THEN s.globRow - (PageRows - 1)
              ELSE s.lineShow + PageRows)

(* The line at which the page shows where the user is typing. *)
Home(s) ==
  IF s.globRow - (PageRows - 1) < 0 THEN 0 ELSE s.globRow - (PageRows - 1)

(* Mutant of ScrollPageBack: it compares with > instead of #. *)
ScrollPageBackOnlyUp(s) ==
  IF s.lineShow > Home(s) THEN ShowLine(s, Home(s)) ELSE s

ScrollPageBack(s) ==
  IF s.lineShow # Home(s) THEN ShowLine(s, Home(s)) ELSE s

(* scrollLineDown when the backup is full: the pages behind the first one  *)
(* move one page towards it, as far as ShiftedCells reaches.               *)
Moves(cell) ==
  /\ cell[1] >= PageRows
  /\ (cell[1] - PageRows) * Cols + cell[2] < ShiftedCells

(* Mutant of ErasePage: it notices the full backup one row late. *)
ErasePageLate(s) ==
  IF s.globRow # BackupRows + 1 THEN s
  ELSE [s EXCEPT !.globRow = @ - PageRows, !.lineShow = @ - PageRows]

ErasePage(s) ==
  IF s.globRow # BackupRows THEN s
  ELSE [s EXCEPT !.mem = [cell \in Rows \X Columns |->
                            IF Moves(cell)
                            THEN s.mem[<<cell[1] + PageRows, cell[2]>>]
                            ELSE s.mem[cell]],
                 !.globRow = @ - PageRows,
                 !.lineShow = @ - PageRows]

(* Mutant of ShiftDisplay: the last row is not blanked. *)
ShiftDisplayDirty(s) ==
  IF s.dispRow # PageRows - 1 THEN [s EXCEPT !.dispRow = @ + 1]
  ELSE [s EXCEPT !.mem = CopyRows(s.mem, 0, 1, PageRows - 1), !.lineShow = @ + 1]

BlankRow(mem, row) ==
  [cell \in Rows \X Columns |-> IF cell[1] = row THEN Blank ELSE mem[cell]]

(* scrollLineDown on the display page: its rows move up by one and the     *)
(* last becomes blank, or the cursor has a row to go to.                   *)
ShiftDisplay(s) ==
  IF s.dispRow # PageRows - 1 THEN [s EXCEPT !.dispRow = @ + 1]
  ELSE [s EXCEPT !.mem = BlankRow(CopyRows(s.mem, 0, 1, PageRows - 1), PageRows - 1),
                 !.lineShow = @ + 1]

ScrollLineDown(s) ==
  ShiftDisplay(ErasePage([s EXCEPT !.column = 0, !.globRow = @ + 1]))

(* Mutant of ScrollLineUp: globRow > 25 in place of globRow >= 25. *)
ScrollLineUpLate(s) ==
  LET up == IF s.dispRow = PageRows - 1 /\ s.globRow > PageRows
            THEN [s EXCEPT !.mem = CopyRows(s.mem, 0, Backup(s.globRow - PageRows), PageRows),
                           !.lineShow = @ - 1]
            ELSE [s EXCEPT !.dispRow = @ - 1]
  IN  [up EXCEPT !.column = Cols - 1, !.globRow = @ - 1]

(* The page shows the rows that end above the cursor's old row, or the     *)
(* cursor goes up within the page.                                         *)
ScrollLineUp(s) ==
  LET up == IF s.dispRow = PageRows - 1 /\ s.globRow >= PageRows
            THEN [s EXCEPT !.mem = CopyRows(s.mem, 0, Backup(s.globRow - PageRows), PageRows),
                           !.lineShow = @ - 1]
            ELSE [s EXCEPT !.dispRow = @ - 1]
  IN  [up EXCEPT !.column = Cols - 1, !.globRow = @ - 1]

(* putChar of a newline returns before updateCursor. *)
PutNewline(s) == ScrollLineDown(ScrollPageBack(s))

(* putChar of any other character. *)
PutChar(s, ch) ==
  LET back == ScrollPageBack(s)
      written == [back EXCEPT
                    !.mem = SetCell(SetCell(@, s.dispRow, s.column, ch),
                                    Backup(s.globRow), s.column, ch),
                    !.column = @ + 1]
  IN  UpdateCursor(IF written.column = Cols THEN ScrollLineDown(written) ELSE written)

(* The position in front of a column of a row, perhaps on the row above. *)
RowBefore(row, col) == IF col = 0 THEN row - 1 ELSE row
ColumnBefore(col) == IF col = 0 THEN Cols - 1 ELSE col - 1

DelChar(s) ==
  LET back == ScrollPageBack(s)
      col == ColumnBefore(s.column)
      deleted == [back EXCEPT
                    !.mem = SetCell(SetCell(@, RowBefore(s.dispRow, s.column), col, Blank),
                                    Backup(RowBefore(s.globRow, s.column)), col, Blank),
                    !.column = @ - 1]
  IN  IF RowBefore(s.dispRow, s.column) < 0 THEN back
      ELSE UpdateCursor(IF deleted.column < 0 THEN ScrollLineUp(deleted) ELSE deleted)

-----------------------------------------------------------------------------
Init ==
  /\ scr = ClearScreen
  /\ erased = FALSE

(* Bound on a session: without FillBackup the output ends on the last row  *)
(* of the backup.                                                          *)
MayPut(last) ==
  FillBackup \/ scr.globRow < BackupRows - 1 \/ (~last /\ scr.column < Cols - 1)

Erases == scr.globRow = BackupRows - 1

TypeChar(ch) ==
  /\ MayPut(FALSE)
  /\ scr' = PutChar(scr, ch)
  /\ erased' = (erased \/ (Erases /\ scr.column = Cols - 1))

TypeNewline ==
  /\ MayPut(TRUE)
  /\ scr' = PutNewline(scr)
  /\ erased' = (erased \/ Erases)

Delete ==
  /\ scr' = DelChar(scr)
  /\ UNCHANGED erased

PageUp ==
  /\ scr' = ScrollPageUp(scr)
  /\ UNCHANGED erased

PageDown ==
  /\ PageDownEarly \/ scr.globRow >= PageRows - 1
  /\ scr' = ScrollPageDown(scr)
  /\ UNCHANGED erased

Clear ==
  /\ scr' = ClearScreen
  /\ erased' = FALSE

Next ==
  \/ \E ch \in Chars : TypeChar(ch)
  \/ TypeNewline \/ Delete \/ PageUp \/ PageDown \/ Clear

Spec == Init /\ [][Next]_vars

-----------------------------------------------------------------------------
(* Type invariant of the screen driver: the cursor never leaves the display *)
(* page and the backup, so that no write goes outside video memory.         *)
TypeOK ==
  /\ scr \in [column : Columns,
              dispRow : 0 .. PageRows - 1,
              globRow : 0 .. BackupRows - 1,
              lineShow : 1 - PageRows .. BackupRows - PageRows,
              cursor : (0 .. PageRows - 1) \X Columns,
              mem : [Rows \X Columns -> Cells]]
  /\ erased \in BOOLEAN

(* The counters, which are updated in different branches of the scrolling  *)
(* functions, never drift apart. The row on the display page is the row of *)
(* the history, or the last one (screen.c:10-11); the hardware cursor is   *)
(* where the next character goes, but for column 0, as a newline returns   *)
(* from putChar before updateCursor (screen.c:155-158).                    *)
CountersAgree ==
  /\ scr.dispRow = (IF scr.globRow < PageRows THEN scr.globRow ELSE PageRows - 1)
  /\ scr.column # 0 => scr.cursor = <<scr.dispRow, scr.column>>

(* Wherever text goes or is removed, the page shows that place: the user   *)
(* is brought back from the history first (scrollPageBack, screen.c:132).  *)
EditsAreShown ==
  [][ <<scr.globRow, scr.column>>' # <<scr.globRow, scr.column>>
      => scr'.lineShow = Home(scr') ]_vars

(* The display page is the window of the history that starts at lineShow.  *)
(* A negative lineShow, or a page erased meanwhile, is excluded here.      *)
WindowMatches ==
  ~erased /\ scr.lineShow >= 0 =>
    \A r \in 0 .. PageRows - 1, c \in Columns :
      scr.mem[<<r, c>>] = scr.mem[<<Backup(scr.lineShow + r), c>>]

(* The text up to the cursor and the display page, as Terminal keeps them. *)
Text ==
  [i \in 1 .. scr.globRow * Cols + scr.column |->
     scr.mem[<<Backup((i - 1) \div Cols), (i - 1) % Cols>>]]

Display == [r \in 0 .. PageRows - 1 |-> [c \in Columns |-> scr.mem[<<r, c>>]]]

Abstract == INSTANCE Terminal WITH text <- Text, display <- Display

(* The driver is the terminal of Terminal as long as the backup has room.  *)
(* Left out are the steps that leave lineShow negative, which show rows    *)
(* from before the history.                                                *)
ImplementsTerminal ==
  /\ Abstract!Init
  /\ [][~erased' /\ scr'.lineShow >= 0 => Abstract!Next]_<<Text, Display>>
=============================================================================
