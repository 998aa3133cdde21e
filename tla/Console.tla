------------------------------ MODULE Console ------------------------------
(***************************************************************************)
(* Output of the shell while the user is at the keyboard. The main program *)
(* is inside putChar when the keyboard handler comes: it moves the page    *)
(* that is shown, or echoes a character with a putChar of its own, and     *)
(* always runs to its end.                                                 *)
(*                                                                         *)
(* The functions of the handler are those of Screen. For the main program  *)
(* putChar is taken apart where it reads or writes what the handler        *)
(* writes: lineShow, the display page row by row, and column. The counters *)
(* of rows are stepped in one step, so that EchoSpec lacks interleavings   *)
(* that the code has.                                                      *)
(***************************************************************************)
EXTENDS Screen

VARIABLES
  pc,      \* where the main program is in putChar
  put,     \* putChar's locals: the character and the offsets of its cells
  row,     \* the row at which a copy of rows is
  reg,     \* the register that lineShow or column was loaded into
  text,    \* history: what the main program has printed, rows padded with blanks
  since    \* history: rows begun since the last page key, up to PageRows

consoleVars == <<scr, erased, pc, put, row, reg, text, since>>

Newline == "newline"
LastRow == PageRows - 1

ConsoleInit ==
  /\ Init
  /\ pc = "idle"
  /\ put = [char |-> Newline, disp |-> <<0, 0>>, glob |-> <<0, 0>>]
  /\ row = 0
  /\ reg = 0
  /\ text = <<>>
  /\ since = PageRows

Goto(place) == pc' = place

(* Where putChar goes on behind scrollPageBack. *)
AfterBack(char) == IF char = Newline THEN "newrow" ELSE "backup"

Printed(char) ==
  IF char = Newline
  THEN text \o [i \in 1 .. Cols - (Len(text) % Cols) |-> Blank]
  ELSE Append(text, char)

-----------------------------------------------------------------------------
(* The main program: putChar. *)

(* Mutant of Begin: only a page before the last one is brought back.      *)
BeginOnlyBefore(char) ==
  /\ pc = "idle"
  /\ MayPut(char = Newline)
  /\ put' = [char |-> char, disp |-> <<scr.dispRow, scr.column>>,
             glob |-> <<Backup(scr.globRow), scr.column>>]
  /\ Goto(IF scr.lineShow < Home(scr) THEN "back" ELSE AfterBack(char))
  /\ text' = Printed(char)
  /\ UNCHANGED <<scr, erased, row, reg, since>>

(* The offsets are computed, and scrollPageBack compares lineShow. *)
Begin(char) ==
  /\ pc = "idle"
  /\ MayPut(char = Newline)
  /\ put' = [char |-> char, disp |-> <<scr.dispRow, scr.column>>,
             glob |-> <<Backup(scr.globRow), scr.column>>]
  /\ Goto(IF scr.lineShow # Home(scr) THEN "back" ELSE AfterBack(char))
  /\ text' = Printed(char)
  /\ UNCHANGED <<scr, erased, row, reg, since>>

SetLine ==
  /\ pc = "back"
  /\ scr' = [scr EXCEPT !.lineShow = Home(scr)]
  /\ row' = 0
  /\ Goto("copy")
  /\ UNCHANGED <<erased, put, reg, text, since>>

CopyRow ==
  /\ pc = "copy"
  /\ scr' = [scr EXCEPT !.mem = CopyRows(@, row, Backup(Home(scr) + row), 1)]
  /\ row' = row + 1
  /\ Goto(IF row = LastRow THEN AfterBack(put.char) ELSE "copy")
  /\ UNCHANGED <<erased, put, reg, text, since>>

(* Mutant of SetBackup: the row of the display page is used. *)
SetBackupShown ==
  /\ pc = "backup"
  /\ scr' = [scr EXCEPT !.mem[<<Backup(put.disp[1]), put.glob[2]>>] = put.char]
  /\ Goto("display")
  /\ UNCHANGED <<erased, put, row, reg, text, since>>

SetBackup ==
  /\ pc = "backup"
  /\ scr' = [scr EXCEPT !.mem[put.glob] = put.char]
  /\ Goto("display")
  /\ UNCHANGED <<erased, put, row, reg, text, since>>

SetDisplay ==
  /\ pc = "display"
  /\ scr' = [scr EXCEPT !.mem[put.disp] = put.char]
  /\ Goto("load")
  /\ UNCHANGED <<erased, put, row, reg, text, since>>

LoadColumn ==
  /\ pc = "load"
  /\ reg' = scr.column
  /\ Goto("store")
  /\ UNCHANGED <<scr, erased, put, row, text, since>>

StoreColumn ==
  /\ pc = "store"
  /\ scr' = [scr EXCEPT !.column = reg + 1]
  /\ Goto("wrap")
  /\ UNCHANGED <<erased, put, row, reg, text, since>>

Wrap ==
  /\ pc = "wrap"
  /\ Goto(IF scr.column = Cols THEN "newrow" ELSE "cursor")
  /\ UNCHANGED <<scr, erased, put, row, reg, text, since>>

(* scrollLineDown. The backup does not fill: see MayPut. *)
NewRow ==
  /\ pc = "newrow"
  /\ scr' = [scr EXCEPT !.column = 0, !.globRow = @ + 1,
                        !.dispRow = IF @ = LastRow THEN @ ELSE @ + 1]
  /\ row' = 0
  /\ Goto(IF scr.dispRow = LastRow THEN "shift"
          ELSE IF put.char = Newline THEN "idle" ELSE "cursor")
  /\ since' = IF since < PageRows THEN since + 1 ELSE since
  /\ UNCHANGED <<erased, put, reg, text>>

ShiftRow ==
  /\ pc = "shift"
  /\ scr' = [scr EXCEPT !.mem = CopyRows(@, row, row + 1, 1)]
  /\ row' = row + 1
  /\ Goto(IF row = LastRow - 1 THEN "loadline" ELSE "shift")
  /\ UNCHANGED <<erased, put, reg, text, since>>

LoadLine ==
  /\ pc = "loadline"
  /\ reg' = scr.lineShow
  /\ Goto("storeline")
  /\ UNCHANGED <<scr, erased, put, row, text, since>>

StoreLine ==
  /\ pc = "storeline"
  /\ scr' = [scr EXCEPT !.lineShow = reg + 1]
  /\ Goto("blank")
  /\ UNCHANGED <<erased, put, row, reg, text, since>>

BlankLast ==
  /\ pc = "blank"
  /\ scr' = [scr EXCEPT !.mem = BlankRow(@, LastRow)]
  /\ Goto(IF put.char = Newline THEN "idle" ELSE "cursor")
  /\ UNCHANGED <<erased, put, row, reg, text, since>>

PutCursor ==
  /\ pc = "cursor"
  /\ scr' = UpdateCursor(scr)
  /\ Goto("idle")
  /\ UNCHANGED <<erased, put, row, reg, text, since>>

Main ==
  \/ \E char \in Chars \cup {Newline} : Begin(char)
  \/ SetLine \/ CopyRow \/ SetBackup \/ SetDisplay \/ LoadColumn \/ StoreColumn \/ Wrap
  \/ NewRow \/ ShiftRow \/ LoadLine \/ StoreLine \/ BlankLast \/ PutCursor

-----------------------------------------------------------------------------
(* The keyboard handler, at any time. *)

PageKey ==
  /\ PageUp \/ PageDown
  /\ since' = 0
  /\ UNCHANGED <<pc, put, row, reg, text>>

EchoChar ==
  /\ \E char \in Chars : TypeChar(char)
  /\ UNCHANGED <<pc, put, row, reg, text, since>>

ConsoleNext == Main \/ PageKey

(* The user only turns pages while the shell prints. *)
ConsoleSpec == ConsoleInit /\ [][ConsoleNext]_consoleVars

(* The user also types while the shell prints. *)
EchoSpec == ConsoleInit /\ [][ConsoleNext \/ EchoChar]_consoleVars

-----------------------------------------------------------------------------
(* Whatever page the user looks at, and whenever he turns it, the backup   *)
(* holds what was printed, and its counters say where it goes on           *)
(* (screen.c:149-171).                                                     *)
HistoryIntact == pc = "idle" => Text = text

(* A page key in the middle of putChar can leave the display with rows of  *)
(* another page while lineShow says that it is the last one, as lineShow++ *)
(* overwrites what the handler has stored, and nothing brings the page     *)
(* back then. It heals: when as many rows as the display has were begun    *)
(* since the last page key, the display shows the end of the history       *)
(* (screen.c:71-82, screen.c:131-141).                                     *)
DisplayHeals ==
  pc = "idle" /\ since = PageRows =>
    scr.lineShow = Home(scr) /\ WindowMatches

(* column counts up to the end of the line and no further, for "if at the  *)
(* end of the line" (screen.c:164) is a comparison for equality.           *)
ColumnStops == scr.column \in 0 .. Cols
=============================================================================
