------------------------------ MODULE Terminal ------------------------------
(***************************************************************************)
(* What the screen driver of Sore-OS promises its callers: the text that   *)
(* was printed is kept as a sequence of cells and the display page shows   *)
(* Cols * PageRows of them, after every character the last rows.           *)
(***************************************************************************)
EXTENDS Integers, Sequences, SequencesExt

CONSTANTS
  Cols,      \* characters of a row
  PageRows,  \* rows of the display page
  Chars      \* characters that can be printed

VARIABLES
  text,      \* the cells from the first row of the history to the cursor
  display    \* the rows of the display page, each a sequence of cells

vars == <<text, display>>

Blank == "blank"

(* The row of the cursor, counted from the first row of the history. *)
Row(t) == Len(t) \div Cols

(* The first row on the page that shows the cursor as low as it can be. *)
Home(t) == IF Row(t) < PageRows THEN 0 ELSE Row(t) - (PageRows - 1)

CellAt(t, i) == IF i \in 1 .. Len(t) THEN t[i] ELSE Blank

(* The page whose first row is the given row of the history. *)
Page(t, first) ==
  [r \in 0 .. PageRows - 1 |->
     [c \in 0 .. Cols - 1 |-> CellAt(t, (first + r) * Cols + c + 1)]]

Init ==
  /\ text = <<>>
  /\ display = Page(<<>>, 0)

Show(t) ==
  /\ text' = t
  /\ display' = Page(t, Home(t))

(* A character takes one cell, a newline the cells up to the end of the row. *)
Put(ch) == Show(Append(text, ch))

NewLine ==
  Show(text \o [i \in 1 .. Cols - (Len(text) % Cols) |-> Blank])

(* The last cell is removed again, whatever it holds. *)
Delete ==
  /\ text # <<>>
  /\ Show(Front(text))

(* With nothing to delete the page only goes back to the cursor. *)
Back == Show(text)

Clear == Show(<<>>)

(* Paging shows another part of the history and leaves the text alone. *)
Browse ==
  /\ \E first \in 0 .. Home(text) : display' = Page(text, first)
  /\ UNCHANGED text

Next ==
  \/ \E ch \in Chars : Put(ch)
  \/ NewLine \/ Delete \/ Back \/ Clear \/ Browse

Spec == Init /\ [][Next]_vars
=============================================================================
