---------------------------- MODULE ConsoleProofs ----------------------------
(***************************************************************************)
(* Theorems about Console, for a page and a backup of any size: what the   *)
(* page keys may do to putChar, wherever it is. The functions of the       *)
(* driver are those of Screen, and their lemmas are in ScreenProofs.       *)
(***************************************************************************)
EXTENDS Console, ScreenProofs

(* The steps of putChar before its character is in the backup, in the      *)
(* order of the code, then those of a character, of scrollLineDown, and of *)
(* the shift of the display page.                                          *)
Unwritten == {"back", "copy", "backup"}
Counting == {"display", "load", "store"}
Moving == {"shift", "loadline", "storeline", "blank"}
Places == Unwritten \cup Counting \cup {"wrap", "newrow"} \cup Moving \cup {"cursor", "idle"}

(* The counters in the middle of putChar. The page that is shown may be    *)
(* one line too far, when lineShow++ stores the line of a page key.        *)
Placed ==
  /\ pc \in Places
  /\ scr \in Loose
  /\ scr.globRow \in 0 .. BackupRows - 1
  /\ scr.dispRow = (IF scr.globRow < PageRows THEN scr.globRow ELSE LastRow)
  /\ scr.column \in 0 .. Cols
  /\ scr.column = Cols => pc \in {"wrap", "newrow"}
  /\ scr.lineShow \in 1 - PageRows .. Home(scr) + 1
  /\ pc \in Moving => scr.globRow >= PageRows /\ scr.column = 0
  /\ pc \in {"shift", "loadline"} => scr.lineShow <= Home(scr)
  /\ pc = "storeline" => reg \in 1 - PageRows .. Home(scr)
  /\ row \in Nat
  /\ pc = "copy" => row <= LastRow
  /\ pc = "shift" => row < LastRow
  /\ since \in 0 .. PageRows

(* The locals of putChar, and room in the backup for the row it may begin. *)
Underway ==
  /\ put \in [char : Chars \cup {Newline}, disp : Int \X Int, glob : Int \X Int]
  /\ pc \in Unwritten \cup Counting =>
       /\ put.disp = <<scr.dispRow, scr.column>>
       /\ put.glob = <<Backup(scr.globRow), scr.column>>
       /\ put.char # Newline =>
            scr.globRow < BackupRows - 1 \/ scr.column < Cols - 1
  /\ pc \in {"backup", "wrap"} \cup Counting => put.char # Newline
  /\ pc \in {"back", "copy"} /\ put.char = Newline => scr.globRow < BackupRows - 1
  /\ pc = "newrow" => scr.globRow < BackupRows - 1
  /\ pc = "wrap" => scr.globRow < BackupRows - 1 \/ scr.column < Cols
  /\ pc = "store" => reg = scr.column

(* How far the text reaches, while the counters are still behind it. *)
Reached ==
  IF pc = "newrow" \/ (pc \in {"back", "copy"} /\ put.char = Newline)
  THEN Place(scr.globRow + 1, 0)
  ELSE IF pc \in Unwritten \cup Counting
  THEN Place(scr.globRow, scr.column) + 1
  ELSE Place(scr.globRow, scr.column)

(* The backup holds the text, its last character perhaps excepted, and is  *)
(* blank behind it.                                                        *)
Holds(mem, t, last) ==
  \A r \in 0 .. BackupRows - 1, c \in Columns :
    /\ Place(r, c) < Len(t) /\ (last \/ Place(r, c) + 1 # Len(t)) =>
         mem[<<Backup(r), c>>] = t[Place(r, c) + 1]
    /\ Place(r, c) >= Len(t) => mem[<<Backup(r), c>>] = Blank

Kept ==
  /\ text \in Seq(Cells)
  /\ Len(text) = Reached
  /\ Holds(scr.mem, text, pc \notin Unwritten \/ put.char = Newline)
  /\ pc \in Unwritten \cup {"display"} /\ put.char # Newline =>
       text[Reached] = put.char

(* lineShow is, or will be, the line of the last page. *)
Aligned ==
  IF pc \in {"shift", "loadline"} THEN scr.lineShow + 1 = Home(scr)
  ELSE IF pc = "storeline" THEN reg + 1 = Home(scr)
  ELSE scr.lineShow = Home(scr)

(* A row of the display page shows a row of the backup, but for the        *)
(* character that is not yet on the display page.                          *)
Right(r, line) ==
  \A c \in Columns :
    \/ scr.mem[<<r, c>>] = scr.mem[<<Backup(line + r), c>>]
    \/ pc = "display" /\ put.disp = <<r, c>>

(* Which rows of the display page are right. The rows begun since the last *)
(* page key are, and all of them as long as the display page has not been  *)
(* shifted. When lineShow is another line, a page key has come in this or  *)
(* the last call of putChar, and the next call copies the page.            *)
Healing ==
  /\ ~Aligned =>
       /\ since <= 1
       /\ pc \in {"copy", "backup", "wrap", "newrow"} \cup Counting => since = 0
  /\ Aligned /\ pc \in {"backup", "wrap", "newrow", "cursor", "idle"} \cup Counting =>
       \A r \in 0 .. LastRow :
         Home(scr) = 0 \/ r + since >= PageRows => Right(r, Home(scr))
  /\ Aligned /\ pc = "copy" => \A r \in 0 .. row - 1 : Right(r, Home(scr))
  /\ Aligned /\ pc = "shift" =>
       \A r \in 0 .. LastRow :
         /\ r < row /\ r + since >= PageRows => Right(r, Home(scr))
         /\ r > row /\ r + since > PageRows => Right(r, Home(scr) - 1)
  /\ Aligned /\ pc \in Moving \ {"shift"} =>
       \A r \in 0 .. LastRow - 1 : r + since >= PageRows => Right(r, Home(scr))

ConsoleIInv == Placed /\ Underway /\ Kept /\ Healing

-----------------------------------------------------------------------------
(* What is in front of the steps. *)
LEMMA PlaceNames ==
  /\ Unwritten = {"back", "copy", "backup"}
  /\ Counting = {"display", "load", "store"}
  /\ Moving = {"shift", "loadline", "storeline", "blank"}
BY DEF Unwritten, Counting, Moving

LEMMA HomeCounts ==
  ASSUME NEW s, s.globRow \in 0 .. BackupRows - 1
  PROVE  /\ Home(s) = IF s.globRow < PageRows THEN 0 ELSE s.globRow - LastRow
         /\ Home(s) \in 0 .. BackupRows - PageRows
BY Sizes DEF Home, LastRow

LEMMA HomeSame ==
  ASSUME NEW s, NEW t, t.globRow = s.globRow
  PROVE  Home(t) = Home(s)
BY DEF Home

(* The places of a row follow each other, and so do the rows. *)
LEMMA PlaceBehind ==
  ASSUME NEW g \in Nat, NEW c \in 0 .. Cols
  PROVE  /\ Place(g, c) \in Nat
         /\ Place(g, c + 1) = Place(g, c) + 1
         /\ c = Cols => Place(g, c) = Place(g + 1, 0)
         /\ Place(g + 1, 0) = Place(g, c) + (Cols - c)
<1>1. PICK a \in Nat : a = g * Cols
  BY Sizes
<1>2. (g + 1) * Cols = a + Cols
  BY <1>1, Sizes
<1> QED
  BY <1>1, <1>2, Sizes DEF Place

LEMMA OtherPlace ==
  ASSUME NEW r \in Nat, NEW c \in Columns, NEW g \in Nat, NEW k \in Columns,
         Place(r, c) = Place(g, k)
  PROVE  r = g /\ c = k
BY PlaceIs

(* The history is in the backup alone. *)
LEMMA HeldStill ==
  ASSUME NEW m, NEW n, SameBackup(n, m), NEW t, NEW last \in BOOLEAN, Holds(m, t, last)
  PROVE  Holds(n, t, last)
BY DEF SameBackup, Holds

(* A write to the display page alone leaves the backup as it is. *)
LEMMA DisplayOnly ==
  ASSUME NEW m, NEW n,
         \A q \in Rows, c \in Columns : q >= PageRows => n[<<q, c>>] = m[<<q, c>>]
  PROVE  SameBackup(n, m)
<1>1. ASSUME NEW q \in 0 .. BackupRows - 1
      PROVE  Backup(q) \in Rows /\ Backup(q) >= PageRows
  BY Sizes DEF Backup, Rows
<1> QED
  BY <1>1 DEF SameBackup

(* One row of the display page is written. *)
LEMMA CopyOneRow ==
  ASSUME NEW mem \in Memory, NEW dst \in 0 .. LastRow, NEW src \in Rows
  PROVE  /\ CopyRows(mem, dst, src, 1) \in Memory
         /\ SameBackup(CopyRows(mem, dst, src, 1), mem)
         /\ \A c \in Columns :
              CopyRows(mem, dst, src, 1)[<<dst, c>>] = mem[<<src, c>>]
         /\ \A q \in Rows, c \in Columns :
              q # dst => CopyRows(mem, dst, src, 1)[<<q, c>>] = mem[<<q, c>>]
<1> DEFINE m == CopyRows(mem, dst, src, 1)
<1>1. dst \in Nat /\ src \in Nat /\ src + 1 <= PageRows + BackupRows /\ dst \in Rows
  BY Sizes DEF LastRow, Rows
<1>2. m \in Memory
  BY <1>1, CopyRowsType
<1>3. ASSUME NEW c \in Columns
      PROVE  m[<<dst, c>>] = mem[<<src, c>>]
  <2>1. dst \in dst .. dst + 1 - 1 /\ dst - dst + src = src
    BY <1>1
  <2> QED
    BY <1>1, <2>1 DEF CopyRows
<1>4. ASSUME NEW q \in Rows, NEW c \in Columns, q # dst
      PROVE  m[<<q, c>>] = mem[<<q, c>>]
  <2>1. q \notin dst .. dst + 1 - 1
    BY <1>1, <1>4 DEF Rows
  <2> QED
    BY <2>1 DEF CopyRows
<1>5. \A q \in Rows, c \in Columns : q >= PageRows => m[<<q, c>>] = mem[<<q, c>>]
  BY <1>4, Sizes DEF LastRow, Rows
<1> HIDE DEF m
<1>6. SameBackup(m, mem)
  BY <1>5, DisplayOnly
<1> QED
  BY <1>2, <1>3, <1>4, <1>6 DEF m

(* The updates putChar makes, field by field. *)
LEMMA PutLine ==
  ASSUME NEW s \in Loose, NEW i \in Int
  PROVE  IsState([s EXCEPT !.lineShow = i],
                 s.column, s.dispRow, s.globRow, i, s.cursor, s.mem)
BY DEF IsState, Loose

LEMMA PutMemory ==
  ASSUME NEW s \in Loose, NEW m \in Memory
  PROVE  IsState([s EXCEPT !.mem = m],
                 s.column, s.dispRow, s.globRow, s.lineShow, s.cursor, m)
BY DEF IsState, Loose

LEMMA PutColumn ==
  ASSUME NEW s \in Loose, NEW i \in Int
  PROVE  IsState([s EXCEPT !.column = i],
                 i, s.dispRow, s.globRow, s.lineShow, s.cursor, s.mem)
BY DEF IsState, Loose

LEMMA PutNewRow ==
  ASSUME NEW s \in Loose, NEW i \in Int, NEW j \in Int, NEW k \in Int
  PROVE  IsState([s EXCEPT !.column = i, !.globRow = j, !.dispRow = k],
                 i, k, j, s.lineShow, s.cursor, s.mem)
BY DEF IsState, Loose

(* A row of the backup that the display page can show is still the same. *)
LEMMA LineStill ==
  ASSUME NEW m, NEW n, SameBackup(n, m),
         NEW line \in 0 .. BackupRows - PageRows, NEW r \in 0 .. LastRow, NEW c \in Columns
  PROVE  /\ Backup(line + r) \in Rows
         /\ n[<<Backup(line + r), c>>] = m[<<Backup(line + r), c>>]
<1>1. line + r \in 0 .. BackupRows - 1
  BY Sizes DEF LastRow
<1> QED
  BY <1>1, Sizes DEF SameBackup, Backup, Rows

LEMMA SetLineStep ==
  ASSUME ConsoleIInv, SetLine
  PROVE  ConsoleIInv'
<1>1. Placed /\ Underway /\ Kept
  BY DEF ConsoleIInv
<1>2. /\ pc = "back" /\ pc' = "copy" /\ row' = 0
      /\ put' = put /\ reg' = reg /\ text' = text /\ since' = since
      /\ scr' = [scr EXCEPT !.lineShow = Home(scr)]
  BY DEF SetLine, Goto
<1>3. Home(scr) \in 0 .. BackupRows - PageRows
  BY <1>1, HomeCounts DEF Placed
<1>4. IsState(scr', scr.column, scr.dispRow, scr.globRow, Home(scr), scr.cursor, scr.mem)
  BY <1>1, <1>2, <1>3, PutLine, Sizes DEF Placed
<1>5. Home(scr') = Home(scr)
  BY <1>4, HomeSame DEF IsState
<1>6. Placed'
  BY <1>1, <1>2, <1>3, <1>4, <1>5, Sizes DEF Placed, IsState, Places, Unwritten, Counting, Moving, LastRow
<1>7. Underway'
  BY <1>1, <1>2, <1>4 DEF Underway, IsState, Unwritten, Counting
<1>8. Kept'
  BY <1>1, <1>2, <1>4 DEF Kept, Reached, IsState, Unwritten, Counting
<1>9. Healing'
  BY <1>2, <1>4, <1>5 DEF Healing, Aligned, IsState, Counting, Moving
<1> QED
  BY <1>6, <1>7, <1>8, <1>9 DEF ConsoleIInv

LEMMA CopyRowStep ==
  ASSUME ConsoleIInv, CopyRow
  PROVE  ConsoleIInv'
<1>1. Placed /\ Underway /\ Kept /\ Healing
  BY DEF ConsoleIInv
<1>2. /\ pc = "copy" /\ row' = row + 1
      /\ pc' = (IF row = LastRow THEN AfterBack(put.char) ELSE "copy")
      /\ put' = put /\ reg' = reg /\ text' = text /\ since' = since
      /\ scr' = [scr EXCEPT !.mem = CopyRows(scr.mem, row, Backup(Home(scr) + row), 1)]
  BY DEF CopyRow, Goto
<1>3. PICK line \in 0 .. BackupRows - PageRows : line = Home(scr)
  BY <1>1, HomeCounts DEF Placed
<1>4. row \in 0 .. LastRow /\ scr \in Loose /\ scr.mem \in Memory
  BY <1>1, <1>2 DEF Placed, Loose, LastRow
<1> DEFINE m == CopyRows(scr.mem, row, Backup(line + row), 1)
<1>5. /\ m \in Memory /\ SameBackup(m, scr.mem)
      /\ \A c \in Columns : m[<<row, c>>] = m[<<Backup(line + row), c>>]
      /\ \A q \in Rows, c \in Columns : q # row => m[<<q, c>>] = scr.mem[<<q, c>>]
  <2>1. Backup(line + row) \in Rows /\ Backup(line + row) # row
    BY <1>4, Sizes DEF Backup, Rows, LastRow
  <2> QED
    BY <1>4, <2>1, CopyOneRow
<1> HIDE DEF m
<1>6. IsState(scr', scr.column, scr.dispRow, scr.globRow, scr.lineShow, scr.cursor, m)
  BY <1>2, <1>3, <1>4, <1>5, PutMemory DEF m
<1>7. Home(scr') = line
  BY <1>3, <1>6, HomeSame DEF IsState
<1>8. /\ pc' \in {"copy", "backup", "newrow"}
      /\ pc' = "copy" <=> row # LastRow
      /\ pc' = "newrow" => put.char = Newline
      /\ pc' = "backup" => put.char # Newline
  BY <1>2 DEF AfterBack
<1>9. Placed'
  BY <1>1, <1>2, <1>3, <1>4, <1>6, <1>7, <1>8, Sizes
  DEF Placed, IsState, Places, Unwritten, Counting, Moving, LastRow
<1>10. Underway'
  BY <1>1, <1>2, <1>6, <1>8 DEF Underway, IsState, Unwritten, Counting
<1>11. Kept'
  <2>1. Reached' = Reached
    BY <1>2, <1>6, <1>8 DEF Reached, IsState, Unwritten
  <2>2. Holds(m, text, put.char = Newline)
    BY <1>1, <1>2, <1>5, HeldStill DEF Kept, Unwritten
  <2>3. Holds(m, text, pc' \notin Unwritten \/ put.char = Newline)
    BY <1>8, <2>2 DEF Unwritten
  <2>4. pc' \in Unwritten \cup {"display"} /\ put.char # Newline => text[Reached] = put.char
    BY <1>1, <1>2 DEF Kept, Unwritten
  <2> QED
    BY <1>1, <1>2, <1>6, <2>1, <2>3, <2>4 DEF Kept, IsState
<1>12. Healing'
  <2>1. ~(scr'.lineShow = Home(scr')) => since' <= 1 /\ since' = 0
    BY <1>1, <1>2, <1>3, <1>6, <1>7 DEF Healing, Aligned, IsState
  <2>2. ASSUME scr'.lineShow = Home(scr'), NEW r \in 0 .. row, NEW c \in Columns
        PROVE  m[<<r, c>>] = m[<<Backup(line + r), c>>]
    <3>1. CASE r = row
      BY <1>5, <3>1
    <3>2. CASE r # row
      <4>1. r \in 0 .. row - 1 /\ r \in 0 .. LastRow /\ r \in Rows
        BY <1>4, <3>2, Sizes DEF LastRow, Rows
      <4>2. Right(r, line)
        BY <1>1, <1>2, <1>3, <1>6, <1>7, <2>2, <4>1 DEF Healing, Aligned, IsState
      <4>3. scr.mem[<<r, c>>] = scr.mem[<<Backup(line + r), c>>]
        BY <1>2, <4>2 DEF Right
      <4> QED
        BY <1>3, <1>5, <3>2, <4>1, <4>3, LineStill
    <3> QED
      BY <3>1, <3>2
  <2>3. scr'.lineShow = Home(scr') => \A r \in 0 .. row : Right(r, line)'
    BY <1>6, <2>2 DEF Right, IsState
  <2>4. /\ pc' = "copy" => \A r \in 0 .. row' - 1 : r \in 0 .. row
        /\ pc' # "copy" => \A r \in 0 .. LastRow : r \in 0 .. row
    BY <1>2, <1>4, <1>8
  <2>5. Aligned' <=> scr'.lineShow = Home(scr')
    BY <1>8 DEF Aligned
  <2> QED
    BY <1>7, <1>8, <2>1, <2>3, <2>4, <2>5 DEF Healing, Counting, Moving
<1> QED
  BY <1>9, <1>10, <1>11, <1>12 DEF ConsoleIInv

LEMMA SetBackupStep ==
  ASSUME ConsoleIInv, SetBackup
  PROVE  ConsoleIInv'
<1>1. Placed /\ Underway /\ Kept /\ Healing
  BY DEF ConsoleIInv
<1>2. /\ pc = "backup" /\ pc' = "display"
      /\ put' = put /\ row' = row /\ reg' = reg /\ text' = text /\ since' = since
      /\ scr' = [scr EXCEPT !.mem = [scr.mem EXCEPT ![put.glob] = put.char]]
  BY DEF SetBackup, Goto
<1>3. PICK g \in 0 .. BackupRows - 1, c \in Columns : g = scr.globRow /\ c = scr.column
  BY <1>1, <1>2, Sizes DEF Placed, Columns
<1>4. PICK line \in 0 .. BackupRows - PageRows :
        line = Home(scr) /\ g = line + scr.dispRow
  BY <1>1, <1>3, HomeCounts, Sizes DEF Placed, LastRow
<1>5. /\ scr \in Loose /\ scr.mem \in Memory
      /\ put.char \in Cells /\ put.char # Newline
      /\ put.glob = <<Backup(g), c>> /\ put.disp = <<scr.dispRow, c>>
  BY <1>1, <1>2, <1>3 DEF Placed, Loose, Underway, Unwritten, Cells
<1> DEFINE m == [scr.mem EXCEPT ![put.glob] = put.char]
<1>6. /\ m \in Memory
      /\ \A r \in Rows, k \in Columns :
           m[<<r, k>>] = IF r = Backup(g) /\ k = c THEN put.char ELSE scr.mem[<<r, k>>]
  <2>1. Backup(g) \in Rows
    BY Sizes DEF Backup, Rows
  <2> QED
    BY <1>5, <2>1 DEF Memory
<1> HIDE DEF m
<1>7. IsState(scr', scr.column, scr.dispRow, scr.globRow, scr.lineShow, scr.cursor, m)
  BY <1>2, <1>5, <1>6, PutMemory DEF m
<1>8. Home(scr') = line
  BY <1>4, <1>7, HomeSame DEF IsState
<1>9. Placed'
  BY <1>1, <1>2, <1>4, <1>7, <1>8, Sizes
  DEF Placed, IsState, Places, Unwritten, Counting, Moving, LastRow
<1>10. Underway'
  BY <1>1, <1>2, <1>7 DEF Underway, IsState, Unwritten, Counting
<1>11. Kept'
  <2>1. PICK n \in Nat : n = Place(g, c)
    BY PlaceIsNat, Sizes
  <2>2. Reached = n + 1 /\ Reached' = n + 1
    BY <1>2, <1>3, <1>7, <2>1 DEF Reached, IsState, Unwritten, Counting
  <2>3. /\ Len(text) = n + 1 /\ text[n + 1] = put.char
        /\ Holds(scr.mem, text, FALSE)
    BY <1>1, <1>2, <1>5, <2>2 DEF Kept, Unwritten
  <2>4. ASSUME NEW r \in 0 .. BackupRows - 1, NEW k \in Columns
        PROVE  /\ Place(r, k) < n + 1 => m[<<Backup(r), k>>] = text[Place(r, k) + 1]
               /\ Place(r, k) >= n + 1 => m[<<Backup(r), k>>] = Blank
    <3>1. PICK p \in Nat : p = Place(r, k)
      BY PlaceIsNat, Sizes
    <3>2. p = n <=> r = g /\ k = c
      BY <2>1, <3>1, OtherPlace, Sizes
    <3>3. Backup(r) \in Rows /\ (Backup(r) = Backup(g) <=> r = g)
      BY Sizes DEF Backup, Rows
    <3>4. m[<<Backup(r), k>>] = IF p = n THEN put.char ELSE scr.mem[<<Backup(r), k>>]
      BY <1>6, <3>2, <3>3
    <3>5. /\ p < n + 1 /\ p # n => scr.mem[<<Backup(r), k>>] = text[p + 1]
          /\ p >= n + 1 => scr.mem[<<Backup(r), k>>] = Blank
      BY <2>3, <3>1 DEF Holds
    <3> QED
      BY <2>3, <3>1, <3>4, <3>5
  <2>5. Holds(m, text, TRUE)
    BY <2>3, <2>4 DEF Holds
  <2> QED
    BY <1>1, <1>2, <1>7, <2>2, <2>3, <2>5 DEF Kept, IsState, Unwritten
<1>12. Healing'
  <2>1. (Aligned' <=> Aligned) /\ (Aligned <=> scr.lineShow = line)
    BY <1>2, <1>4, <1>7, <1>8 DEF Aligned, IsState
  <2>2. ASSUME NEW r \in 0 .. LastRow, Right(r, line)
        PROVE  Right(r, line)'
    <3> SUFFICES ASSUME NEW k \in Columns, put.disp # <<r, k>>
                 PROVE  m[<<r, k>>] = m[<<Backup(line + r), k>>]
      BY <1>2, <1>7 DEF Right, IsState
    <3>1. scr.mem[<<r, k>>] = scr.mem[<<Backup(line + r), k>>]
      BY <1>2, <2>2 DEF Right
    <3>2. r # scr.dispRow \/ k # c
      BY <1>5
    <3>3. /\ r \in Rows /\ r # Backup(g)
          /\ Backup(line + r) \in Rows
          /\ Backup(line + r) = Backup(g) <=> r = scr.dispRow
      BY <1>1, <1>4, Sizes DEF Placed, Loose, Rows, Backup, LastRow
    <3> QED
      BY <1>6, <3>1, <3>2, <3>3
  <2>3. ~Aligned => since <= 1 /\ since = 0
    BY <1>1, <1>2 DEF Healing
  <2>4. Aligned => \A r \in 0 .. LastRow : line = 0 \/ r + since >= PageRows => Right(r, line)
    BY <1>1, <1>2, <1>4 DEF Healing
  <2> QED
    BY <1>2, <1>8, <2>1, <2>2, <2>3, <2>4 DEF Healing, Counting, Moving
<1> QED
  BY <1>9, <1>10, <1>11, <1>12 DEF ConsoleIInv

LEMMA SetDisplayStep ==
  ASSUME ConsoleIInv, SetDisplay
  PROVE  ConsoleIInv'
<1>1. Placed /\ Underway /\ Kept /\ Healing
  BY DEF ConsoleIInv
<1>2. /\ pc = "display" /\ pc' = "load"
      /\ put' = put /\ row' = row /\ reg' = reg /\ text' = text /\ since' = since
      /\ scr' = [scr EXCEPT !.mem = [scr.mem EXCEPT ![put.disp] = put.char]]
  BY DEF SetDisplay, Goto
<1>3. PICK g \in 0 .. BackupRows - 1, c \in Columns : g = scr.globRow /\ c = scr.column
  BY <1>1, <1>2, Sizes DEF Placed, Columns
<1>4. PICK line \in 0 .. BackupRows - PageRows, d \in 0 .. LastRow :
        line = Home(scr) /\ d = scr.dispRow /\ g = line + d
  BY <1>1, <1>3, HomeCounts, Sizes DEF Placed, LastRow
<1>5. /\ scr \in Loose /\ scr.mem \in Memory
      /\ put.char \in Cells /\ put.char # Newline
      /\ put.disp = <<d, c>>
  BY <1>1, <1>2, <1>3, <1>4 DEF Placed, Loose, Underway, Counting, Cells
<1> DEFINE m == [scr.mem EXCEPT ![<<d, c>>] = put.char]
<1>6. /\ m \in Memory /\ SameBackup(m, scr.mem)
      /\ m[<<d, c>>] = put.char
      /\ \A q \in Rows, k \in Columns : q # d \/ k # c => m[<<q, k>>] = scr.mem[<<q, k>>]
  <2>1. d \in Rows /\ ~(d >= PageRows)
    BY Sizes DEF Rows, LastRow
  <2>2. m \in Memory /\ m[<<d, c>>] = put.char
    BY <1>5, <2>1 DEF Memory
  <2>3. \A q \in Rows, k \in Columns : q # d \/ k # c => m[<<q, k>>] = scr.mem[<<q, k>>]
    BY <1>5, <2>1 DEF Memory
  <2> HIDE DEF m
  <2>4. \A q \in Rows, k \in Columns : q >= PageRows => m[<<q, k>>] = scr.mem[<<q, k>>]
    BY <2>1, <2>3
  <2> QED
    BY <2>2, <2>3, <2>4, DisplayOnly
<1> HIDE DEF m
<1>7. IsState(scr', scr.column, scr.dispRow, scr.globRow, scr.lineShow, scr.cursor, m)
  <2>1. scr' = [scr EXCEPT !.mem = m]
    BY <1>2, <1>5 DEF m
  <2> QED
    BY <1>5, <1>6, <2>1, PutMemory
<1>8. Home(scr') = line
  BY <1>4, <1>7, HomeSame DEF IsState
<1>9. Placed'
  BY <1>1, <1>2, <1>4, <1>7, <1>8, Sizes
  DEF Placed, IsState, Places, Unwritten, Counting, Moving, LastRow
<1>10. Underway'
  BY <1>1, <1>2, <1>7 DEF Underway, IsState, Unwritten, Counting
<1>11. Kept'
  <2>1. Reached' = Reached
    BY <1>2, <1>7 DEF Reached, IsState, Unwritten, Counting
  <2>2. Holds(m, text, TRUE)
    BY <1>1, <1>2, <1>6, HeldStill DEF Kept, Unwritten
  <2> QED
    BY <1>1, <1>2, <1>7, <2>1, <2>2 DEF Kept, IsState, Unwritten
<1>12. Healing'
  <2>1. (Aligned' <=> Aligned) /\ (Aligned <=> scr.lineShow = line)
    BY <1>2, <1>4, <1>7, <1>8 DEF Aligned, IsState
  <2>2. scr.mem[<<Backup(g), c>>] = put.char
    <3>1. PICK n \in Nat : n = Place(g, c)
      BY PlaceIsNat, Sizes
    <3>2. Len(text) = n + 1 /\ text[n + 1] = put.char /\ Holds(scr.mem, text, TRUE)
      BY <1>1, <1>2, <1>3, <1>5, <3>1 DEF Kept, Reached, Unwritten, Counting
    <3> QED
      BY <3>1, <3>2 DEF Holds
  <2>3. ASSUME NEW r \in 0 .. LastRow, Right(r, line)
        PROVE  Right(r, line)'
    <3> SUFFICES ASSUME NEW k \in Columns
                 PROVE  m[<<r, k>>] = m[<<Backup(line + r), k>>]
      BY <1>7 DEF Right, IsState
    <3>1. m[<<Backup(line + r), k>>] = scr.mem[<<Backup(line + r), k>>]
      BY <1>6, LineStill
    <3>2. CASE r = d /\ k = c
      BY <1>4, <1>6, <2>2, <3>1, <3>2
    <3>3. CASE ~(r = d /\ k = c)
      <4>1. scr.mem[<<r, k>>] = scr.mem[<<Backup(line + r), k>>]
        BY <1>5, <2>3, <3>3 DEF Right
      <4>2. r \in Rows
        BY Sizes DEF Rows, LastRow
      <4> QED
        BY <1>6, <3>1, <3>3, <4>1, <4>2
    <3> QED
      BY <3>2, <3>3
  <2>4. ~Aligned => since <= 1 /\ since = 0
    BY <1>1, <1>2 DEF Healing, Counting
  <2>5. Aligned => \A r \in 0 .. LastRow : line = 0 \/ r + since >= PageRows => Right(r, line)
    BY <1>1, <1>2, <1>4 DEF Healing, Counting
  <2> QED
    BY <1>2, <1>8, <2>1, <2>3, <2>4, <2>5 DEF Healing, Counting, Moving
<1> QED
  BY <1>9, <1>10, <1>11, <1>12 DEF ConsoleIInv

LEMMA LoadColumnStep ==
  ASSUME ConsoleIInv, LoadColumn
  PROVE  ConsoleIInv'
<1>1. Placed /\ Underway /\ Kept /\ Healing
  BY DEF ConsoleIInv
<1>2. /\ pc = "load" /\ pc' = "store" /\ reg' = scr.column
      /\ scr' = scr /\ put' = put /\ row' = row /\ text' = text /\ since' = since
  BY DEF LoadColumn, Goto
<1>3. Placed'
  BY <1>1, <1>2, Sizes DEF Placed, Places, Unwritten, Counting, Moving
<1>4. Underway'
  BY <1>1, <1>2 DEF Underway, Unwritten, Counting
<1>5. Kept'
  BY <1>1, <1>2 DEF Kept, Reached, Unwritten, Counting
<1>6. Healing'
  BY <1>1, <1>2 DEF Healing, Aligned, Right, Counting, Moving
<1> QED
  BY <1>3, <1>4, <1>5, <1>6 DEF ConsoleIInv

LEMMA StoreColumnStep ==
  ASSUME ConsoleIInv, StoreColumn
  PROVE  ConsoleIInv'
<1>1. Placed /\ Underway /\ Kept /\ Healing
  BY DEF ConsoleIInv
<1>2. /\ pc = "store" /\ pc' = "wrap"
      /\ put' = put /\ row' = row /\ reg' = reg /\ text' = text /\ since' = since
      /\ scr' = [scr EXCEPT !.column = reg + 1]
  BY DEF StoreColumn, Goto
<1>3. /\ scr.column \in Columns /\ scr.column \in 0 .. Cols
      /\ scr.globRow \in Nat /\ reg = scr.column
  BY <1>1, <1>2, Sizes DEF Placed, Underway, Columns
<1>4. IsState(scr', scr.column + 1, scr.dispRow, scr.globRow, scr.lineShow, scr.cursor, scr.mem)
  <2>1. PICK i \in Int : i = scr.column + 1
    BY <1>3
  <2>2. scr \in Loose /\ scr' = [scr EXCEPT !.column = i]
    BY <1>1, <1>2, <1>3, <2>1 DEF Placed
  <2> QED
    BY <2>1, <2>2, PutColumn
<1>5. Home(scr') = Home(scr)
  BY <1>4, HomeSame DEF IsState
<1>6. Placed'
  BY <1>1, <1>2, <1>3, <1>4, <1>5, Sizes
  DEF Placed, IsState, Places, Unwritten, Counting, Moving, Columns
<1>7. Underway'
  BY <1>1, <1>2, <1>3, <1>4, Sizes DEF Underway, IsState, Unwritten, Counting, Columns
<1>8. Kept'
  <2>1. Place(scr.globRow, scr.column + 1) = Place(scr.globRow, scr.column) + 1
    BY <1>3, PlaceBehind
  <2>2. Reached' = Reached
    BY <1>2, <1>4, <2>1 DEF Reached, IsState, Unwritten, Counting
  <2> QED
    BY <1>1, <1>2, <1>4, <2>2 DEF Kept, IsState, Unwritten
<1>9. Healing'
  BY <1>1, <1>2, <1>4, <1>5 DEF Healing, Aligned, Right, IsState, Counting, Moving
<1> QED
  BY <1>6, <1>7, <1>8, <1>9 DEF ConsoleIInv

LEMMA WrapStep ==
  ASSUME ConsoleIInv, Wrap
  PROVE  ConsoleIInv'
<1>1. Placed /\ Underway /\ Kept /\ Healing
  BY DEF ConsoleIInv
<1>2. /\ pc = "wrap" /\ pc' = (IF scr.column = Cols THEN "newrow" ELSE "cursor")
      /\ scr' = scr /\ put' = put /\ row' = row /\ reg' = reg /\ text' = text
      /\ since' = since
  BY DEF Wrap, Goto
<1>3. Placed'
  BY <1>1, <1>2, Sizes DEF Placed, Places, Unwritten, Counting, Moving
<1>4. Underway'
  BY <1>1, <1>2, Sizes DEF Placed, Underway, Unwritten, Counting
<1>5. Kept'
  <2>1. scr.column = Cols => Place(scr.globRow, scr.column) = Place(scr.globRow + 1, 0)
    <3>1. PICK g \in Nat, c \in 0 .. Cols : g = scr.globRow /\ c = scr.column
      BY <1>1, Sizes DEF Placed
    <3>2. c = Cols => Place(g, c) = Place(g + 1, 0)
      BY PlaceBehind
    <3> QED
      BY <3>1, <3>2
  <2>2. Reached' = Reached
    BY <1>2, <2>1 DEF Reached, Unwritten, Counting
  <2> QED
    BY <1>1, <1>2, <2>2 DEF Kept, Unwritten
<1>6. Healing'
  BY <1>1, <1>2 DEF Healing, Aligned, Right, Counting, Moving
<1> QED
  BY <1>3, <1>4, <1>5, <1>6 DEF ConsoleIInv

LEMMA NewRowStep ==
  ASSUME ConsoleIInv, NewRow
  PROVE  ConsoleIInv'
<1>1. Placed /\ Underway /\ Kept /\ Healing
  BY DEF ConsoleIInv
<1> DEFINE d == IF scr.dispRow = LastRow THEN scr.dispRow ELSE scr.dispRow + 1
<1>2. /\ pc = "newrow" /\ row' = 0
      /\ pc' = (IF scr.dispRow = LastRow THEN "shift"
                ELSE IF put.char = Newline THEN "idle" ELSE "cursor")
      /\ put' = put /\ reg' = reg /\ text' = text
      /\ since' = (IF since < PageRows THEN since + 1 ELSE since)
      /\ scr' = [scr EXCEPT !.column = 0, !.globRow = scr.globRow + 1, !.dispRow = d]
  BY DEF NewRow, Goto
<1>3. /\ scr \in Loose /\ scr.globRow \in 0 .. BackupRows - 2
      /\ scr.globRow \in 0 .. BackupRows - 1
      /\ scr.dispRow = (IF scr.globRow < PageRows THEN scr.globRow ELSE LastRow)
      /\ since \in 0 .. PageRows
  BY <1>1, <1>2, Sizes DEF Placed, Underway
<1>4. PICK line \in 0 .. BackupRows - PageRows : line = Home(scr)
  BY <1>3, HomeCounts
<1>5. d \in Int
  BY <1>3, Sizes DEF LastRow
<1> HIDE DEF d
<1>6. IsState(scr', 0, d, scr.globRow + 1, scr.lineShow, scr.cursor, scr.mem)
  <2>1. PICK j \in Int : j = scr.globRow + 1
    BY <1>3
  <2>2. PICK k \in Int : k = 0
    OBVIOUS
  <2>3. scr' = [scr EXCEPT !.column = k, !.globRow = j, !.dispRow = d]
    BY <1>2, <2>1, <2>2
  <2>4. IsState(scr', k, d, j, scr.lineShow, scr.cursor, scr.mem)
    BY ONLY <1>3, <1>5, <2>3, PutNewRow
  <2> QED
    BY <2>1, <2>2, <2>4
<1>7. /\ scr'.globRow \in 0 .. BackupRows - 1
      /\ Home(scr') \in 0 .. BackupRows - PageRows
      /\ scr.dispRow = LastRow =>
           Home(scr') = line + 1 /\ scr.globRow + 1 >= PageRows
      /\ scr.dispRow # LastRow => Home(scr') = 0 /\ line = 0
      /\ scr'.dispRow = (IF scr'.globRow < PageRows THEN scr'.globRow ELSE LastRow)
  <2>1. scr'.globRow = scr.globRow + 1 /\ scr'.dispRow = d
    BY <1>6 DEF IsState
  <2>2. scr'.globRow \in 0 .. BackupRows - 1
    BY <1>3, <2>1, Sizes
  <2>3. /\ Home(scr') = IF scr'.globRow < PageRows THEN 0 ELSE scr'.globRow - LastRow
        /\ Home(scr') \in 0 .. BackupRows - PageRows
    BY <2>2, HomeCounts
  <2>4. line = IF scr.globRow < PageRows THEN 0 ELSE scr.globRow - LastRow
    BY <1>3, <1>4, HomeCounts
  <2> QED
    BY <1>3, <2>1, <2>2, <2>3, <2>4, Sizes DEF LastRow, d
<1>8. Placed'
  BY <1>1, <1>2, <1>3, <1>4, <1>6, <1>7, Sizes
  DEF Placed, IsState, Places, Unwritten, Counting, Moving, LastRow
<1>9. Underway'
  BY <1>1, <1>2 DEF Underway, Unwritten, Counting
<1>10. Kept'
  <2>1. Reached' = Reached
    BY <1>2, <1>6 DEF Reached, IsState, Unwritten, Counting
  <2> QED
    BY <1>1, <1>2, <1>6, <2>1 DEF Kept, IsState, Unwritten
<1>11. Healing'
  <2>1. CASE scr.dispRow = LastRow
    <3>1. pc' = "shift" /\ Home(scr') = line + 1 /\ scr'.lineShow = scr.lineShow
      BY <1>2, <1>6, <1>7, <2>1 DEF IsState
    <3>2. Aligned' <=> Aligned
      <4>1. Aligned' <=> scr'.lineShow + 1 = Home(scr')
        BY <3>1 DEF Aligned
      <4>2. Aligned <=> scr.lineShow = line
        BY <1>2, <1>4 DEF Aligned
      <4>3. scr.lineShow \in Int
        BY <1>3 DEF Loose
      <4> QED
        BY <3>1, <4>1, <4>2, <4>3
    <3>3. ~Aligned' => since' <= 1
      BY <1>1, <1>2, <3>2 DEF Healing, Counting
    <3>4. ASSUME Aligned', NEW r \in 0 .. LastRow, r > row', r + since' > PageRows
          PROVE  Right(r, line)'
      <4>1. r + since >= PageRows
        BY <1>2, <1>3, <3>4, Sizes DEF LastRow
      <4>2. Right(r, line)
        BY <1>1, <1>2, <1>4, <3>2, <3>4, <4>1 DEF Healing, Counting
      <4> QED
        BY <1>2, <1>6, <3>1, <4>2 DEF Right, IsState
    <3>5. ASSUME NEW r \in 0 .. LastRow
          PROVE  ~(r < row')
      BY <1>2
    <3>6. Home(scr') - 1 = line
      BY <3>1
    <3> QED
      BY <3>1, <3>3, <3>4, <3>5, <3>6 DEF Healing, Counting, Moving
  <2>2. CASE scr.dispRow # LastRow
    <3>1. /\ pc' \in {"idle", "cursor"} /\ Home(scr') = 0 /\ line = 0
          /\ scr'.lineShow = scr.lineShow
      BY <1>2, <1>6, <1>7, <2>2 DEF IsState
    <3>2. Aligned' <=> Aligned
      BY <1>2, <1>4, <3>1 DEF Aligned
    <3>3. ~Aligned' => since' <= 1
      BY <1>1, <1>2, <3>2 DEF Healing, Counting
    <3>4. ASSUME Aligned', NEW r \in 0 .. LastRow
          PROVE  Right(r, 0)'
      <4>1. Right(r, 0)
        BY <1>1, <1>2, <1>4, <3>1, <3>2, <3>4 DEF Healing, Counting
      <4> QED
        BY <1>2, <1>6, <3>1, <4>1 DEF Right, IsState
    <3> QED
      BY <3>1, <3>3, <3>4 DEF Healing, Counting, Moving
  <2> QED
    BY <2>1, <2>2
<1> QED
  BY <1>8, <1>9, <1>10, <1>11 DEF ConsoleIInv

LEMMA ShiftRowStep ==
  ASSUME ConsoleIInv, ShiftRow
  PROVE  ConsoleIInv'
<1>1. Placed /\ Underway /\ Kept /\ Healing
  BY DEF ConsoleIInv
<1>2. /\ pc = "shift" /\ row' = row + 1
      /\ pc' = (IF row = LastRow - 1 THEN "loadline" ELSE "shift")
      /\ put' = put /\ reg' = reg /\ text' = text /\ since' = since
      /\ scr' = [scr EXCEPT !.mem = CopyRows(scr.mem, row, row + 1, 1)]
  BY DEF ShiftRow, Goto
<1>3. PICK line \in 1 .. BackupRows - PageRows : line = Home(scr)
  BY <1>1, <1>2, HomeCounts, Sizes DEF Placed, Moving, LastRow
<1>4. /\ row \in 0 .. LastRow - 1 /\ scr \in Loose /\ scr.mem \in Memory
      /\ since \in 0 .. PageRows
  BY <1>1, <1>2, Sizes DEF Placed, Loose, LastRow
<1> DEFINE m == CopyRows(scr.mem, row, row + 1, 1)
<1>5. /\ m \in Memory /\ SameBackup(m, scr.mem)
      /\ \A c \in Columns : m[<<row, c>>] = scr.mem[<<row + 1, c>>]
      /\ \A q \in Rows, c \in Columns : q # row => m[<<q, c>>] = scr.mem[<<q, c>>]
  <2>1. row + 1 \in Rows /\ row \in 0 .. LastRow
    BY <1>4, Sizes DEF Rows, LastRow
  <2> QED
    BY <1>4, <2>1, CopyOneRow
<1> HIDE DEF m
<1>6. IsState(scr', scr.column, scr.dispRow, scr.globRow, scr.lineShow, scr.cursor, m)
  BY <1>2, <1>4, <1>5, PutMemory DEF m
<1>7. Home(scr') = line
  BY <1>3, <1>6, HomeSame DEF IsState
<1>8. pc' \in {"shift", "loadline"} /\ (pc' = "shift" <=> row # LastRow - 1)
  BY <1>2
<1>9. Placed'
  BY <1>1, <1>2, <1>3, <1>4, <1>6, <1>7, <1>8, Sizes
  DEF Placed, IsState, Places, Unwritten, Counting, Moving, LastRow
<1>10. Underway'
  BY <1>1, <1>2, <1>6, <1>8 DEF Underway, IsState, Unwritten, Counting
<1>11. Kept'
  <2>1. Reached' = Reached
    BY <1>2, <1>6, <1>8 DEF Reached, IsState, Unwritten, Counting
  <2>2. Holds(m, text, TRUE)
    BY <1>1, <1>2, <1>5, HeldStill DEF Kept, Unwritten
  <2> QED
    BY <1>1, <1>2, <1>6, <1>8, <2>1, <2>2 DEF Kept, IsState, Unwritten
<1>12. Healing'
  <2>1. /\ Aligned' <=> Aligned
        /\ ~Aligned => since <= 1
    BY <1>1, <1>2, <1>6, <1>7, <1>3, <1>8 DEF Healing, Aligned, IsState
  <2>2. /\ Aligned => \A r \in 0 .. LastRow :
                        /\ r < row /\ r + since >= PageRows => Right(r, line)
                        /\ r > row /\ r + since > PageRows => Right(r, line - 1)
    BY <1>1, <1>2, <1>3 DEF Healing
  <2>3. ASSUME Aligned, NEW r \in 0 .. LastRow, r < row + 1, r + since >= PageRows
        PROVE  Right(r, line)'
    <3> SUFFICES ASSUME NEW c \in Columns
                 PROVE  m[<<r, c>>] = m[<<Backup(line + r), c>>]
      BY <1>6 DEF Right, IsState
    <3>1. m[<<Backup(line + r), c>>] = scr.mem[<<Backup(line + r), c>>] /\ r \in Rows
      BY <1>5, LineStill, Sizes DEF Rows, LastRow
    <3>2. CASE r = row
      <4>1. PICK q \in 0 .. LastRow : q = row + 1
        BY <1>4, Sizes DEF LastRow
      <4>2. q > row /\ q + since > PageRows
        BY <1>4, <2>3, <3>2, <4>1, Sizes
      <4>3. Right(q, line - 1)
        BY <2>2, <2>3, <4>2
      <4>4. line - 1 + q = line + r
        BY <3>2, <4>1, <1>4
      <4>5. scr.mem[<<q, c>>] = scr.mem[<<Backup(line + r), c>>]
        BY <1>2, <4>3, <4>4 DEF Right
      <4> QED
        BY <1>5, <3>1, <3>2, <4>1, <4>5
    <3>3. CASE r # row
      <4>1. r < row
        BY <1>4, <2>3, <3>3
      <4>2. Right(r, line)
        BY <2>2, <2>3, <4>1
      <4>3. scr.mem[<<r, c>>] = scr.mem[<<Backup(line + r), c>>]
        BY <1>2, <4>2 DEF Right
      <4> QED
        BY <1>5, <3>1, <3>3, <4>3
    <3> QED
      BY <3>2, <3>3
  <2>4. ASSUME Aligned, NEW r \in 0 .. LastRow, r > row + 1, r + since > PageRows
        PROVE  Right(r, line - 1)'
    <3>1. PICK l \in 0 .. BackupRows - PageRows : l = line - 1
      BY Sizes
    <3> SUFFICES ASSUME NEW c \in Columns
                 PROVE  m[<<r, c>>] = m[<<Backup(l + r), c>>]
      BY <1>6, <3>1 DEF Right, IsState
    <3>2. m[<<Backup(l + r), c>>] = scr.mem[<<Backup(l + r), c>>] /\ r \in Rows
      BY <1>5, LineStill, Sizes DEF Rows, LastRow
    <3>3. r > row /\ r # row
      BY <1>4, <2>4
    <3>4. Right(r, l)
      BY <2>2, <2>4, <3>1, <3>3
    <3>5. scr.mem[<<r, c>>] = scr.mem[<<Backup(l + r), c>>]
      BY <1>2, <3>4 DEF Right
    <3> QED
      BY <1>5, <3>2, <3>3, <3>5
  <2>5. pc' = "loadline" => \A r \in 0 .. LastRow - 1 : r \in 0 .. LastRow /\ r < row + 1
    BY <1>4, <1>8, Sizes DEF LastRow
  <2> QED
    BY <1>2, <1>7, <1>8, <2>1, <2>3, <2>4, <2>5 DEF Healing, Counting, Moving
<1> QED
  BY <1>9, <1>10, <1>11, <1>12 DEF ConsoleIInv

LEMMA LoadLineStep ==
  ASSUME ConsoleIInv, LoadLine
  PROVE  ConsoleIInv'
<1>1. Placed /\ Underway /\ Kept /\ Healing
  BY DEF ConsoleIInv
<1>2. /\ pc = "loadline" /\ pc' = "storeline" /\ reg' = scr.lineShow
      /\ scr' = scr /\ put' = put /\ row' = row /\ text' = text /\ since' = since
  BY DEF LoadLine, Goto
<1>3. Placed'
  BY <1>1, <1>2, HomeCounts, Sizes DEF Placed, Places, Unwritten, Counting, Moving
<1>4. Underway'
  BY <1>1, <1>2 DEF Underway, Unwritten, Counting
<1>5. Kept'
  BY <1>1, <1>2 DEF Kept, Reached, Unwritten, Counting
<1>6. Healing'
  BY <1>1, <1>2 DEF Healing, Aligned, Right, Counting, Moving
<1> QED
  BY <1>3, <1>4, <1>5, <1>6 DEF ConsoleIInv

LEMMA StoreLineStep ==
  ASSUME ConsoleIInv, StoreLine
  PROVE  ConsoleIInv'
<1>1. Placed /\ Underway /\ Kept /\ Healing
  BY DEF ConsoleIInv
<1>2. /\ pc = "storeline" /\ pc' = "blank"
      /\ put' = put /\ row' = row /\ reg' = reg /\ text' = text /\ since' = since
      /\ scr' = [scr EXCEPT !.lineShow = reg + 1]
  BY DEF StoreLine, Goto
<1>3. PICK i \in 1 - PageRows .. Home(scr) + 1 : i = reg + 1
  BY <1>1, <1>2, HomeCounts, Sizes DEF Placed
<1>4. IsState(scr', scr.column, scr.dispRow, scr.globRow, i, scr.cursor, scr.mem)
  <2>1. scr \in Loose /\ i \in Int /\ scr' = [scr EXCEPT !.lineShow = i]
    BY <1>1, <1>2, <1>3, HomeCounts, Sizes DEF Placed
  <2> QED
    BY <2>1, PutLine
<1>5. Home(scr') = Home(scr)
  BY <1>4, HomeSame DEF IsState
<1>6. Placed'
  BY <1>1, <1>2, <1>3, <1>4, <1>5, HomeCounts, Sizes
  DEF Placed, IsState, Places, Unwritten, Counting, Moving
<1>7. Underway'
  BY <1>1, <1>2, <1>4 DEF Underway, IsState, Unwritten, Counting
<1>8. Kept'
  <2>1. Reached' = Reached
    BY <1>2, <1>4 DEF Reached, IsState, Unwritten, Counting
  <2> QED
    BY <1>1, <1>2, <1>4, <2>1 DEF Kept, IsState, Unwritten
<1>9. Healing'
  BY <1>1, <1>2, <1>3, <1>4, <1>5 DEF Healing, Aligned, Right, IsState, Counting, Moving
<1> QED
  BY <1>6, <1>7, <1>8, <1>9 DEF ConsoleIInv

LEMMA BlankLastStep ==
  ASSUME ConsoleIInv, BlankLast
  PROVE  ConsoleIInv'
<1>1. Placed /\ Underway /\ Kept /\ Healing
  BY DEF ConsoleIInv
<1>2. /\ pc = "blank" /\ pc' = (IF put.char = Newline THEN "idle" ELSE "cursor")
      /\ put' = put /\ row' = row /\ reg' = reg /\ text' = text /\ since' = since
      /\ scr' = [scr EXCEPT !.mem = BlankRow(scr.mem, LastRow)]
  BY DEF BlankLast, Goto
<1>3. PICK line \in 1 .. BackupRows - PageRows :
        line = Home(scr) /\ scr.globRow = line + LastRow
  BY <1>1, <1>2, HomeCounts, Sizes DEF Placed, Moving, LastRow
<1>4. /\ scr \in Loose /\ scr.mem \in Memory /\ LastRow \in Int
      /\ scr.globRow \in 0 .. BackupRows - 1 /\ scr.column = 0
  BY <1>1, <1>2, Sizes DEF Placed, Loose, LastRow, Moving
<1> DEFINE m == BlankRow(scr.mem, LastRow)
<1>5. /\ m \in Memory
      /\ \A q \in Rows, c \in Columns :
           m[<<q, c>>] = IF q = LastRow THEN Blank ELSE scr.mem[<<q, c>>]
  BY <1>4, BlankRowIs
<1> HIDE DEF m
<1>6. SameBackup(m, scr.mem)
  BY <1>5, DisplayOnly, Sizes DEF LastRow, Rows
<1>7. IsState(scr', scr.column, scr.dispRow, scr.globRow, scr.lineShow, scr.cursor, m)
  BY <1>2, <1>4, <1>5, PutMemory DEF m
<1>8. Home(scr') = line
  BY <1>3, <1>7, HomeSame DEF IsState
<1>9. pc' \in {"idle", "cursor"}
  BY <1>2
<1>10. Placed'
  BY <1>1, <1>2, <1>3, <1>7, <1>8, <1>9, Sizes
  DEF Placed, IsState, Places, Unwritten, Counting, Moving
<1>11. Underway'
  BY <1>1, <1>2, <1>9 DEF Underway, Unwritten, Counting
<1>12. Kept'
  <2>1. Reached' = Reached
    BY <1>2, <1>7, <1>9 DEF Reached, IsState, Unwritten, Counting
  <2>2. Holds(m, text, TRUE)
    BY <1>1, <1>2, <1>6, HeldStill DEF Kept, Unwritten
  <2> QED
    BY <1>1, <1>2, <1>7, <1>9, <2>1, <2>2 DEF Kept, IsState, Unwritten
<1>13. Healing'
  <2>1. (Aligned' <=> Aligned) /\ (~Aligned => since <= 1)
    BY <1>1, <1>2, <1>3, <1>7, <1>8, <1>9 DEF Healing, Aligned, IsState
  <2>2. ASSUME Aligned, NEW r \in 0 .. LastRow, r + since >= PageRows
        PROVE  Right(r, line)'
    <3> SUFFICES ASSUME NEW c \in Columns
                 PROVE  m[<<r, c>>] = m[<<Backup(line + r), c>>]
      BY <1>7 DEF Right, IsState
    <3>1. /\ m[<<Backup(line + r), c>>] = scr.mem[<<Backup(line + r), c>>]
          /\ r \in Rows
      BY <1>6, LineStill, Sizes DEF Rows, LastRow
    <3>2. CASE r = LastRow
      <4>1. PICK n \in Nat, p \in Nat : n = Place(scr.globRow, 0) /\ p = Place(scr.globRow, c)
        BY <1>4, PlaceIsNat, Sizes DEF Columns
      <4>2. p >= n
        BY <4>1, <1>4, Sizes DEF Place, Columns
      <4>3. Len(text) = n /\ Holds(scr.mem, text, TRUE)
        BY <1>1, <1>2, <1>4, <4>1 DEF Kept, Reached, Unwritten, Counting
      <4>4. scr.mem[<<Backup(scr.globRow), c>>] = Blank
        BY <1>4, <4>1, <4>2, <4>3 DEF Holds
      <4> QED
        BY <1>3, <1>5, <3>1, <3>2, <4>4
    <3>3. CASE r # LastRow
      <4>1. r \in 0 .. LastRow - 1
        BY <3>3, Sizes DEF LastRow
      <4>2. Right(r, line)
        BY <1>1, <1>2, <1>3, <2>2, <4>1 DEF Healing, Moving
      <4>3. scr.mem[<<r, c>>] = scr.mem[<<Backup(line + r), c>>]
        BY <1>2, <4>2 DEF Right
      <4> QED
        BY <1>5, <3>1, <3>3, <4>3
    <3> QED
      BY <3>2, <3>3
  <2> QED
    BY <1>2, <1>8, <1>9, <2>1, <2>2 DEF Healing, Counting, Moving
<1> QED
  BY <1>10, <1>11, <1>12, <1>13 DEF ConsoleIInv

LEMMA PutCursorStep ==
  ASSUME ConsoleIInv, PutCursor
  PROVE  ConsoleIInv'
<1>1. Placed /\ Underway /\ Kept /\ Healing
  BY DEF ConsoleIInv
<1>2. /\ pc = "cursor" /\ pc' = "idle"
      /\ put' = put /\ row' = row /\ reg' = reg /\ text' = text /\ since' = since
      /\ scr' = [scr EXCEPT !.cursor = <<scr.dispRow, scr.column>>]
  BY DEF PutCursor, Goto, UpdateCursor
<1>3. IsState(scr', scr.column, scr.dispRow, scr.globRow, scr.lineShow,
              <<scr.dispRow, scr.column>>, scr.mem)
  <2>1. scr \in Loose /\ <<scr.dispRow, scr.column>> \in Int \X Int
    BY <1>1 DEF Placed, Loose
  <2> QED
    BY <1>2, <2>1, PutCursorAt
<1>4. Home(scr') = Home(scr)
  BY <1>3, HomeSame DEF IsState
<1>5. Placed'
  BY <1>1, <1>2, <1>3, <1>4, Sizes DEF Placed, IsState, Places, Unwritten, Counting, Moving
<1>6. Underway'
  BY <1>1, <1>2 DEF Underway, Unwritten, Counting
<1>7. Kept'
  <2>1. Reached' = Reached
    BY <1>2, <1>3 DEF Reached, IsState, Unwritten, Counting
  <2> QED
    BY <1>1, <1>2, <1>3, <2>1 DEF Kept, IsState, Unwritten
<1>8. Healing'
  BY <1>1, <1>2, <1>3, <1>4 DEF Healing, Aligned, Right, IsState, Counting, Moving
<1> QED
  BY <1>5, <1>6, <1>7, <1>8 DEF ConsoleIInv

(* What putChar prints, as the text and the cells that have a place in it. *)
LEMMA Appending ==
  ASSUME NEW mem, NEW t \in Seq(Cells), NEW ch \in Cells, Holds(mem, t, TRUE),
         NEW u, u = Append(t, ch)
  PROVE  /\ u \in Seq(Cells) /\ Len(u) = Len(t) + 1 /\ u[Len(t) + 1] = ch
         /\ Holds(mem, u, FALSE)
<1>1. PICK n \in Nat : n = Len(t)
  OBVIOUS
<1>2. /\ u \in Seq(Cells) /\ Len(u) = n + 1 /\ u[n + 1] = ch
      /\ \A i \in 1 .. n : u[i] = t[i]
  BY <1>1
<1>3. ASSUME NEW r \in 0 .. BackupRows - 1, NEW c \in Columns
      PROVE  /\ Place(r, c) < n + 1 /\ Place(r, c) + 1 # n + 1 =>
                  mem[<<Backup(r), c>>] = u[Place(r, c) + 1]
             /\ Place(r, c) >= n + 1 => mem[<<Backup(r), c>>] = Blank
  <2>1. PICK p \in Nat : p = Place(r, c)
    BY PlaceIsNat, Sizes
  <2>2. /\ p < n => mem[<<Backup(r), c>>] = t[p + 1]
        /\ p >= n => mem[<<Backup(r), c>>] = Blank
    BY <1>1, <2>1 DEF Holds
  <2>3. p < n => p + 1 \in 1 .. n
    BY <2>1
  <2> QED
    BY <1>2, <2>1, <2>2, <2>3
<1>4. Holds(mem, u, FALSE)
  BY <1>2, <1>3 DEF Holds
<1> QED
  BY <1>1, <1>2, <1>4

LEMMA Padding ==
  ASSUME NEW mem, NEW t \in Seq(Cells), Holds(mem, t, TRUE),
         NEW g \in Nat, NEW k \in Columns, Len(t) = Place(g, k),
         NEW u, u = t \o [i \in 1 .. Cols - (Len(t) % Cols) |-> Blank]
  PROVE  u \in Seq(Cells) /\ Len(u) = Place(g + 1, 0) /\ Holds(mem, u, TRUE)
<1>1. PICK n \in Nat : n = Len(t)
  OBVIOUS
<1>2. PICK j \in Nat : j = Cols - k
  BY Sizes DEF Columns
<1>3. Cols - (Len(t) % Cols) = j
  BY <1>2, PlaceIs
<1>4. PICK b \in Seq(Cells) : b = [i \in 1 .. j |-> Blank]
  <2>1. [i \in 1 .. j |-> Blank] \in Seq(Cells)
    BY BlankIsCell
  <2> QED
    BY <2>1
<1>5. Len(b) = j /\ \A i \in 1 .. j : b[i] = Blank
  BY <1>4
<1>6. u = t \o b
  BY <1>3, <1>4
<1>7. u \in Seq(Cells) /\ Len(u) = n + j
  <2>1. t \o b \in Seq(Cells) /\ Len(t \o b) = Len(t) + Len(b)
    OBVIOUS
  <2> QED
    BY <1>1, <1>5, <1>6, <2>1
<1>8. \A i \in 1 .. n : u[i] = t[i]
  BY <1>1, <1>5, <1>6
<1>9. ASSUME NEW i \in n + 1 .. n + j
      PROVE  u[i] = Blank
  <2>1. i - n \in 1 .. j /\ i \in 1 .. Len(t) + Len(b) /\ ~(i <= Len(t))
    BY <1>1, <1>5
  <2>2. u[i] = b[i - n]
    <3>1. \A q \in 1 .. Len(t) + Len(b) :
            (t \o b)[q] = IF q <= Len(t) THEN t[q] ELSE b[q - Len(t)]
      BY ONLY t \in Seq(Cells), b \in Seq(Cells), ConcatProperties
    <3> QED
      BY <1>1, <1>6, <2>1, <3>1
  <2> QED
    BY <1>5, <2>1, <2>2
<1>10. n + j = Place(g + 1, 0)
  <2>1. k \in 0 .. Cols
    BY Sizes DEF Columns
  <2> QED
    BY <1>1, <1>2, <2>1, PlaceBehind
<1>11. ASSUME NEW r \in 0 .. BackupRows - 1, NEW c \in Columns
       PROVE  /\ Place(r, c) < n + j => mem[<<Backup(r), c>>] = u[Place(r, c) + 1]
              /\ Place(r, c) >= n + j => mem[<<Backup(r), c>>] = Blank
  <2>1. PICK p \in Nat : p = Place(r, c)
    BY PlaceIsNat, Sizes
  <2>2. /\ p < n => mem[<<Backup(r), c>>] = t[p + 1]
        /\ p >= n => mem[<<Backup(r), c>>] = Blank
    BY <1>1, <2>1 DEF Holds
  <2>3. /\ p < n => p + 1 \in 1 .. n
        /\ p >= n /\ p < n + j => p + 1 \in n + 1 .. n + j
    BY <2>1
  <2>4. p < n + j => mem[<<Backup(r), c>>] = u[p + 1]
    <3>1. p < n => u[p + 1] = t[p + 1]
      BY <1>8, <2>3
    <3>2. p >= n /\ p < n + j => u[p + 1] = Blank
      BY <1>9, <2>3
    <3>3. p < n \/ p >= n
      OBVIOUS
    <3> QED
      BY <2>2, <3>1, <3>2, <3>3
  <2>5. p >= n + j => mem[<<Backup(r), c>>] = Blank
    BY <2>2
  <2> QED
    BY <2>1, <2>4, <2>5
<1>12. Holds(mem, u, TRUE)
  BY <1>7, <1>11 DEF Holds
<1> QED
  BY <1>7, <1>10, <1>12

LEMMA BeginStep ==
  ASSUME ConsoleIInv, ~FillBackup, NEW char \in Chars \cup {Newline}, Begin(char)
  PROVE  ConsoleIInv'
<1>1. Placed /\ Underway /\ Kept /\ Healing
  BY DEF ConsoleIInv
<1>2. /\ pc = "idle"
      /\ pc' = (IF scr.lineShow # Home(scr) THEN "back" ELSE AfterBack(char))
      /\ put' = [char |-> char, disp |-> <<scr.dispRow, scr.column>>,
                 glob |-> <<Backup(scr.globRow), scr.column>>]
      /\ scr' = scr /\ row' = row /\ reg' = reg /\ since' = since
      /\ text' = Printed(char)
  BY DEF Begin, Goto
<1>3. scr.globRow < BackupRows - 1 \/ (char # Newline /\ scr.column < Cols - 1)
  BY DEF Begin, MayPut
<1>4. /\ put'.char = char
      /\ put'.disp = <<scr.dispRow, scr.column>>
      /\ put'.glob = <<Backup(scr.globRow), scr.column>>
  BY <1>2
<1>5. /\ pc' \in {"back", "backup", "newrow"}
      /\ pc' = "newrow" => char = Newline
      /\ pc' = "backup" => char # Newline
      /\ pc' = "back" <=> scr.lineShow # Home(scr)
  BY <1>2 DEF AfterBack
<1>6. Placed'
  BY <1>1, <1>2, <1>5 DEF Placed, Places, Unwritten, Counting, Moving
<1>7. Underway'
  <2>1. put' \in [char : Chars \cup {Newline}, disp : Int \X Int, glob : Int \X Int]
    BY <1>1, <1>2, Sizes DEF Placed, Loose, Backup
  <2> QED
    BY <1>2, <1>3, <1>4, <1>5, <2>1 DEF Underway, Unwritten, Counting
<1>8. Kept'
  <2>1. PICK g \in Nat, k \in Columns : g = scr.globRow /\ k = scr.column
    BY <1>1, <1>2, Sizes DEF Placed, Columns
  <2>2. /\ text \in Seq(Cells) /\ Len(text) = Place(g, k) /\ Holds(scr.mem, text, TRUE)
    BY <1>1, <1>2, <2>1 DEF Kept, Reached, Unwritten, Counting
  <2>3. CASE char = Newline
    <3>1. text' = text \o [i \in 1 .. Cols - (Len(text) % Cols) |-> Blank]
      BY <1>2, <2>3 DEF Printed
    <3>2. text' \in Seq(Cells) /\ Len(text') = Place(g + 1, 0) /\ Holds(scr.mem, text', TRUE)
      BY ONLY <2>2, <3>1, g \in Nat, k \in Columns, Padding
    <3>3. Reached' = Place(g + 1, 0)
      BY <1>2, <1>4, <1>5, <2>1, <2>3 DEF Reached
    <3> QED
      BY <1>2, <1>4, <2>3, <3>2, <3>3 DEF Kept
  <2>4. CASE char # Newline
    <3>1. text' = Append(text, char) /\ char \in Cells
      BY <1>2, <2>4 DEF Printed, Cells
    <3>2. /\ text' \in Seq(Cells) /\ Len(text') = Len(text) + 1
          /\ text'[Len(text) + 1] = char /\ Holds(scr.mem, text', FALSE)
      <4>1. PICK u : u = text'
        OBVIOUS
      <4>2. PICK v \in Seq(Cells), ch \in Cells : v = text /\ ch = char
        BY <2>2, <3>1
      <4>3. u = Append(v, ch) /\ Holds(scr.mem, v, TRUE)
        BY <2>2, <3>1, <4>1, <4>2
      <4>4. /\ u \in Seq(Cells) /\ Len(u) = Len(v) + 1 /\ u[Len(v) + 1] = ch
            /\ Holds(scr.mem, u, FALSE)
        BY <4>3, Appending
      <4> QED
        BY <4>1, <4>2, <4>4
    <3>3. pc' \in Unwritten /\ pc' # "newrow"
      BY <1>5, <2>4 DEF Unwritten
    <3>4. Reached' = Place(g, k) + 1
      BY <1>2, <1>4, <2>1, <2>4, <3>3 DEF Reached
    <3> QED
      BY <1>2, <1>4, <2>2, <2>4, <3>2, <3>3, <3>4 DEF Kept
  <2> QED
    BY <2>3, <2>4
<1>9. Healing'
  <2>1. /\ Aligned' <=> Aligned
        /\ ~Aligned => since <= 1
        /\ Aligned => pc' # "back"
        /\ ~Aligned => pc' = "back"
        /\ Aligned => \A r \in 0 .. LastRow :
             Home(scr) = 0 \/ r + since >= PageRows => Right(r, Home(scr))
    BY <1>1, <1>2, <1>5 DEF Healing, Aligned
  <2> QED
    BY <1>2, <1>5, <2>1 DEF Healing, Right, Counting, Moving
<1> QED
  BY <1>6, <1>7, <1>8, <1>9 DEF ConsoleIInv

(* The keyboard handler shows a page that is not beyond the last one. *)
LEMMA PageIsShown ==
  ASSUME Placed, PageKey
  PROVE  \E line \in 1 - PageRows .. BackupRows - PageRows :
           line <= Home(scr) /\ scr' = ShowLine(scr, line)
<1> DEFINE up == IF scr.lineShow - PageRows < 0 THEN 0 ELSE scr.lineShow - PageRows
           down == IF scr.lineShow + PageRows > scr.globRow - (PageRows - 1)
                   THEN scr.globRow - (PageRows - 1)
                   ELSE scr.lineShow + PageRows
<1>1. scr' = ShowLine(scr, up) \/ scr' = ShowLine(scr, down)
  BY DEF PageKey, PageUp, PageDown, ScrollPageUp, ScrollPageDown
<1>2. /\ up \in 1 - PageRows .. BackupRows - PageRows /\ up <= Home(scr)
      /\ down \in 1 - PageRows .. BackupRows - PageRows /\ down <= Home(scr)
  <2>1. /\ scr.globRow \in 0 .. BackupRows - 1
        /\ scr.lineShow \in 1 - PageRows .. Home(scr) + 1
    BY DEF Placed
  <2>2. /\ Home(scr) = IF scr.globRow < PageRows THEN 0 ELSE scr.globRow - LastRow
        /\ Home(scr) \in 0 .. BackupRows - PageRows
    BY <2>1, HomeCounts
  <2> QED
    BY <2>1, <2>2, Sizes DEF LastRow
<1> HIDE DEF up, down
<1> QED
  BY <1>1, <1>2

LEMMA PageKeyStep ==
  ASSUME ConsoleIInv, PageKey
  PROVE  ConsoleIInv'
<1>1. Placed /\ Underway /\ Kept
  BY DEF ConsoleIInv
<1>2. /\ pc' = pc /\ put' = put /\ row' = row /\ reg' = reg /\ text' = text
      /\ since' = 0
  BY DEF PageKey
<1>3. PICK line \in 1 - PageRows .. BackupRows - PageRows :
        line <= Home(scr) /\ scr' = ShowLine(scr, line)
  BY <1>1, PageIsShown
<1>4. scr \in Loose /\ scr.globRow \in 0 .. BackupRows - 1
  BY <1>1 DEF Placed
<1>5. /\ IsState(scr', scr.column, scr.dispRow, scr.globRow, line, scr.cursor, scr'.mem)
      /\ Window(scr')
      /\ SameBackup(scr'.mem, scr.mem)
  BY <1>3, <1>4, ShowLineIs
<1>6. Home(scr') = Home(scr) /\ Home(scr) \in 0 .. BackupRows - PageRows
  BY <1>4, <1>5, HomeSame, HomeCounts DEF IsState
<1>7. Placed'
  BY <1>1, <1>2, <1>3, <1>5, <1>6, Sizes DEF Placed, IsState
<1>8. Underway'
  BY <1>1, <1>2, <1>5 DEF Underway, IsState
<1>9. Kept'
  <2>1. Reached' = Reached
    BY <1>2, <1>5 DEF Reached, IsState
  <2>2. Holds(scr'.mem, text, pc \notin Unwritten \/ put.char = Newline)
    BY <1>1, <1>5, HeldStill DEF Kept
  <2> QED
    BY <1>1, <1>2, <2>1, <2>2 DEF Kept
<1>10. Healing'
  <2>1. ASSUME line = Home(scr), NEW r \in 0 .. LastRow
        PROVE  Right(r, Home(scr))'
    <3>1. \A q \in 0 .. PageRows - 1, c \in Columns :
            scr'.mem[<<q, c>>] = scr'.mem[<<Backup(line + q), c>>]
      <4>1. scr'.lineShow = line /\ line >= 0
        BY <1>5, <1>6, <2>1 DEF IsState
      <4> QED
        BY <1>5, <4>1 DEF Window
    <3>2. Home(scr') = line
      BY <1>6, <2>1
    <3> QED
      BY <3>1, <3>2 DEF Right, LastRow
  <2>2. \A r \in 0 .. LastRow : ~(r + since' >= PageRows) /\ ~(r + since' > PageRows)
    BY <1>2, Sizes DEF LastRow
  <2>3. Aligned' /\ pc \notin Moving => line = Home(scr)
    BY <1>2, <1>5, <1>6 DEF Aligned, IsState, Moving
  <2>4. pc = "copy" => \A r \in 0 .. row - 1 : r \in 0 .. LastRow
    BY <1>1, Sizes DEF Placed, LastRow
  <2>5. /\ \A r \in 0 .. LastRow - 1 : r \in 0 .. LastRow
        /\ since' <= 1
    BY <1>2, Sizes DEF LastRow
  <2> QED
    BY <1>2, <2>1, <2>2, <2>3, <2>4, <2>5 DEF Healing, Counting, Moving
<1> QED
  BY <1>7, <1>8, <1>9, <1>10 DEF ConsoleIInv

LEMMA MainStep ==
  ASSUME ConsoleIInv, ~FillBackup, Main
  PROVE  ConsoleIInv'
BY BeginStep, SetLineStep, CopyRowStep, SetBackupStep, SetDisplayStep, LoadColumnStep,
   StoreColumnStep, WrapStep, NewRowStep, ShiftRowStep, LoadLineStep, StoreLineStep,
   BlankLastStep, PutCursorStep
DEF Main

LEMMA StutterStep ==
  ASSUME ConsoleIInv, UNCHANGED consoleVars
  PROVE  ConsoleIInv'
<1>1. /\ scr' = scr /\ pc' = pc /\ put' = put /\ row' = row /\ reg' = reg
      /\ text' = text /\ since' = since
  BY DEF consoleVars
<1>2. Placed' /\ Underway'
  BY <1>1 DEF ConsoleIInv, Placed, Underway
<1>3. Kept'
  BY <1>1 DEF ConsoleIInv, Kept, Reached
<1>4. Healing'
  BY <1>1 DEF ConsoleIInv, Healing, Aligned, Right
<1> QED
  BY <1>2, <1>3, <1>4 DEF ConsoleIInv

LEMMA ConsoleInitIInv == ConsoleInit => ConsoleIInv
<1> SUFFICES ASSUME ConsoleInit
             PROVE  ConsoleIInv
  OBVIOUS
<1>1. /\ pc = "idle" /\ row = 0 /\ reg = 0 /\ text = <<>> /\ since = PageRows
      /\ put = [char |-> Newline, disp |-> <<0, 0>>, glob |-> <<0, 0>>]
      /\ scr = ClearScreen
  BY DEF ConsoleInit, Init
<1>2. /\ scr \in Loose
      /\ scr.column = 0 /\ scr.dispRow = 0 /\ scr.globRow = 0 /\ scr.lineShow = 0
      /\ \A r \in Rows, c \in Columns : scr.mem[<<r, c>>] = Blank
  <2>1. PICK m \in Memory : m = [cell \in Rows \X Columns |-> Blank]
    BY BlankIsCell DEF Memory
  <2>2. scr = [column |-> 0, dispRow |-> 0, globRow |-> 0, lineShow |-> 0,
               cursor |-> <<0, 0>>, mem |-> m]
    BY <1>1, <2>1 DEF ClearScreen, UpdateCursor
  <2> QED
    BY <2>1, <2>2 DEF Loose
<1>3. Home(scr) = 0
  BY <1>2, HomeCounts, Sizes
<1>4. Placed
  BY <1>1, <1>2, <1>3, Sizes DEF Placed, Places, Moving
<1>5. Underway
  <2>1. put \in [char : Chars \cup {Newline}, disp : Int \X Int, glob : Int \X Int]
    BY <1>1
  <2> QED
    BY <1>1, <2>1 DEF Underway, Unwritten, Counting
<1>6. Kept
  <2>1. Reached = 0
    BY <1>1, <1>2, Sizes DEF Reached, Place, Unwritten, Counting
  <2>2. ASSUME NEW r \in 0 .. BackupRows - 1, NEW c \in Columns
        PROVE  ~(Place(r, c) < 0) /\ scr.mem[<<Backup(r), c>>] = Blank
    <3>1. Place(r, c) \in Nat
      BY PlaceIsNat, Sizes
    <3>2. Backup(r) \in Rows
      BY Sizes DEF Backup, Rows
    <3> QED
      BY <1>2, <3>1, <3>2
  <2>3. text \in Seq(Cells) /\ Len(text) = 0
    BY <1>1
  <2>4. Holds(scr.mem, text, TRUE)
    BY <2>2, <2>3 DEF Holds
  <2> QED
    BY <1>1, <2>1, <2>3, <2>4 DEF Kept, Unwritten
<1>7. Healing
  <2>1. ASSUME NEW r \in 0 .. LastRow
        PROVE  Right(r, 0)
    <3>1. r \in Rows /\ Backup(0 + r) \in Rows
      BY Sizes DEF Rows, Backup, LastRow
    <3> QED
      BY <1>2, <3>1 DEF Right
  <2> QED
    BY <1>1, <1>2, <1>3, <2>1 DEF Healing, Aligned, Counting, Moving
<1> QED
  BY <1>4, <1>5, <1>6, <1>7 DEF ConsoleIInv

(* As in Console, the output ends on the last row of the backup. *)
LEMMA ConsoleInvariance == ~FillBackup => (ConsoleSpec => []ConsoleIInv)
<1> SUFFICES ASSUME ~FillBackup
             PROVE  ConsoleSpec => []ConsoleIInv
  OBVIOUS
<1>1. ConsoleIInv /\ [ConsoleNext]_consoleVars => ConsoleIInv'
  BY MainStep, PageKeyStep, StutterStep DEF ConsoleNext
<1> QED
  BY <1>1, ConsoleInitIInv, PTL DEF ConsoleSpec

(* Whatever page the user looks at, and whenever he turns it, the backup   *)
(* holds what was printed, and its counters say where it goes on: a page   *)
(* key writes to the display page alone, and putChar takes the cell of the *)
(* backup from globRow and column, which no page key moves                 *)
(* (screen.c:108-141, 149-171).                                            *)
THEOREM HistoryKept == ~FillBackup => (ConsoleSpec => []HistoryIntact)
<1>1. ASSUME ConsoleIInv
      PROVE  HistoryIntact
  <2> SUFFICES ASSUME pc = "idle"
               PROVE  TextOf(scr) = text
    BY DEF HistoryIntact, Text, TextOf
  <2>1. /\ scr.globRow \in 0 .. BackupRows - 1 /\ scr.column \in Columns
        /\ scr \in Loose /\ scr.globRow \in Nat
    BY <1>1, Sizes DEF ConsoleIInv, Placed, Columns
  <2>2. /\ text \in Seq(Cells) /\ Len(text) = Place(scr.globRow, scr.column)
        /\ Holds(scr.mem, text, TRUE)
    BY <1>1 DEF ConsoleIInv, Kept, Reached, Unwritten, Counting
  <2> DEFINE p == <<scr.dispRow, scr.column>>
             s == [scr EXCEPT !.lineShow = 0, !.cursor = p]
  <2>3. IsState(s, scr.column, scr.dispRow, scr.globRow, 0, p, scr.mem)
    <3>1. scr.dispRow \in Int /\ scr.column \in Int
      BY <2>1 DEF Loose
    <3>2. p \in Int \X Int
      BY <3>1
    <3>3. PICK l : l = [scr EXCEPT !.lineShow = 0]
      OBVIOUS
    <3>4. IsState(l, scr.column, scr.dispRow, scr.globRow, 0, scr.cursor, scr.mem)
      BY <2>1, <3>3, PutLine
    <3> HIDE DEF p
    <3>5. s = [l EXCEPT !.cursor = p]
      BY <3>3
    <3>6. IsState(s, l.column, l.dispRow, l.globRow, l.lineShow, p, l.mem)
      <4>1. l \in Loose
        BY <3>4 DEF IsState
      <4> HIDE DEF s
      <4> QED
        BY <3>2, <3>5, <4>1, PutCursorAt
    <3> HIDE DEF s
    <3> QED
      BY <3>4, <3>6 DEF IsState
  <2>4. Counters(s)
    <3>1. scr.dispRow = (IF scr.globRow < PageRows THEN scr.globRow ELSE PageRows - 1)
      BY <1>1 DEF ConsoleIInv, Placed, LastRow
    <3>2. p \in (0 .. PageRows - 1) \X Columns /\ 0 \in 1 - PageRows .. BackupRows - PageRows
      BY <2>1, <3>1, Sizes
    <3> HIDE DEF p, s
    <3>3. s.column # 0 => s.cursor = <<s.dispRow, s.column>>
      BY <2>3 DEF IsState, p
    <3> QED
      BY <2>1, <2>3, <3>1, <3>2, <3>3 DEF Counters, IsState
  <2> HIDE DEF p, s
  <2>5. TextOf(s) = TextOf(scr)
    BY <2>3 DEF TextOf, IsState
  <2>6. TextOf(s) = text
    <3>1. \A r \in 0 .. BackupRows - 1, c \in Columns :
            Place(r, c) < Len(text) => text[Place(r, c) + 1] = s.mem[<<Backup(r), c>>]
      BY <2>2, <2>3 DEF Holds, IsState
    <3>2. Len(text) = Place(s.globRow, s.column)
      BY <2>2, <2>3 DEF IsState
    <3> QED
      BY <2>2, <2>4, <3>1, <3>2, TextIs
  <2> QED
    BY <2>5, <2>6
<1> QED
  BY <1>1, ConsoleInvariance, PTL

(* Behind as many rows as the display page has, nothing is left of a page  *)
(* key that came in the middle of putChar, even one between the load and   *)
(* the store of lineShow++ (screen.c:71-82, 131-141).                      *)
THEOREM DisplayRecovers == ~FillBackup => (ConsoleSpec => []DisplayHeals)
<1>1. ASSUME ConsoleIInv
      PROVE  DisplayHeals
  <2> SUFFICES ASSUME pc = "idle", since = PageRows
               PROVE  scr.lineShow = Home(scr) /\ WindowMatches
    BY DEF DisplayHeals
  <2>1. scr.lineShow = Home(scr)
    BY <1>1, Sizes DEF ConsoleIInv, Healing, Aligned
  <2>2. \A r \in 0 .. LastRow : Right(r, Home(scr))
    BY <1>1, <2>1, Sizes DEF ConsoleIInv, Healing, Aligned, LastRow
  <2>3. ASSUME NEW r \in 0 .. PageRows - 1, NEW c \in Columns
        PROVE  scr.mem[<<r, c>>] = scr.mem[<<Backup(scr.lineShow + r), c>>]
    BY <2>1, <2>2 DEF Right, LastRow
  <2> QED
    BY <2>1, <2>3 DEF WindowMatches
<1> QED
  BY <1>1, ConsoleInvariance, PTL

=============================================================================
