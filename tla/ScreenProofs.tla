---------------------------- MODULE ScreenProofs ----------------------------
(***************************************************************************)
(* Theorems about Screen, for a page and a backup of any size.             *)
(***************************************************************************)
EXTENDS Screen, SequenceTheorems, TLAPS

(* Video memory, and the driver's state while one of its functions runs:   *)
(* then the counters may have left their ranges for a moment.              *)
Memory == [Rows \X Columns -> Cells]

Loose ==
  [column : Int, dispRow : Int, globRow : Int, lineShow : Int,
   cursor : Int \X Int, mem : Memory]

(* The counters between two calls. *)
Counters(s) ==
  /\ s \in Loose
  /\ s.column \in Columns
  /\ s.globRow \in 0 .. BackupRows - 1
  /\ s.dispRow = (IF s.globRow < PageRows THEN s.globRow ELSE PageRows - 1)
  /\ s.lineShow \in 1 - PageRows .. BackupRows - PageRows
  /\ s.cursor \in (0 .. PageRows - 1) \X Columns
  /\ s.column # 0 => s.cursor = <<s.dispRow, s.column>>

(* After the page has been scrolled back, and until the counters are in    *)
(* range again: the column may be one off either end of the row.           *)
Midway(s) ==
  /\ s \in Loose
  /\ s.globRow \in 0 .. BackupRows - 1
  /\ s.dispRow = (IF s.globRow < PageRows THEN s.globRow ELSE PageRows - 1)
  /\ s.lineShow = Home(s)
  /\ s.cursor \in (0 .. PageRows - 1) \X Columns

Shown(s) == Counters(s) /\ s.lineShow = Home(s)

(* What WindowMatches, and BlankAhead below, say of the driver's state. *)
Window(s) ==
  s.lineShow >= 0 =>
    \A r \in 0 .. PageRows - 1, c \in Columns :
      s.mem[<<r, c>>] = s.mem[<<Backup(s.lineShow + r), c>>]

Ahead(s) ==
  \A row \in s.globRow .. BackupRows - 1, c \in Columns :
    row > s.globRow \/ c >= s.column => s.mem[<<Backup(row), c>>] = Blank

Below(s) ==
  \A row \in s.globRow + 1 .. BackupRows - 1, c \in Columns :
    s.mem[<<Backup(row), c>>] = Blank

SameBackup(m, n) ==
  \A row \in 0 .. BackupRows - 1, c \in Columns :
    m[<<Backup(row), c>>] = n[<<Backup(row), c>>]

(* The backup of d is that of s but for one cell. *)
Rewritten(d, s, row, col, ch) ==
  \A r \in 0 .. BackupRows - 1, c \in Columns :
    d.mem[<<Backup(r), c>>] = IF r = row /\ c = col THEN ch ELSE s.mem[<<Backup(r), c>>]

IInv ==
  /\ Counters(scr)
  /\ scr.lineShow <= Home(scr)
  /\ erased \in BOOLEAN
  /\ ~erased => Window(scr) /\ Ahead(scr)

LEMMA Sizes ==
  /\ Cols \in Nat /\ Cols > 0
  /\ PageRows \in Nat /\ PageRows > 1
  /\ BackupRows \in Nat /\ BackupRows >= 2 * PageRows
<1>1. ASSUME NEW p \in Nat, NEW q \in Nat, p >= 2
      PROVE  p * q \in Nat /\ p * q >= 2 * q
  BY <1>1
<1>2. Pages \in Nat /\ Pages >= 2
  BY ScreenAssumption DEF ScreenAssumption
<1> QED
  BY <1>1, <1>2, ScreenAssumption DEF ScreenAssumption, BackupRows

LEMMA BlankIsCell == Blank \in Cells
BY DEF Cells

(* memcpy of rows inside video memory gives video memory. *)
LEMMA CopyRowsType ==
  ASSUME NEW mem \in Memory, NEW dst \in Nat, NEW src \in Nat, NEW n \in Nat,
         src + n <= PageRows + BackupRows
  PROVE  CopyRows(mem, dst, src, n) \in Memory
<1>1. ASSUME NEW cell \in Rows \X Columns, cell[1] \in dst .. dst + n - 1
      PROVE  <<cell[1] - dst + src, cell[2]>> \in Rows \X Columns
  BY <1>1, Sizes DEF Rows
<1> QED
  BY <1>1 DEF CopyRows, Memory

(* The rows that are copied, and those that are not. *)
LEMMA CopyRowsNear ==
  ASSUME NEW mem \in Memory, NEW src \in Int, NEW n \in Nat,
         NEW r \in 0 .. n - 1, r \in Rows, NEW c \in Columns
  PROVE  CopyRows(mem, 0, src, n)[<<r, c>>] = mem[<<src + r, c>>]
<1>1. r - 0 + src = src + r
  OBVIOUS
<1>2. r \in 0 .. 0 + n - 1
  OBVIOUS
<1> QED
  BY <1>1, <1>2 DEF CopyRows

LEMMA CopyRowUp ==
  ASSUME NEW mem \in Memory, NEW r \in 0 .. PageRows - 2, NEW c \in Columns
  PROVE  CopyRows(mem, 0, 1, PageRows - 1)[<<r, c>>] = mem[<<r + 1, c>>]
<1>1. r \in Rows /\ r \in 0 .. 0 + (PageRows - 1) - 1
  BY Sizes DEF Rows
<1>2. r - 0 + 1 = r + 1
  OBVIOUS
<1> QED
  BY <1>1, <1>2 DEF CopyRows

LEMMA CopyRowsFar ==
  ASSUME NEW mem \in Memory, NEW src \in Int, NEW n \in Nat,
         NEW r \in Rows, r >= n, NEW c \in Columns
  PROVE  CopyRows(mem, 0, src, n)[<<r, c>>] = mem[<<r, c>>]
<1>1. r \notin 0 .. 0 + n - 1
  BY DEF Rows
<1> QED
  BY <1>1 DEF CopyRows

LEMMA BlankRowIs ==
  ASSUME NEW mem \in Memory, NEW row \in Int
  PROVE  /\ BlankRow(mem, row) \in Memory
         /\ \A r \in Rows, c \in Columns :
              BlankRow(mem, row)[<<r, c>>] = IF r = row THEN Blank ELSE mem[<<r, c>>]
<1>1. BlankRow(mem, row) \in Memory
  BY BlankIsCell DEF BlankRow, Memory
<1>2. ASSUME NEW r \in Rows, NEW c \in Columns
      PROVE  BlankRow(mem, row)[<<r, c>>] = IF r = row THEN Blank ELSE mem[<<r, c>>]
  BY DEF BlankRow
<1> QED
  BY <1>1, <1>2

LEMMA SetCellType ==
  ASSUME NEW mem \in Memory, NEW row, NEW col, NEW ch \in Cells
  PROVE  SetCell(mem, row, col, ch) \in Memory
BY DEF SetCell, Memory

(* The cells that move when the backup is full come from the backup. *)
LEMMA MovesInside ==
  ASSUME NEW cell \in Rows \X Columns, Moves(cell)
  PROVE  <<cell[1] + PageRows, cell[2]>> \in Rows \X Columns
<1>1. ASSUME NEW r \in Nat, NEW k \in Nat, NEW c \in Nat,
             r * Cols + c < k * Cols
      PROVE  r < k
  <2>1. SUFFICES ASSUME r >= k PROVE FALSE
    BY <1>1
  <2>2. r * Cols >= k * Cols
    BY <2>1, Sizes
  <2>3. r * Cols \in Nat /\ k * Cols \in Nat
    BY Sizes
  <2> QED
    BY <1>1, <2>2, <2>3
<1> DEFINE r == cell[1] - PageRows
           k == BackupRows - PageRows
<1>2. r \in Nat /\ k \in Nat /\ cell[2] \in Nat
  BY Sizes DEF Moves, Rows, Columns
<1>3. (Pages - 1) * PageRows = k
  BY ScreenAssumption DEF ScreenAssumption, BackupRows
<1>4. r * Cols + cell[2] < k * Cols
  <2>1. ShiftedCells <= ((Pages - 1) * PageRows) * Cols
    BY ScreenAssumption DEF ScreenAssumption
  <2>2. ShiftedCells <= k * Cols
    BY <1>3, <2>1
  <2>3. ShiftedCells \in Int /\ k * Cols \in Int /\ r * Cols + cell[2] \in Int
    <3>1. (Pages - 1) * PageRows * Cols \in Int
      BY ScreenAssumption DEF ScreenAssumption
    <3> QED
      BY <1>2, <3>1, Sizes, ScreenAssumption DEF ScreenAssumption
  <2> QED
    BY <2>2, <2>3 DEF Moves
<1>5. r < k
  BY <1>1, <1>2, <1>4
<1> QED
  BY <1>5, Sizes DEF Rows

(* The fields of a state, one by one. *)
IsState(t, column, dispRow, globRow, lineShow, cursor, mem) ==
  /\ t \in Loose
  /\ t.column = column /\ t.dispRow = dispRow /\ t.globRow = globRow
  /\ t.lineShow = lineShow /\ t.cursor = cursor /\ t.mem = mem

(* The updates the driver makes. *)
LEMMA PutRow ==
  ASSUME NEW s \in Loose, NEW i \in Int
  PROVE  IsState([s EXCEPT !.dispRow = i],
                 s.column, i, s.globRow, s.lineShow, s.cursor, s.mem)
BY DEF IsState, Loose

LEMMA PutCursorAt ==
  ASSUME NEW s \in Loose, NEW p \in Int \X Int
  PROVE  IsState([s EXCEPT !.cursor = p],
                 s.column, s.dispRow, s.globRow, s.lineShow, p, s.mem)
BY DEF IsState, Loose

LEMMA PutPlace ==
  ASSUME NEW s \in Loose, NEW i \in Int, NEW j \in Int
  PROVE  IsState([s EXCEPT !.column = i, !.globRow = j],
                 i, s.dispRow, j, s.lineShow, s.cursor, s.mem)
BY DEF IsState, Loose

LEMMA PutPage ==
  ASSUME NEW s \in Loose, NEW i \in Int, NEW m \in Memory
  PROVE  /\ IsState([s EXCEPT !.lineShow = i, !.mem = m],
                    s.column, s.dispRow, s.globRow, i, s.cursor, m)
         /\ IsState([s EXCEPT !.mem = m, !.lineShow = i],
                    s.column, s.dispRow, s.globRow, i, s.cursor, m)
<1>1. IsState([s EXCEPT !.lineShow = i, !.mem = m],
              s.column, s.dispRow, s.globRow, i, s.cursor, m)
  BY DEF IsState, Loose
<1>2. IsState([s EXCEPT !.mem = m, !.lineShow = i],
              s.column, s.dispRow, s.globRow, i, s.cursor, m)
  BY DEF IsState, Loose
<1> QED
  BY <1>1, <1>2

LEMMA PutText ==
  ASSUME NEW s \in Loose, NEW i \in Int, NEW m \in Memory
  PROVE  IsState([s EXCEPT !.mem = m, !.column = i],
                 i, s.dispRow, s.globRow, s.lineShow, s.cursor, m)
BY DEF IsState, Loose

LEMMA PutErased ==
  ASSUME NEW s \in Loose, NEW i \in Int, NEW j \in Int, NEW m \in Memory
  PROVE  IsState([s EXCEPT !.mem = m, !.globRow = i, !.lineShow = j],
                 s.column, s.dispRow, i, j, s.cursor, m)
BY DEF IsState, Loose

LEMMA HomeInside ==
  ASSUME NEW s \in Loose,
         s.globRow \in 0 .. BackupRows - 1,
         s.dispRow = (IF s.globRow < PageRows THEN s.globRow ELSE PageRows - 1)
  PROVE  /\ Home(s) \in 0 .. BackupRows - PageRows
         /\ s.globRow = Home(s) + s.dispRow
         /\ s.dispRow \in 0 .. PageRows - 1
BY Sizes DEF Home

(* The memcpy of a page of the history leaves the history alone, and the   *)
(* display page is a window of it.                                         *)
LEMMA CopyPageIs ==
  ASSUME NEW mem \in Memory, NEW line \in 1 - PageRows .. BackupRows - PageRows
  PROVE  LET m == CopyRows(mem, 0, Backup(line), PageRows)
         IN  /\ m \in Memory
             /\ SameBackup(m, mem)
             /\ line >= 0 =>
                  \A r \in 0 .. PageRows - 1, c \in Columns :
                    m[<<r, c>>] = m[<<Backup(line + r), c>>]
<1> DEFINE m == CopyRows(mem, 0, Backup(line), PageRows)
<1>1. m \in Memory
  BY CopyRowsType, Sizes DEF Backup
<1>2. ASSUME NEW row \in 0 .. BackupRows - 1, NEW c \in Columns
      PROVE  m[<<Backup(row), c>>] = mem[<<Backup(row), c>>]
  BY Sizes, CopyRowsFar DEF Backup, Rows
<1>3. ASSUME line >= 0, NEW r \in 0 .. PageRows - 1, NEW c \in Columns
      PROVE  m[<<r, c>>] = m[<<Backup(line + r), c>>]
  <2>1. m[<<r, c>>] = mem[<<Backup(line) + r, c>>]
    BY <1>3, Sizes, CopyRowsNear DEF Backup, Rows
  <2>2. m[<<Backup(line + r), c>>] = mem[<<Backup(line + r), c>>]
    BY <1>3, Sizes, CopyRowsFar DEF Backup, Rows
  <2>3. Backup(line) + r = Backup(line + r)
    BY <1>3, Sizes DEF Backup
  <2> QED
    BY <2>1, <2>2, <2>3
<1> HIDE DEF m
<1>4. SameBackup(m, mem)
  BY <1>2 DEF SameBackup
<1> QED
  BY <1>1, <1>3, <1>4 DEF m

LEMMA ShowLineIs ==
  ASSUME NEW s \in Loose, NEW line \in 1 - PageRows .. BackupRows - PageRows
  PROVE  LET t == ShowLine(s, line)
         IN  /\ IsState(t, s.column, s.dispRow, s.globRow, line, s.cursor, t.mem)
             /\ Window(t)
             /\ SameBackup(t.mem, s.mem)
<1> DEFINE m == CopyRows(s.mem, 0, Backup(line), PageRows)
           t == ShowLine(s, line)
<1>1. /\ m \in Memory
      /\ SameBackup(m, s.mem)
      /\ line >= 0 =>
           \A r \in 0 .. PageRows - 1, c \in Columns :
             m[<<r, c>>] = m[<<Backup(line + r), c>>]
  <2>1. s.mem \in Memory
    BY DEF Loose
  <2> QED
    BY <2>1, CopyPageIs
<1>2. line \in Int /\ t = [s EXCEPT !.lineShow = line, !.mem = m]
  BY Sizes DEF ShowLine
<1> HIDE DEF m, t
<1>3. IsState(t, s.column, s.dispRow, s.globRow, line, s.cursor, m)
  BY <1>1, <1>2, PutPage
<1>4. Window(t) /\ SameBackup(t.mem, s.mem)
  BY <1>1, <1>3 DEF Window, IsState
<1> QED
  BY <1>3, <1>4 DEF IsState, t

LEMMA ScrollPageBackIs ==
  ASSUME NEW s, Counters(s)
  PROVE  LET b == ScrollPageBack(s)
         IN  /\ IsState(b, s.column, s.dispRow, s.globRow, Home(s), s.cursor, b.mem)
             /\ Home(b) = Home(s)
             /\ Midway(b)
             /\ Window(s) => Window(b)
             /\ SameBackup(b.mem, s.mem)
<1> DEFINE b == ScrollPageBack(s)
<1>1. s \in Loose /\ Home(s) \in 1 - PageRows .. BackupRows - PageRows
  BY HomeInside, Sizes DEF Counters
<1>2. /\ IsState(b, s.column, s.dispRow, s.globRow, Home(s), s.cursor, b.mem)
      /\ Window(s) => Window(b)
      /\ SameBackup(b.mem, s.mem)
  <2>1. CASE s.lineShow = Home(s)
    BY <1>1, <2>1 DEF ScrollPageBack, IsState, SameBackup
  <2>2. CASE s.lineShow # Home(s)
    BY <1>1, <2>2, ShowLineIs DEF ScrollPageBack
  <2> QED
    BY <2>1, <2>2
<1> HIDE DEF b
<1>3. Home(b) = Home(s) /\ Midway(b)
  BY <1>1, <1>2 DEF Home, IsState, Midway, Counters
<1> QED
  BY <1>2, <1>3 DEF b

(* A full backup loses its first page; otherwise nothing changes. *)
LEMMA ErasePageIs ==
  ASSUME NEW s \in Loose
  PROVE  LET e == ErasePage(s)
         IN  /\ s.globRow # BackupRows => e = s
             /\ s.globRow = BackupRows =>
                  IsState(e, s.column, s.dispRow, s.globRow - PageRows,
                          s.lineShow - PageRows, s.cursor, e.mem)
<1> DEFINE m == [cell \in Rows \X Columns |->
                   IF Moves(cell)
                   THEN s.mem[<<cell[1] + PageRows, cell[2]>>]
                   ELSE s.mem[cell]]
           g == s.globRow - PageRows
           l == s.lineShow - PageRows
           e == ErasePage(s)
<1>1. m \in Memory
  <2>1. s.mem \in Memory
    BY DEF Loose
  <2> QED
    BY <2>1, MovesInside DEF Memory
<1>2. g \in Int /\ l \in Int
  BY Sizes DEF Loose
<1>3. s.globRow = BackupRows => e = [s EXCEPT !.mem = m, !.globRow = g, !.lineShow = l]
  BY DEF ErasePage
<1>4. s.globRow # BackupRows => e = s
  BY DEF ErasePage
<1> HIDE DEF m, e
<1>5. s.globRow = BackupRows => IsState(e, s.column, s.dispRow, g, l, s.cursor, m)
  <2> HIDE DEF g, l
  <2> QED
    BY <1>1, <1>2, <1>3, PutErased
<1> QED
  BY <1>4, <1>5 DEF e, IsState

(* The display moves on by a row. Unless a page was erased, it stays the   *)
(* window of the history, whose next rows are blank.                       *)
LEMMA ShiftDisplayIs ==
  ASSUME NEW s \in Loose, NEW row \in 0 .. PageRows - 1, s.dispRow = row
  PROVE  LET d == ShiftDisplay(s)
         IN  /\ row # PageRows - 1 =>
                  IsState(d, s.column, row + 1, s.globRow, s.lineShow, s.cursor, s.mem)
             /\ row = PageRows - 1 =>
                  /\ IsState(d, s.column, row, s.globRow, s.lineShow + 1, s.cursor, d.mem)
                  /\ SameBackup(d.mem, s.mem)
                  /\ \A r \in 0 .. PageRows - 2, c \in Columns :
                       d.mem[<<r, c>>] = s.mem[<<r + 1, c>>]
                  /\ \A c \in Columns : d.mem[<<PageRows - 1, c>>] = Blank
<1> DEFINE c == CopyRows(s.mem, 0, 1, PageRows - 1)
           m == BlankRow(c, PageRows - 1)
           l == s.lineShow + 1
           d == ShiftDisplay(s)
<1>1. CASE row # PageRows - 1
  <2>1. d = [s EXCEPT !.dispRow = row + 1]
    BY <1>1 DEF ShiftDisplay
  <2>2. row + 1 \in Int
    BY Sizes
  <2> HIDE DEF d
  <2>3. IsState(d, s.column, row + 1, s.globRow, s.lineShow, s.cursor, s.mem)
    BY <2>1, <2>2, PutRow
  <2> QED
    BY <1>1, <2>3 DEF d
<1>2. CASE row = PageRows - 1
  <2>1. s.mem \in Memory /\ l \in Int
    BY DEF Loose
  <2>2. c \in Memory
    BY <2>1, CopyRowsType, Sizes
  <2>3. m \in Memory
    <3> HIDE DEF c
    <3> QED
      BY <2>2, Sizes, BlankRowIs
  <2>4. d = [s EXCEPT !.mem = m, !.lineShow = l]
    BY <1>2 DEF ShiftDisplay
  <2>5. ASSUME NEW r \in Rows, NEW k \in Columns
        PROVE  m[<<r, k>>] = IF r = PageRows - 1 THEN Blank ELSE c[<<r, k>>]
    <3> DEFINE last == PageRows - 1
    <3>1. last \in Int
      BY Sizes
    <3> HIDE DEF c, last
    <3>2. BlankRow(c, last)[<<r, k>>] = IF r = last THEN Blank ELSE c[<<r, k>>]
      BY <2>2, <3>1, BlankRowIs
    <3> QED
      BY <3>2 DEF last
  <2>6. SameBackup(m, s.mem)
    <3>1. ASSUME NEW r \in 0 .. BackupRows - 1, NEW k \in Columns
          PROVE  m[<<Backup(r), k>>] = s.mem[<<Backup(r), k>>]
      <4>1. Backup(r) \in Rows /\ Backup(r) >= PageRows - 1 /\ PageRows - 1 \in Nat
        BY Sizes DEF Backup, Rows
      <4>2. c[<<Backup(r), k>>] = s.mem[<<Backup(r), k>>]
        BY <2>1, <4>1, CopyRowsFar
      <4>3. Backup(r) # PageRows - 1
        BY Sizes DEF Backup
      <4> HIDE DEF c, m
      <4>4. m[<<Backup(r), k>>] = IF Backup(r) = PageRows - 1 THEN Blank ELSE c[<<Backup(r), k>>]
        BY <2>5, <4>1
      <4> QED
        BY <4>2, <4>3, <4>4
    <3> HIDE DEF c, m
    <3> QED
      BY <3>1 DEF SameBackup
  <2>7. ASSUME NEW r \in 0 .. PageRows - 2, NEW k \in Columns
        PROVE  m[<<r, k>>] = s.mem[<<r + 1, k>>]
    <3>1. r \in Rows /\ r # PageRows - 1
      BY Sizes DEF Rows
    <3>2. c[<<r, k>>] = s.mem[<<r + 1, k>>]
      BY <2>1, CopyRowUp
    <3> HIDE DEF c, m
    <3> QED
      BY <2>5, <3>1, <3>2
  <2>8. ASSUME NEW k \in Columns
        PROVE  m[<<PageRows - 1, k>>] = Blank
    <3>1. PageRows - 1 \in Rows
      BY Sizes DEF Rows
    <3> HIDE DEF c, m
    <3> QED
      BY <2>5, <3>1
  <2> HIDE DEF c, m, d
  <2>9. IsState(d, s.column, s.dispRow, s.globRow, l, s.cursor, m)
    <3> HIDE DEF l
    <3> QED
      BY <2>1, <2>3, <2>4, PutPage
  <2> QED
    BY <1>2, <2>6, <2>7, <2>8, <2>9 DEF IsState, d
<1> QED
  BY <1>1, <1>2

(* The next row: the counters come back into their ranges, and as long as  *)
(* the backup has room the page stays a window of the history.             *)
LEMMA ScrollLineDownIs ==
  ASSUME NEW s, Midway(s)
  PROVE  LET d == ScrollLineDown(s)
         IN  /\ Shown(d) /\ d.column = 0
             /\ s.globRow # BackupRows - 1 =>
                  d.globRow = s.globRow + 1 /\ SameBackup(d.mem, s.mem)
             /\ s.globRow # BackupRows - 1 /\ Window(s) /\ Below(s)
                  => Window(d) /\ Ahead(d)
<1> DEFINE g == s.globRow + 1
           a == [s EXCEPT !.column = 0, !.globRow = g]
           e == ErasePage(a)
           d == ScrollLineDown(s)
<1>1. /\ s \in Loose /\ g \in Int
      /\ Home(s) \in 0 .. BackupRows - PageRows
      /\ s.globRow = Home(s) + s.dispRow
      /\ s.dispRow \in 0 .. PageRows - 1
      /\ s.globRow \in 0 .. BackupRows - 1
  BY HomeInside DEF Midway
<1>2. IsState(a, 0, s.dispRow, g, s.lineShow, s.cursor, s.mem)
  <2> DEFINE z == 0
             b == [s EXCEPT !.column = z, !.globRow = g]
  <2>1. z \in Int
    OBVIOUS
  <2>2. IsState(b, z, s.dispRow, g, s.lineShow, s.cursor, s.mem)
    <3> HIDE DEF g, z
    <3> QED
      BY <1>1, <2>1, PutPlace
  <2>3. a = b
    OBVIOUS
  <2> HIDE DEF a, b, g
  <2> QED
    BY <2>2, <2>3
<1>3. d = ShiftDisplay(e)
  BY DEF ScrollLineDown
<1> HIDE DEF a, d
<1>4. /\ IF g = BackupRows
         THEN IsState(e, 0, s.dispRow, g - PageRows, s.lineShow - PageRows, s.cursor, e.mem)
         ELSE e = a
      /\ e \in Loose /\ e.dispRow = s.dispRow /\ e.column = 0 /\ e.cursor = s.cursor
  <2>1. a \in Loose /\ a.globRow = g
    BY <1>2 DEF IsState
  <2>2. /\ g # BackupRows => e = a
        /\ g = BackupRows =>
             IsState(e, a.column, a.dispRow, a.globRow - PageRows,
                     a.lineShow - PageRows, a.cursor, e.mem)
    BY <2>1, ErasePageIs
  <2> HIDE DEF g, e
  <2> QED
    BY <1>2, <2>1, <2>2 DEF IsState
<1> HIDE DEF e
<1>5. /\ s.dispRow # PageRows - 1 =>
           IsState(d, 0, s.dispRow + 1, e.globRow, e.lineShow, s.cursor, e.mem)
      /\ s.dispRow = PageRows - 1 =>
           /\ IsState(d, 0, s.dispRow, e.globRow, e.lineShow + 1, s.cursor, d.mem)
           /\ SameBackup(d.mem, e.mem)
           /\ \A r \in 0 .. PageRows - 2, c \in Columns :
                d.mem[<<r, c>>] = e.mem[<<r + 1, c>>]
           /\ \A c \in Columns : d.mem[<<PageRows - 1, c>>] = Blank
  BY <1>1, <1>3, <1>4, ShiftDisplayIs
<1>6. /\ d \in Loose /\ d.column = 0 /\ d.cursor = s.cursor
      /\ d.globRow = (IF g = BackupRows THEN g - PageRows ELSE g)
      /\ d.dispRow = (IF s.dispRow = PageRows - 1 THEN s.dispRow ELSE s.dispRow + 1)
      /\ d.lineShow = (IF g = BackupRows THEN Home(s) - PageRows ELSE Home(s))
                      + (IF s.dispRow = PageRows - 1 THEN 1 ELSE 0)
  <2>1. /\ e.globRow = (IF g = BackupRows THEN g - PageRows ELSE g)
        /\ e.lineShow = (IF g = BackupRows THEN Home(s) - PageRows ELSE Home(s))
    BY <1>2, <1>4 DEF IsState, Midway
  <2>2. e.lineShow \in Int
    BY <1>4 DEF Loose
  <2> QED
    BY <1>1, <1>5, <2>1, <2>2 DEF IsState
<1>7. Shown(d) /\ d.column = 0
  <2>1. 0 \in Columns
    BY Sizes DEF Columns
  <2>2. Home(d) = IF d.globRow - (PageRows - 1) < 0 THEN 0 ELSE d.globRow - (PageRows - 1)
    BY DEF Home
  <2>3. Home(s) = IF s.globRow - (PageRows - 1) < 0 THEN 0 ELSE s.globRow - (PageRows - 1)
    BY DEF Home
  <2> DEFINE h == s.globRow
  <2>0. /\ h \in Int /\ h >= 0 /\ h < BackupRows
        /\ d.globRow = (IF h + 1 = BackupRows THEN h + 1 - PageRows ELSE h + 1)
        /\ s.dispRow = (IF h < PageRows THEN h ELSE PageRows - 1)
    BY <1>1, <1>6, Sizes DEF Midway
  <2> HIDE DEF h
  <2>4. d.globRow \in 0 .. BackupRows - 1
    BY <2>0, Sizes
  <2>5. d.dispRow = (IF d.globRow < PageRows THEN d.globRow ELSE PageRows - 1)
    BY <1>6, <2>0, Sizes
  <2>6. d.lineShow = Home(d) /\ d.lineShow \in 1 - PageRows .. BackupRows - PageRows
    BY <1>6, <2>0, <2>2, <2>3, <2>4, Sizes DEF h
  <2> QED
    BY <1>6, <2>1, <2>4, <2>5, <2>6 DEF Shown, Counters, Midway
<1>8. ASSUME s.globRow # BackupRows - 1, Window(s), Below(s)
      PROVE  Window(d) /\ Ahead(d)
  <2>1. e = a /\ g # BackupRows /\ e.mem = s.mem
    BY <1>1, <1>2, <1>4, <1>8, Sizes DEF IsState
  <2>2. \A row \in g .. BackupRows - 1, c \in Columns : s.mem[<<Backup(row), c>>] = Blank
    BY <1>8 DEF Below
  <2>3. \A r \in 0 .. PageRows - 1, c \in Columns :
          s.mem[<<r, c>>] = s.mem[<<Backup(Home(s) + r), c>>]
    <3>1. s.lineShow = Home(s) /\ s.lineShow >= 0
      BY <1>1, Sizes DEF Midway
    <3> QED
      BY <1>8, <3>1 DEF Window
  <2>4. CASE s.dispRow # PageRows - 1
    <3>1. d.mem = s.mem /\ d.lineShow = Home(s) /\ d.globRow = g
      BY <1>1, <1>5, <1>6, <2>1, <2>4 DEF IsState
    <3> QED
      BY <2>2, <2>3, <3>1 DEF Window, Ahead
  <2>5. CASE s.dispRow = PageRows - 1
    <3>1. /\ d.lineShow = Home(s) + 1 /\ d.globRow = g
          /\ SameBackup(d.mem, s.mem)
      BY <1>1, <1>5, <1>6, <2>1, <2>5 DEF IsState
    <3>2. Ahead(d)
      <4>1. ASSUME NEW row \in g .. BackupRows - 1, NEW c \in Columns
            PROVE  d.mem[<<Backup(row), c>>] = Blank
        <5>1. row \in 0 .. BackupRows - 1
          BY <1>1, Sizes
        <5> QED
          BY <2>2, <3>1, <5>1 DEF SameBackup
      <4> QED
        BY <3>1, <4>1 DEF Ahead
    <3>3. ASSUME NEW r \in 0 .. PageRows - 1, NEW c \in Columns
          PROVE  d.mem[<<r, c>>] = d.mem[<<Backup(Home(s) + 1 + r), c>>]
      <4>1. Home(s) + 1 + r \in 0 .. BackupRows - 1
        BY <1>1, <1>8, <2>5, Sizes
      <4>2. d.mem[<<Backup(Home(s) + 1 + r), c>>] = s.mem[<<Backup(Home(s) + 1 + r), c>>]
        BY <3>1, <4>1 DEF SameBackup
      <4>3. CASE r = PageRows - 1
        <5>1. Home(s) + 1 + r = g /\ g \in g .. BackupRows - 1
          BY <1>1, <2>5, <4>1, <4>3, Sizes
        <5>2. d.mem[<<r, c>>] = Blank
          BY <1>5, <2>5, <4>3
        <5> QED
          BY <2>2, <4>2, <5>1, <5>2
      <4>4. CASE r # PageRows - 1
        <5>1. r \in 0 .. PageRows - 2 /\ r + 1 \in 0 .. PageRows - 1
          BY <4>4, Sizes
        <5>2. d.mem[<<r, c>>] = s.mem[<<r + 1, c>>]
          BY <1>5, <2>1, <2>5, <5>1
        <5>3. s.mem[<<r + 1, c>>] = s.mem[<<Backup(Home(s) + (r + 1)), c>>]
          BY <2>3, <5>1
        <5>4. Home(s) + (r + 1) = Home(s) + 1 + r
          BY <1>1
        <5> QED
          BY <4>2, <5>2, <5>3, <5>4
      <4> QED
        BY <4>3, <4>4
    <3> QED
      BY <3>1, <3>2, <3>3 DEF Window
  <2> QED
    BY <2>4, <2>5
<1>9. ASSUME s.globRow # BackupRows - 1
      PROVE  d.globRow = s.globRow + 1 /\ SameBackup(d.mem, s.mem)
  <2>1. g # BackupRows
    BY <1>1, <1>9, Sizes
  <2>2. e = a /\ e.mem = s.mem
    BY <1>2, <1>4, <2>1 DEF IsState
  <2>3. SameBackup(d.mem, e.mem)
    BY <1>5 DEF SameBackup, IsState
  <2> QED
    BY <1>6, <2>1, <2>2, <2>3
<1> QED
  BY <1>7, <1>8, <1>9 DEF d

(* updateCursor changes nothing but the cursor, and puts it in its place. *)
LEMMA UpdateCursorIs ==
  ASSUME NEW s \in Loose,
         s.column \in Columns,
         s.globRow \in 0 .. BackupRows - 1,
         s.dispRow = (IF s.globRow < PageRows THEN s.globRow ELSE PageRows - 1),
         s.lineShow = Home(s)
  PROVE  LET u == UpdateCursor(s)
         IN  /\ Shown(u)
             /\ u.column = s.column /\ u.globRow = s.globRow /\ u.mem = s.mem
             /\ Window(s) => Window(u)
             /\ Ahead(s) => Ahead(u)
<1> DEFINE p == <<s.dispRow, s.column>>
           u == UpdateCursor(s)
<1>1. /\ Home(s) \in 1 - PageRows .. BackupRows - PageRows
      /\ s.dispRow \in 0 .. PageRows - 1
  BY HomeInside, Sizes
<1>2. p \in Int \X Int /\ p \in (0 .. PageRows - 1) \X Columns
  BY <1>1 DEF Loose
<1>3. u = [s EXCEPT !.cursor = p]
  BY DEF UpdateCursor
<1>4. p = <<s.dispRow, s.column>>
  OBVIOUS
<1> HIDE DEF p, u
<1>5. IsState(u, s.column, s.dispRow, s.globRow, s.lineShow, p, s.mem)
  BY <1>2, <1>3, PutCursorAt
<1>6. Home(u) = Home(s)
  BY <1>5 DEF Home, IsState
<1>7. Shown(u)
  BY <1>1, <1>2, <1>4, <1>5, <1>6 DEF Shown, Counters, IsState
<1>8. (Window(s) => Window(u)) /\ (Ahead(s) => Ahead(u))
  BY <1>5 DEF Window, Ahead, IsState
<1> QED
  BY <1>5, <1>7, <1>8 DEF u, IsState

(* A cell that is written on the display page and in the backup. *)
LEMMA WriteBoth ==
  ASSUME NEW mem \in Memory, NEW ch \in Cells, NEW col \in Columns,
         NEW d \in 0 .. PageRows - 1, NEW g \in 0 .. BackupRows - 1
  PROVE  LET m == SetCell(SetCell(mem, d, col, ch), Backup(g), col, ch)
         IN  /\ m \in Memory
             /\ \A r \in 0 .. PageRows - 1, c \in Columns :
                  m[<<r, c>>] = IF r = d /\ c = col THEN ch ELSE mem[<<r, c>>]
             /\ \A r \in 0 .. BackupRows - 1, c \in Columns :
                  m[<<Backup(r), c>>] =
                    IF r = g /\ c = col THEN ch ELSE mem[<<Backup(r), c>>]
<1> DEFINE n == SetCell(mem, d, col, ch)
           m == SetCell(n, Backup(g), col, ch)
<1>1. n \in Memory /\ m \in Memory
  BY SetCellType
<1>2. /\ \A r \in 0 .. PageRows - 1 : r \in Rows /\ r # Backup(g)
      /\ \A r \in 0 .. BackupRows - 1 : Backup(r) \in Rows /\ Backup(r) # d
      /\ \A r \in 0 .. BackupRows - 1 : Backup(r) = Backup(g) => r = g
  BY Sizes DEF Rows, Backup
<1>3. ASSUME NEW r \in Rows, NEW c \in Columns
      PROVE  n[<<r, c>>] = IF r = d /\ c = col THEN ch ELSE mem[<<r, c>>]
  BY <1>3 DEF SetCell, Memory
<1> HIDE DEF n
<1>4. ASSUME NEW r \in Rows, NEW c \in Columns
      PROVE  m[<<r, c>>] = IF r = Backup(g) /\ c = col THEN ch ELSE n[<<r, c>>]
  BY <1>1, <1>4 DEF SetCell, Memory
<1> HIDE DEF m
<1>5. ASSUME NEW r \in 0 .. PageRows - 1, NEW c \in Columns
      PROVE  m[<<r, c>>] = IF r = d /\ c = col THEN ch ELSE mem[<<r, c>>]
  <2>1. r \in Rows /\ r # Backup(g)
    BY <1>2
  <2> QED
    BY <1>3, <1>4, <2>1
<1>6. ASSUME NEW r \in 0 .. BackupRows - 1, NEW c \in Columns
      PROVE  m[<<Backup(r), c>>] =
               IF r = g /\ c = col THEN ch ELSE mem[<<Backup(r), c>>]
  <2>1. Backup(r) \in Rows /\ Backup(r) # d /\ (Backup(r) = Backup(g) <=> r = g)
    BY <1>2
  <2> QED
    BY <1>3, <1>4, <2>1
<1> QED
  BY <1>1, <1>5, <1>6 DEF m, n

LEMMA PutNewlineIs ==
  ASSUME NEW s, Counters(s)
  PROVE  LET d == PutNewline(s)
         IN  /\ Shown(d)
             /\ s.globRow # BackupRows - 1 =>
                  d.globRow = s.globRow + 1 /\ d.column = 0 /\ SameBackup(d.mem, s.mem)
             /\ s.globRow # BackupRows - 1 /\ Window(s) /\ Ahead(s)
                  => Window(d) /\ Ahead(d)
<1> DEFINE b == ScrollPageBack(s)
<1>1. /\ IsState(b, s.column, s.dispRow, s.globRow, Home(s), s.cursor, b.mem)
      /\ Midway(b)
      /\ Window(s) => Window(b)
      /\ SameBackup(b.mem, s.mem)
  BY ScrollPageBackIs
<1>2. PutNewline(s) = ScrollLineDown(b)
  BY DEF PutNewline
<1> HIDE DEF b
<1>3. Ahead(s) => Below(b)
  <2> SUFFICES ASSUME Ahead(s), NEW row \in s.globRow + 1 .. BackupRows - 1, NEW c \in Columns
               PROVE  b.mem[<<Backup(row), c>>] = Blank
    BY <1>1 DEF Below, IsState
  <2>1. /\ row \in s.globRow .. BackupRows - 1 /\ row > s.globRow
        /\ row \in 0 .. BackupRows - 1
    BY Sizes DEF Counters
  <2> QED
    BY <1>1, <2>1 DEF Ahead, SameBackup
<1>4. b.globRow = s.globRow
  BY <1>1 DEF IsState
<1> DEFINE d == PutNewline(s)
<1>5. /\ Shown(d) /\ d.column = 0
      /\ s.globRow # BackupRows - 1 =>
           d.globRow = s.globRow + 1 /\ SameBackup(d.mem, b.mem)
      /\ s.globRow # BackupRows - 1 /\ Window(s) /\ Ahead(s) => Window(d) /\ Ahead(d)
  BY <1>1, <1>2, <1>3, <1>4, ScrollLineDownIs
<1> HIDE DEF d
<1>6. SameBackup(d.mem, b.mem) => SameBackup(d.mem, s.mem)
  BY <1>1 DEF SameBackup
<1> QED
  BY <1>5, <1>6 DEF d

LEMMA PutCharIs ==
  ASSUME NEW s, Counters(s), NEW ch \in Chars
  PROVE  LET d == PutChar(s, ch)
         IN  /\ Shown(d)
             /\ ~(s.globRow = BackupRows - 1 /\ s.column = Cols - 1) =>
                  /\ d.globRow = IF s.column = Cols - 1 THEN s.globRow + 1 ELSE s.globRow
                  /\ d.column = IF s.column = Cols - 1 THEN 0 ELSE s.column + 1
                  /\ Rewritten(d, s, s.globRow, s.column, ch)
             /\ ~(s.globRow = BackupRows - 1 /\ s.column = Cols - 1) /\ Window(s) /\ Ahead(s)
                  => Window(d) /\ Ahead(d)
<1> DEFINE b == ScrollPageBack(s)
           m == SetCell(SetCell(b.mem, s.dispRow, s.column, ch), Backup(s.globRow), s.column, ch)
           i == b.column + 1
           w == [b EXCEPT !.mem = m, !.column = i]
           v == IF w.column = Cols THEN ScrollLineDown(w) ELSE w
<1>0. /\ s \in Loose /\ s.column \in Columns /\ ch \in Cells
      /\ s.globRow = Home(s) + s.dispRow
      /\ Home(s) \in 0 .. BackupRows - PageRows /\ Home(s) >= 0
      /\ s.dispRow \in 0 .. PageRows - 1 /\ s.globRow \in 0 .. BackupRows - 1
  BY HomeInside, Sizes DEF Counters, Cells
<1>1. /\ IsState(b, s.column, s.dispRow, s.globRow, Home(s), s.cursor, b.mem)
      /\ Midway(b)
      /\ Window(s) => Window(b)
      /\ SameBackup(b.mem, s.mem)
  BY ScrollPageBackIs
<1>2. PutChar(s, ch) = UpdateCursor(v)
  BY DEF PutChar
<1> HIDE DEF b
<1>3. /\ m \in Memory
      /\ \A r \in 0 .. PageRows - 1, c \in Columns :
           m[<<r, c>>] = IF r = s.dispRow /\ c = s.column THEN ch ELSE b.mem[<<r, c>>]
      /\ \A r \in 0 .. BackupRows - 1, c \in Columns :
           m[<<Backup(r), c>>] =
             IF r = s.globRow /\ c = s.column THEN ch ELSE b.mem[<<Backup(r), c>>]
  <2>1. b.mem \in Memory
    BY <1>1 DEF IsState, Loose
  <2> QED
    BY <1>0, <2>1, WriteBoth
<1>4. i = s.column + 1 /\ i \in Int
  BY <1>0, <1>1, Sizes DEF IsState, Columns
<1> HIDE DEF m, i
<1>5. IsState(w, i, s.dispRow, s.globRow, Home(s), s.cursor, m)
  <2>1. IsState(w, i, b.dispRow, b.globRow, b.lineShow, b.cursor, m)
    BY <1>1, <1>3, <1>4, PutText DEF IsState
  <2> HIDE DEF w
  <2> QED
    BY <1>1, <2>1 DEF IsState
<1> HIDE DEF w
<1>6. Home(w) = Home(s) /\ Midway(w)
  BY <1>1, <1>5 DEF Home, IsState, Midway
<1>7. Window(s) => Window(w)
  <2> SUFFICES ASSUME Window(s), NEW r \in 0 .. PageRows - 1, NEW c \in Columns
               PROVE  m[<<r, c>>] = m[<<Backup(Home(s) + r), c>>]
    BY <1>5 DEF Window, IsState
  <2>1. b.mem[<<r, c>>] = b.mem[<<Backup(Home(s) + r), c>>]
    BY <1>0, <1>1 DEF Window, IsState
  <2>2. /\ Home(s) + r \in 0 .. BackupRows - 1
        /\ Home(s) + r = s.globRow <=> r = s.dispRow
    BY <1>0, Sizes
  <2> QED
    BY <1>3, <2>1, <2>2
<1>8. Ahead(s) => \A row \in s.globRow .. BackupRows - 1, c \in Columns :
                    row > s.globRow \/ c >= s.column + 1 => m[<<Backup(row), c>>] = Blank
  <2> SUFFICES ASSUME Ahead(s), NEW row \in s.globRow .. BackupRows - 1, NEW c \in Columns,
                      row > s.globRow \/ c >= s.column + 1
               PROVE  m[<<Backup(row), c>>] = Blank
    OBVIOUS
  <2>1. /\ row \in 0 .. BackupRows - 1
        /\ ~(row = s.globRow /\ c = s.column)
        /\ row > s.globRow \/ c >= s.column
    BY <1>0, Sizes DEF Columns
  <2>2. m[<<Backup(row), c>>] = s.mem[<<Backup(row), c>>]
    BY <1>1, <1>3, <2>1 DEF SameBackup
  <2> QED
    BY <2>1, <2>2 DEF Ahead
<1>8a. Rewritten(w, s, s.globRow, s.column, ch)
  BY <1>1, <1>3, <1>5 DEF Rewritten, SameBackup, IsState
<1>9. CASE i = Cols
  <2>1. v = ScrollLineDown(w)
    BY <1>5, <1>9 DEF IsState
  <2>2. Ahead(s) => Below(w)
    <3> SUFFICES ASSUME Ahead(s), NEW row \in s.globRow + 1 .. BackupRows - 1, NEW c \in Columns
                 PROVE  m[<<Backup(row), c>>] = Blank
      BY <1>5 DEF Below, IsState
    <3>1. row \in s.globRow .. BackupRows - 1 /\ row > s.globRow
      BY <1>0, Sizes
    <3> QED
      BY <1>8, <3>1
  <2>3. /\ Shown(v) /\ v.column = 0
        /\ s.globRow # BackupRows - 1 =>
             v.globRow = s.globRow + 1 /\ SameBackup(v.mem, w.mem)
        /\ s.globRow # BackupRows - 1 /\ Window(s) /\ Ahead(s) => Window(v) /\ Ahead(v)
    BY <1>5, <1>6, <1>7, <2>1, <2>2, ScrollLineDownIs DEF IsState
  <2>4. s.column = Cols - 1
    BY <1>0, <1>4, <1>9, Sizes DEF Columns
  <2> HIDE DEF v
  <2> DEFINE u == UpdateCursor(v)
  <2>5. /\ Shown(u) /\ (Window(v) => Window(u)) /\ (Ahead(v) => Ahead(u))
        /\ u.column = v.column /\ u.globRow = v.globRow /\ u.mem = v.mem
    BY <2>3, UpdateCursorIs DEF Shown, Counters
  <2> HIDE DEF u
  <2>6. SameBackup(v.mem, w.mem) => Rewritten(u, s, s.globRow, s.column, ch)
    BY <1>8a, <2>5 DEF Rewritten, SameBackup
  <2> QED
    BY <1>2, <2>3, <2>4, <2>5, <2>6 DEF u
<1>10. CASE i # Cols
  <2>1. v = w
    BY <1>5, <1>10 DEF IsState
  <2>2. w.column \in Columns
    BY <1>0, <1>4, <1>5, <1>10, Sizes DEF Columns, IsState
  <2>3. Ahead(s) => Ahead(w)
    BY <1>4, <1>5, <1>8 DEF Ahead, IsState
  <2> DEFINE u == UpdateCursor(w)
  <2>4. /\ Shown(u) /\ (Window(w) => Window(u)) /\ (Ahead(w) => Ahead(u))
        /\ u.column = w.column /\ u.globRow = w.globRow /\ u.mem = w.mem
    <3>1. /\ w \in Loose /\ w.globRow \in 0 .. BackupRows - 1
          /\ w.dispRow = (IF w.globRow < PageRows THEN w.globRow ELSE PageRows - 1)
          /\ w.lineShow = Home(w)
      BY <1>6 DEF Midway
    <3> QED
      BY <2>2, <3>1, UpdateCursorIs
  <2> HIDE DEF v, u
  <2>5. u.globRow = s.globRow /\ u.column = s.column + 1 /\ s.column # Cols - 1
    BY <1>0, <1>4, <1>5, <1>10, <2>4, Sizes DEF IsState, Columns
  <2>6. Rewritten(u, s, s.globRow, s.column, ch)
    BY <1>8a, <2>4 DEF Rewritten
  <2> QED
    BY <1>2, <1>7, <2>1, <2>3, <2>4, <2>5, <2>6 DEF u
<1> QED
  BY <1>9, <1>10

(* One row back, after the cell in front of the cursor has been deleted. *)
LEMMA ScrollLineUpIs ==
  ASSUME NEW s, Midway(s), s.globRow > 0
  PROVE  LET u == ScrollLineUp(s)
         IN  /\ u \in Loose
             /\ u.column = Cols - 1
             /\ u.globRow = s.globRow - 1
             /\ u.dispRow = (IF u.globRow < PageRows THEN u.globRow ELSE PageRows - 1)
             /\ u.lineShow = Home(u)
             /\ Window(s) => Window(u)
             /\ SameBackup(u.mem, s.mem)
<1> DEFINE line == s.globRow - PageRows
           m == CopyRows(s.mem, 0, Backup(line), PageRows)
           l == s.lineShow - 1
           d == s.dispRow - 1
           up == IF s.dispRow = PageRows - 1 /\ s.globRow >= PageRows
                 THEN [s EXCEPT !.mem = m, !.lineShow = l]
                 ELSE [s EXCEPT !.dispRow = d]
           i == Cols - 1
           g == up.globRow - 1
           u == ScrollLineUp(s)
<1>1. u = [up EXCEPT !.column = i, !.globRow = g]
  BY DEF ScrollLineUp
<1>2. /\ s \in Loose /\ s.mem \in Memory
      /\ s.globRow \in 0 .. BackupRows - 1
      /\ s.dispRow = (IF s.globRow < PageRows THEN s.globRow ELSE PageRows - 1)
      /\ s.lineShow = (IF s.globRow - (PageRows - 1) < 0 THEN 0 ELSE s.globRow - (PageRows - 1))
  BY DEF Midway, Home, Loose
<1>3. l \in Int /\ d \in Int /\ i \in Int
  BY <1>2, Sizes
<1>4. CASE s.globRow >= PageRows
  <2>1. s.dispRow = PageRows - 1 /\ l = line /\ line >= 0
        /\ line \in 1 - PageRows .. BackupRows - PageRows
    BY <1>2, <1>4, Sizes
  <2>2. /\ m \in Memory /\ SameBackup(m, s.mem)
        /\ \A r \in 0 .. PageRows - 1, c \in Columns :
             m[<<r, c>>] = m[<<Backup(l + r), c>>]
    <3> HIDE DEF line, l
    <3> QED
      BY <1>2, <2>1, CopyPageIs
  <2>3. up = [s EXCEPT !.mem = m, !.lineShow = l]
    BY <1>4, <2>1
  <2>4. g \in Int /\ g = s.globRow - 1
        /\ IsState(up, s.column, s.dispRow, s.globRow, l, s.cursor, m)
    <3> HIDE DEF m, l, up
    <3>1. IsState(up, s.column, s.dispRow, s.globRow, l, s.cursor, m)
      BY <1>2, <1>3, <2>2, <2>3, PutPage
    <3> QED
      BY <1>2, <3>1, Sizes DEF IsState
  <2> HIDE DEF m, l, d, up, i, g, u, line
  <2>5. IsState(u, i, s.dispRow, g, l, s.cursor, m)
    <3>1. up \in Loose
      BY <2>4 DEF IsState
    <3>2. IsState(u, i, up.dispRow, g, up.lineShow, up.cursor, up.mem)
      BY <1>1, <1>3, <2>4, <3>1, PutPlace
    <3> QED
      BY <2>4, <3>2 DEF IsState
  <2>6. u.lineShow = Home(u) /\ u.globRow = s.globRow - 1
    BY <1>2, <1>4, <2>1, <2>4, <2>5, Sizes DEF Home, IsState, line
  <2>7. u.dispRow = (IF u.globRow < PageRows THEN u.globRow ELSE PageRows - 1)
    BY <1>2, <1>4, <2>1, <2>5, <2>6, Sizes DEF IsState
  <2>8. Window(u) /\ SameBackup(u.mem, s.mem)
    BY <2>2, <2>5 DEF Window, IsState
  <2> QED
    BY <2>5, <2>6, <2>7, <2>8 DEF IsState, i, u
<1>5. CASE s.globRow < PageRows
  <2>1. up = [s EXCEPT !.dispRow = d]
    BY <1>2, <1>5, Sizes
  <2>2. g \in Int /\ g = s.globRow - 1
        /\ IsState(up, s.column, d, s.globRow, s.lineShow, s.cursor, s.mem)
    <3> HIDE DEF d, up
    <3>1. IsState(up, s.column, d, s.globRow, s.lineShow, s.cursor, s.mem)
      BY <1>2, <1>3, <2>1, PutRow
    <3> QED
      BY <1>2, <3>1, Sizes DEF IsState
  <2>3. d = s.globRow - 1 /\ s.lineShow = 0
    BY <1>2, <1>5, Sizes
  <2> HIDE DEF m, l, d, up, i, g, u, line
  <2>4. IsState(u, i, d, g, s.lineShow, s.cursor, s.mem)
    <3>1. up \in Loose
      BY <2>2 DEF IsState
    <3>2. IsState(u, i, up.dispRow, g, up.lineShow, up.cursor, up.mem)
      BY <1>1, <1>3, <2>2, <3>1, PutPlace
    <3> QED
      BY <2>2, <3>2 DEF IsState
  <2>5. u.lineShow = Home(u) /\ u.globRow = s.globRow - 1
    BY <1>2, <1>5, <2>2, <2>3, <2>4, Sizes DEF Home, IsState
  <2>6. u.dispRow = (IF u.globRow < PageRows THEN u.globRow ELSE PageRows - 1)
    BY <1>2, <1>5, <2>3, <2>4, <2>5, Sizes DEF IsState
  <2>7. (Window(s) => Window(u)) /\ SameBackup(u.mem, s.mem)
    BY <2>4 DEF Window, IsState, SameBackup
  <2> QED
    BY <2>4, <2>5, <2>6, <2>7 DEF IsState, i, u
<1> QED
  BY <1>2, <1>4, <1>5, Sizes

LEMMA DelCharIs ==
  ASSUME NEW s, Counters(s)
  PROVE  LET d == DelChar(s)
             col == ColumnBefore(s.column)
             rg == RowBefore(s.globRow, s.column)
         IN  /\ Shown(d)
             /\ s.globRow = 0 /\ s.column = 0 =>
                  d.globRow = 0 /\ d.column = 0 /\ SameBackup(d.mem, s.mem)
             /\ ~(s.globRow = 0 /\ s.column = 0) =>
                  /\ rg \in 0 .. BackupRows - 1 /\ col \in Columns
                  /\ d.globRow = rg /\ d.column = col
                  /\ Rewritten(d, s, rg, col, Blank)
             /\ Window(s) /\ Ahead(s) => Window(d) /\ Ahead(d)
<1> DEFINE b == ScrollPageBack(s)
           col == ColumnBefore(s.column)
           rd == RowBefore(s.dispRow, s.column)
           rg == RowBefore(s.globRow, s.column)
           m == SetCell(SetCell(b.mem, rd, col, Blank), Backup(rg), col, Blank)
           i == b.column - 1
           w == [b EXCEPT !.mem = m, !.column = i]
           v == IF w.column < 0 THEN ScrollLineUp(w) ELSE w
<1>0. /\ s \in Loose /\ s.column \in Columns
      /\ s.globRow = Home(s) + s.dispRow
      /\ Home(s) \in 0 .. BackupRows - PageRows /\ Home(s) >= 0
      /\ s.dispRow \in 0 .. PageRows - 1 /\ s.globRow \in 0 .. BackupRows - 1
  BY HomeInside, Sizes DEF Counters
<1>1. /\ IsState(b, s.column, s.dispRow, s.globRow, Home(s), s.cursor, b.mem)
      /\ Home(b) = Home(s)
      /\ Midway(b)
      /\ Window(s) => Window(b)
      /\ SameBackup(b.mem, s.mem)
  BY ScrollPageBackIs
<1>2. DelChar(s) = IF rd < 0 THEN b ELSE UpdateCursor(v)
  BY DEF DelChar
<1> HIDE DEF b
<1>2a. rd < 0 <=> s.globRow = 0 /\ s.column = 0
  BY <1>0, Sizes DEF RowBefore, Counters, Columns
<1>3. CASE rd < 0
  <2>1. Shown(b)
    <3>1. b.lineShow \in 1 - PageRows .. BackupRows - PageRows /\ b.lineShow = Home(b)
      BY <1>0, <1>1, Sizes DEF IsState
    <3>2. b.column # 0 => b.cursor = <<b.dispRow, b.column>>
      BY <1>1 DEF Counters, IsState
    <3> QED
      BY <1>0, <1>1, <3>1, <3>2 DEF Shown, Counters, Midway, IsState
  <2>2. Ahead(s) => Ahead(b)
    <3> SUFFICES ASSUME Ahead(s), NEW row \in s.globRow .. BackupRows - 1, NEW c \in Columns,
                        row > s.globRow \/ c >= s.column
                 PROVE  b.mem[<<Backup(row), c>>] = Blank
      BY <1>1 DEF Ahead, IsState
    <3>1. row \in 0 .. BackupRows - 1
      BY <1>0, Sizes
    <3> QED
      BY <1>1, <3>1 DEF Ahead, SameBackup
  <2>3. b.globRow = 0 /\ b.column = 0 /\ SameBackup(b.mem, s.mem)
    BY <1>1, <1>3, <1>2a DEF IsState
  <2>4. DelChar(s) = b /\ s.globRow = 0 /\ s.column = 0
    BY <1>2, <1>3, <1>2a
  <2> QED
    BY <1>1, <2>1, <2>2, <2>3, <2>4
<1>4. CASE ~(rd < 0)
  <2>1. /\ col \in Columns /\ rd \in 0 .. PageRows - 1
        /\ rg \in 0 .. BackupRows - 1 /\ rg = Home(s) + rd
        /\ rg = (IF s.column = 0 THEN s.globRow - 1 ELSE s.globRow)
        /\ col = (IF s.column = 0 THEN Cols - 1 ELSE s.column - 1)
    <3>1. col \in Columns /\ col = (IF s.column = 0 THEN Cols - 1 ELSE s.column - 1)
      BY <1>0, Sizes DEF ColumnBefore, Columns
    <3>2. /\ rd = (IF s.column = 0 THEN s.dispRow - 1 ELSE s.dispRow)
          /\ rg = (IF s.column = 0 THEN s.globRow - 1 ELSE s.globRow)
      BY DEF RowBefore
    <3> HIDE DEF rd, rg, col
    <3> QED
      BY <1>0, <1>4, <3>1, <3>2, Sizes
  <2> HIDE DEF rd, rg, col
  <2>2. /\ m \in Memory
        /\ \A r \in 0 .. PageRows - 1, c \in Columns :
             m[<<r, c>>] = IF r = rd /\ c = col THEN Blank ELSE b.mem[<<r, c>>]
        /\ \A r \in 0 .. BackupRows - 1, c \in Columns :
             m[<<Backup(r), c>>] =
               IF r = rg /\ c = col THEN Blank ELSE b.mem[<<Backup(r), c>>]
    <3>1. b.mem \in Memory
      BY <1>1 DEF IsState, Loose
    <3> QED
      BY <2>1, <3>1, BlankIsCell, WriteBoth
  <2>3. i = s.column - 1 /\ i \in Int
    BY <1>0, <1>1, Sizes DEF IsState, Columns
  <2> HIDE DEF m, i
  <2>4. IsState(w, i, s.dispRow, s.globRow, Home(s), s.cursor, m)
    <3>1. IsState(w, i, b.dispRow, b.globRow, b.lineShow, b.cursor, m)
      BY <1>1, <2>2, <2>3, PutText DEF IsState
    <3> HIDE DEF w
    <3> QED
      BY <1>1, <3>1 DEF IsState
  <2> HIDE DEF w
  <2>5. Home(w) = Home(s) /\ Midway(w)
    BY <1>1, <2>4 DEF Home, IsState, Midway
  <2>6. Window(s) => Window(w)
    <3> SUFFICES ASSUME Window(s), NEW r \in 0 .. PageRows - 1, NEW c \in Columns
                 PROVE  m[<<r, c>>] = m[<<Backup(Home(s) + r), c>>]
      BY <2>4 DEF Window, IsState
    <3>1. b.mem[<<r, c>>] = b.mem[<<Backup(Home(s) + r), c>>]
      BY <1>0, <1>1 DEF Window, IsState
    <3>2. /\ Home(s) + r \in 0 .. BackupRows - 1
          /\ Home(s) + r = rg <=> r = rd
      BY <1>0, <2>1, Sizes
    <3> QED
      BY <2>2, <3>1, <3>2
  <2>7. Ahead(s) => \A row \in rg .. BackupRows - 1, c \in Columns :
                      row > rg \/ c >= col => m[<<Backup(row), c>>] = Blank
    <3> SUFFICES ASSUME Ahead(s), NEW row \in rg .. BackupRows - 1, NEW c \in Columns,
                        row > rg \/ c >= col
                 PROVE  m[<<Backup(row), c>>] = Blank
      OBVIOUS
    <3>1. row \in 0 .. BackupRows - 1
      BY <2>1, Sizes
    <3>2. CASE row = rg /\ c = col
      BY <2>2, <3>1, <3>2
    <3>3. CASE ~(row = rg /\ c = col)
      <4>1. row \in s.globRow .. BackupRows - 1 /\ (row > s.globRow \/ c >= s.column)
        BY <1>0, <2>1, <3>3, Sizes DEF Columns
      <4>2. m[<<Backup(row), c>>] = s.mem[<<Backup(row), c>>]
        BY <1>1, <2>2, <3>1, <3>3 DEF SameBackup
      <4> QED
        BY <4>1, <4>2 DEF Ahead
    <3> QED
      BY <3>2, <3>3
  <2>7a. Rewritten(w, s, rg, col, Blank) /\ ~(s.globRow = 0 /\ s.column = 0)
    BY <1>1, <1>4, <1>2a, <2>2, <2>4 DEF Rewritten, SameBackup, IsState
  <2>8. CASE s.column = 0
    <3>1. v = ScrollLineUp(w) /\ s.globRow > 0 /\ rg = s.globRow - 1 /\ col = Cols - 1
      BY <1>0, <2>1, <2>3, <2>4, <2>8, Sizes DEF IsState
    <3>2. /\ v \in Loose /\ v.column = col /\ v.globRow = rg
          /\ v.dispRow = (IF v.globRow < PageRows THEN v.globRow ELSE PageRows - 1)
          /\ v.lineShow = Home(v)
          /\ Window(w) => Window(v)
          /\ SameBackup(v.mem, m)
      BY <2>4, <2>5, <3>1, ScrollLineUpIs DEF IsState
    <3> HIDE DEF v
    <3>3. Ahead(s) => Ahead(v)
      <4> SUFFICES ASSUME Ahead(s), NEW row \in rg .. BackupRows - 1, NEW c \in Columns,
                          row > rg \/ c >= col
                   PROVE  v.mem[<<Backup(row), c>>] = Blank
        BY <3>2 DEF Ahead
      <4>1. row \in 0 .. BackupRows - 1
        BY <2>1, Sizes
      <4> QED
        BY <2>7, <3>2, <4>1 DEF SameBackup
    <3> DEFINE u == UpdateCursor(v)
    <3>4. /\ Shown(u) /\ (Window(v) => Window(u)) /\ (Ahead(v) => Ahead(u))
          /\ u.column = v.column /\ u.globRow = v.globRow /\ u.mem = v.mem
      BY <2>1, <3>2, UpdateCursorIs
    <3> HIDE DEF u
    <3>5. u.globRow = rg /\ u.column = col /\ Rewritten(u, s, rg, col, Blank)
      BY <2>4, <2>7a, <3>2, <3>4 DEF Rewritten, SameBackup, IsState
    <3>6. DelChar(s) = u
      BY <1>2, <1>4 DEF u
    <3> QED
      BY <2>1, <2>6, <2>7a, <3>2, <3>3, <3>4, <3>5, <3>6 DEF rg, col
  <2>9. CASE s.column # 0
    <3>1. v = w /\ i \in Columns /\ rg = s.globRow /\ col = i
      BY <1>0, <2>1, <2>3, <2>4, <2>9, Sizes DEF IsState, Columns
    <3>2. Ahead(s) => Ahead(w)
      BY <2>4, <2>7, <3>1 DEF Ahead, IsState
    <3>3. /\ w \in Loose /\ w.globRow \in 0 .. BackupRows - 1 /\ w.column \in Columns
          /\ w.dispRow = (IF w.globRow < PageRows THEN w.globRow ELSE PageRows - 1)
          /\ w.lineShow = Home(w)
      BY <2>4, <2>5, <3>1 DEF Midway, IsState
    <3> DEFINE u == UpdateCursor(w)
    <3>4. /\ Shown(u) /\ (Window(w) => Window(u)) /\ (Ahead(w) => Ahead(u))
          /\ u.column = w.column /\ u.globRow = w.globRow /\ u.mem = w.mem
      BY <3>3, UpdateCursorIs
    <3>6. DelChar(s) = u
      BY <1>2, <1>4, <3>1
    <3> HIDE DEF v, u
    <3>5. u.globRow = rg /\ u.column = col /\ Rewritten(u, s, rg, col, Blank)
      BY <2>4, <2>7a, <3>1, <3>4 DEF Rewritten, IsState
    <3> QED
      BY <2>1, <2>6, <2>7a, <3>1, <3>2, <3>4, <3>5, <3>6 DEF rg, col
  <2> QED
    BY <2>8, <2>9
<1> QED
  BY <1>3, <1>4

LEMMA ClearScreenIs ==
  /\ Shown(ClearScreen) /\ ClearScreen.column = 0 /\ ClearScreen.globRow = 0
  /\ Window(ClearScreen) /\ Ahead(ClearScreen)
<1> DEFINE m == [cell \in Rows \X Columns |-> Blank]
           c == [column |-> 0, dispRow |-> 0, globRow |-> 0, lineShow |-> 0,
                 cursor |-> <<0, 0>>, mem |-> m]
<1>1. m \in Memory
  BY BlankIsCell DEF Memory
<1>2. ASSUME NEW r \in Rows, NEW k \in Columns
      PROVE  m[<<r, k>>] = Blank
  OBVIOUS
<1>3. ClearScreen = UpdateCursor(c)
  BY DEF ClearScreen
<1> HIDE DEF m
<1>4. /\ c \in Loose
      /\ c.column = 0 /\ c.dispRow = 0 /\ c.globRow = 0 /\ c.lineShow = 0 /\ c.mem = m
  BY <1>1 DEF Loose
<1> HIDE DEF c
<1>5. 0 \in Columns /\ 0 \in 0 .. BackupRows - 1 /\ 0 < PageRows
  BY Sizes DEF Columns
<1>6. Home(c) = 0
  BY <1>4, Sizes DEF Home
<1>7. Window(c)
  <2> SUFFICES ASSUME NEW r \in 0 .. PageRows - 1, NEW k \in Columns
               PROVE  m[<<r, k>>] = m[<<Backup(0 + r), k>>]
    BY <1>4 DEF Window
  <2>1. r \in Rows /\ Backup(0 + r) \in Rows
    BY Sizes DEF Rows, Backup
  <2> QED
    BY <1>2, <2>1
<1>8. Ahead(c)
  <2> SUFFICES ASSUME NEW row \in 0 .. BackupRows - 1, NEW k \in Columns
               PROVE  m[<<Backup(row), k>>] = Blank
    BY <1>4 DEF Ahead
  <2>1. Backup(row) \in Rows
    BY Sizes DEF Rows, Backup
  <2> QED
    BY <1>2, <2>1
<1> QED
  BY <1>3, <1>4, <1>5, <1>6, <1>7, <1>8, UpdateCursorIs

LEMMA PagingIs ==
  ASSUME NEW s, Counters(s), NEW line \in 1 - PageRows .. BackupRows - PageRows
  PROVE  LET t == ShowLine(s, line)
         IN  /\ Counters(t)
             /\ t.column = s.column /\ t.globRow = s.globRow /\ t.lineShow = line
             /\ SameBackup(t.mem, s.mem)
             /\ Window(t)
             /\ Ahead(s) => Ahead(t)
<1> DEFINE t == ShowLine(s, line)
<1>1. /\ IsState(t, s.column, s.dispRow, s.globRow, line, s.cursor, t.mem)
      /\ Window(t)
      /\ SameBackup(t.mem, s.mem)
  BY ShowLineIs DEF Counters
<1> HIDE DEF t
<1>2. Counters(t)
  BY <1>1 DEF Counters, IsState
<1>3. Ahead(s) => Ahead(t)
  <2> SUFFICES ASSUME Ahead(s), NEW row \in s.globRow .. BackupRows - 1, NEW c \in Columns,
                      row > s.globRow \/ c >= s.column
               PROVE  t.mem[<<Backup(row), c>>] = Blank
    BY <1>1 DEF Ahead, IsState
  <2>1. row \in 0 .. BackupRows - 1
    BY Sizes DEF Counters
  <2> QED
    BY <1>1, <2>1 DEF Ahead, SameBackup
<1> QED
  BY <1>1, <1>2, <1>3 DEF IsState, t

-----------------------------------------------------------------------------
(* The driver as the terminal of Terminal: the text and the display page   *)
(* of a state. A cell of the history has its place in the text.            *)
TextOf(s) ==
  [i \in 1 .. s.globRow * Cols + s.column |->
     s.mem[<<Backup((i - 1) \div Cols), (i - 1) % Cols>>]]

DisplayOf(s) == [r \in 0 .. PageRows - 1 |-> [c \in Columns |-> s.mem[<<r, c>>]]]

Place(row, c) == row * Cols + c

LEMMA PlaceIsNat ==
  ASSUME NEW row \in Nat, NEW c \in Columns
  PROVE  Place(row, c) \in Nat
BY Sizes DEF Place, Columns

LEMMA EveryPlace ==
  ASSUME NEW n \in Nat
  PROVE  \E row \in Nat, c \in Columns : n = Place(row, c) /\ row = n \div Cols /\ c = n % Cols
<1>1. PICK row \in Int : row = n \div Cols
  BY Sizes
<1>2. PICK c \in Int : c = n % Cols
  BY Sizes
<1>3. n = row * Cols + c
  BY <1>1, <1>2, Sizes
<1>4. c \in Columns
  BY <1>2, Sizes DEF Columns
<1>5. row \in Nat
  BY <1>1, Sizes
<1> QED
  BY <1>1, <1>2, <1>3, <1>4, <1>5 DEF Place

(* The places of a row come before those of the rows behind it. *)
LEMMA RowAfterRow ==
  ASSUME NEW row \in Nat, NEW c \in Columns, NEW g \in Nat, NEW k \in Columns, row < g
  PROVE  Place(row, c) < Place(g, k)
<1>1. PICK d \in Nat : g = row + 1 + d
  BY Sizes
<1>2. g * Cols = row * Cols + Cols + d * Cols /\ d * Cols \in Nat /\ row * Cols \in Nat
  BY <1>1, Sizes
<1>3. PICK a \in Nat, b \in Nat : a = row * Cols /\ b = d * Cols
  BY <1>2
<1> QED
  BY <1>2, <1>3, Sizes DEF Place, Columns

LEMMA PlaceOrder ==
  ASSUME NEW row \in Nat, NEW c \in Columns, NEW g \in Nat, NEW k \in Columns
  PROVE  Place(row, c) < Place(g, k) <=> row < g \/ (row = g /\ c < k)
<1>1. Place(row, c) \in Nat /\ Place(g, k) \in Nat
  BY PlaceIsNat
<1>2. row < g => Place(row, c) < Place(g, k)
  BY RowAfterRow
<1>3. g < row => Place(g, k) < Place(row, c)
  BY RowAfterRow
<1>4. row = g => (Place(row, c) < Place(g, k) <=> c < k)
  <2>1. PICK a \in Nat : a = g * Cols
    BY Sizes
  <2> QED
    BY <2>1 DEF Place, Columns
<1> QED
  BY <1>1, <1>2, <1>3, <1>4

LEMMA PlaceIs ==
  ASSUME NEW row \in Nat, NEW c \in Columns
  PROVE  Place(row, c) \div Cols = row /\ Place(row, c) % Cols = c
<1>1. PICK n \in Nat : n = Place(row, c)
  BY PlaceIsNat
<1>2. PICK g \in Nat, k \in Columns : n = Place(g, k) /\ g = n \div Cols /\ k = n % Cols
  BY EveryPlace
<1>3. ~(Place(row, c) < Place(g, k)) /\ ~(Place(g, k) < Place(row, c))
  BY <1>1, <1>2
<1>4. g = row /\ k = c
  BY <1>3, PlaceOrder DEF Columns
<1> QED
  BY <1>1, <1>2, <1>4

(* The place behind a place. *)
LEMMA NextPlace ==
  ASSUME NEW row \in Nat, NEW c \in Columns, NEW g \in Nat, NEW k \in Columns,
         g = (IF c = Cols - 1 THEN row + 1 ELSE row),
         k = (IF c = Cols - 1 THEN 0 ELSE c + 1)
  PROVE  Place(g, k) = Place(row, c) + 1
<1>1. PICK a \in Nat : a = row * Cols
  BY Sizes
<1>2. (row + 1) * Cols = row * Cols + Cols
  BY Sizes
<1> QED
  BY <1>1, <1>2, Sizes DEF Place, Columns

LEMMA TextFacts ==
  ASSUME NEW s, Counters(s)
  PROVE  /\ TextOf(s) \in Seq(Cells)
         /\ Place(s.globRow, s.column) \in Nat
         /\ Len(TextOf(s)) = Place(s.globRow, s.column)
         /\ \A row \in Nat, c \in Columns :
              Place(row, c) < Place(s.globRow, s.column) =>
                TextOf(s)[Place(row, c) + 1] = s.mem[<<Backup(row), c>>]
<1>1. /\ s.globRow \in Nat /\ s.column \in Columns /\ s.mem \in Memory
      /\ s.globRow < BackupRows
  BY Sizes DEF Counters, Loose
<1>2. PICK n \in Nat : n = Place(s.globRow, s.column)
  BY <1>1, PlaceIsNat
<1> DEFINE at(i) == s.mem[<<Backup((i - 1) \div Cols), (i - 1) % Cols>>]
<1>3. TextOf(s) = [i \in 1 .. n |-> at(i)]
  BY <1>2 DEF TextOf, Place
<1>4. ASSUME NEW row \in Nat, NEW c \in Columns, Place(row, c) < n
      PROVE  /\ TextOf(s)[Place(row, c) + 1] = s.mem[<<Backup(row), c>>]
             /\ s.mem[<<Backup(row), c>>] \in Cells
  <2>1. PICK p \in Nat : p = Place(row, c)
    BY PlaceIsNat
  <2>2. p + 1 \in 1 .. n /\ (p + 1) - 1 = p
    BY <1>4, <2>1
  <2>3. p \div Cols = row /\ p % Cols = c
    BY <2>1, PlaceIs
  <2>4. at(p + 1) = s.mem[<<Backup(row), c>>]
    BY <2>2, <2>3
  <2> HIDE DEF at
  <2>5. TextOf(s)[p + 1] = s.mem[<<Backup(row), c>>]
    BY <1>3, <2>2, <2>4
  <2>6. Backup(row) \in Rows
    BY <1>1, <1>2, <1>4, PlaceOrder, Sizes DEF Rows, Backup
  <2> QED
    BY <1>1, <2>1, <2>5, <2>6 DEF Memory
<1>5. ASSUME NEW i \in 1 .. n
      PROVE  TextOf(s)[i] \in Cells
  <2>1. PICK p \in Nat : i = p + 1 /\ p < n
    BY <1>5
  <2>2. PICK row \in Nat, c \in Columns : p = Place(row, c)
    BY EveryPlace
  <2> QED
    BY <1>4, <2>1, <2>2
<1> HIDE DEF at
<1>6. TextOf(s) \in [1 .. n -> Cells]
  BY <1>3, <1>5
<1> HIDE DEF TextOf
<1>7. TextOf(s) \in Seq(Cells) /\ Len(TextOf(s)) = n
  BY <1>6
<1> QED
  BY <1>2, <1>4, <1>7

(* A text is known by its length and its cells. *)
LEMMA TextIs ==
  ASSUME NEW s, Counters(s), NEW t \in Seq(Cells),
         Len(t) = Place(s.globRow, s.column),
         \A row \in 0 .. BackupRows - 1, c \in Columns :
           Place(row, c) < Len(t) => t[Place(row, c) + 1] = s.mem[<<Backup(row), c>>]
  PROVE  TextOf(s) = t
<1>1. /\ s.globRow \in Nat /\ s.column \in Columns
      /\ s.globRow < BackupRows
  BY Sizes DEF Counters
<1>2. PICK u \in Seq(Cells) : u = TextOf(s)
  BY TextFacts
<1>3. PICK n \in Nat : n = Len(t)
  OBVIOUS
<1>4. Len(u) = n
  BY <1>2, <1>3, TextFacts
<1>5. ASSUME NEW i \in 1 .. n
      PROVE  u[i] = t[i]
  <2>1. PICK p \in Nat : i = p + 1 /\ p < n
    BY <1>5
  <2>2. PICK row \in Nat, c \in Columns : p = Place(row, c)
    BY EveryPlace
  <2>3. row \in 0 .. BackupRows - 1
    BY <1>1, <1>3, <2>1, <2>2, PlaceOrder, Sizes
  <2>4. u[i] = s.mem[<<Backup(row), c>>]
    BY <1>2, <1>3, <2>1, <2>2, TextFacts
  <2>5. t[i] = s.mem[<<Backup(row), c>>]
    BY <1>3, <2>1, <2>2, <2>3
  <2> QED
    BY <2>4, <2>5
<1>6. u = t
  BY <1>3, <1>4, <1>5
<1> QED
  BY <1>2, <1>6

(* Terminal counts the rows of the text as the driver does. *)
LEMMA HomeIs ==
  ASSUME NEW s, Counters(s)
  PROVE  Abstract!Home(TextOf(s)) = Home(s)
<1>1. s.globRow \in Nat /\ s.column \in Columns
  BY Sizes DEF Counters
<1>2. Len(TextOf(s)) \div Cols = s.globRow
  BY <1>1, TextFacts, PlaceIs
<1> QED
  BY <1>1, <1>2, Sizes DEF Abstract!Home, Abstract!Row, Home

(* The display page is the page of the text at lineShow. *)
LEMMA DisplayIs ==
  ASSUME NEW s, Counters(s), Window(s), Ahead(s), s.lineShow >= 0
  PROVE  DisplayOf(s) = Abstract!Page(TextOf(s), s.lineShow)
<1>1. /\ s.globRow \in 0 .. BackupRows - 1 /\ s.column \in Columns
      /\ s.lineShow \in 0 .. BackupRows - PageRows
      /\ s.globRow \in Nat
  BY Sizes DEF Counters
<1> DEFINE t == TextOf(s)
<1>2. /\ Len(t) = Place(s.globRow, s.column) /\ Len(t) \in Nat
      /\ \A row \in Nat, c \in Columns :
           Place(row, c) < Len(t) => t[Place(row, c) + 1] = s.mem[<<Backup(row), c>>]
  BY TextFacts
<1> HIDE DEF t
<1>3. ASSUME NEW r \in 0 .. PageRows - 1, NEW c \in Columns
      PROVE  s.mem[<<r, c>>] = Abstract!CellAt(t, (s.lineShow + r) * Cols + c + 1)
  <2>1. PICK row \in 0 .. BackupRows - 1 : row = s.lineShow + r
    BY <1>1, Sizes
  <2>2. s.mem[<<r, c>>] = s.mem[<<Backup(row), c>>]
    BY <2>1 DEF Window
  <2>3. row \in Nat
    BY Sizes
  <2>4. PICK p \in Nat : p = Place(row, c)
    BY <2>3, PlaceIsNat
  <2>5. (s.lineShow + r) * Cols + c + 1 = p + 1
    BY <2>1, <2>4 DEF Place
  <2>6. CASE p < Len(t)
    <3>1. p + 1 \in 1 .. Len(t) /\ t[p + 1] = s.mem[<<Backup(row), c>>]
      BY <1>2, <2>3, <2>4, <2>6
    <3> QED
      BY <2>2, <2>5, <3>1 DEF Abstract!CellAt
  <2>7. CASE ~(p < Len(t))
    <3>1. ~(row < s.globRow \/ (row = s.globRow /\ c < s.column))
      BY <1>1, <1>2, <2>3, <2>4, <2>7, PlaceOrder
    <3>2. row \in s.globRow .. BackupRows - 1 /\ (row > s.globRow \/ c >= s.column)
      BY <1>1, <3>1, Sizes DEF Columns
    <3>3. s.mem[<<Backup(row), c>>] = Blank
      BY <3>2 DEF Ahead
    <3>4. p + 1 \notin 1 .. Len(t)
      BY <1>2, <2>7
    <3> QED
      BY <2>2, <2>5, <3>3, <3>4 DEF Abstract!CellAt, Abstract!Blank, Blank
  <2> QED
    BY <2>6, <2>7
<1>4. Abstract!Page(t, s.lineShow) =
        [r \in 0 .. PageRows - 1 |->
           [c \in Columns |-> Abstract!CellAt(t, (s.lineShow + r) * Cols + c + 1)]]
  BY DEF Abstract!Page, Columns
<1>5. DisplayOf(s) = Abstract!Page(t, s.lineShow)
  BY <1>3, <1>4 DEF DisplayOf
<1> QED
  BY <1>5 DEF t

LEMMA DisplayIsHome ==
  ASSUME NEW s, Shown(s), Window(s), Ahead(s)
  PROVE  DisplayOf(s) = Abstract!Page(TextOf(s), Abstract!Home(TextOf(s)))
<1>1. Counters(s) /\ s.lineShow = Home(s)
  BY DEF Shown
<1>2. s.lineShow >= 0
  BY <1>1, HomeInside, Sizes DEF Counters
<1> QED
  BY <1>1, <1>2, DisplayIs, HomeIs

(* What a change of the history and of the cursor does to the text. *)
LEMMA TextKept ==
  ASSUME NEW s, Counters(s), NEW d, Counters(d),
         d.globRow = s.globRow, d.column = s.column, SameBackup(d.mem, s.mem)
  PROVE  TextOf(d) = TextOf(s)
<1>1. PICK t \in Seq(Cells) : t = TextOf(s)
  BY TextFacts
<1>2. /\ Len(t) = Place(d.globRow, d.column)
      /\ \A row \in Nat, c \in Columns :
           Place(row, c) < Len(t) => t[Place(row, c) + 1] = s.mem[<<Backup(row), c>>]
  BY <1>1, TextFacts
<1>3. \A row \in 0 .. BackupRows - 1, c \in Columns :
        Place(row, c) < Len(t) => t[Place(row, c) + 1] = d.mem[<<Backup(row), c>>]
  BY <1>2, Sizes DEF SameBackup
<1> QED
  BY <1>1, <1>2, <1>3, TextIs

LEMMA TextAppended ==
  ASSUME NEW s, Counters(s), NEW d, Counters(d), NEW ch \in Cells,
         d.globRow = (IF s.column = Cols - 1 THEN s.globRow + 1 ELSE s.globRow),
         d.column = (IF s.column = Cols - 1 THEN 0 ELSE s.column + 1),
         Rewritten(d, s, s.globRow, s.column, ch)
  PROVE  TextOf(d) = Append(TextOf(s), ch)
<1>1. /\ s.globRow \in Nat /\ s.column \in Columns
      /\ d.globRow \in Nat /\ d.column \in Columns
  BY Sizes DEF Counters
<1>2. PICK t \in Seq(Cells) : t = TextOf(s)
  BY TextFacts
<1>3. PICK n \in Nat : n = Place(s.globRow, s.column)
  BY TextFacts
<1>4. /\ Len(t) = n
      /\ \A row \in Nat, c \in Columns :
           Place(row, c) < n => t[Place(row, c) + 1] = s.mem[<<Backup(row), c>>]
  BY <1>2, <1>3, TextFacts
<1>5. PICK u \in Seq(Cells) : u = Append(t, ch)
  <2>1. Append(t, ch) \in Seq(Cells)
    OBVIOUS
  <2> QED
    BY <2>1
<1>6. /\ Len(u) = n + 1 /\ u[n + 1] = ch
      /\ \A i \in 1 .. n : u[i] = t[i]
  BY <1>4, <1>5
<1>7. Len(u) = Place(d.globRow, d.column)
  <2>1. Place(d.globRow, d.column) = Place(s.globRow, s.column) + 1
    BY ONLY <1>1, d.globRow = (IF s.column = Cols - 1 THEN s.globRow + 1 ELSE s.globRow),
            d.column = (IF s.column = Cols - 1 THEN 0 ELSE s.column + 1), NextPlace
  <2> QED
    BY <1>3, <1>6, <2>1
<1>8. ASSUME NEW row \in 0 .. BackupRows - 1, NEW c \in Columns, Place(row, c) < n + 1
      PROVE  u[Place(row, c) + 1] = d.mem[<<Backup(row), c>>]
  <2>1. PICK p \in Nat : p = Place(row, c)
    BY PlaceIsNat, Sizes
  <2>2. row \in Nat
    BY Sizes
  <2>3. CASE p = n
    <3>1. ~(Place(row, c) < Place(s.globRow, s.column))
          /\ ~(Place(s.globRow, s.column) < Place(row, c))
      BY <1>3, <2>1, <2>3
    <3>2. row = s.globRow /\ c = s.column
      BY <1>1, <2>2, <3>1, PlaceOrder DEF Columns
    <3> QED
      BY <1>6, <2>1, <2>3, <3>2 DEF Rewritten
  <2>4. CASE p # n
    <3>1. p < n
      BY <1>8, <2>1, <2>4
    <3>2. ~(row = s.globRow /\ c = s.column)
      BY <1>3, <2>1, <2>4
    <3>3. p + 1 \in 1 .. n
      BY <3>1
    <3> QED
      BY <1>4, <1>6, <2>1, <2>2, <3>1, <3>2, <3>3 DEF Rewritten
  <2> QED
    BY <2>3, <2>4
<1>9. TextOf(d) = u
  BY <1>6, <1>7, <1>8, TextIs
<1> QED
  BY <1>2, <1>5, <1>9

LEMMA TextCut ==
  ASSUME NEW s, Counters(s), NEW d, Counters(d), NEW ch,
         s.globRow = (IF d.column = Cols - 1 THEN d.globRow + 1 ELSE d.globRow),
         s.column = (IF d.column = Cols - 1 THEN 0 ELSE d.column + 1),
         Rewritten(d, s, d.globRow, d.column, ch)
  PROVE  TextOf(s) # <<>> /\ TextOf(d) = Abstract!Front(TextOf(s))
<1>1. /\ s.globRow \in Nat /\ s.column \in Columns
      /\ d.globRow \in Nat /\ d.column \in Columns
  BY Sizes DEF Counters
<1>2. PICK t \in Seq(Cells) : t = TextOf(s)
  BY TextFacts
<1>3. PICK n \in Nat : n = Place(d.globRow, d.column)
  BY TextFacts
<1>4. /\ Len(t) = n + 1
      /\ \A row \in Nat, c \in Columns :
           Place(row, c) < n + 1 => t[Place(row, c) + 1] = s.mem[<<Backup(row), c>>]
  <2>1. Place(s.globRow, s.column) = Place(d.globRow, d.column) + 1
    BY ONLY <1>1, s.globRow = (IF d.column = Cols - 1 THEN d.globRow + 1 ELSE d.globRow),
            s.column = (IF d.column = Cols - 1 THEN 0 ELSE d.column + 1), NextPlace
  <2> QED
    BY <1>2, <1>3, <2>1, TextFacts
<1>5. PICK u \in Seq(Cells) : u = SubSeq(t, 1, n)
  <2>1. SubSeq(t, 1, n) \in Seq(Cells)
    BY <1>4
  <2> QED
    BY <2>1
<1>6. Len(u) = n /\ \A i \in 1 .. n : u[i] = t[i]
  BY <1>4, <1>5
<1>7. ASSUME NEW row \in 0 .. BackupRows - 1, NEW c \in Columns, Place(row, c) < n
      PROVE  u[Place(row, c) + 1] = d.mem[<<Backup(row), c>>]
  <2>1. PICK p \in Nat : p = Place(row, c)
    BY PlaceIsNat, Sizes
  <2>2. row \in Nat /\ p < n /\ p < n + 1 /\ p + 1 \in 1 .. n
    BY <1>7, <2>1, Sizes
  <2>3. ~(row = d.globRow /\ c = d.column)
    BY <1>3, <2>1, <2>2
  <2> QED
    BY <1>4, <1>6, <2>1, <2>2, <2>3 DEF Rewritten
<1>8. TextOf(d) = u
  BY <1>3, <1>6, <1>7, TextIs
<1>9. t # <<>> /\ u = Abstract!Front(t)
  BY <1>4, <1>5 DEF Abstract!Front
<1> QED
  BY <1>2, <1>8, <1>9

(* A newline fills the row with blanks: the history was blank there. *)
LEMMA TextPadded ==
  ASSUME NEW s, Counters(s), NEW d, Counters(d), Ahead(s),
         d.globRow = s.globRow + 1, d.column = 0, SameBackup(d.mem, s.mem)
  PROVE  TextOf(d) =
           TextOf(s) \o [i \in 1 .. Cols - (Len(TextOf(s)) % Cols) |-> Abstract!Blank]
<1>1. /\ s.globRow \in Nat /\ s.column \in Columns
      /\ d.globRow \in Nat /\ d.column \in Columns
  BY Sizes DEF Counters
<1>2. PICK t \in Seq(Cells) : t = TextOf(s)
  BY TextFacts
<1>3. PICK n \in Nat : n = Place(s.globRow, s.column)
  BY TextFacts
<1>4. /\ Len(t) = n
      /\ \A row \in Nat, c \in Columns :
           Place(row, c) < n => t[Place(row, c) + 1] = s.mem[<<Backup(row), c>>]
  BY <1>2, <1>3, TextFacts
<1>5. PICK k \in Nat : k = Cols - s.column
  BY <1>1, Sizes DEF Columns
<1>6. Cols - (Len(t) % Cols) = k
  BY <1>1, <1>3, <1>4, <1>5, PlaceIs
<1>7. PICK b \in Seq(Cells) : b = [i \in 1 .. k |-> Blank]
  <2>1. [i \in 1 .. k |-> Blank] \in Seq(Cells)
    BY BlankIsCell
  <2> QED
    BY <2>1
<1>8. Len(b) = k /\ \A i \in 1 .. k : b[i] = Blank
  BY <1>7
<1>9. PICK u \in Seq(Cells) : u = t \o b /\ Len(u) = Len(t) + Len(b)
  <2>1. t \o b \in Seq(Cells) /\ Len(t \o b) = Len(t) + Len(b)
    OBVIOUS
  <2> QED
    BY <2>1
<1>10. /\ Len(u) = n + k
       /\ \A i \in 1 .. n : u[i] = t[i]
       /\ \A i \in n + 1 .. n + k : u[i] = Blank
  <2>1. Len(u) = n + k
    BY <1>4, <1>8, <1>9
  <2>3. \A i \in 1 .. n : u[i] = t[i]
    BY <1>4, <1>8, <1>9
  <2>2. ASSUME NEW i \in n + 1 .. n + k
        PROVE  u[i] = Blank
    <3>1. i - n \in 1 .. k
      OBVIOUS
    <3>2. u[i] = b[i - n]
      <4>1. i \in 1 .. Len(t) + Len(b) /\ ~(i <= Len(t))
        BY <1>4, <1>8
      <4> QED
        BY <1>4, <1>9, <4>1, ConcatProperties
    <3> QED
      BY <1>8, <3>1, <3>2
  <2> QED
    BY <2>1, <2>2, <2>3
<1>11. Len(u) = Place(d.globRow, d.column)
  <2>1. PICK row \in Nat, c \in Int : row = s.globRow /\ c = s.column
    BY <1>1 DEF Columns
  <2>2. PICK a \in Int : a = row * Cols
    BY Sizes
  <2>3. (row + 1) * Cols = a + Cols
    BY <2>2, Sizes
  <2>4. Place(d.globRow, d.column) = a + Cols
    BY <2>1, <2>3, Sizes DEF Place
  <2>5. n = a + c /\ k = Cols - c
    BY <1>3, <1>5, <2>1, <2>2 DEF Place
  <2> QED
    BY <1>10, <2>4, <2>5, Sizes
<1>12. ASSUME NEW row \in 0 .. BackupRows - 1, NEW c \in Columns, Place(row, c) < Len(u)
       PROVE  u[Place(row, c) + 1] = d.mem[<<Backup(row), c>>]
  <2>1. PICK p \in Nat : p = Place(row, c)
    BY PlaceIsNat, Sizes
  <2>2. row \in Nat /\ p < n + k /\ d.mem[<<Backup(row), c>>] = s.mem[<<Backup(row), c>>]
    BY <1>10, <1>12, <2>1, Sizes DEF SameBackup
  <2>3. CASE p < n
    <3>1. p + 1 \in 1 .. n
      BY <2>3
    <3> QED
      BY <1>4, <1>10, <2>1, <2>2, <2>3, <3>1
  <2>4. CASE ~(p < n)
    <3>1. p + 1 \in n + 1 .. n + k
      BY <2>2, <2>4
    <3>2. ~(row < s.globRow \/ (row = s.globRow /\ c < s.column))
      BY <1>1, <1>3, <2>1, <2>2, <2>4, PlaceOrder
    <3>3. row \in s.globRow .. BackupRows - 1
      BY <1>1, <3>2, Sizes
    <3>4. row > s.globRow \/ c >= s.column
      BY <1>1, <3>2 DEF Columns
    <3>5. s.mem[<<Backup(row), c>>] = Blank
      BY <3>3, <3>4 DEF Ahead
    <3> QED
      BY <1>10, <2>1, <2>2, <3>1, <3>5
  <2> QED
    BY <2>3, <2>4
<1>13. TextOf(d) = u
  BY <1>11, <1>12, TextIs
<1>14. u = t \o [i \in 1 .. Cols - (Len(t) % Cols) |-> Abstract!Blank]
  BY <1>6, <1>7, <1>9 DEF Abstract!Blank, Blank
<1> QED
  BY <1>2, <1>13, <1>14

LEMMA TextEmpty ==
  ASSUME NEW s, Counters(s), s.globRow = 0, s.column = 0
  PROVE  TextOf(s) = <<>>
<1>1. PICK t \in Seq(Cells) : t = TextOf(s)
  BY TextFacts
<1>2. Len(t) = Place(s.globRow, s.column)
  BY <1>1, TextFacts
<1>3. Place(s.globRow, s.column) = 0
  BY Sizes DEF Place
<1> QED
  BY <1>1, <1>2, <1>3

-----------------------------------------------------------------------------
(* What is shown at the cursor's page is not beyond it. *)
LEMMA ShownNotBeyond ==
  ASSUME NEW s, Shown(s)
  PROVE  Counters(s) /\ s.lineShow <= Home(s)
BY HomeInside, Sizes DEF Shown, Counters

LEMMA InitIInv == Init => IInv
BY ClearScreenIs, ShownNotBeyond DEF Init, IInv

(* One step keeps the invariant, and shows the place where text changed. *)
EditShown ==
  <<scr.globRow, scr.column>>' # <<scr.globRow, scr.column>> => scr'.lineShow = Home(scr')

LEMMA NextIInv == IInv /\ [Next]_vars => IInv' /\ EditShown
<1> SUFFICES ASSUME IInv, [Next]_vars
             PROVE  IInv' /\ EditShown
  OBVIOUS
<1>0. Counters(scr) /\ scr.lineShow <= Home(scr) /\ erased \in BOOLEAN /\ (~erased => Window(scr) /\ Ahead(scr))
  BY DEF IInv
<1>1. CASE \E ch \in Chars : TypeChar(ch)
  <2>1. PICK ch \in Chars : TypeChar(ch)
    BY <1>1
  <2>2. /\ scr' = PutChar(scr, ch)
        /\ erased' = (erased \/ (Erases /\ scr.column = Cols - 1))
    BY <2>1 DEF TypeChar
  <2>3. /\ Shown(scr')
        /\ ~(scr.globRow = BackupRows - 1 /\ scr.column = Cols - 1) /\ Window(scr) /\ Ahead(scr)
             => Window(scr') /\ Ahead(scr')
    BY <1>0, <2>2, PutCharIs
  <2> QED
    BY <1>0, <2>2, <2>3, ShownNotBeyond DEF IInv, Shown, Erases, EditShown
<1>2. CASE TypeNewline
  <2>1. scr' = PutNewline(scr) /\ erased' = (erased \/ Erases)
    BY <1>2 DEF TypeNewline
  <2>2. /\ Shown(scr')
        /\ scr.globRow # BackupRows - 1 /\ Window(scr) /\ Ahead(scr)
             => Window(scr') /\ Ahead(scr')
    BY <1>0, <2>1, PutNewlineIs
  <2> QED
    BY <1>0, <2>1, <2>2, ShownNotBeyond DEF IInv, Shown, Erases, EditShown
<1>3. CASE Delete
  <2>1. scr' = DelChar(scr) /\ erased' = erased
    BY <1>3 DEF Delete
  <2>2. /\ Shown(scr')
        /\ Window(scr) /\ Ahead(scr) => Window(scr') /\ Ahead(scr')
    BY <1>0, <2>1, DelCharIs
  <2> QED
    BY <1>0, <2>1, <2>2, ShownNotBeyond DEF IInv, Shown, EditShown
<1>4. CASE PageUp
  <2> DEFINE line == IF scr.lineShow - PageRows < 0 THEN 0 ELSE scr.lineShow - PageRows
  <2>1. scr' = ShowLine(scr, line) /\ erased' = erased
    BY <1>4 DEF PageUp, ScrollPageUp
  <2>2. line \in 1 - PageRows .. BackupRows - PageRows /\ line <= Home(scr)
    BY <1>0, Sizes DEF Counters, Home
  <2> HIDE DEF line
  <2>3. /\ Counters(scr') /\ Window(scr') /\ (Ahead(scr) => Ahead(scr'))
        /\ scr'.column = scr.column /\ scr'.globRow = scr.globRow
        /\ scr'.lineShow = line
    BY <1>0, <2>1, <2>2, PagingIs
  <2>4. Home(scr') = Home(scr)
    BY <2>3 DEF Home
  <2> QED
    BY <1>0, <2>1, <2>2, <2>3, <2>4 DEF IInv, EditShown
<1>5. CASE PageDown
  <2> DEFINE line == IF scr.lineShow + PageRows > scr.globRow - (PageRows - 1)
                     THEN scr.globRow - (PageRows - 1) ELSE scr.lineShow + PageRows
  <2>1. scr' = ShowLine(scr, line) /\ erased' = erased
    BY <1>5 DEF PageDown, ScrollPageDown
  <2>2. line \in 1 - PageRows .. BackupRows - PageRows /\ line <= Home(scr)
    BY <1>0, Sizes DEF Counters, Home
  <2> HIDE DEF line
  <2>3. /\ Counters(scr') /\ Window(scr') /\ (Ahead(scr) => Ahead(scr'))
        /\ scr'.column = scr.column /\ scr'.globRow = scr.globRow
        /\ scr'.lineShow = line
    BY <1>0, <2>1, <2>2, PagingIs
  <2>4. Home(scr') = Home(scr)
    BY <2>3 DEF Home
  <2> QED
    BY <1>0, <2>1, <2>2, <2>3, <2>4 DEF IInv, EditShown
<1>6. CASE Clear
  BY <1>6, ClearScreenIs, ShownNotBeyond DEF Clear, IInv, Shown, EditShown
<1>7. CASE UNCHANGED vars
  BY <1>0, <1>7 DEF vars, IInv, EditShown
<1> QED
  BY <1>1, <1>2, <1>3, <1>4, <1>5, <1>6, <1>7 DEF Next

THEOREM Invariance == Spec => []IInv
<1>1. IInv /\ [Next]_vars => IInv'
  BY NextIInv
<1> QED
  BY <1>1, InitIInv, PTL DEF Spec

(* The counters stay in their ranges and video memory keeps its size: no   *)
(* character, no page and no shift of the backup is written outside it     *)
(* (screen.c:54-200), and the memcpy of a full backup reads inside it too. *)
THEOREM TypeCorrect == Spec => []TypeOK
<1>1. IInv => TypeOK
  <2> SUFFICES ASSUME IInv
               PROVE  TypeOK
    OBVIOUS
  <2>1. scr.dispRow \in 0 .. PageRows - 1
    BY HomeInside DEF IInv, Counters
  <2> QED
    BY <2>1 DEF IInv, Counters, Loose, Memory, TypeOK
<1> QED
  BY <1>1, Invariance, PTL

(* dispRow and globRow never drift apart, across line wraps, deletions at  *)
(* the start of a row, paging and erased pages, and behind column 0 the    *)
(* hardware cursor is where the next character goes (screen.c:54-106,      *)
(* updateCursor at screen.c:170 and 198).                                  *)
THEOREM CountersInStep == Spec => []CountersAgree
<1>1. IInv => CountersAgree
  BY DEF IInv, Counters, CountersAgree
<1> QED
  BY <1>1, Invariance, PTL

(* Until a page has been erased the display page is the window of the      *)
(* history at lineShow: shifting the display up by one row, showing the    *)
(* rows before it, and copying a whole page all come to the same           *)
(* (screen.c:71-104 against 108-141).                                      *)
THEOREM DisplayIsWindow == Spec => []WindowMatches
<1>1. IInv => WindowMatches
  <2> SUFFICES ASSUME IInv, ~erased, scr.lineShow >= 0
               PROVE  \A r \in 0 .. PageRows - 1, c \in Columns :
                        scr.mem[<<r, c>>] = scr.mem[<<Backup(scr.lineShow + r), c>>]
    BY DEF WindowMatches
  <2>1. Window(scr)
    BY DEF IInv
  <2> QED
    BY <2>1 DEF Window
<1> QED
  BY <1>1, Invariance, PTL

(* The history is blank from the cursor on. *)
BlankAhead == ~erased => Ahead(scr)

(* Until then nothing is left in the history behind the cursor, so that    *)
(* the row blanked on the display is blank in the backup too               *)
(* (screen.c:76-81, 189).                                                  *)
THEOREM NothingAhead == Spec => []BlankAhead
<1>1. IInv => BlankAhead
  BY DEF IInv, BlankAhead
<1> QED
  BY <1>1, Invariance, PTL

(* Wherever text goes or is removed, the page shows that place             *)
(* (scrollPageBack in putChar and delChar, screen.c:153, 183).             *)
THEOREM TypingIsShown == Spec => EditsAreShown
<1>1. IInv /\ [Next]_vars => EditShown
  BY NextIInv
<1> QED
  BY <1>1, Invariance, PTL DEF Spec, EditsAreShown, EditShown

(* Every step of the driver is a step of the terminal on the text and the  *)
(* display page it stands for, but for those that show no page of it.      *)
TerminalStep ==
  (~erased' /\ scr'.lineShow >= 0 => Abstract!Next) \/ UNCHANGED <<Text, Display>>

LEMMA NextTerminal == IInv /\ IInv' /\ [Next]_vars => TerminalStep
<1> SUFFICES ASSUME IInv, IInv', [Next]_vars, ~erased', scr'.lineShow >= 0
             PROVE  Abstract!Next \/ UNCHANGED <<Text, Display>>
  BY DEF TerminalStep
<1>0. /\ Counters(scr) /\ Counters(scr') /\ Window(scr') /\ Ahead(scr')
      /\ erased \in BOOLEAN /\ (~erased => Ahead(scr))
      /\ scr.lineShow <= Home(scr)
  BY DEF IInv
<1>1. /\ Text = TextOf(scr) /\ Text' = TextOf(scr')
      /\ Display = DisplayOf(scr) /\ Display' = DisplayOf(scr')
  BY DEF Text, Display, TextOf, DisplayOf
<1>2. ASSUME Shown(scr')
      PROVE  Abstract!Show(Text')
  BY <1>0, <1>1, <1>2, DisplayIsHome DEF Abstract!Show
<1>3. CASE \E ch \in Chars : TypeChar(ch)
  <2>1. PICK ch \in Chars : TypeChar(ch)
    BY <1>3
  <2>2. /\ scr' = PutChar(scr, ch) /\ ~erased
        /\ ~(scr.globRow = BackupRows - 1 /\ scr.column = Cols - 1)
    BY <1>0, <2>1 DEF TypeChar, Erases
  <2>3. ch \in Cells
    BY DEF Cells
  <2>4. Shown(scr') /\ Text' = Append(Text, ch)
    BY <1>0, <1>1, <2>2, <2>3, PutCharIs, TextAppended
  <2> QED
    BY <1>2, <2>4 DEF Abstract!Next, Abstract!Put
<1>4. CASE TypeNewline
  <2>1. scr' = PutNewline(scr) /\ ~erased /\ scr.globRow # BackupRows - 1
    BY <1>0, <1>4 DEF TypeNewline, Erases
  <2>2. Shown(scr') /\ Text' = Text \o [i \in 1 .. Cols - (Len(Text) % Cols) |-> Abstract!Blank]
    BY <1>0, <1>1, <2>1, PutNewlineIs, TextPadded
  <2> QED
    BY <1>2, <2>2 DEF Abstract!Next, Abstract!NewLine
<1>5. CASE Delete
  <2>1. scr' = DelChar(scr)
    BY <1>5 DEF Delete
  <2>2. Shown(scr')
    BY <1>0, <2>1, DelCharIs
  <2>3. CASE scr.globRow = 0 /\ scr.column = 0
    <3>1. Text' = Text
      BY <1>0, <1>1, <2>1, <2>3, DelCharIs, TextKept
    <3> QED
      BY <1>2, <2>2, <3>1 DEF Abstract!Next, Abstract!Back
  <2>4. CASE ~(scr.globRow = 0 /\ scr.column = 0)
    <3> DEFINE col == ColumnBefore(scr.column)
               rg == RowBefore(scr.globRow, scr.column)
    <3>1. /\ rg \in 0 .. BackupRows - 1 /\ col \in Columns
          /\ scr'.globRow = rg /\ scr'.column = col
          /\ Rewritten(scr', scr, rg, col, Blank)
      BY <1>0, <2>1, <2>4, DelCharIs
    <3>2. /\ scr.globRow = (IF col = Cols - 1 THEN rg + 1 ELSE rg)
          /\ scr.column = (IF col = Cols - 1 THEN 0 ELSE col + 1)
      BY <1>0, Sizes DEF ColumnBefore, RowBefore, Counters, Columns
    <3> HIDE DEF rg, col
    <3>3. Text # <<>> /\ Text' = Abstract!Front(Text)
      BY <1>0, <1>1, <3>1, <3>2, TextCut
    <3> QED
      BY <1>2, <2>2, <3>3 DEF Abstract!Next, Abstract!Delete
  <2> QED
    BY <2>3, <2>4
<1>6. ASSUME NEW line \in 1 - PageRows .. BackupRows - PageRows, scr' = ShowLine(scr, line),
             line <= Home(scr)
      PROVE  Abstract!Browse
  <2>1. /\ scr'.column = scr.column /\ scr'.globRow = scr.globRow /\ scr'.lineShow = line
        /\ SameBackup(scr'.mem, scr.mem)
    BY <1>0, <1>6, PagingIs
  <2>2. Text' = Text
    BY <1>0, <1>1, <2>1, TextKept
  <2>3. Display' = Abstract!Page(Text, line)
    BY <1>0, <1>1, <2>1, <2>2, DisplayIs
  <2>4. Home(scr) = Abstract!Home(Text)
    BY <1>0, <1>1, HomeIs
  <2>5. line \in 0 .. Home(scr)
    BY <1>0, <1>6, <2>1, HomeInside, Sizes DEF Counters
  <2> QED
    BY <2>2, <2>3, <2>4, <2>5 DEF Abstract!Browse
<1>7. CASE PageUp
  <2> DEFINE line == IF scr.lineShow - PageRows < 0 THEN 0 ELSE scr.lineShow - PageRows
  <2>1. scr' = ShowLine(scr, line)
    BY <1>7 DEF PageUp, ScrollPageUp
  <2>2. line \in 1 - PageRows .. BackupRows - PageRows /\ line <= Home(scr)
    BY <1>0, Sizes DEF Counters, Home
  <2> HIDE DEF line
  <2> QED
    BY <1>6, <2>1, <2>2 DEF Abstract!Next
<1>8. CASE PageDown
  <2> DEFINE line == IF scr.lineShow + PageRows > scr.globRow - (PageRows - 1)
                     THEN scr.globRow - (PageRows - 1) ELSE scr.lineShow + PageRows
  <2>1. scr' = ShowLine(scr, line)
    BY <1>8 DEF PageDown, ScrollPageDown
  <2>2. line \in 1 - PageRows .. BackupRows - PageRows /\ line <= Home(scr)
    BY <1>0, Sizes DEF Counters, Home
  <2> HIDE DEF line
  <2> QED
    BY <1>6, <2>1, <2>2 DEF Abstract!Next
<1>9. CASE Clear
  <2>1. scr' = ClearScreen /\ Shown(scr') /\ scr'.globRow = 0 /\ scr'.column = 0
    BY <1>9, ClearScreenIs DEF Clear
  <2>2. Text' = <<>>
    BY <1>0, <1>1, <2>1, TextEmpty
  <2> QED
    BY <1>2, <2>1, <2>2 DEF Abstract!Next, Abstract!Clear
<1>10. CASE UNCHANGED vars
  BY <1>1, <1>10 DEF vars
<1> QED
  BY <1>3, <1>4, <1>5, <1>7, <1>8, <1>9, <1>10 DEF Next

(* The driver is the terminal its callers rely on: a character is appended *)
(* to the text, a newline fills the row with blanks, backspace takes the   *)
(* last cell away, each shows the last rows of the text, and the page keys *)
(* only choose which rows are shown (screen.c:54-200). It holds as long as *)
(* no page of the backup has been erased and lineShow is not negative.     *)
THEOREM TerminalIsImplemented == Spec => ImplementsTerminal
<1>1. Init => Abstract!Init
  <2> SUFFICES ASSUME Init PROVE Abstract!Init
    OBVIOUS
  <2>1. scr = ClearScreen
    BY DEF Init
  <2>2. /\ Shown(scr) /\ Counters(scr) /\ Window(scr) /\ Ahead(scr)
        /\ scr.globRow = 0 /\ scr.column = 0
    BY <2>1, ClearScreenIs DEF Shown
  <2>3. Text = TextOf(scr) /\ Display = DisplayOf(scr)
    BY DEF Text, Display, TextOf, DisplayOf
  <2>4. Text = <<>>
    BY <2>2, <2>3, TextEmpty
  <2>5. Abstract!Home(Text) = 0
    BY <2>2, <2>3, HomeIs, Sizes DEF Home
  <2>6. Display = Abstract!Page(Text, Abstract!Home(Text))
    BY <2>2, <2>3, DisplayIsHome
  <2> QED
    BY <2>4, <2>5, <2>6 DEF Abstract!Init
<1>2. IInv /\ IInv' /\ [Next]_vars => TerminalStep
  BY NextTerminal
<1> QED
  BY <1>1, <1>2, Invariance, PTL DEF Spec, ImplementsTerminal, TerminalStep
=============================================================================
