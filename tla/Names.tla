------------------------------- MODULE Names -------------------------------
(***************************************************************************)
(* How findFile and listFiles put names together: a file's long name comes *)
(* in records of its own, the last piece first, before the record with the *)
(* short name; a name that is searched for is turned into a short name     *)
(* where it is of that form. FileSys models the scan of a directory with   *)
(* its clusters and reads, and compares names as wholes; here a directory  *)
(* is a single piece of memory, and its records are what is on the disk.   *)
(*                                                                         *)
(* A character is a string. NUL is the one that ends a string.             *)
(***************************************************************************)
EXTENDS Integers, FiniteSets, SequencesExt

CONSTANTS
  Upper,        \* the letters of short names
  Base, Ext,    \* characters of a short name, 8, and of its extension, 3
  ChunkLen,     \* characters of a long-name record, 13
  MaxChunks,    \* long-name records whose characters fit in longName, 8
  Nibble,       \* values of the low half of a record's first byte, 16
  Items,        \* what a directory may hold: see Layout
  MaxItems,     \* bound: items of a directory
  Targets       \* names that are searched for

(* "name" and "longName" are of one size, which leaves room for a short    *)
(* name; the directory itself and its parent are called "." and "..".      *)
ASSUME NamesAssumption ==
  /\ {Base, Ext, ChunkLen, MaxChunks, MaxItems} \subseteq Nat \ {0}
  /\ Nibble \in Nat /\ Nibble > MaxChunks
  /\ Base >= 2 /\ Base + Ext <= MaxChunks * ChunkLen

VARIABLES
  items,     \* the directory
  op,        \* "find" or "list"
  target,    \* findFile's filename
  at,        \* recordOffset, in records from 1
  LongFileNameIdx,
  longName,
  printed,   \* the names that listFiles has printed
  found,     \* the short name of the record that findFile returns
  outcome    \* "none" while the scan goes on

vars == <<items, op, target, at, LongFileNameIdx, longName, printed, found, outcome>>

NUL == ""
Blank == " "
Wide == "wide"   \* a character whose high byte is not zero
Dot == "."

Padded(text, n) == [i \in 1 .. n |-> IF i <= Len(text) THEN text[i] ELSE Blank]

(* A string ends before its first NUL. *)
Text(buffer) == SubSeq(buffer, 1, SelectInSeq(buffer, LAMBDA c : c = NUL) - 1)

-----------------------------------------------------------------------------
(* The records of a directory. A file has a short name in two parts, and   *)
(* perhaps a long name; an orphan is a long name whose file was deleted by *)
(* a program that does not know of long names.                             *)

Chunks(text) == (Len(text) + ChunkLen - 1) \div ChunkLen

(* The n-th piece; behind the end of the name come a NUL and then others   *)
(* that read as wide characters.                                           *)
Chunk(text, n) ==
  [i \in 1 .. ChunkLen |->
     LET k == (n - 1) * ChunkLen + i
     IN IF k <= Len(text) THEN text[k] ELSE IF k = Len(text) + 1 THEN NUL ELSE Wide]

LongRecords(text) ==
  [i \in 1 .. Chunks(text) |->
     [kind |-> "long", start |-> i = 1, n |-> Chunks(text) - i + 1,
      chars |-> Chunk(text, Chunks(text) - i + 1)]]

ShortRecord(item) ==
  [kind |-> "file", name |-> Padded(item.base, Base) \o Padded(item.ext, Ext)]

Layout(item) ==
  CASE item.kind = "file"   -> LongRecords(item.long) \o <<ShortRecord(item)>>
    [] item.kind = "orphan" -> LongRecords(item.long) \o <<[kind |-> "deleted"]>>

Records == FlattenSeq([i \in DOMAIN items |-> Layout(items[i])]) \o <<[kind |-> "end"]>>

-----------------------------------------------------------------------------
(* getShortName *)

Dots(text) == {i \in DOMAIN text : text[i] = Dot}
CaseOk(text) == \A i \in DOMAIN text \ Dots(text) : text[i] \in Upper

(* Offset of the last dot, as an index of the C string. *)
DotIdx(text) == IF Dots(text) = {} THEN 0 ELSE Max(Dots(text)) - 1

HasExtension(text) ==
  /\ CaseOk(text)
  /\ Cardinality(Dots(text)) = 1
  /\ DotIdx(text) \in 1 .. Base + 1
  /\ Len(text) - DotIdx(text) <= Ext

(* The copy of the extension goes to the start of the buffer, over the     *)
(* copy of the name, and takes the NUL behind the name along.              *)
WithExtension(text) == SubSeq(text, DotIdx(text) + 2, Len(text))

(* The directory itself, its parent, or a name without an extension. *)
IsShort(text) ==
  \/ Len(text) \in {1, 2} /\ Cardinality(Dots(text)) = Len(text)
  \/ CaseOk(text) /\ Dots(text) = {} /\ Len(text) <= Base

ShortName(text) ==
  CASE IsShort(text)      -> Padded(text, Base + Ext)
    [] HasExtension(text) -> WithExtension(text)
    [] OTHER              -> text

-----------------------------------------------------------------------------
(* What is on a disk. A short name is kept without its padding, and a file *)
(* has a long name only where the short one does not say it all.           *)

Unpadded(text) == text # <<>> => text[Len(text)] # Blank

ASSUME DirectoryAssumption ==
  /\ Blank \notin Upper
  /\ Targets \subseteq Seq(STRING)
  /\ \A item \in Items :
       /\ item.kind \in {"file", "orphan"}
       /\ item.long \in Seq(STRING) /\ Unpadded(item.long)
       /\ \A k \in DOMAIN item.long : item.long[k] # NUL
       /\ item.kind = "file" =>
            /\ item.base \in Seq(STRING) /\ Len(item.base) <= Base /\ Unpadded(item.base)
            /\ item.ext \in Seq(STRING) /\ Len(item.ext) <= Ext /\ Unpadded(item.ext)
            /\ CaseOk(item.base) /\ item.ext = <<>> => IsShort(item.base)
            /\ item.long # <<>> => ~IsShort(item.long)

-----------------------------------------------------------------------------
(* findFile and listFiles *)

Cleared == [i \in 1 .. MaxChunks * ChunkLen + 1 |-> NUL]

Init ==
  /\ items \in UNION {[1 .. n -> Items] : n \in 0 .. MaxItems}
  /\ op \in {"find", "list"}
  /\ target \in IF op = "find" THEN Targets ELSE {<<>>}
  /\ at = 1
  /\ LongFileNameIdx = 0
  /\ longName = Cleared
  /\ printed = <<>>
  /\ found = <<>>
  /\ outcome = IF Len(target) > MaxChunks * ChunkLen THEN "not found" ELSE "none"

Scanning(kind) == outcome = "none" /\ Records[at].kind = kind

EndOfDirectory ==
  /\ Scanning("end")
  /\ outcome' = IF op = "find" THEN "not found" ELSE "listed"
  /\ UNCHANGED <<items, op, target, at, LongFileNameIdx, longName, printed, found>>

Deleted ==
  /\ Scanning("deleted")
  /\ at' = at + 1
  /\ UNCHANGED <<items, op, target, LongFileNameIdx, longName, printed, found, outcome>>

(* Mutant of Piece: the index of the record is the index of its piece.     *)
PieceOne(n) == n

(* The piece that a record holds, counted from 0. *)
Piece(n) == n - 1

(* Only half a byte of a record's number is looked at: a name of Nibble    *)
(* pieces does not begin with a record that starts a name.                 *)
LongRecord ==
  /\ Scanning("long")
  /\ LET r == Records[at]
         number == r.n % Nibble
         expected == IF r.start /\ r.n < Nibble THEN number ELSE LongFileNameIdx
         piece == Piece(number)
     IN IF number # expected
        THEN /\ outcome' = "gave up"
             /\ UNCHANGED <<at, LongFileNameIdx, longName>>
        ELSE /\ LongFileNameIdx' = number - 1
             /\ at' = at + 1
             /\ IF piece \in 0 .. MaxChunks - 1
                THEN /\ longName' = [i \in DOMAIN longName |->
                           IF (i - 1) \div ChunkLen # piece THEN longName[i]
                           ELSE LET c == r.chars[((i - 1) % ChunkLen) + 1]
                                IN IF c = Wide THEN NUL ELSE c]
                     /\ UNCHANGED outcome
                ELSE /\ outcome' = "overrun"   \* other variables are written
                     /\ UNCHANGED longName
  /\ UNCHANGED <<items, op, target, printed, found>>

Matches(r) == ShortName(target) = r.name \/ (longName[1] # NUL /\ ShortName(target) = Text(longName))

(* Mutant of AfterFile: the long name is kept for the next file. *)
AfterFileKept == UNCHANGED longName

AfterFile == longName' = Cleared

FindRecord ==
  /\ Scanning("file") /\ op = "find"
  /\ IF Matches(Records[at])
     THEN /\ found' = Records[at].name
          /\ outcome' = "found"
          /\ UNCHANGED <<at, longName>>
     ELSE /\ AfterFile
          /\ at' = at + 1
          /\ UNCHANGED <<found, outcome>>
  /\ UNCHANGED <<items, op, target, LongFileNameIdx, printed>>

ListRecord ==
  /\ Scanning("file") /\ op = "list"
  /\ printed' = Append(printed, IF longName[1] = NUL THEN Records[at].name ELSE Text(longName))
  /\ AfterFile
  /\ at' = at + 1
  /\ UNCHANGED <<items, op, target, LongFileNameIdx, found, outcome>>

Next == EndOfDirectory \/ Deleted \/ LongRecord \/ FindRecord \/ ListRecord

Spec == Init /\ [][Next]_vars

-----------------------------------------------------------------------------
(* The long names of a directory can be read: none is longer than longName *)
(* and none has a character outside the code's set, nor is one without its *)
(* file.                                                                   *)
Readable ==
  \A i \in DOMAIN items :
    /\ items[i].kind = "file"
    /\ Chunks(items[i].long) <= MaxChunks
    /\ \A k \in DOMAIN items[i].long : items[i].long[k] # Wide

(* The name a user knows a file by. *)
ListedAs(item) ==
  IF item.long # <<>> THEN item.long ELSE ShortRecord(item).name

(* ls prints every file once and in order, by its long name where it has   *)
(* one: no piece of a name is lost, misplaced or left over for the next    *)
(* file, with as many pieces as longName has room for                      *)
(* (filesys.c:428-465).                                                    *)
ListsNames ==
  outcome = "listed" /\ Readable => printed = [i \in DOMAIN items |-> ListedAs(items[i])]

(* A name that getShortName treats as it should: without an extension, and *)
(* not as long as a short name with its padding.                           *)
Plain(text) == ~HasExtension(text) /\ Len(text) # Base + Ext

Named(item, text) ==
  \/ item.long = text /\ text # <<>>
  \/ item.ext = <<>> /\ item.base = text /\ CaseOk(text)

(* findFile returns the first file that has the name, as its long name or  *)
(* as a short one without extension, and nothing where there is none. It   *)
(* neither gives up nor overruns longName in a directory whose names it    *)
(* can read (filesys.c:303-371).                                           *)
FindsByName ==
  op = "find" /\ outcome # "none" /\ Readable /\ Plain(target) =>
    IF \E i \in DOMAIN items : Named(items[i], target)
    THEN /\ outcome = "found"
         /\ \E i \in DOMAIN items :
              /\ found = ShortRecord(items[i]).name
              /\ Named(items[i], target)
              /\ \A j \in 1 .. i - 1 : ~Named(items[j], target)
    ELSE outcome = "not found"
=============================================================================
