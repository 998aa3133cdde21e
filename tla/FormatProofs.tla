---------------------------- MODULE FormatProofs ----------------------------
(***************************************************************************)
(* Theorems about Format, for partitions of every size, any number of      *)
(* letters and of runs, with failures and other programs at every step.    *)
(***************************************************************************)
EXTENDS Format, FiniteSetTheorems, TLAPS

LEMMA Sizes0 ==
  /\ NumLetters \in Nat /\ NumLetters > 0
  /\ SectorsPerCluster \in Nat /\ SectorsPerCluster > 0 /\ SectorsPerCluster <= 14
  /\ EntriesPerSector \in Nat /\ EntriesPerSector > 0
  /\ Sizes \subseteq Nat
BY FormatAssumption DEF FormatAssumption

(* Division by a positive number, without \div. *)
LEMMA Quotient ==
  ASSUME NEW a \in Nat, NEW b \in Nat, b > 0
  PROVE  \E q \in Nat, r \in 0 .. b - 1 : q = a \div b /\ q * b + r = a
<1>1. PICK q \in Int : q = a \div b
  OBVIOUS
<1>2. PICK r \in Int : r = a % b
  OBVIOUS
<1>3. a = q * b + r
  BY <1>1, <1>2
<1>4. r \in 0 .. b - 1
  BY <1>2
<1>5. q \in Nat
  BY <1>1
<1> QED
  BY <1>1, <1>3, <1>4, <1>5

LEMMA TimesMonotone ==
  ASSUME NEW m \in Nat, NEW n \in Nat, NEW b \in Nat, m <= n
  PROVE  m * b \in Nat /\ n * b \in Nat /\ m * b <= n * b
<1>1. PICK d \in Nat : n = m + d
  OBVIOUS
<1>2. n * b = m * b + d * b /\ m * b \in Nat /\ d * b \in Nat
  BY <1>1
<1> QED
  BY <1>2

LEMMA QuotientMonotone ==
  ASSUME NEW a \in Nat, NEW c \in Nat, NEW b \in Nat, b > 0, c <= a
  PROVE  c \div b <= a \div b /\ c \div b \in Nat /\ a \div b \in Nat
<1>1. PICK q \in Nat, r \in 0 .. b - 1 : q = a \div b /\ q * b + r = a
  BY Quotient
<1>2. PICK p \in Nat, t \in 0 .. b - 1 : p = c \div b /\ p * b + t = c
  BY Quotient
<1>3. p <= q
  <2>1. SUFFICES ASSUME q + 1 <= p PROVE FALSE
    OBVIOUS
  <2>2. (q + 1) * b <= p * b
    BY <2>1, TimesMonotone
  <2>3. (q + 1) * b = q * b + b
    OBVIOUS
  <2>4. PICK qb \in Nat : qb = q * b
    OBVIOUS
  <2>5. PICK pb \in Nat : pb = p * b
    OBVIOUS
  <2>6. qb + b <= pb /\ qb + r = a /\ pb + t = c
    BY <1>1, <1>2, <2>2, <2>3, <2>4, <2>5
  <2> QED
    BY <2>6
<1> QED
  BY <1>1, <1>2, <1>3

-----------------------------------------------------------------------------
(* The clusters of a partition of n sectors are no more than its sectors   *)
(* make, as what lies before them takes at least a cluster.                *)
LEMMA ClustersFit ==
  ASSUME NEW n \in Nat, NEW p \in Nat, p > 0, p <= 14,
         NEW before \in Nat, before >= 15,
         NEW c \in Nat, c >= 2, before + (c - 2) * p + p - 1 <= n
  PROVE  c <= n \div p
<1>1. PICK q \in Nat, r \in 0 .. p - 1 : q = n \div p /\ q * p + r = n
  BY Quotient
<1>2. SUFFICES ASSUME q + 1 <= c PROVE FALSE
  BY <1>1
<1>3. PICK d \in Nat : c = 2 + d
  OBVIOUS
<1>4. (q + 1) * p <= c * p
  BY <1>2, TimesMonotone
<1>5. (q + 1) * p = q * p + p /\ c * p = d * p + 2 * p /\ (c - 2) * p = d * p
  BY <1>3
<1>6. PICK qp \in Nat : qp = q * p
  OBVIOUS
<1>7. PICK dp \in Nat : dp = d * p
  OBVIOUS
<1>8. qp + p <= dp + 2 * p /\ qp + r = n /\ before + dp + p - 1 <= n
  BY <1>1, <1>4, <1>5, <1>6, <1>7
<1> QED
  BY <1>8

(* The table has an entry for every cluster of the partition, for every    *)
(* size (setPartitionSize, FAT32.cpp:24-30; the kernel's reading,          *)
(* filesys.c:135-137, 162).                                                *)
THEOREM FatLargeEnough == ASSUME total \in Nat PROVE FatCoversPartition
<1> DEFINE fat == SectorsPerFat
           before == ClusterLocation
<1>1. total \div SectorsPerCluster \in Nat
  BY Sizes0, QuotientMonotone
<1>2. (total \div SectorsPerCluster) \div EntriesPerSector \in Nat
  BY <1>1, Sizes0, QuotientMonotone
<1>3. fat \in Nat /\ fat >= 1 /\ fat = (total \div SectorsPerCluster) \div EntriesPerSector + 1
  BY <1>2 DEF SectorsPerFat
<1>4. before \in Nat /\ before >= 15
  BY <1>3 DEF ClusterLocation, FatLocation, ReservedSectors
<1> HIDE DEF fat, before
<1>5. ASSUME NEW c \in 2 .. total,
             before + (c - 2) * SectorsPerCluster + SectorsPerCluster - 1 <= total
      PROVE  c \div EntriesPerSector < fat
  <2>1. c <= total \div SectorsPerCluster
    BY <1>4, <1>5, Sizes0, ClustersFit
  <2>2. /\ c \div EntriesPerSector <= (total \div SectorsPerCluster) \div EntriesPerSector
        /\ c \div EntriesPerSector \in Nat
    BY <1>1, <2>1, Sizes0, QuotientMonotone
  <2> QED
    BY <1>2, <1>3, <2>2
<1> QED
  BY <1>5 DEF FatCoversPartition, fat, before

-----------------------------------------------------------------------------
(* A step that writes sector 0 signs it, and the others come after it.     *)
IInv ==
  /\ total \in Nat
  /\ run \in Nat
  /\ DOMAIN disk = 0 .. total
  /\ pc \in {"fat1", "fat2", "root"} => Signed
  /\ UnsignedUntouched

LEMMA Regions ==
  ASSUME total \in Nat
  PROVE  /\ SectorsPerFat \in Nat /\ SectorsPerFat >= 1
         /\ FatLocation \in Nat /\ FatLocation > 0
         /\ ClusterLocation \in Nat /\ ClusterLocation > 0
<1>1. (total \div SectorsPerCluster) \div EntriesPerSector \in Nat
  BY Sizes0, QuotientMonotone
<1> QED
  BY <1>1 DEF SectorsPerFat, ClusterLocation, FatLocation, ReservedSectors

LEMMA InitHolds == Init => IInv
<1> SUFFICES ASSUME Init PROVE IInv
  OBVIOUS
<1>1. total \in Nat /\ run \in Nat /\ DOMAIN disk = 0 .. total /\ pc = "idle"
  BY Sizes0 DEF Init
<1>2. \A s \in DOMAIN disk : disk[s].run = 0
  BY DEF Init, File
<1> QED
  BY <1>1, <1>2 DEF IInv, UnsignedUntouched

(* A write behind sector 0 leaves the signature.                           *)
LEMMA WriteBehind ==
  ASSUME IInv, NEW first \in Nat, first > 0, NEW buffer, NEW n,
         DOMAIN buffer \subseteq Nat, disk' = Written(first, buffer, n)
  PROVE  DOMAIN disk' = DOMAIN disk /\ disk'[0] = disk[0]
<1>1. 0 \in DOMAIN disk /\ 0 - first \notin DOMAIN buffer
  BY DEF IInv
<1> QED
  BY <1>1 DEF Written

LEMMA LaterWrite ==
  ASSUME IInv, NEW place \in {"fat1", "fat2", "root"}, NEW next,
         NEW first \in Nat, first > 0, NEW buffer, DOMAIN buffer \subseteq Nat,
         Write(place, first, buffer, next)
  PROVE  IInv'
<1>1. Signed
  BY DEF IInv, Write
<1>2. DOMAIN disk' = DOMAIN disk /\ disk'[0] = disk[0]
  <2>1. PICK n : disk' = Written(first, buffer, n)
    BY DEF Write
  <2> QED
    BY <2>1, WriteBehind
<1>3. Signed'
  BY <1>1, <1>2 DEF Signed
<1> QED
  BY <1>2, <1>3 DEF IInv, Write, driveVars, UnsignedUntouched

LEMMA BootWrite == ASSUME IInv, WriteBoot PROVE IInv'
<1>1. /\ total' = total /\ run' = run
      /\ pc' \in {"fat1", "pause"}
  BY DEF WriteBoot, Write, driveVars
<1>2. DOMAIN Image = 0 .. 12 /\ Image[0].what = "signed"
  BY DEF Image, ReservedSectors, BootRecord, Cell
<1>3. Cardinality(DOMAIN Image) = 13
  <2> DEFINE first == 0
             last == 12
  <2>1. first \in Int /\ last \in Int /\ first <= last /\ last - first + 1 = 13
    OBVIOUS
  <2>2. DOMAIN Image = first .. last
    BY <1>2
  <2> HIDE DEF first, last
  <2>3. Cardinality(first .. last) = last - first + 1
    BY <2>1, FS_Interval
  <2> QED
    BY <2>1, <2>2, <2>3
<1>4. PICK n \in 0 .. 13 : disk' = Written(0, Image, n) /\ (pc' = "fat1" => n = 13)
  BY <1>3 DEF WriteBoot, Write
<1>5. DOMAIN disk' = DOMAIN disk /\ 0 \in DOMAIN disk
  BY <1>4 DEF Written, IInv
<1>6. CASE n = 0
  <2>1. \A s \in DOMAIN disk : disk'[s] = disk[s]
    BY <1>2, <1>4, <1>6 DEF Written, IInv
  <2> QED
    BY <1>1, <1>4, <1>5, <1>6, <2>1 DEF IInv, UnsignedUntouched, Signed
<1>7. CASE n > 0
  <2>1. disk'[0] = Image[0]
    BY <1>2, <1>4, <1>5, <1>7 DEF Written
  <2>2. Signed'
    BY <1>2, <2>1 DEF Signed
  <2> QED
    BY <1>1, <1>5, <2>2 DEF IInv, UnsignedUntouched
<1> QED
  BY <1>4, <1>6, <1>7

(* The steps that leave the drive alone and do not begin a write of the    *)
(* tables.                                                                 *)
LEMMA Elsewhere ==
  ASSUME IInv, UNCHANGED <<driveVars, disk>>, run' \in Nat,
         pc' = pc \/ pc' \notin {"fat1", "fat2", "root"}
  PROVE  IInv'
BY DEF IInv, driveVars, UnsignedUntouched, Signed

LEMMA OthersStep == ASSUME IInv, Others PROVE IInv'
<1> PICK v \in Letters : OtherOpens(v) \/ OtherCloses(v) \/ OtherWrites(v)
  BY DEF Others
<1>1. CASE OtherOpens(v)
  BY <1>1, Elsewhere DEF OtherOpens, IInv
<1>2. CASE OtherCloses(v)
  BY <1>2, Elsewhere DEF OtherCloses, IInv
<1>3. CASE OtherWrites(v)
  <2>1. PICK s \in {FatLocation, ClusterLocation} : disk' = [disk EXCEPT ![s] = File]
    BY <1>3 DEF OtherWrites
  <2>2. s # 0
    BY <2>1, Regions DEF IInv
  <2>3. DOMAIN disk' = DOMAIN disk /\ 0 \in DOMAIN disk /\ disk'[0] = disk[0]
    BY <2>1, <2>2 DEF IInv
  <2>4. \A t \in DOMAIN disk : disk'[t] = disk[t] \/ disk'[t].run = 0
    BY <2>1 DEF File
  <2>5. UNCHANGED <<total, run, pc>>
    BY <1>3 DEF OtherWrites, driveVars
  <2> QED
    BY <2>3, <2>4, <2>5 DEF IInv, UnsignedUntouched, Signed
<1> QED
  BY <1>1, <1>2, <1>3

LEMMA Step == IInv /\ [Next]_vars => IInv'
<1> SUFFICES ASSUME IInv, [Next]_vars PROVE IInv'
  OBVIOUS
<1>1. CASE SafetyCheck \/ Prepare
  BY <1>1, Elsewhere DEF SafetyCheck, Prepare, GoTo, IInv
<1>2. CASE CheckFails
  BY <1>2, Elsewhere DEF CheckFails, Fail, IInv
<1>3. CASE FindVolume \/ SkipLetter \/ FindEnds
  BY <1>3, Elsewhere DEF FindVolume, SkipLetter, FindEnds, IInv
<1>4. CASE LockVolume \/ DismountVolume \/ LockFails
  BY <1>4, Elsewhere DEF LockVolume, DismountVolume, LockFails, IInv
<1>5. CASE LockEnds
  BY <1>5, Elsewhere DEF LockEnds, GoTo, IInv
<1>6. CASE WriteBoot
  BY <1>6, BootWrite
<1>7. CASE WriteFat1 \/ WriteFat2
  <2>1. DOMAIN FatStart \subseteq Nat
    BY DEF FatStart
  <2>2. /\ FatLocation \in Nat /\ FatLocation > 0
        /\ FatLocation + SectorsPerFat \in Nat /\ FatLocation + SectorsPerFat > 0
    BY Regions DEF IInv
  <2> QED
    BY <1>7, <2>1, <2>2, LaterWrite DEF WriteFat1, WriteFat2
<1>8. CASE WriteRoot
  <2>1. DOMAIN EmptyRoot \subseteq Nat
    BY Sizes0 DEF EmptyRoot
  <2>2. ClusterLocation \in Nat /\ ClusterLocation > 0
    BY Regions DEF IInv
  <2> QED
    BY <1>8, <2>1, <2>2, LaterWrite DEF WriteRoot
<1>9. CASE UnlockVolume \/ UnlockEnds
  BY <1>9, Elsewhere DEF UnlockVolume, UnlockEnds, GoTo, IInv
<1>10. CASE StartUtility
  BY <1>10, Elsewhere DEF StartUtility, IInv
<1>11. CASE AnswerWord
  BY <1>11, Elsewhere DEF AnswerWord, GoTo, Fail, IInv
<1>12. CASE Exit
  BY <1>12, Elsewhere DEF Exit, IInv
<1>13. CASE Others
  BY <1>13, OthersStep
<1>14. CASE UNCHANGED vars
  BY <1>14, Elsewhere DEF vars, driveVars, IInv
<1> QED
  BY <1>1, <1>2, <1>3, <1>4, <1>5, <1>6, <1>7, <1>8, <1>9, <1>10, <1>11, <1>12, <1>13, <1>14
     DEF Next, Utility, User

(* However a run ends, a drive without the signature holds nothing of the  *)
(* utility's: the boot record is the first sector that arrives, and no     *)
(* later write reaches it (build, Format.cpp:175-183, FAT32.cpp:81-110).   *)
THEOREM InterruptedIsKnown == Spec => []UnsignedUntouched
<1>1. IInv => UnsignedUntouched
  BY DEF IInv
<1> QED
  BY <1>1, InitHolds, Step, PTL DEF Spec

(* The table is large enough for the partition in every state.             *)
THEOREM TableFits == Spec => []FatCoversPartition
<1>1. IInv => FatCoversPartition
  BY FatLargeEnough DEF IInv
<1> QED
  BY <1>1, InitHolds, Step, PTL DEF Spec

-----------------------------------------------------------------------------
(* Types. What a loop needs of its index is in Loops.                      *)

Loops ==
  /\ pc \in {"check", "ask", "prepare", "find"} => Len(found) < index
  /\ pc = "dismount" => index <= Len(found)

Typed == TypeOK /\ Loops

Cells == [what : {"signed", "header", "fsinfo", "end", "fat", "zero", "file"}, run : 0 .. run]

LEMMA InitTyped == Init => Typed
<1> SUFFICES ASSUME Init PROVE Typed
  OBVIOUS
<1>1. disk \in [0 .. total -> Cells]
  BY DEF Init, File, Cells
<1>2. run \in 0 .. MaxRuns /\ index \in 1 .. NumLetters + 1
  BY FormatAssumption DEF FormatAssumption, Init
<1>3. found \in Seq(OnDrive) /\ Len(found) <= NumLetters
  BY Sizes0 DEF Init
<1>4. /\ total \in Sizes /\ device \in [Letters -> {"none", "other", "drive"}]
      /\ volume \in [Letters -> {"mounted", "locked", "dismounted"}]
      /\ files \subseteq OnDrive /\ pc = "idle" /\ failedAt = "nowhere"
  BY DEF Init
<1> QED
  BY <1>1, <1>2, <1>3, <1>4 DEF Typed, TypeOK, Loops, Cells, Places

(* The types of what a step that does not start a run leaves alone.        *)
LEMMA SameTypes ==
  ASSUME Typed, UNCHANGED <<driveVars, run>>,
         disk' \in [0 .. total -> Cells],
         volume' \in [Letters -> {"mounted", "locked", "dismounted"}],
         files' \subseteq OnDrive,
         found' \in Seq(OnDrive), Len(found') <= NumLetters,
         index' \in 1 .. NumLetters + 1, pc' \in Places, failedAt' \in Places \cup {"nowhere"},
         Loops'
  PROVE  Typed'
BY DEF Typed, TypeOK, driveVars, OnDrive, Cells

LEMMA TypedFacts ==
  ASSUME Typed
  PROVE  /\ disk \in [0 .. total -> Cells] /\ total \in Nat
         /\ volume \in [Letters -> {"mounted", "locked", "dismounted"}]
         /\ device \in [Letters -> {"none", "other", "drive"}]
         /\ files \subseteq OnDrive /\ found \in Seq(OnDrive) /\ Len(found) <= NumLetters
         /\ index \in 1 .. NumLetters + 1 /\ pc \in Places /\ failedAt \in Places \cup {"nowhere"}
         /\ Loops
BY Sizes0 DEF Typed, TypeOK, Cells

LEMMA CellTypes ==
  ASSUME Typed
  PROVE  /\ \A what \in {"signed", "header", "fsinfo", "end", "fat", "zero", "file"} :
              Cell(what) \in Cells
         /\ File \in Cells
<1>1. run \in Nat /\ run \in 0 .. run /\ 0 \in 0 .. run
  BY DEF Typed, TypeOK
<1> QED
  BY <1>1 DEF Cell, File, Cells

LEMMA WriteTyped ==
  ASSUME Typed, NEW place \in Places, NEW first \in Nat, NEW buffer,
         NEW next \in {"fat1", "fat2", "root", "unlock"},
         \A s \in DOMAIN buffer : buffer[s] \in Cells,
         Write(place, first, buffer, next)
  PROVE  Typed'
<1>1. PICK n : disk' = Written(first, buffer, n)
  BY DEF Write
<1>2. disk' \in [0 .. total -> Cells]
  BY <1>1, TypedFacts DEF Written
<1>3. /\ UNCHANGED <<driveVars, run, volume, files, found>>
      /\ index' = 1 /\ pc' \in {next, "pause"} /\ failedAt' \in {failedAt, place}
  BY DEF Write
<1>4. 1 \in 1 .. NumLetters + 1 /\ pc' \in Places /\ failedAt' \in Places \cup {"nowhere"}
  BY <1>3, Sizes0, TypedFacts DEF Places
<1>5. Loops'
  BY <1>3 DEF Loops
<1> QED
  BY <1>2, <1>3, <1>4, <1>5, TypedFacts, SameTypes

LEMMA Buffers ==
  ASSUME Typed
  PROVE  /\ DOMAIN Image = 0 .. 12 /\ \A s \in DOMAIN Image : Image[s] \in Cells
         /\ DOMAIN FatStart = {0} /\ FatStart[0] = Cell("fat") /\ FatStart[0] \in Cells
         /\ DOMAIN EmptyRoot = 0 .. SectorsPerCluster - 1
         /\ \A s \in DOMAIN EmptyRoot : EmptyRoot[s] = Cell("zero") /\ EmptyRoot[s] \in Cells
<1>1. \A what \in {"signed", "header", "fsinfo", "end", "fat", "zero", "file"} :
        Cell(what) \in Cells
  BY CellTypes
<1>2. DOMAIN Image = 0 .. 12
  BY DEF Image, ReservedSectors
<1>3. BootRecord \in Cells /\ Cell("zero") \in Cells /\ Cell("fat") \in Cells
  BY <1>1 DEF BootRecord
<1>4. \A s \in 1 .. 3 : FileSystem[s] \in Cells
  BY <1>1 DEF FileSystem
<1>5. ASSUME NEW s \in 0 .. 12
      PROVE  Image[s] \in Cells
  <2> DEFINE cell == CASE s = 0 -> BootRecord
                       [] s \in 1 .. 3 -> FileSystem[s]
                       [] s \in 7 .. 9 -> FileSystem[s - 6]
                       [] OTHER -> Cell("zero")
  <2>1. Image[s] = cell
    BY DEF Image, ReservedSectors
  <2>2. CASE s = 0
    BY <1>3, <2>1, <2>2
  <2>3. CASE s \in 1 .. 3
    BY <1>4, <2>1, <2>3
  <2>4. CASE s \in 7 .. 9
    <3>1. s - 6 \in 1 .. 3
      BY <2>4
    <3> QED
      BY <1>4, <2>1, <2>4, <3>1
  <2>5. CASE s \notin 0 .. 3 /\ s \notin 7 .. 9
    <3>1. s # 0 /\ s \notin 1 .. 3
      BY <2>5
    <3>2. cell = Cell("zero")
      BY <2>5, <3>1, Zenon
    <3> QED
      BY <1>3, <2>1, <3>2
  <2> QED
    BY <2>2, <2>3, <2>4, <2>5
<1> QED
  BY <1>2, <1>3, <1>5 DEF FatStart, EmptyRoot

LEMMA NextTyped == Typed /\ [Next]_vars => Typed'
<1> SUFFICES ASSUME Typed, [Next]_vars PROVE Typed'
  OBVIOUS
<1>1. ASSUME NEW place \in Places \ {"check", "find", "dismount"}, GoTo(place),
             place \in {"ask", "prepare"} => pc \in {"check", "ask"}
      PROVE  Typed'
  <2>1. Loops'
    BY <1>1, TypedFacts DEF GoTo, Loops
  <2> QED
    BY <1>1, <2>1, TypedFacts, SameTypes DEF GoTo
<1>2. CASE Fail
  <2>1. Loops'
    BY <1>2 DEF Fail, Loops
  <2> QED
    BY <1>2, <2>1, TypedFacts, SameTypes DEF Fail, Places
<1>3. CASE SafetyCheck \/ LockEnds \/ UnlockEnds \/ AnswerWord \/ CheckFails
  BY <1>1, <1>2, <1>3 DEF SafetyCheck, LockEnds, UnlockEnds, AnswerWord, CheckFails, Places
<1>4. CASE Prepare
  <2>1. Loops'
    BY <1>4, TypedFacts DEF Prepare, GoTo, Loops
  <2> QED
    BY <1>4, <2>1, TypedFacts, SameTypes DEF Prepare, GoTo, Places
<1>5. CASE FindVolume
  <2>1. index \in OnDrive /\ Len(found) < index /\ index <= NumLetters
    BY <1>5, TypedFacts, Sizes0 DEF FindVolume, OnDrive, Letters, Loops
  <2>2. found' \in Seq(OnDrive) /\ Len(found') = Len(found) + 1 /\ Len(found) \in Nat
    BY <1>5, <2>1, TypedFacts DEF FindVolume
  <2>3. index' = index + 1 /\ Len(found') <= NumLetters /\ index' \in 1 .. NumLetters + 1
    BY <1>5, <2>1, <2>2, TypedFacts, Sizes0 DEF FindVolume
  <2>4. Loops'
    <3>1. Len(found') < index' /\ pc' = "find"
      BY <1>5, <2>1, <2>2, <2>3, TypedFacts DEF FindVolume
    <3> QED
      BY <3>1 DEF Loops
  <2> QED
    BY <1>5, <2>2, <2>3, <2>4, TypedFacts, SameTypes DEF FindVolume
<1>6. CASE SkipLetter
  <2>1. index' \in 1 .. NumLetters + 1 /\ index' = index + 1 /\ Len(found) \in Nat
    BY <1>6, TypedFacts, Sizes0 DEF SkipLetter
  <2>2. Loops'
    BY <1>6, <2>1, TypedFacts DEF SkipLetter, Loops
  <2> QED
    BY <1>6, <2>1, <2>2, TypedFacts, SameTypes DEF SkipLetter
<1>7. 1 \in 1 .. NumLetters + 1
  BY Sizes0
<1>8. CASE FindEnds \/ LockFails
  <2>1. Loops'
    BY <1>8 DEF FindEnds, LockFails, Loops
  <2> QED
    BY <1>7, <1>8, <2>1, TypedFacts, SameTypes DEF FindEnds, LockFails, Places
<1>9. ASSUME NEW how \in {"mounted", "locked", "dismounted"},
             volume' = [volume EXCEPT ![found[index]] = how]
      PROVE  volume' \in [Letters -> {"mounted", "locked", "dismounted"}]
  BY <1>9, TypedFacts
<1>10. CASE LockVolume
  <2>1. Loops'
    BY <1>10 DEF LockVolume, Loops
  <2> QED
    BY <1>9, <1>10, <2>1, TypedFacts, SameTypes DEF LockVolume, Places
<1>11. CASE DismountVolume \/ UnlockVolume
  <2>1. index <= Len(found) /\ Len(found) \in Nat /\ index' = index + 1
    BY <1>11, TypedFacts DEF DismountVolume, UnlockVolume, Loops
  <2>2. index' \in 1 .. NumLetters + 1
    BY <2>1, TypedFacts, Sizes0
  <2>3. Loops'
    BY <1>11 DEF DismountVolume, UnlockVolume, Loops
  <2> QED
    BY <1>9, <1>11, <2>2, <2>3, TypedFacts, SameTypes DEF DismountVolume, UnlockVolume, Places
<1>12. CASE WriteBoot \/ WriteFat1 \/ WriteFat2 \/ WriteRoot
  <2>1. /\ FatLocation \in Nat /\ FatLocation + SectorsPerFat \in Nat
        /\ ClusterLocation \in Nat /\ 0 \in Nat
    BY TypedFacts, Regions
  <2>2. {"boot", "fat1", "fat2", "root"} \subseteq Places
    BY DEF Places
  <2>3. /\ \A s \in DOMAIN Image : Image[s] \in Cells
        /\ \A s \in DOMAIN FatStart : FatStart[s] \in Cells
        /\ \A s \in DOMAIN EmptyRoot : EmptyRoot[s] \in Cells
    BY Buffers
  <2>4. CASE WriteBoot
    BY <2>1, <2>2, <2>3, <2>4, WriteTyped DEF WriteBoot
  <2>5. CASE WriteFat1
    BY <2>1, <2>2, <2>3, <2>5, WriteTyped DEF WriteFat1
  <2>6. CASE WriteFat2
    BY <2>1, <2>2, <2>3, <2>6, WriteTyped DEF WriteFat2
  <2>7. CASE WriteRoot
    BY <2>1, <2>2, <2>3, <2>7, WriteTyped DEF WriteRoot
  <2> QED
    BY <1>12, <2>4, <2>5, <2>6, <2>7
<1>13. CASE StartUtility
  <2>1. run' = run + 1 /\ run \in Nat /\ run' \in 0 .. MaxRuns
    BY <1>13, FormatAssumption DEF StartUtility, FormatAssumption, Typed, TypeOK
  <2>2. Cells \subseteq Cells'
    BY <2>1 DEF Cells
  <2>3. disk' \in [0 .. total -> Cells']
    BY <1>13, <2>2, TypedFacts DEF StartUtility
  <2>4. found' = <<>> /\ index' = 1 /\ pc' = "check" /\ failedAt' = "nowhere"
    BY <1>13 DEF StartUtility
  <2>5. Loops'
    BY <2>4 DEF Loops
  <2>6. /\ UNCHANGED <<total, device, volume, files>>
    BY <1>13 DEF StartUtility, driveVars
  <2>7. found' \in Seq(OnDrive) /\ Len(found') <= NumLetters
    BY <2>4, Sizes0
  <2> QED
    BY <1>7, <2>1, <2>3, <2>4, <2>5, <2>6, <2>7 DEF Typed, TypeOK, Cells, OnDrive, Places
<1>14. CASE Exit
  <2>1. Loops'
    BY <1>14 DEF Exit, Loops
  <2> QED
    BY <1>14, <2>1, TypedFacts, SameTypes DEF Exit, Places
<1>15. CASE Others
  <2>1. PICK v \in Letters : OtherOpens(v) \/ OtherCloses(v) \/ OtherWrites(v)
    BY <1>15 DEF Others
  <2>2. files' \subseteq OnDrive /\ disk' \in [0 .. total -> Cells]
    <3>1. CASE OtherWrites(v)
      BY <3>1, TypedFacts, CellTypes DEF OtherWrites
    <3> QED
      BY <2>1, <3>1, TypedFacts DEF OtherOpens, OtherCloses
  <2>3. UNCHANGED <<driveVars, run, volume, found, index, pc, failedAt>>
    BY <2>1 DEF OtherOpens, OtherCloses, OtherWrites
  <2> QED
    BY <2>2, <2>3, TypedFacts, SameTypes DEF Loops
<1>16. CASE UNCHANGED vars
  BY <1>16, TypedFacts, SameTypes DEF vars, driveVars, Loops
<1> QED
  BY <1>3, <1>4, <1>5, <1>6, <1>8, <1>10, <1>11, <1>12, <1>13, <1>14, <1>15, <1>16
     DEF Next, Utility, User

(* The types of the utility's state, its loops included: whatever calls    *)
(* fail, a handle is one of a volume of the drive (DiskUtil.cpp:11-100).   *)
THEOREM TypeCorrect == Spec => []TypeOK
<1>1. Typed => TypeOK
  BY DEF Typed
<1> QED
  BY <1>1, InitTyped, NextTyped, PTL DEF Spec

-----------------------------------------------------------------------------
(* Every volume that is not mounted has its handle among those that are    *)
(* still to be closed.                                                     *)

Mounted == \A v \in Letters : volume[v] = "mounted"

HandledFrom(n) ==
  \A v \in Letters : volume[v] # "mounted" => \E i \in n .. Len(found) : found[i] = v

Handles ==
  /\ pc \in {"idle", "check", "ask", "prepare", "find"} => Mounted
  /\ pc \in {"lock", "dismount", "boot", "fat1", "fat2", "root"} => HandledFrom(1)
  /\ pc = "unlock" => HandledFrom(index)
  /\ Released

LEMMA InitHandles == Init => Handles
BY DEF Init, Handles, Mounted, Released, Writes

LEMMA SameHandles ==
  ASSUME Handles, UNCHANGED <<volume, found, index, pc, failedAt>>
  PROVE  Handles'
BY DEF Handles, Mounted, HandledFrom, Released

LEMMA NextHandles == Typed /\ Handles /\ [Next]_vars => Handles'
<1> SUFFICES ASSUME Typed, Handles, [Next]_vars PROVE Handles'
  OBVIOUS
<1>0. /\ index \in Nat \ {0} /\ Len(found) \in Nat
      /\ \A i \in 1 .. Len(found) : found[i] \in Letters
      /\ volume \in [Letters -> {"mounted", "locked", "dismounted"}]
  <2>1. OnDrive \subseteq Letters
    BY DEF OnDrive
  <2> QED
    BY <2>1, TypedFacts, Sizes0
<1>1. CASE SafetyCheck \/ Prepare \/ AnswerWord \/ CheckFails
  <2>1. /\ pc \in {"check", "ask", "prepare"} /\ UNCHANGED volume
        /\ pc' \in {"prepare", "ask", "find", "pause"}
    BY <1>1 DEF SafetyCheck, Prepare, AnswerWord, CheckFails, GoTo, Fail
  <2> QED
    BY <2>1 DEF Handles, Mounted, Released
<1>2. CASE FindVolume \/ SkipLetter \/ FindEnds
  <2>1. pc = "find" /\ UNCHANGED volume /\ pc' \in {"find", "lock"}
    BY <1>2 DEF FindVolume, SkipLetter, FindEnds
  <2> QED
    BY <2>1 DEF Handles, Mounted, HandledFrom, Released
<1>3. CASE LockVolume \/ DismountVolume
  <2>1. PICK how \in {"locked", "dismounted"} :
          volume' = [volume EXCEPT ![found[index]] = how]
    BY <1>3 DEF LockVolume, DismountVolume
  <2>2. /\ index \in 1 .. Len(found) /\ found' = found
        /\ pc \in {"lock", "dismount"} /\ pc' \in {"lock", "dismount"}
    BY <1>0, <1>3, TypedFacts DEF LockVolume, DismountVolume, Loops
  <2>3. HandledFrom(1)'
    BY <1>0, <2>1, <2>2 DEF Handles, HandledFrom
  <2> QED
    BY <2>2, <2>3 DEF Handles, Released
<1>4. CASE LockFails
  <2>1. /\ index' = 1 /\ pc' = "unlock" /\ pc \in {"lock", "dismount"}
        /\ UNCHANGED <<volume, found>>
    BY <1>4 DEF LockFails
  <2> QED
    BY <2>1 DEF Handles, HandledFrom, Released
<1>5. CASE LockEnds
  <2>1. pc = "lock" /\ pc' = "boot" /\ UNCHANGED <<volume, found>>
    BY <1>5 DEF LockEnds, GoTo
  <2> QED
    BY <2>1 DEF Handles, HandledFrom, Released
<1>6. ASSUME NEW place \in {"boot", "fat1", "fat2", "root"}, NEW first, NEW buffer,
             NEW next \in {"fat1", "fat2", "root", "unlock"}, Write(place, first, buffer, next)
      PROVE  Handles'
  <2>1. /\ pc = place /\ index' = 1 /\ UNCHANGED <<volume, found>>
        /\ pc' = next \/ (pc' = "pause" /\ failedAt' = place)
    BY <1>6 DEF Write
  <2>2. HandledFrom(1)'
    BY <2>1 DEF Handles, HandledFrom
  <2> QED
    BY <2>1, <2>2 DEF Handles, HandledFrom, Released, Writes
<1>7. CASE WriteBoot \/ WriteFat1 \/ WriteFat2 \/ WriteRoot
  BY <1>6, <1>7 DEF WriteBoot, WriteFat1, WriteFat2, WriteRoot
<1>8. CASE UnlockVolume
  <2>1. /\ index \in 1 .. Len(found) /\ index' = index + 1
        /\ UNCHANGED <<found, pc>> /\ pc = "unlock"
        /\ volume' = [volume EXCEPT ![found[index]] = "mounted"]
    BY <1>0, <1>8 DEF UnlockVolume
  <2>2. HandledFrom(index)'
    <3> SUFFICES ASSUME NEW v \in Letters, volume'[v] # "mounted"
                 PROVE  \E i \in index + 1 .. Len(found) : found[i] = v
      BY <2>1 DEF HandledFrom
    <3>1. v # found[index] /\ volume[v] # "mounted"
      BY <1>0, <2>1
    <3>2. PICK i \in index .. Len(found) : found[i] = v
      BY <2>1, <3>1 DEF Handles, HandledFrom
    <3> QED
      BY <1>0, <3>1, <3>2
  <2> QED
    BY <2>1, <2>2 DEF Handles, Released
<1>9. CASE UnlockEnds
  <2>1. index > Len(found) /\ pc = "unlock" /\ pc' = "pause" /\ UNCHANGED volume
    BY <1>9 DEF UnlockEnds, GoTo
  <2>2. Mounted
    BY <1>0, <2>1 DEF Handles, HandledFrom, Mounted
  <2> QED
    BY <2>1, <2>2 DEF Handles, Mounted, Released
<1>10. CASE StartUtility
  <2>1. pc = "idle" /\ pc' = "check" /\ UNCHANGED volume
    BY <1>10 DEF StartUtility
  <2> QED
    BY <2>1 DEF Handles, Mounted, Released
<1>11. CASE Exit
  <2>1. pc' = "idle" /\ Mounted'
    BY <1>11 DEF Exit, Mounted
  <2> QED
    BY <2>1 DEF Handles, Released
<1>12. CASE Others \/ UNCHANGED vars
  BY <1>12, SameHandles DEF Others, OtherOpens, OtherCloses, OtherWrites, vars
<1> QED
  BY <1>1, <1>2, <1>3, <1>4, <1>5, <1>7, <1>8, <1>9, <1>10, <1>11, <1>12
     DEF Next, Utility, User

(* Once build has returned no volume stays locked, unless a write failed:  *)
(* also when only some of the volumes could be locked                      *)
(* (unlockVolumes, DiskUtil.cpp:95-100, Format.cpp:170-186).               *)
THEOREM VolumesReleased == Spec => []Released
<1>1. Handles => Released
  BY DEF Handles
<1> QED
  BY <1>1, InitTyped, NextTyped, InitHandles, NextHandles, PTL DEF Spec

-----------------------------------------------------------------------------
(* From the locks to the release the volumes of the drive are out of the   *)
(* hands of other programs.                                                *)

Kept(n) ==
  \A i \in 1 .. n : i <= Len(found) => volume[found[i]] # "mounted" /\ found[i] \notin files

Done == pc = "unlock" /\ index = 1 /\ failedAt = "nowhere"

Keeps ==
  /\ pc = "lock" => Kept(index - 1)
  /\ pc = "dismount" => Kept(index)
  /\ pc \in Writes \/ Done => Kept(Len(found))

LEMMA InitKeeps == Init => Keeps
BY DEF Init, Keeps, Writes, Done

LEMMA NextKeeps == Typed /\ Keeps /\ [Next]_vars => Keeps'
<1> SUFFICES ASSUME Typed, Keeps, [Next]_vars PROVE Keeps'
  OBVIOUS
<1>0. /\ index \in Nat \ {0} /\ Len(found) \in Nat
      /\ \A i \in 1 .. Len(found) : found[i] \in Letters
      /\ volume \in [Letters -> {"mounted", "locked", "dismounted"}]
  <2>1. OnDrive \subseteq Letters
    BY DEF OnDrive
  <2> QED
    BY <2>1, TypedFacts, Sizes0
<1>1. ASSUME pc' \notin {"lock", "dismount", "boot", "fat1", "fat2", "root", "unlock"}
      PROVE  Keeps'
  BY <1>1 DEF Keeps, Writes, Done
<1>2. CASE SafetyCheck \/ Prepare \/ AnswerWord \/ CheckFails \/ FindVolume \/ SkipLetter
  BY <1>1, <1>2
     DEF SafetyCheck, Prepare, AnswerWord, CheckFails, GoTo, Fail, FindVolume, SkipLetter
<1>3. CASE FindEnds
  <2>1. pc' = "lock" /\ index' = 1
    BY <1>3 DEF FindEnds
  <2> QED
    BY <2>1 DEF Keeps, Kept, Writes, Done
<1>4. CASE LockVolume
  <2>1. /\ index <= Len(found) /\ found[index] \notin files /\ pc = "lock" /\ pc' = "dismount"
        /\ volume' = [volume EXCEPT ![found[index]] = "locked"]
        /\ UNCHANGED <<files, found, index>>
    BY <1>4 DEF LockVolume
  <2>2. Kept(index)'
    BY <1>0, <2>1 DEF Keeps, Kept
  <2> QED
    BY <2>1, <2>2 DEF Keeps, Kept, Writes, Done
<1>5. CASE DismountVolume
  <2>1. /\ index <= Len(found) /\ pc = "dismount" /\ pc' = "lock" /\ index' = index + 1
        /\ volume' = [volume EXCEPT ![found[index]] = "dismounted"]
        /\ UNCHANGED <<files, found>>
    BY <1>5, TypedFacts DEF DismountVolume, Loops
  <2>2. index' - 1 = index
    BY <1>0, <2>1
  <2>3. Kept(index - 1)'
    <3> SUFFICES ASSUME NEW i \in 1 .. index, i <= Len(found)
                 PROVE  volume'[found[i]] # "mounted" /\ found[i] \notin files
      BY <2>1, <2>2 DEF Kept
    <3>1. volume[found[i]] # "mounted" /\ found[i] \notin files
      BY <2>1 DEF Keeps, Kept
    <3>2. i \in 1 .. Len(found) /\ found[i] \in Letters
      BY <1>0
    <3> QED
      BY <1>0, <2>1, <3>1, <3>2
  <2> QED
    BY <2>1, <2>3 DEF Keeps, Writes, Done
<1>6. CASE LockFails
  <2>1. pc' = "unlock" /\ failedAt' # "nowhere"
    BY <1>6 DEF LockFails
  <2> QED
    BY <2>1 DEF Keeps, Writes, Done
<1>7. CASE LockEnds
  <2>1. pc = "lock" /\ pc' = "boot" /\ index > Len(found) /\ UNCHANGED <<volume, files, found>>
    BY <1>7 DEF LockEnds, GoTo
  <2>2. Kept(Len(found))'
    BY <1>0, <2>1 DEF Keeps, Kept
  <2> QED
    BY <2>1, <2>2 DEF Keeps
<1>8. CASE WriteBoot \/ WriteFat1 \/ WriteFat2 \/ WriteRoot
  <2>1. pc \in Writes /\ UNCHANGED <<volume, files, found>> /\ pc' \notin {"lock", "dismount"}
    BY <1>8 DEF WriteBoot, WriteFat1, WriteFat2, WriteRoot, Write, Writes
  <2>2. Kept(Len(found))'
    BY <2>1 DEF Keeps, Kept
  <2> QED
    BY <2>1, <2>2 DEF Keeps
<1>9. CASE UnlockVolume
  <2>1. pc' = "unlock" /\ index' # 1
    BY <1>0, <1>9 DEF UnlockVolume
  <2> QED
    BY <2>1 DEF Keeps, Writes, Done
<1>10. CASE UnlockEnds \/ StartUtility \/ Exit
  BY <1>1, <1>10 DEF UnlockEnds, GoTo, StartUtility, Exit
<1>11. CASE Others
  <2>1. PICK v \in Letters : OtherOpens(v) \/ OtherCloses(v) \/ OtherWrites(v)
    BY <1>11 DEF Others
  <2>2. UNCHANGED <<volume, found, index, pc, failedAt>>
    BY <2>1 DEF OtherOpens, OtherCloses, OtherWrites
  <2>3. \A u : u \in files' /\ u \notin files => volume[u] = "mounted"
    BY <2>1 DEF OtherOpens, OtherCloses, OtherWrites
  <2>4. \A n : Kept(n) => Kept(n)'
    BY <2>2, <2>3 DEF Kept
  <2> QED
    BY <2>2, <2>4 DEF Keeps, Done
<1>12. CASE UNCHANGED vars
  BY <1>12 DEF vars, Keeps, Kept, Done
<1> QED
  BY <1>2, <1>3, <1>4, <1>5, <1>6, <1>7, <1>8, <1>9, <1>10, <1>11, <1>12
     DEF Next, Utility, User

Closed == OnDrive \subseteq ToSet(found)

(* While every volume of the drive is locked no other program does         *)
(* anything.                                                               *)
LEMMA Alone ==
  ASSUME Typed, Closed, Kept(Len(found))
  PROVE  ~Others
<1>1. ASSUME NEW v \in OnDrive
      PROVE  volume[v] # "mounted" /\ v \notin files
  <2>1. PICK i \in 1 .. Len(found) : v = found[i]
    BY TypedFacts DEF Closed, ToSet
  <2> QED
    BY <2>1 DEF Kept
<1>2. \A v \in files : FALSE
  BY <1>1, TypedFacts
<1> QED
  BY <1>1, <1>2 DEF Others, OtherOpens, OtherCloses, OtherWrites

-----------------------------------------------------------------------------
(* The regions are written one after the other, and do not overlap.        *)

BootThere == \A s \in 0 .. 12 : disk[s] = Image[s]
FirstTable == disk[FatLocation] = Cell("fat")
SecondTable == disk[FatLocation + SectorsPerFat] = Cell("fat")
RootThere == \A s \in 0 .. SectorsPerCluster - 1 : disk[ClusterLocation + s] = Cell("zero")

Built ==
  Closed =>
    /\ pc \in {"fat1", "fat2", "root"} \/ Done => BootThere
    /\ pc \in {"fat2", "root"} \/ Done => FirstTable
    /\ pc = "root" \/ Done => SecondTable
    /\ Done => RootThere

LEMMA Layout ==
  ASSUME Typed
  PROVE  /\ FatLocation = 13 /\ SectorsPerFat \in Nat /\ SectorsPerFat >= 1
         /\ ClusterLocation = 13 + 2 * SectorsPerFat
         /\ ClusterLocation + SectorsPerCluster - 1 <= total
         /\ total \in Nat
<1>1. total \in Sizes /\ total \in Nat
  BY Sizes0 DEF Typed, TypeOK
<1>2. 12 + 2 * SectorsPerFat + SectorsPerCluster <= total
  BY <1>1, FormatAssumption DEF FormatAssumption, SectorsPerFat
<1>3. SectorsPerFat \in Nat /\ SectorsPerFat >= 1
  BY <1>1, Regions
<1>4. FatLocation = 13 /\ ClusterLocation = 13 + 2 * SectorsPerFat
  BY DEF FatLocation, ClusterLocation, ReservedSectors
<1> HIDE DEF SectorsPerFat
<1> QED
  BY <1>1, <1>2, <1>3, <1>4, Sizes0

LEMMA Arrives ==
  ASSUME Typed, NEW first \in Nat, NEW buffer, NEW n \in Nat, DOMAIN buffer = 0 .. n - 1,
         disk' = Written(first, buffer, n)
  PROVE  /\ \A s \in 0 .. n - 1 : first + s <= total => disk'[first + s] = buffer[s]
         /\ \A s \in 0 .. total : s < first \/ s >= first + n => disk'[s] = disk[s]
<1>1. DOMAIN disk = 0 .. total /\ total \in Nat
  BY TypedFacts
<1>2. \A s \in 0 .. total :
        disk'[s] = IF s - first \in DOMAIN buffer /\ s - first < n
                   THEN buffer[s - first] ELSE disk[s]
  BY <1>1 DEF Written
<1>3. ASSUME NEW s \in 0 .. n - 1, first + s <= total
      PROVE  disk'[first + s] = buffer[s]
  <2>1. first + s \in 0 .. total /\ (first + s) - first = s /\ s \in DOMAIN buffer /\ s < n
    BY <1>1, <1>3
  <2> QED
    BY <1>2, <2>1
<1>4. ASSUME NEW s \in 0 .. total, s < first \/ s >= first + n
      PROVE  disk'[s] = disk[s]
  <2>1. s - first \notin DOMAIN buffer
    BY <1>4
  <2> QED
    BY <1>2, <2>1
<1> QED
  BY <1>3, <1>4

LEMMA Sizes13 ==
  ASSUME Typed
  PROVE  /\ Cardinality(DOMAIN Image) = 13 /\ Cardinality(DOMAIN FatStart) = 1
         /\ Cardinality(DOMAIN EmptyRoot) = SectorsPerCluster
<1>1. ASSUME NEW n \in Nat, n > 0
      PROVE  Cardinality(0 .. n - 1) = n
  <2> DEFINE first == 0
             last == n - 1
  <2>1. first \in Int /\ last \in Int /\ first <= last /\ last - first + 1 = n
    BY <1>1
  <2>2. Cardinality(first .. last) = last - first + 1
    <3> HIDE DEF first, last
    <3> QED
      BY <2>1, FS_Interval
  <2> QED
    BY <2>1, <2>2
<1>2. /\ DOMAIN Image = 0 .. 13 - 1 /\ DOMAIN FatStart = 0 .. 1 - 1
      /\ DOMAIN EmptyRoot = 0 .. SectorsPerCluster - 1
  BY Buffers
<1>3. Cardinality(0 .. 13 - 1) = 13 /\ Cardinality(0 .. 1 - 1) = 1
  <2>1. 13 \in Nat /\ 13 > 0 /\ 1 \in Nat /\ 1 > 0
    OBVIOUS
  <2> QED
    BY ONLY <1>1, <2>1, Zenon
<1>4. Cardinality(0 .. SectorsPerCluster - 1) = SectorsPerCluster
  BY <1>1, Sizes0
<1> QED
  BY ONLY <1>2, <1>3, <1>4, Zenon

(* What stays the same while the utility runs.                             *)
LEMMA SameImage ==
  ASSUME UNCHANGED <<run, driveVars>>
  PROVE  /\ UNCHANGED <<Image, Cell("fat"), Cell("zero")>>
         /\ UNCHANGED <<FatLocation, SectorsPerFat, ClusterLocation, OnDrive>>
BY DEF Image, BootRecord, FileSystem, Cell, FatLocation, SectorsPerFat, ClusterLocation,
       OnDrive, driveVars

LEMMA BootBuilt == ASSUME Typed, WriteBoot PROVE Built'
<1>1. /\ UNCHANGED <<run, driveVars>>
      /\ pc' = "pause" \/ (pc' = "fat1" /\ disk' = Written(0, Image, 13))
  BY Sizes13 DEF WriteBoot, Write
<1>2. CASE pc' = "pause"
  BY <1>2 DEF Built, Done
<1>3. CASE pc' = "fat1" /\ disk' = Written(0, Image, 13)
  <2>1. DOMAIN Image = 0 .. 13 - 1 /\ 12 <= total /\ total \in Nat
    BY Buffers, Layout, Sizes0
  <2>2. PICK first \in Nat, n \in Nat : first = 0 /\ n = 13
    OBVIOUS
  <2>3. \A s \in 0 .. 12 : disk'[s] = Image[s]
    <3>1. disk' = Written(first, Image, n) /\ DOMAIN Image = 0 .. n - 1
      BY <1>3, <2>1, <2>2
    <3>2. first \in Nat /\ n \in Nat
      OBVIOUS
    <3>3. \A s \in 0 .. n - 1 : first + s <= total => disk'[first + s] = Image[s]
      BY ONLY Typed, <3>1, <3>2, Arrives
    <3> QED
      BY <2>1, <2>2, <3>3
  <2>4. Image' = Image
    BY <1>1, SameImage
  <2>5. BootThere'
    BY <2>3, <2>4 DEF BootThere
  <2> QED
    BY <1>3, <2>5 DEF Built, Done
<1> QED
  BY <1>1, <1>2, <1>3

LEMMA FirstBuilt == ASSUME Typed, Built, WriteFat1 PROVE Built'
<1>1. /\ UNCHANGED <<run, driveVars, found>> /\ pc = "fat1"
      /\ pc' = "pause" \/ (pc' = "fat2" /\ disk' = Written(FatLocation, FatStart, 1))
  BY Sizes13 DEF WriteFat1, Write
<1>2. CASE pc' = "pause"
  BY <1>2 DEF Built, Done
<1>3. CASE pc' = "fat2" /\ disk' = Written(FatLocation, FatStart, 1)
  <2>1. DOMAIN FatStart = 0 .. 1 - 1 /\ FatStart[0] = Cell("fat")
    BY Buffers
  <2>2. FatLocation \in Nat /\ 1 \in Nat
    BY Layout
  <2>3. /\ \A s \in 0 .. 1 - 1 : FatLocation + s <= total => disk'[FatLocation + s] = FatStart[s]
        /\ \A s \in 0 .. total : s < FatLocation \/ s >= FatLocation + 1 => disk'[s] = disk[s]
    BY ONLY Typed, <1>3, <2>1, <2>2, Arrives
  <2>4. FatLocation = 13 /\ 13 <= total /\ total \in Nat
    BY Layout, Sizes0
  <2>5. disk'[FatLocation] = Cell("fat")
    BY <2>1, <2>3, <2>4
  <2>6. \A s \in 0 .. 12 : disk'[s] = disk[s]
    BY <2>3, <2>4
  <2>7. /\ UNCHANGED <<Image, Cell("fat"), FatLocation>>
        /\ Closed' => Closed
    BY <1>1, SameImage DEF Closed
  <2>8. FirstTable'
    BY <2>5, <2>7 DEF FirstTable
  <2>9. Closed' => BootThere'
    BY <1>1, <2>6, <2>7 DEF Built, BootThere
  <2> QED
    BY <1>3, <2>8, <2>9 DEF Built, Done
<1> QED
  BY <1>1, <1>2, <1>3

LEMMA SecondBuilt == ASSUME Typed, Built, WriteFat2 PROVE Built'
<1>1. /\ UNCHANGED <<run, driveVars, found>> /\ pc = "fat2"
      /\ \/ pc' = "pause"
         \/ pc' = "root" /\ disk' = Written(FatLocation + SectorsPerFat, FatStart, 1)
  BY Sizes13 DEF WriteFat2, Write
<1>2. CASE pc' = "pause"
  BY <1>2 DEF Built, Done
<1>3. CASE pc' = "root" /\ disk' = Written(FatLocation + SectorsPerFat, FatStart, 1)
  <2>1. DOMAIN FatStart = 0 .. 1 - 1 /\ FatStart[0] = Cell("fat")
    BY Buffers
  <2>2. PICK at \in Nat : at = FatLocation + SectorsPerFat
    BY Layout
  <2>3. /\ \A s \in 0 .. 1 - 1 : at + s <= total => disk'[at + s] = FatStart[s]
        /\ \A s \in 0 .. total : s < at \/ s >= at + 1 => disk'[s] = disk[s]
    BY ONLY Typed, <1>3, <2>1, <2>2, Arrives
  <2>4. FatLocation = 13 /\ at > 13 /\ at <= total /\ total \in Nat
    BY <2>2, Layout, Sizes0
  <2>5. disk'[at] = Cell("fat")
    BY <2>1, <2>3, <2>4
  <2>6. disk'[FatLocation] = disk[FatLocation] /\ \A s \in 0 .. 12 : disk'[s] = disk[s]
    BY <2>3, <2>4
  <2>7. /\ UNCHANGED <<Image, Cell("fat"), FatLocation, SectorsPerFat>>
        /\ Closed' => Closed
    BY <1>1, SameImage DEF Closed
  <2>8. SecondTable'
    BY <2>2, <2>5, <2>7 DEF SecondTable
  <2>9. Closed' => BootThere' /\ FirstTable'
    BY <1>1, <2>6, <2>7 DEF Built, BootThere, FirstTable
  <2> QED
    BY <1>3, <2>8, <2>9 DEF Built, Done
<1> QED
  BY <1>1, <1>2, <1>3

LEMMA RootBuilt == ASSUME Typed, Built, WriteRoot PROVE Built'
<1>1. /\ UNCHANGED <<run, driveVars, found>> /\ pc = "root"
      /\ \/ pc' = "pause"
         \/ pc' = "unlock" /\ disk' = Written(ClusterLocation, EmptyRoot, SectorsPerCluster)
  BY Sizes13 DEF WriteRoot, Write
<1>2. CASE pc' = "pause"
  BY <1>2 DEF Built, Done
<1>3. CASE pc' = "unlock" /\ disk' = Written(ClusterLocation, EmptyRoot, SectorsPerCluster)
  <2>1. DOMAIN EmptyRoot = 0 .. SectorsPerCluster - 1 /\ SectorsPerCluster \in Nat
        /\ \A s \in 0 .. SectorsPerCluster - 1 : EmptyRoot[s] = Cell("zero")
    BY Buffers, Sizes0
  <2>2. PICK at \in Nat : at = ClusterLocation
    BY Layout
  <2>3. PICK n \in Nat : n = SectorsPerCluster
    BY <2>1
  <2>4. /\ \A s \in 0 .. n - 1 : at + s <= total => disk'[at + s] = EmptyRoot[s]
        /\ \A s \in 0 .. total : s < at \/ s >= at + n => disk'[s] = disk[s]
    BY ONLY Typed, <1>3, <2>1, <2>2, <2>3, Arrives
  <2>5. PICK second \in Nat : second = FatLocation + SectorsPerFat
    BY Layout
  <2>6. /\ FatLocation = 13 /\ second > 13 /\ second < at /\ at + n - 1 <= total
        /\ total \in Nat /\ n > 0
    BY <2>2, <2>3, <2>5, Layout, Sizes0
  <2>7. \A s \in 0 .. n - 1 : disk'[at + s] = Cell("zero")
    BY <2>1, <2>3, <2>4, <2>6
  <2>8. /\ disk'[FatLocation] = disk[FatLocation] /\ disk'[second] = disk[second]
        /\ \A s \in 0 .. 12 : disk'[s] = disk[s]
    BY <2>4, <2>6
  <2>9. /\ UNCHANGED <<Image, Cell("fat"), Cell("zero"), FatLocation, SectorsPerFat,
                       ClusterLocation>>
        /\ Closed' => Closed
    BY <1>1, SameImage DEF Closed
  <2>10. RootThere'
    BY <2>2, <2>3, <2>7, <2>9 DEF RootThere
  <2>11. Closed' => BootThere' /\ FirstTable' /\ SecondTable'
    BY <1>1, <2>5, <2>8, <2>9 DEF Built, BootThere, FirstTable, SecondTable
  <2> QED
    BY <1>3, <2>10, <2>11 DEF Built, Done
<1> QED
  BY <1>1, <1>2, <1>3

LEMMA NextBuilt == Typed /\ Keeps /\ Built /\ [Next]_vars => Built'
<1> SUFFICES ASSUME Typed, Keeps, Built, [Next]_vars PROVE Built'
  OBVIOUS
<1>1. ASSUME pc' \notin {"fat1", "fat2", "root", "unlock"}
      PROVE  Built'
  BY <1>1 DEF Built, Done
<1>2. CASE \/ SafetyCheck \/ Prepare \/ AnswerWord \/ CheckFails
           \/ FindVolume \/ SkipLetter \/ FindEnds
  BY <1>1, <1>2
     DEF SafetyCheck, Prepare, AnswerWord, CheckFails, GoTo, Fail, FindVolume, SkipLetter, FindEnds
<1>3. CASE LockVolume \/ DismountVolume \/ LockEnds \/ UnlockEnds \/ StartUtility \/ Exit
  BY <1>1, <1>3
     DEF LockVolume, DismountVolume, LockEnds, UnlockEnds, GoTo, StartUtility, Exit
<1>4. CASE LockFails
  <2>1. pc' = "unlock" /\ failedAt' # "nowhere"
    BY <1>4 DEF LockFails
  <2> QED
    BY <2>1 DEF Built, Done
<1>5. CASE UnlockVolume
  <2>1. pc' = "unlock" /\ index' # 1
    BY <1>5, TypedFacts, Sizes0 DEF UnlockVolume
  <2> QED
    BY <2>1 DEF Built, Done
<1>6. CASE Others
  <2>1. /\ UNCHANGED <<run, driveVars, found, index, pc, failedAt>>
    BY <1>6 DEF Others, OtherOpens, OtherCloses, OtherWrites
  <2>2. (Closed' <=> Closed) /\ (Done' <=> Done)
    BY <2>1, SameImage DEF Closed, Done
  <2>3. Closed => ~(pc \in Writes \/ Done)
    BY <1>6, Alone DEF Keeps
  <2> QED
    BY <2>1, <2>2, <2>3 DEF Built, Writes
<1>7. CASE UNCHANGED vars
  <2>1. /\ UNCHANGED <<run, driveVars, found, index, pc, failedAt, disk>>
    BY <1>7 DEF vars, driveVars
  <2>2. (Closed' <=> Closed) /\ (Done' <=> Done)
    BY <2>1, SameImage DEF Closed, Done
  <2>3. /\ BootThere' <=> BootThere
        /\ FirstTable' <=> FirstTable
        /\ SecondTable' <=> SecondTable
        /\ RootThere' <=> RootThere
    BY <2>1, SameImage DEF BootThere, FirstTable, SecondTable, RootThere
  <2> QED
    BY <2>1, <2>2, <2>3 DEF Built
<1> QED
  BY <1>2, <1>3, <1>4, <1>5, <1>6, <1>7, BootBuilt, FirstBuilt, SecondBuilt, RootBuilt
     DEF Next, Utility, User

LEMMA BuiltMeans == Typed /\ Built => BuiltIsWhole
<1> SUFFICES ASSUME Typed, Built, Done, Closed
             PROVE  Whole
  BY DEF BuiltIsWhole, Done, Closed
<1>1. BootThere /\ FirstTable /\ SecondTable /\ RootThere
  BY DEF Built
<1>2. DOMAIN Image = 0 .. 12 /\ DOMAIN EmptyRoot = 0 .. SectorsPerCluster - 1
  BY Buffers
<1> QED
  BY <1>1, <1>2 DEF Whole, BootThere, FirstTable, SecondTable, RootThere

(* A drive that was built is whole, all of it by the run that ends, if the *)
(* run found every volume of the drive: a region does not reach into the   *)
(* next one, and no other program writes (build, Format.cpp:164-186,       *)
(* clearStorage, FAT32.cpp:81-110).                                        *)
THEOREM DriveBuilt == Spec => []BuiltIsWhole
<1>1. Init => Typed /\ Keeps /\ Built
  <2>1. Init => Built
    BY DEF Init, Built, Done
  <2> QED
    BY <2>1, InitTyped, InitKeeps
<1>2. Typed /\ Keeps /\ Built /\ [Next]_vars => (Typed /\ Keeps /\ Built)'
  BY NextTyped, NextKeeps, NextBuilt
<1>3. Typed /\ Keeps /\ Built => BuiltIsWhole
  BY BuiltMeans
<1> QED
  BY <1>1, <1>2, <1>3, PTL DEF Spec

-----------------------------------------------------------------------------
(* Steps of a run. *)

(* How many steps the utility may still take before it waits for the key   *)
(* that ends it.                                                           *)
StepsLeft ==
  IF pc \in {"idle", "pause"} THEN 0
  ELSE IF pc = "unlock" THEN NumLetters + 2 - index
  ELSE IF pc = "root" THEN NumLetters + 2
  ELSE IF pc = "fat2" THEN NumLetters + 3
  ELSE IF pc = "fat1" THEN NumLetters + 4
  ELSE IF pc = "boot" THEN NumLetters + 5
  ELSE IF pc = "dismount" THEN 3 * NumLetters + 7 - 2 * index
  ELSE IF pc = "lock" THEN 3 * NumLetters + 8 - 2 * index
  ELSE IF pc = "find" THEN 4 * NumLetters + 8 - index
  ELSE IF pc = "prepare" THEN 4 * NumLetters + 8
  ELSE IF pc = "ask" THEN 4 * NumLetters + 9
  ELSE 4 * NumLetters + 10

StepsBounded ==
  /\ StepsLeft \in 0 .. 4 * NumLetters + 10
  /\ StepsLeft = 0 <=> pc \in {"idle", "pause"}

StepsCounted ==
  [][IF Utility THEN StepsLeft' < StepsLeft ELSE run' = run => StepsLeft' <= StepsLeft]_vars

LEMMA Counters ==
  ASSUME Typed
  PROVE  /\ NumLetters \in Nat /\ NumLetters > 0
         /\ Len(found) \in 0 .. NumLetters /\ index \in 1 .. NumLetters + 1
         /\ pc = "dismount" => index <= NumLetters
         /\ pc \in Places /\ run \in Nat
<1>1. Len(found) \in Nat /\ Len(found) <= NumLetters
  BY TypedFacts
<1>2. PICK len \in 0 .. NumLetters : len = Len(found)
  BY <1>1, Sizes0
<1>3. pc = "dismount" => index <= len
  BY <1>2, TypedFacts DEF Loops
<1> QED
  BY <1>2, <1>3, Sizes0, TypedFacts DEF Typed, TypeOK

LEMMA StepsAre == ASSUME Typed PROVE StepsBounded
<1>1. CASE pc \in {"idle", "pause"}
  BY <1>1, Counters DEF StepsBounded, StepsLeft
<1>2. CASE pc \notin {"idle", "pause"}
  <2>1. PICK n \in Nat : n = NumLetters /\ n > 0
    BY Counters
  <2>2. PICK i \in 1 .. n + 1 : i = index
    BY <2>1, Counters
  <2>3. \E k \in 1 .. 4 * n + 10 : StepsLeft = k
    <3>1. CASE pc = "unlock"
      BY <2>1, <2>2, <3>1 DEF StepsLeft
    <3>2. CASE pc = "dismount"
      <4>1. i <= n
        BY <2>1, <2>2, <3>2, Counters
      <4>2. StepsLeft = 3 * n + 7 - 2 * i
        BY <2>1, <2>2, <3>2 DEF StepsLeft
      <4>3. 3 * n + 7 - 2 * i \in 1 .. 4 * n + 10
        BY <2>1, <4>1
      <4> QED
        BY <4>2, <4>3
    <3>3. CASE pc = "lock"
      <4>1. StepsLeft = 3 * n + 8 - 2 * i
        BY <2>1, <2>2, <3>3 DEF StepsLeft
      <4>2. 3 * n + 8 - 2 * i \in 1 .. 4 * n + 10
        BY <2>1
      <4> QED
        BY <4>1, <4>2
    <3>4. CASE pc = "find"
      <4>1. StepsLeft = 4 * n + 8 - i
        BY <2>1, <2>2, <3>4 DEF StepsLeft
      <4>2. 4 * n + 8 - i \in 1 .. 4 * n + 10
        BY <2>1
      <4> QED
        BY <4>1, <4>2
    <3>5. CASE pc \in {"root", "fat2", "fat1", "boot"}
      <4>1. StepsLeft \in {n + 2, n + 3, n + 4, n + 5}
        BY <2>1, <3>5 DEF StepsLeft
      <4> QED
        BY <4>1
    <3>6. CASE pc \in {"prepare", "ask", "check"}
      <4>1. StepsLeft \in {4 * n + 8, 4 * n + 9, 4 * n + 10}
        BY <2>1, <3>6 DEF StepsLeft
      <4> QED
        BY <4>1
    <3> QED
      BY <1>2, <3>1, <3>2, <3>3, <3>4, <3>5, <3>6, Counters DEF Places
  <2>4. StepsLeft \in 0 .. 4 * NumLetters + 10 /\ StepsLeft # 0
    BY <2>1, <2>3
  <2> QED
    BY <1>2, <2>4 DEF StepsBounded
<1> QED
  BY <1>1, <1>2

LEMMA UtilitySteps == ASSUME Typed, Utility PROVE StepsLeft' < StepsLeft
<1> USE Counters
<1>1. CASE SafetyCheck
  BY <1>1 DEF SafetyCheck, GoTo, StepsLeft
<1>2. CASE Prepare
  BY <1>2 DEF Prepare, GoTo, StepsLeft
<1>3. CASE CheckFails
  BY <1>3 DEF CheckFails, Fail, StepsLeft
<1>4. CASE FindVolume
  BY <1>4 DEF FindVolume, StepsLeft
<1>5. CASE SkipLetter
  BY <1>5 DEF SkipLetter, StepsLeft
<1>6. CASE FindEnds
  BY <1>6 DEF FindEnds, StepsLeft
<1>7. CASE LockVolume
  BY <1>7 DEF LockVolume, StepsLeft
<1>8. CASE DismountVolume
  BY <1>8 DEF DismountVolume, StepsLeft
<1>9. CASE LockFails
  BY <1>9 DEF LockFails, StepsLeft
<1>10. CASE LockEnds
  BY <1>10 DEF LockEnds, GoTo, StepsLeft
<1>11. CASE WriteBoot
  BY <1>11 DEF WriteBoot, Write, StepsLeft
<1>12. CASE WriteFat1
  BY <1>12 DEF WriteFat1, Write, StepsLeft
<1>13. CASE WriteFat2
  BY <1>13 DEF WriteFat2, Write, StepsLeft
<1>14. CASE WriteRoot
  BY <1>14 DEF WriteRoot, Write, StepsLeft
<1>15. CASE UnlockVolume
  <2>1. PICK len \in 0 .. NumLetters : len = Len(found)
    OBVIOUS
  <2>2. index <= len
    BY <1>15, <2>1 DEF UnlockVolume
  <2> QED
    BY <1>15, <2>2 DEF UnlockVolume, StepsLeft
<1>16. CASE UnlockEnds
  BY <1>16 DEF UnlockEnds, GoTo, StepsLeft
<1> QED
  BY <1>1, <1>2, <1>3, <1>4, <1>5, <1>6, <1>7, <1>8, <1>9, <1>10, <1>11, <1>12, <1>13, <1>14,
     <1>15, <1>16 DEF Utility

LEMMA NeverMore ==
  ASSUME Typed, [Next]_vars, ~Utility, run' = run
  PROVE  StepsLeft' <= StepsLeft
<1>0. StepsLeft \in Nat
  BY Counters, StepsAre DEF StepsBounded
<1>1. CASE UNCHANGED vars
  BY <1>0, <1>1 DEF vars, StepsLeft
<1>2. CASE StartUtility
  BY <1>2, Counters DEF StartUtility
<1>3. CASE AnswerWord
  BY <1>3, Counters DEF AnswerWord, GoTo, Fail, StepsLeft
<1>4. CASE Exit
  BY <1>0, <1>4 DEF Exit, StepsLeft
<1>5. CASE Others
  <2>1. UNCHANGED <<pc, index>>
    BY <1>5 DEF Others, OtherOpens, OtherCloses, OtherWrites
  <2> QED
    BY <1>0, <2>1 DEF StepsLeft
<1> QED
  BY <1>1, <1>2, <1>3, <1>4, <1>5 DEF Next, User

(* A run that has begun takes no more than four steps for each letter and  *)
(* ten more: every step of the utility lowers what is left of it, and      *)
(* neither the user, who answers or closes it, nor another program, whose  *)
(* files keep volumes from being locked, puts it back                      *)
(* (build, Format.cpp:137-189, lockVolumes, DiskUtil.cpp:76-93).           *)
THEOREM RunsAreBounded == Spec => []StepsBounded /\ StepsCounted
<1>1. Spec => []Typed
  BY InitTyped, NextTyped, PTL DEF Spec
<1>2. Typed => StepsBounded
  BY StepsAre
<1>3. Typed /\ [Next]_vars =>
        [IF Utility THEN StepsLeft' < StepsLeft ELSE run' = run => StepsLeft' <= StepsLeft]_vars
  BY UtilitySteps, NeverMore
<1> QED
  BY <1>1, <1>2, <1>3, PTL DEF Spec, StepsCounted
=============================================================================
