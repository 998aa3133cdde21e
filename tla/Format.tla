------------------------------- MODULE Format -------------------------------
(***************************************************************************)
(* The media utility: it checks a drive for its signature, locks and       *)
(* dismounts the volumes of the drive, and writes boot code, file system   *)
(* header, the two tables and an empty root directory. Any call to Windows *)
(* may fail, a write behind any of its sectors; the user may close the     *)
(* window at any time and start the utility again; and other programs open *)
(* files on volumes that are not locked, and write to them.                *)
(*                                                                         *)
(* A sector of the drive is modelled by what it holds and by the run of    *)
(* the utility that wrote it.                                              *)
(***************************************************************************)
EXTENDS Integers, Sequences, SequencesExt, FiniteSets

CONSTANTS
  NumLetters,         \* drive letters, 26 in the code
  Sizes,              \* sizes of the partition in sectors, 8388608 in the code
  SectorsPerCluster,  \* 4 in the code
  EntriesPerSector,   \* entries of a sector of the table, 128 in the code
  MaxRuns             \* bound: how often the user starts the utility

ASSUME FormatAssumption ==
  /\ NumLetters \in Nat \ {0}
  /\ SectorsPerCluster \in Nat \ {0}
  /\ EntriesPerSector \in Nat \ {0}
  /\ SectorsPerCluster <= 12 + 2   \* fewer than lie before the clusters
  /\ Sizes \subseteq Nat
  /\ \A size \in Sizes :   \* boot code, tables and root directory fit
       12 + 2 * ((size \div SectorsPerCluster) \div EntriesPerSector + 1) + SectorsPerCluster <= size
  /\ MaxRuns \in Nat

Letters == 1 .. NumLetters

VARIABLES
  total,     \* sectors of the partition, which begins at sector 1
  device,    \* the drive each letter is on, if any
  disk,      \* the sectors of the drive
  volume,    \* "mounted", "locked" or locked and "dismounted"
  files,     \* the volumes other programs have files open on
  found,     \* driveLetters and volumeHandles
  index,     \* of the loops over letters and over volumes
  pc,
  failedAt,  \* the place where the run failed, "nowhere" if it did not
  run        \* how often the utility was started

driveVars == <<total, device>>
vars == <<total, device, disk, volume, files, found, index, pc, failedAt, run>>

OnDrive == {v \in Letters : device[v] = "drive"}

-----------------------------------------------------------------------------
(* setPartitionSize: the regions of the drive. *)

ReservedSectors == 12
FatLocation == 1 + ReservedSectors

(* Mutant of SectorsPerFat: the last sector is not counted. *)
SectorsPerFatDown == (total \div SectorsPerCluster) \div EntriesPerSector

SectorsPerFat == (total \div SectorsPerCluster) \div EntriesPerSector + 1

ClusterLocation == FatLocation + 2 * SectorsPerFat

-----------------------------------------------------------------------------
(* What build prepares in memory, 13 sectors: boot record with signature   *)
(* and partition, header, FSInfo, a sector with the boot signature only,   *)
(* and a copy of these three at sector 7.                                  *)
Cell(what) == [what |-> what, run |-> run]
File == [what |-> "file", run |-> 0]

(* Mutant of BootRecord: the signature is forgotten. *)
BootRecordPlain == Cell("zero")

BootRecord == Cell("signed")

FileSystem == <<Cell("header"), Cell("fsinfo"), Cell("end")>>

Image ==
  [s \in 0 .. ReservedSectors |->
     CASE s = 0 -> BootRecord
       [] s \in 1 .. 3 -> FileSystem[s]
       [] s \in 7 .. 9 -> FileSystem[s - 6]
       [] OTHER -> Cell("zero")]

FatStart == [s \in {0} |-> Cell("fat")]
EmptyRoot == [s \in 0 .. SectorsPerCluster - 1 |-> Cell("zero")]

Signed == disk[0].what = "signed"

Init ==
  /\ total \in Sizes
  /\ device \in [Letters -> {"none", "other", "drive"}]
  /\ \E first \in {"signed", "file"} :
       disk = [s \in 0 .. total |-> IF s = 0 THEN [what |-> first, run |-> 0] ELSE File]
  /\ volume = [v \in Letters |-> "mounted"]
  /\ files = {}
  /\ found = <<>>
  /\ index = 1
  /\ pc = "idle"
  /\ failedAt = "nowhere"
  /\ run = 0

-----------------------------------------------------------------------------
(* The user starts the utility. *)
StartUtility ==
  /\ pc = "idle"
  /\ run < MaxRuns
  /\ run' = run + 1
  /\ found' = <<>> /\ index' = 1 /\ failedAt' = "nowhere"
  /\ pc' = "check"
  /\ UNCHANGED <<driveVars, disk, volume, files>>

GoTo(place) ==
  /\ pc' = place
  /\ UNCHANGED <<driveVars, disk, volume, files, found, index, failedAt, run>>

(* The run fails: main prints so and waits for a key. *)
Fail ==
  /\ failedAt' = pc
  /\ pc' = "pause"
  /\ UNCHANGED <<driveVars, disk, volume, files, found, index, run>>

(* safetyCheck reads the boot record; without the signature the user is    *)
(* asked for a word.                                                       *)
SafetyCheck == pc = "check" /\ GoTo(IF Signed THEN "prepare" ELSE "ask")

AnswerWord == pc = "ask" /\ (GoTo("prepare") \/ Fail)

(* setDriveInformation and readBootLoader; the sectors are put together.   *)
Prepare == pc = "prepare" /\ GoTo("find")

CheckFails == pc \in {"check", "prepare"} /\ Fail

-----------------------------------------------------------------------------
(* findVolumes *)

FindVolume ==
  /\ pc = "find" /\ index <= NumLetters
  /\ device[index] = "drive"
  /\ found' = Append(found, index)
  /\ index' = index + 1
  /\ UNCHANGED <<driveVars, disk, volume, files, pc, failedAt, run>>

(* The letter is on no drive or another one, or it does not open, or       *)
(* its drive cannot be found out.                                          *)
SkipLetter ==
  /\ pc = "find" /\ index <= NumLetters
  /\ index' = index + 1
  /\ UNCHANGED <<driveVars, disk, volume, files, found, pc, failedAt, run>>

FindEnds ==
  /\ pc = "find" /\ index > NumLetters
  /\ index' = 1
  /\ pc' = "lock"
  /\ UNCHANGED <<driveVars, disk, volume, files, found, failedAt, run>>

-----------------------------------------------------------------------------
(* lockVolumes: a volume with open files cannot be locked. *)

LockVolume ==
  /\ pc = "lock" /\ index <= Len(found)
  /\ found[index] \notin files
  /\ volume' = [volume EXCEPT ![found[index]] = "locked"]
  /\ pc' = "dismount"
  /\ UNCHANGED <<driveVars, disk, files, found, index, failedAt, run>>

DismountVolume ==
  /\ pc = "dismount"
  /\ volume' = [volume EXCEPT ![found[index]] = "dismounted"]
  /\ index' = index + 1
  /\ pc' = "lock"
  /\ UNCHANGED <<driveVars, disk, files, found, failedAt, run>>

(* Mutant of LockFails: no volume is unlocked. *)
LockFailsLocked ==
  /\ pc \in {"lock", "dismount"} /\ index <= Len(found)
  /\ Fail

LockFails ==
  /\ pc \in {"lock", "dismount"} /\ index <= Len(found)
  /\ failedAt' = pc
  /\ index' = 1
  /\ pc' = "unlock"
  /\ UNCHANGED <<driveVars, disk, volume, files, found, run>>

(* Mutant of LockEnds: only the first volume is locked. *)
LockEndsEarly == pc = "lock" /\ index > 1 /\ GoTo("boot")

LockEnds == pc = "lock" /\ index > Len(found) /\ GoTo("boot")

-----------------------------------------------------------------------------
(* writePhysicalDrive: n sectors of the buffer arrive from a sector on.    *)
Written(first, buffer, n) ==
  [s \in DOMAIN disk |->
     IF s - first \in DOMAIN buffer /\ s - first < n THEN buffer[s - first] ELSE disk[s]]

(* The write at place succeeds and build goes on at next, or it fails      *)
(* behind any of its sectors, and build returns with the volumes locked.   *)
Write(place, first, buffer, next) ==
  /\ pc = place
  /\ \/ /\ disk' = Written(first, buffer, Cardinality(DOMAIN buffer))
        /\ pc' = next
        /\ UNCHANGED failedAt
     \/ \E n \in 0 .. Cardinality(DOMAIN buffer) :
          /\ disk' = Written(first, buffer, n)
          /\ pc' = "pause"
          /\ failedAt' = place
  /\ index' = 1
  /\ UNCHANGED <<driveVars, volume, files, found, run>>

WriteBoot == Write("boot", 0, Image, "fat1")
WriteFat1 == Write("fat1", FatLocation, FatStart, "fat2")
WriteFat2 == Write("fat2", FatLocation + SectorsPerFat, FatStart, "root")
WriteRoot == Write("root", ClusterLocation, EmptyRoot, "unlock")

-----------------------------------------------------------------------------
(* unlockVolumes closes the handles. Windows mounts a volume again.        *)
UnlockVolume ==
  /\ pc = "unlock" /\ index <= Len(found)
  /\ volume' = [volume EXCEPT ![found[index]] = "mounted"]
  /\ index' = index + 1
  /\ UNCHANGED <<driveVars, disk, files, found, pc, failedAt, run>>

UnlockEnds == pc = "unlock" /\ index > Len(found) /\ GoTo("pause")

(* A key is pressed, or the window closed: with the process all its        *)
(* handles go.                                                             *)
Exit ==
  /\ pc # "idle"
  /\ pc' = "idle"
  /\ volume' = [v \in Letters |-> "mounted"]
  /\ UNCHANGED <<driveVars, disk, files, found, index, failedAt, run>>

-----------------------------------------------------------------------------
(* Other programs use the volumes. *)
OtherOpens(v) ==
  /\ v \in OnDrive /\ volume[v] = "mounted" /\ v \notin files
  /\ files' = files \cup {v}
  /\ UNCHANGED <<driveVars, disk, volume, found, index, pc, failedAt, run>>

OtherCloses(v) ==
  /\ v \in files
  /\ files' = files \ {v}
  /\ UNCHANGED <<driveVars, disk, volume, found, index, pc, failedAt, run>>

OtherWrites(v) ==
  /\ v \in files
  /\ \E s \in {FatLocation, ClusterLocation} : disk' = [disk EXCEPT ![s] = File]
  /\ UNCHANGED <<driveVars, volume, files, found, index, pc, failedAt, run>>

Utility ==
  \/ SafetyCheck \/ Prepare \/ CheckFails
  \/ FindVolume \/ SkipLetter \/ FindEnds
  \/ LockVolume \/ DismountVolume \/ LockFails \/ LockEnds
  \/ WriteBoot \/ WriteFat1 \/ WriteFat2 \/ WriteRoot
  \/ UnlockVolume \/ UnlockEnds

User == StartUtility \/ AnswerWord \/ Exit

Others == \E v \in Letters : OtherOpens(v) \/ OtherCloses(v) \/ OtherWrites(v)

Next == Utility \/ User \/ Others

Spec == Init /\ [][Next]_vars

-----------------------------------------------------------------------------
Places ==
  {"idle", "check", "ask", "prepare", "find", "lock", "dismount",
   "boot", "fat1", "fat2", "root", "unlock", "pause"}

Writes == {"boot", "fat1", "fat2", "root"}

(* Type invariant of the utility: its handles are those of volumes of the  *)
(* drive, and no sector is newer than the run.                             *)
TypeOK ==
  /\ total \in Sizes
  /\ device \in [Letters -> {"none", "other", "drive"}]
  /\ disk \in [0 .. total ->
                 [what : {"signed", "header", "fsinfo", "end", "fat", "zero", "file"},
                  run : 0 .. run]]
  /\ volume \in [Letters -> {"mounted", "locked", "dismounted"}]
  /\ files \subseteq OnDrive
  /\ found \in Seq(OnDrive) /\ Len(found) <= NumLetters
  /\ index \in 1 .. NumLetters + 1
  /\ pc \in Places
  /\ failedAt \in Places \cup {"nowhere"}
  /\ run \in 0 .. MaxRuns

(* A drive without the signature is untouched: however far a run got       *)
(* before it failed or was closed, the next one knows the drive again and  *)
(* does not take it for one with somebody else's data                      *)
(* (build, Format.cpp:175-183, safetyCheck, Format.cpp:119-133).           *)
UnsignedUntouched == ~Signed => \A s \in DOMAIN disk : disk[s].run = 0

(* What the kernel and the boot loader find on a drive that was built.     *)
Whole ==
  /\ \A s \in DOMAIN Image : disk[s] = Image[s]
  /\ \A s \in {FatLocation, FatLocation + SectorsPerFat} : disk[s] = Cell("fat")
  /\ \A s \in DOMAIN EmptyRoot : disk[ClusterLocation + s] = Cell("zero")

(* When build has succeeded and lets go of the volumes, the drive is whole *)
(* and all of this run: no region was written over by another one, nor by  *)
(* a program that had a file open, if every volume of the drive was found  *)
(* (build, Format.cpp:164-186, clearStorage, FAT32.cpp:81-110).            *)
BuiltIsWhole ==
  pc = "unlock" /\ index = 1 /\ failedAt = "nowhere" /\ OnDrive \subseteq ToSet(found) => Whole

(* Once build has returned, unless a write failed, no volume stays locked: *)
(* also when the second of two volumes could not be locked                 *)
(* (unlockVolumes, DiskUtil.cpp:95-100, Format.cpp:170-186).               *)
Released ==
  pc = "pause" /\ failedAt \notin Writes => \A v \in Letters : volume[v] = "mounted"

(* Every cluster of the partition has its entry in the table: as the       *)
(* kernel finds clusters (filesys.c:135-137) and entries (filesys.c:162).  *)
FatCoversPartition ==
  \A c \in 2 .. total :
    ClusterLocation + (c - 2) * SectorsPerCluster + SectorsPerCluster - 1 <= total
      => c \div EntriesPerSector < SectorsPerFat
=============================================================================
