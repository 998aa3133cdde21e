------------------------------ MODULE FileSys ------------------------------
(***************************************************************************)
(* The read-only FAT32 driver and the three shell commands that use it:    *)
(* loadFileSystem at boot, then cd (changeDirCMD), cat (printFileCMD) and  *)
(* ls (listFiles), one after the other.                                    *)
(*                                                                         *)
(* The driver reads every cluster into the one ClusterBuffer, sector by    *)
(* sector, and every sector of the file allocation table into the one      *)
(* FATBuffer. A read can fail after any number of sectors, so ClusterBuffer *)
(* is modelled by the cluster each of its sectors was read from. A record  *)
(* of a directory is the file it names: its long-name records belong to    *)
(* it, and names are compared as wholes. Sizes count sectors.              *)
(***************************************************************************)
EXTENDS Integers, Sequences, SequencesExt, FiniteSetsExt

CONSTANTS
  FatSectors,         \* sectors of the file allocation table
  FatEntries,         \* file allocation table: the entry of every cluster
  EntriesPerSector,   \* entries of a FAT sector, 128 in the code
  Directory,          \* the records of every directory cluster
  Root,               \* first cluster of the root directory
  SectorsPerCluster,
  RecordsPerSector,   \* 16 in the code
  MaxChain,           \* clusters of a file that are followed, 8 in the code
  DriveFails,         \* may a read fail?
  MaxDepth            \* bound: names on sysPath before the user stops using cd

EOC == 268435455      \* 0x0FFFFFFF
Clusters == 0 .. FatSectors * EntriesPerSector - 1
RecordsPerCluster == SectorsPerCluster * RecordsPerSector

(* Every chain that ends, ends with 0x0FFFFFFF, the mark the code and the  *)
(* media utility use. FAT32 knows others, from 0x0FFFFFF8 on, which        *)
(* traverseFAT takes for the number of a cluster.                          *)
ASSUME FileSysAssumption ==
  /\ EntriesPerSector \in Nat \ {0}
  /\ SectorsPerCluster \in Nat \ {0}
  /\ RecordsPerSector \in Nat \ {0}
  /\ MaxChain \in Nat \ {0, 1}
  /\ MaxDepth \in Nat
  /\ DriveFails \in BOOLEAN
  /\ FatSectors \in Nat \ {0}
  /\ EOC \notin Clusters
  /\ FatEntries \in [Clusters -> Clusters \cup {EOC}]
  /\ Root \in Clusters

(* A disk without errors of its own: the records of a directory name       *)
(* clusters that exist, those of a directory in it clusters of records (0  *)
(* stands for the root), and a chain that begins in a directory stays in   *)
(* directories.                                                            *)
IsRecord(r) ==
  r.kind \in {"file", "dir", "deleted", "end"} /\ r.cluster \in Clusters /\ r.size \in Nat

ASSUME DiskAssumption ==
  /\ DOMAIN Directory \subseteq Clusters
  /\ Root \in DOMAIN Directory
  /\ \A c \in DOMAIN Directory :
       /\ DOMAIN Directory[c] = 1 .. RecordsPerCluster
       /\ FatEntries[c] \in DOMAIN Directory \cup {EOC}
       /\ \A i \in 1 .. RecordsPerCluster :
            /\ IsRecord(Directory[c][i])
            /\ Directory[c][i].kind = "dir" => Directory[c][i].cluster \in DOMAIN Directory \cup {0}

VARIABLES
  FATSecIdx, FATBuffer,          \* the cached FAT sector
  ClusterSecIdx, ClusterBuffer,  \* the cached cluster
  dirChain,                      \* currentDir.clusters as far as it is filled
  dirClusterIndex,
  sysPath,
  mounted,                       \* has readHeader filled fileSys?
  pc,
  cmd,                           \* the command: its operation and its name
  chain,                         \* the clusters traverseFAT has filled
  followed,                      \* did that traverseFAT succeed?
  file,                          \* the record findFile returns
  recordOffset,                  \* in records
  index,                         \* printFile's i
  printed,                       \* what the command has printed
  opened                         \* history: the directory opened last

fatVars == <<FATSecIdx, FATBuffer>>
bufVars == <<ClusterSecIdx, ClusterBuffer>>
dirVars == <<dirChain, dirClusterIndex, sysPath, mounted, opened>>
cmdVars == <<cmd, chain, followed, file, recordOffset, index, printed>>
vars == <<fatVars, bufVars, dirVars, cmdVars, pc>>

(* The contents of memory no one has written. *)
Zeroed == -1

NoFile == [kind |-> "end", name |-> "", cluster |-> 0, size |-> 0]

Init ==
  /\ FATSecIdx = -1
  /\ FATBuffer = [i \in 0 .. EntriesPerSector - 1 |-> 0]
  /\ ClusterSecIdx = -1
  /\ ClusterBuffer = [s \in 0 .. SectorsPerCluster - 1 |-> Zeroed]
  /\ dirChain = <<>>
  /\ dirClusterIndex = -1
  /\ sysPath = <<>>
  /\ mounted = FALSE
  /\ pc = "boot"
  /\ cmd = [op |-> "boot", name |-> ""]
  /\ chain = <<>>
  /\ followed = FALSE
  /\ file = NoFile
  /\ recordOffset = 0
  /\ index = 0
  /\ printed = <<>>
  /\ opened = Root

-----------------------------------------------------------------------------
(* load_Cluster: n sectors of the cluster arrive. All of them arrive, or   *)
(* an error ends the read behind the first n. Without a header the code    *)
(* asks for no sector at all, and succeeds.                                *)
Wanted == IF mounted THEN SectorsPerCluster ELSE 0

Arriving == IF DriveFails THEN 0 .. Wanted ELSE {Wanted}

load_Cluster(cluster, n) ==
  /\ ClusterBuffer' = [s \in DOMAIN ClusterBuffer |->
                         IF s < n THEN cluster ELSE ClusterBuffer[s]]
  /\ ClusterSecIdx' = IF n = Wanted THEN cluster ELSE ClusterSecIdx

(* load_FATSect, when the entry is on another sector than the cached one.  *)
(* A read of a single sector brings all of it or nothing.                  *)
FatSector(sector) ==
  [i \in 0 .. EntriesPerSector - 1 |-> FatEntries[sector * EntriesPerSector + i]]

(* Mutant of load_FATSect: a sector that is cached is never replaced. *)
load_FATSectOnce(sector) ==
  IF FATSecIdx # -1 THEN UNCHANGED fatVars
  ELSE FATBuffer' = FatSector(sector) /\ FATSecIdx' = sector

load_FATSect(sector) ==
  IF sector = FATSecIdx THEN UNCHANGED fatVars
  ELSE FATBuffer' = FatSector(sector) /\ FATSecIdx' = sector

-----------------------------------------------------------------------------
(* traverseFAT *)

(* Mutant of Follows: one cluster fewer. *)
FollowsLess == Len(chain) < MaxChain - 1 /\ Last(chain) # EOC

Follows == Len(chain) < MaxChain /\ Last(chain) # EOC

(* One round of its loop. *)
NextCluster ==
  /\ pc = "traverse"
  /\ Follows
  /\ load_FATSect(Last(chain) \div EntriesPerSector)
  /\ chain' = Append(chain, FATBuffer'[Last(chain) % EntriesPerSector])
  /\ UNCHANGED <<bufVars, dirVars, cmd, followed, file, recordOffset, index, printed, pc>>

(* Back in the caller: loadFileSystem opens the root directory if all went *)
(* well, findFile returns 0 in either case.                                *)
TraverseReturns(ok) ==
  /\ followed' = ok
  /\ IF cmd.op = "boot"
     THEN dirChain' = chain /\ pc' = IF ok THEN "open" ELSE "ready"
     ELSE UNCHANGED dirChain /\ pc' = "found"
  /\ UNCHANGED <<fatVars, bufVars, dirClusterIndex, sysPath, mounted, opened,
                 cmd, chain, file, recordOffset, index, printed>>

ChainEnds == pc = "traverse" /\ ~Follows /\ TraverseReturns(TRUE)

FatReadFails ==
  /\ pc = "traverse"
  /\ Follows
  /\ DriveFails
  /\ Last(chain) \div EntriesPerSector # FATSecIdx
  /\ TraverseReturns(FALSE)

-----------------------------------------------------------------------------
(* loadFileSystem: the drive is not there, or its header cannot be read... *)
BootFails ==
  /\ pc = "boot"
  /\ DriveFails
  /\ pc' = "ready"
  /\ UNCHANGED <<fatVars, bufVars, dirVars, cmdVars>>

(* ... or the header is read and the root directory followed.              *)
ReadHeader ==
  /\ pc = "boot"
  /\ mounted' = TRUE
  /\ chain' = <<Root>>
  /\ pc' = "traverse"
  /\ UNCHANGED <<fatVars, bufVars, dirChain, dirClusterIndex, sysPath, opened,
                 cmd, followed, file, recordOffset, index, printed>>

-----------------------------------------------------------------------------
(* The user enters a command. *)
Start(op, name) ==
  /\ pc = "ready"
  /\ op = "cd" => Len(sysPath) < MaxDepth
  /\ cmd' = [op |-> op, name |-> name]
  /\ printed' = <<>>
  /\ file' = NoFile
  /\ recordOffset' = 0
  /\ chain' = <<>> /\ followed' = FALSE /\ index' = 0
  /\ pc' = "first"
  /\ UNCHANGED <<fatVars, bufVars, dirVars>>

(* What may stand in an entry of currentDir.clusters: the array is zero    *)
(* where traverseFAT did not fill it, and behind its end there is whatever *)
(* the linker has put there.                                               *)
DirClusters(i) ==
  IF i + 1 \in 1 .. Len(dirChain) THEN {dirChain[i + 1]}
  ELSE IF i < MaxChain THEN {0}
  ELSE Clusters \cup {EOC}

(* findFile and listFiles: the first cluster of currentDir is read unless  *)
(* dirClusterIndex says that the buffer holds it.                          *)
KeepCluster ==
  /\ pc = "first"
  /\ dirClusterIndex = 0
  /\ pc' = "scan"
  /\ UNCHANGED <<fatVars, bufVars, dirVars, cmdVars>>

LoadFirstCluster ==
  /\ pc = "first"
  /\ dirClusterIndex # 0
  /\ \E cluster \in DirClusters(0), n \in Arriving :
       /\ load_Cluster(cluster, n)
       /\ pc' = IF n = Wanted THEN "scan" ELSE "ready"
  /\ UNCHANGED <<fatVars, dirVars, cmdVars>>

(* The record at an offset of the buffer. *)
Record(i) ==
  LET cluster == ClusterBuffer[i \div RecordsPerSector]
  IN  IF cluster \in DOMAIN Directory THEN Directory[cluster][i + 1] ELSE NoFile

(* Mutant of InBuffer: the last record does not count. *)
InBufferShort == recordOffset < RecordsPerCluster - 1

InBuffer == recordOffset < RecordsPerCluster
Here == Record(recordOffset)
(* Mutant of Matches: only directories are found. *)
MatchesDirectory == cmd.op # "ls" /\ Here.kind = "dir" /\ Here.name = cmd.name

Matches == cmd.op # "ls" /\ Here.kind \in {"file", "dir"} /\ Here.name = cmd.name

(* A record whose first byte is zero ends the directory. *)
ScanEnds ==
  /\ pc = "scan"
  /\ InBuffer
  /\ Here.kind = "end"
  /\ pc' = "ready"
  /\ UNCHANGED <<fatVars, bufVars, dirVars, cmdVars>>

(* Mutant of ScanRecord: a deleted record is not passed over. *)
ScanRecordStuck ==
  /\ pc = "scan"
  /\ InBuffer
  /\ Here.kind # "end"
  /\ ~Matches
  /\ recordOffset' = IF Here.kind = "deleted" THEN recordOffset ELSE recordOffset + 1
  /\ pc' = IF recordOffset' = RecordsPerCluster THEN "next" ELSE "scan"
  /\ UNCHANGED <<fatVars, bufVars, dirVars, cmd, chain, followed, file, index, printed>>

(* A deleted record, or one findFile does not look for, is passed over;    *)
(* listFiles prints the name.                                              *)
ScanRecord ==
  /\ pc = "scan"
  /\ InBuffer
  /\ Here.kind # "end"
  /\ ~Matches
  /\ printed' = IF cmd.op = "ls" /\ Here.kind # "deleted"
                THEN Append(printed, Here.name) ELSE printed
  /\ recordOffset' = recordOffset + 1
  /\ pc' = IF recordOffset' = RecordsPerCluster THEN "next" ELSE "scan"
  /\ UNCHANGED <<fatVars, bufVars, dirVars, cmd, chain, followed, file, index>>

(* findFile's match: cluster 0 stands for the root directory. *)
StartFile(record) ==
  /\ file' = record
  /\ chain' = <<IF record.cluster = 0 THEN Root ELSE record.cluster>>
  /\ pc' = "traverse"
  /\ UNCHANGED <<fatVars, bufVars, dirVars, cmd, followed, recordOffset, index, printed>>

ScanMatches ==
  /\ pc = "scan"
  /\ InBuffer
  /\ Matches
  /\ StartFile(Here)

(* Mutant of NextClusters: the end of the array is not tested. *)
NextClustersUnbounded == DirClusters(dirClusterIndex + 1)

(* Behind the last record of a cluster the next cluster of currentDir is   *)
(* read, while recordOffset stays where it is.                             *)
NextClusters ==
  IF dirClusterIndex = MaxChain THEN {EOC} ELSE DirClusters(dirClusterIndex + 1)

LoadNextCluster ==
  /\ pc = "next"
  /\ \E cluster \in NextClusters \ {EOC}, n \in Arriving :
       /\ load_Cluster(cluster, n)
       /\ IF n = Wanted
          THEN dirClusterIndex' = dirClusterIndex + 1 /\ pc' = "scan"
          ELSE UNCHANGED dirClusterIndex /\ pc' = "ready"
  /\ UNCHANGED <<fatVars, dirChain, sysPath, mounted, opened, cmdVars>>

NoNextCluster ==
  /\ pc = "next"
  /\ EOC \in NextClusters
  /\ pc' = "ready"
  /\ UNCHANGED <<fatVars, bufVars, dirVars, cmdVars>>

(* What the code takes for records behind ClusterBuffer is sysPath and the *)
(* zeros after it. An empty sysPath ends the scan; another one is printed  *)
(* by listFiles, or found by findFile if it is what the user looks for, as *)
(* an empty file with cluster 0.                                           *)
PathRecord == [kind |-> "file", name |-> "path", cluster |-> 0, size |-> 0]

ScanOutside ==
  /\ pc = "scan"
  /\ ~InBuffer
  /\ printed' = IF cmd.op = "ls" /\ sysPath # <<>>
                THEN Append(printed, PathRecord.name) ELSE printed
  /\ pc' = "ready"
  /\ UNCHANGED <<fatVars, bufVars, dirVars, cmd, chain, followed, file, recordOffset, index>>

FindOutside ==
  /\ pc = "scan"
  /\ ~InBuffer
  /\ cmd.name = PathRecord.name
  /\ sysPath # <<>>
  /\ StartFile(PathRecord)

-----------------------------------------------------------------------------
(* changeDirCMD and printFileCMD with the file that was found. *)

WrongKind ==
  /\ pc = "found"
  /\ (cmd.op = "cd") # (file.kind = "dir")
  /\ pc' = "ready"
  /\ UNCHANGED <<fatVars, bufVars, dirVars, cmdVars>>

OpenFound ==
  /\ pc = "found"
  /\ cmd.op = "cd" /\ file.kind = "dir"
  /\ pc' = "open"
  /\ UNCHANGED <<fatVars, bufVars, dirVars, cmdVars>>

(* Mutant of NewPath: "." removes a name, as ".." does. *)
NewPathDot ==
  IF cmd.op = "boot" THEN sysPath
  ELSE IF cmd.name \in {".", ".."} THEN (IF sysPath = <<>> THEN <<>> ELSE Front(sysPath))
  ELSE Append(sysPath, cmd.name)

(* The system path after a change of directory: addPath, delPath or neither. *)
NewPath ==
  IF cmd.op = "boot" \/ cmd.name = "." THEN sysPath
  ELSE IF cmd.name = ".." THEN (IF sysPath = <<>> THEN <<>> ELSE Front(sysPath))
  ELSE Append(sysPath, cmd.name)

(* openDirectory reads the first cluster of the directory; the clusters of *)
(* currentDir are not replaced.                                            *)
OpenDirectory ==
  /\ pc = "open"
  /\ \E n \in Arriving :
       /\ load_Cluster(chain[1], n)
       /\ IF n = Wanted
          THEN dirClusterIndex' = 0 /\ sysPath' = NewPath /\ opened' = chain[1]
          ELSE UNCHANGED <<dirClusterIndex, sysPath, opened>>
  /\ pc' = "ready"
  /\ UNCHANGED <<fatVars, dirChain, mounted, cmdVars>>

(* Mutant of StartPrint: dirClusterIndex keeps saying that the buffer holds *)
(* the directory.                                                          *)
StartPrintKeeps ==
  /\ pc = "found"
  /\ cmd.op = "cat" /\ file.kind = "file"
  /\ index' = 0
  /\ pc' = "print"
  /\ UNCHANGED <<fatVars, bufVars, dirVars, cmd, chain, followed, file, recordOffset, printed>>

StartPrint ==
  /\ pc = "found"
  /\ cmd.op = "cat" /\ file.kind = "file"
  /\ dirClusterIndex' = -1
  /\ index' = 0
  /\ pc' = "print"
  /\ UNCHANGED <<fatVars, bufVars, dirChain, sysPath, mounted, opened,
                 cmd, chain, followed, file, recordOffset, printed>>

(* The entries of file.clusters that printFile may read: where traverseFAT *)
(* did not get to, the array on the caller's stack is uninitialised.       *)
FileClusters(i) ==
  IF i < Len(chain) THEN {chain[i + 1]}
  ELSE Clusters \cup {EOC}

(* One round of printFile: whatever load_Cluster says, the buffer is       *)
(* printed as far as the size of the file goes.                            *)
PrintCluster ==
  /\ pc = "print"
  /\ index < MaxChain
  /\ \E cluster \in FileClusters(index) \ {EOC} : \E n \in Arriving :
       load_Cluster(cluster, n)
  /\ LET left == file.size - index * SectorsPerCluster
         shown == IF left > SectorsPerCluster THEN SectorsPerCluster ELSE left
     IN  printed' = printed \o [s \in 1 .. shown |-> <<ClusterBuffer'[s - 1], s - 1>>]
  /\ index' = index + 1
  /\ UNCHANGED <<fatVars, dirVars, cmd, chain, followed, file, recordOffset, pc>>

PrintEnds ==
  /\ pc = "print"
  /\ index = MaxChain \/ EOC \in FileClusters(index)
  /\ pc' = "ready"
  /\ UNCHANGED <<fatVars, bufVars, dirVars, cmdVars>>

Driver ==
  \/ BootFails \/ ReadHeader
  \/ NextCluster \/ ChainEnds \/ FatReadFails
  \/ KeepCluster \/ LoadFirstCluster
  \/ ScanEnds \/ ScanRecord \/ ScanMatches \/ ScanOutside \/ FindOutside
  \/ LoadNextCluster \/ NoNextCluster
  \/ WrongKind \/ OpenFound \/ OpenDirectory
  \/ StartPrint \/ PrintCluster \/ PrintEnds

(* The records of a directory cluster up to the one that ends it, without  *)
(* the deleted ones: where they are, and their names in order.             *)
LiveRecords(cluster) ==
  {i \in 1 .. RecordsPerCluster :
     /\ Directory[cluster][i].kind # "deleted"
     /\ \A j \in 1 .. i : Directory[cluster][j].kind # "end"}

UpTo(n, S) == {i \in S : i <= n}

NamesOf(cluster) ==
  LET live == LiveRecords(cluster)
      Nth(k) == CHOOSE i \in live : Cardinality(UpTo(i, live)) = k
  IN  [k \in 1 .. Cardinality(live) |-> Directory[cluster][Nth(k)].name]

(* The names the user may give: those on the disk, the system path itself, *)
(* and one that is nowhere.                                                *)
Names ==
  (UNION {{Directory[c][i].name : i \in LiveRecords(c)} : c \in DOMAIN Directory})
    \cup {PathRecord.name, "absent"}

User ==
  \/ Start("ls", "")
  \/ \E op \in {"cd", "cat"}, name \in Names : Start(op, name)

Next == Driver \/ User

Spec == Init /\ [][Next]_vars

(* A command runs to its end: there is nothing else the processor does.    *)
FairSpec == Spec /\ WF_vars(Driver)

-----------------------------------------------------------------------------
(* Type invariant of the file system driver. *)
TypeOK ==
  /\ FATSecIdx \in Nat \cup {-1}
  /\ FATBuffer \in [0 .. EntriesPerSector - 1 -> Clusters \cup {EOC}]
  /\ ClusterSecIdx \in Clusters \cup {-1}
  /\ ClusterBuffer \in [0 .. SectorsPerCluster - 1 -> Clusters \cup {Zeroed}]
  /\ dirChain \in Seq(Clusters \cup {EOC}) /\ Len(dirChain) <= MaxChain
  /\ dirClusterIndex \in -1 .. MaxChain
  /\ Len(sysPath) <= MaxDepth
  /\ mounted \in BOOLEAN /\ followed \in BOOLEAN
  /\ pc \in {"boot", "traverse", "ready", "first", "scan", "next", "found", "open", "print"}
  /\ cmd.op \in {"boot", "ls", "cd", "cat"}
  /\ chain \in Seq(Clusters \cup {EOC}) /\ Len(chain) <= MaxChain
  /\ recordOffset \in 0 .. RecordsPerCluster
  /\ index \in 0 .. MaxChain
  /\ opened \in Clusters

(* The FAT cache is coherent: FATBuffer is the sector FATSecIdx names, also *)
(* after a read that failed (load_FATSect, filesys.c:120-129).             *)
FatCacheCoherent == FATSecIdx # -1 => FATBuffer = FatSector(FATSecIdx)

(* Of the arrays that traverseFAT fills, only filled entries are read,     *)
(* although nothing but the end mark says how many there are: printFile    *)
(* stops in time if the chain of the file was followed, and so does the    *)
(* scan of the root, whose index grows from one command to the next, if    *)
(* the chain of the root was followed to its end                           *)
(* (printFile, filesys.c:274; findFile and listFiles, filesys.c:380, 473). *)
ReadsFilledEntries ==
  /\ pc = "print" /\ followed /\ index < MaxChain => index < Len(chain)
  /\ (/\ pc = "next"
      /\ dirChain # <<>> /\ Last(dirChain) = EOC
      /\ dirClusterIndex # MaxChain) => dirClusterIndex + 1 < Len(dirChain)

(* What traverseFAT fills in is the chain of the file allocation table,    *)
(* although only one sector of the table is in memory at a time and any    *)
(* read of it may fail (filesys.c:149-177).                                *)
ChainFollowsFAT ==
  \A i \in 1 .. Len(chain) - 1 :
    chain[i] \in Clusters /\ chain[i + 1] = FatEntries[chain[i]]

(* Once the root directory has been followed to its end, findFile and      *)
(* listFiles never take the contents of a file for records, as long as     *)
(* they stay inside ClusterBuffer: dirClusterIndex tells them in time that *)
(* printFile has used the buffer (filesys.c:273, 308, 415).                *)
ScansDirectory ==
  pc = "scan" /\ InBuffer /\ dirChain # <<>> /\ Last(dirChain) = EOC =>
    \A s \in DOMAIN ClusterBuffer : ClusterBuffer[s] \in DOMAIN Directory

Ended(op) == pc = "ready" /\ cmd.op = op

(* The contents of a file: its sectors along the file allocation table, as *)
(* far as its size, its chain and the limit of MaxChain clusters go.       *)
ChainOf(start) ==
  LET c[n \in 0 .. MaxChain] ==
        IF n = 0 THEN start
        ELSE IF c[n - 1] = EOC THEN EOC ELSE FatEntries[c[n - 1]]
  IN  c

Contents(record) ==
  LET c == ChainOf(IF record.cluster = 0 THEN Root ELSE record.cluster)
      clusters == Min({n \in 0 .. MaxChain : c[n] = EOC} \cup {MaxChain})
  IN  [i \in 1 .. Min({record.size, clusters * SectorsPerCluster}) |->
         <<c[(i - 1) \div SectorsPerCluster], (i - 1) % SectorsPerCluster>>]

(* cat prints the contents of the file, whose clusters may lie anywhere    *)
(* (printFile, filesys.c:269-279).                                         *)
PrintsFile == Ended("cat") /\ file.kind = "file" => printed = Contents(file)

(* ls prints every record of the directory in the buffer that is neither   *)
(* deleted nor behind the end, in order, also when the directory fills its *)
(* cluster to the last record (listFiles, filesys.c:402-490).              *)
ListsDirectory == Ended("ls") => printed = NamesOf(ClusterBuffer[0])

(* findFile returns the first record of that name in the directory it      *)
(* scans, and fails only if there is none (filesys.c:283-399).             *)
FindsFile ==
  pc = "found" \/ ((Ended("cd") \/ Ended("cat")) /\ file = NoFile) =>
    LET records == Directory[ClusterBuffer[0]]
        hits == {i \in LiveRecords(ClusterBuffer[0]) : records[i].name = cmd.name}
    IN  file = IF hits = {} THEN NoFile ELSE records[Min(hits)]

(* delPath is called only when sysPath has a name to remove: with an empty *)
(* sysPath its loop runs backwards out of the array (filesys.c:506-513).   *)
DelPathSafe == pc = "open" /\ cmd.name = ".." => sysPath # <<>>

(* Every command comes to its end, on a chain of clusters with a cycle and *)
(* with a drive that fails too: the shell gets back to its prompt.         *)
EveryCommandEnds == (pc # "ready") ~> (pc = "ready")

-----------------------------------------------------------------------------
(* What comments of the code say and a run refutes. *)

(* listFiles lists the files in the current directory (filesys.c:401): the *)
(* one that cd opened last.                                                *)
ListsCurrentDirectory == Ended("ls") => ClusterBuffer[0] = opened

=============================================================================
