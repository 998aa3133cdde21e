--------------------------- MODULE FileSysProofs ---------------------------
(***************************************************************************)
(* Theorems about FileSys, for disks of any size and shape that satisfy    *)
(* DiskAssumption, with reads that may fail at every sector.               *)
(***************************************************************************)
EXTENDS FileSys, FiniteSetTheorems, SequenceTheorems, WellFoundedInduction, TLAPS

Dirs == DOMAIN Directory

Complete == dirChain # <<>> /\ Last(dirChain) = EOC

AllDirs == \A s \in DOMAIN ClusterBuffer : ClusterBuffer[s] \in Dirs

(* The type invariant with what it rests on: the length of the path and    *)
(* the record that was found.                                              *)
Types ==
  /\ TypeOK
  /\ IsRecord(file)
  /\ sysPath \in Seq(Names)
  /\ cmd.op = "cd" => cmd.name \in Names
  /\ cmd.op = "cd" /\ pc # "ready" => Len(sysPath) < MaxDepth

(* Every chain begins at a cluster and follows the table, and the root's   *)
(* chain stays in directories.                                             *)
Chains ==
  /\ ChainFollowsFAT
  /\ pc \in {"traverse", "found", "open", "print"} => chain # <<>>
  /\ chain # <<>> => chain[1] \in Clusters
  /\ cmd.op = "boot" => \A i \in 1 .. Len(chain) : chain[i] \in Dirs \cup {EOC}
  /\ \A i \in 1 .. Len(dirChain) : dirChain[i] \in Dirs \cup {EOC}
  /\ dirChain # <<>> => dirChain[1] \in Clusters /\ mounted

(* Booting comes first: the root's chain is followed with a header and    *)
(* before any cluster is kept, and only commands scan directories.         *)
Phases ==
  /\ pc \in {"first", "scan", "next"} => cmd.op # "boot"
  /\ cmd.op = "boot" /\ pc \in {"boot", "traverse"} => dirClusterIndex = -1
  /\ cmd.op = "boot" /\ pc = "traverse" => mounted
  /\ pc = "open" => cmd.op \in {"boot", "cd"}

(* What dirClusterIndex promises of the buffer, and what upholds it: only  *)
(* directories are opened, and printFile says that it uses the buffer.     *)
Promise ==
  /\ pc \in {"traverse", "found", "open"} /\ file.kind = "dir" => chain[1] \in Dirs
  /\ pc = "open" => chain[1] \in Dirs
  /\ pc = "print" => dirClusterIndex = -1
  /\ Complete /\ dirClusterIndex >= 0 => AllDirs /\ dirClusterIndex <= Len(dirChain) - 2
  /\ Complete /\ pc \in {"scan", "next"} => AllDirs

IInv == Types /\ FatCacheCoherent /\ Chains /\ Phases /\ Promise

LEMMA Product ==
  ASSUME NEW a \in Nat, NEW b \in Nat, a > 0, b > 0
  PROVE  a * b \in Nat /\ a * b > 0
OBVIOUS

LEMMA TableSize ==
  /\ EntriesPerSector \in Nat /\ EntriesPerSector > 0
  /\ FatSectors \in Nat /\ FatSectors > 0
  /\ FatSectors * EntriesPerSector \in Nat /\ FatSectors * EntriesPerSector > 0
<1>1. /\ EntriesPerSector \in Nat /\ EntriesPerSector > 0
      /\ FatSectors \in Nat /\ FatSectors > 0
  BY FileSysAssumption DEF FileSysAssumption
<1> QED
  BY <1>1, Product

LEMMA Sizes ==
  /\ EntriesPerSector \in Nat /\ EntriesPerSector > 0
  /\ 0 \in Clusters
  /\ SectorsPerCluster \in Nat /\ SectorsPerCluster > 0
  /\ RecordsPerCluster \in Nat /\ RecordsPerCluster > 0
  /\ MaxChain \in Nat /\ MaxChain > 1 /\ MaxDepth \in Nat
<1>1. /\ EntriesPerSector \in Nat /\ EntriesPerSector > 0
      /\ SectorsPerCluster \in Nat /\ SectorsPerCluster > 0
      /\ RecordsPerSector \in Nat /\ RecordsPerSector > 0
      /\ MaxChain \in Nat /\ MaxChain > 1 /\ MaxDepth \in Nat
  BY FileSysAssumption DEF FileSysAssumption
<1>2. SectorsPerCluster * RecordsPerSector \in Nat /\ SectorsPerCluster * RecordsPerSector > 0
  BY <1>1, Product
<1>3. 0 \in Clusters
  BY TableSize DEF Clusters
<1> QED
  BY <1>1, <1>2, <1>3 DEF RecordsPerCluster

LEMMA Ranges ==
  /\ 0 \in 0 .. MaxChain /\ -1 \in -1 .. MaxChain /\ 0 <= MaxChain /\ 0 <= MaxDepth
  /\ 0 \in 0 .. RecordsPerCluster
BY Sizes

LEMMA Entries ==
  /\ EOC \notin Clusters
  /\ FatEntries \in [Clusters -> Clusters \cup {EOC}]
  /\ Root \in Clusters /\ Root \in Dirs /\ Dirs \subseteq Clusters
  /\ \A c \in Dirs : FatEntries[c] \in Dirs \cup {EOC}
BY FileSysAssumption, DiskAssumption DEF FileSysAssumption, DiskAssumption, Dirs

(* A sector and an offset in it name an entry of the table. *)
LEMMA Division ==
  ASSUME NEW c \in Nat, NEW e \in Nat, e > 0
  PROVE  \E q \in Nat, r \in 0 .. e - 1 : q = c \div e /\ r = c % e /\ q * e + r = c
<1>1. PICK q \in Int : q = c \div e
  OBVIOUS
<1>2. PICK r \in Int : r = c % e
  OBVIOUS
<1>3. c = q * e + r
  BY <1>1, <1>2
<1>4. r \in 0 .. e - 1
  BY <1>2
<1>5. q \in Nat
  BY <1>1
<1> QED
  BY <1>1, <1>2, <1>3, <1>4, <1>5

(* A sector with one entry inside the table lies inside it. *)
LEMMA SectorInside ==
  ASSUME NEW n \in Nat, NEW e \in Nat, NEW q \in Nat, NEW r \in 0 .. e - 1,
         q * e + r < n * e, NEW i \in 0 .. e - 1
  PROVE  q * e + i \in 0 .. n * e - 1
<1>1. PICK qe \in Nat : qe = q * e
  OBVIOUS
<1>2. PICK ne \in Nat : ne = n * e
  OBVIOUS
<1>3. q < n
  <2>1. ASSUME q >= n PROVE FALSE
    <3>1. PICK d \in Nat : q = n + d
      BY <2>1
    <3>2. q * e = n * e + d * e /\ d * e \in Nat
      BY <3>1
    <3> QED
      BY <1>1, <1>2, <3>2
  <2> QED
    BY <2>1
<1>4. PICK d \in Nat : n = q + 1 + d
  BY <1>3
<1>5. n * e = q * e + e + d * e /\ d * e \in Nat
  BY <1>4
<1>6. PICK de \in Nat : ne = qe + e + de
  BY <1>1, <1>2, <1>5
<1>7. qe + i \in 0 .. ne - 1
  BY <1>6
<1> QED
  BY <1>1, <1>2, <1>7

LEMMA FatLookup ==
  ASSUME NEW c \in Clusters
  PROVE  LET sector == c \div EntriesPerSector
         IN  /\ sector \in Nat
             /\ FatSector(sector) \in [0 .. EntriesPerSector - 1 -> Clusters \cup {EOC}]
             /\ FatSector(sector)[c % EntriesPerSector] = FatEntries[c]
<1> DEFINE e == EntriesPerSector
<1>1. c \in Nat /\ c < FatSectors * e /\ e \in Nat /\ e > 0
  BY TableSize DEF Clusters
<1>2. PICK q \in Nat, r \in 0 .. e - 1 :
        q = c \div EntriesPerSector /\ r = c % EntriesPerSector /\ q * e + r = c
  BY <1>1, Division
<1>3. ASSUME NEW i \in 0 .. e - 1
      PROVE  q * e + i \in Clusters
  BY <1>1, <1>2, TableSize, SectorInside DEF Clusters
<1>4. FatSector(q) = [i \in 0 .. e - 1 |-> FatEntries[q * e + i]]
  BY DEF FatSector
<1>5. FatSector(q) \in [0 .. e - 1 -> Clusters \cup {EOC}]
  BY <1>3, <1>4, Entries
<1>6. FatSector(q)[r] = FatEntries[c]
  BY <1>2, <1>4
<1> QED
  BY <1>2, <1>5, <1>6

(* What the scan takes for a record is one, wherever its sector was read. *)
LEMMA HereIsRecord ==
  ASSUME Types, InBuffer
  PROVE  /\ IsRecord(Here)
         /\ Here.kind = "dir" => Here.cluster \in Dirs \cup {0}
<1> DEFINE cluster == ClusterBuffer[recordOffset \div RecordsPerSector]
<1>1. Here = IF cluster \in Dirs THEN Directory[cluster][recordOffset + 1] ELSE NoFile
  BY DEF Here, Record, Dirs
<1>2. CASE cluster \in Dirs
  <2>1. recordOffset + 1 \in 1 .. RecordsPerCluster
    BY Sizes DEF Types, TypeOK, InBuffer
  <2>2. \A i \in 1 .. RecordsPerCluster :
          /\ IsRecord(Directory[cluster][i])
          /\ Directory[cluster][i].kind = "dir" => Directory[cluster][i].cluster \in Dirs \cup {0}
    BY <1>2, DiskAssumption DEF DiskAssumption, Dirs
  <2> HIDE DEF cluster
  <2> QED
    BY <1>1, <1>2, <2>1, <2>2
<1>3. CASE cluster \notin Dirs
  <2>1. IsRecord(NoFile) /\ NoFile.kind = "end"
    BY Sizes DEF NoFile, IsRecord
  <2> QED
    BY <1>1, <1>3, <2>1
<1> QED
  BY <1>2, <1>3

(* A read leaves every sector of the buffer as it was or as it should be. *)
LEMMA LoadCluster ==
  ASSUME Types, NEW cluster \in Clusters, NEW n \in Arriving, load_Cluster(cluster, n)
  PROVE  /\ ClusterBuffer' \in [0 .. SectorsPerCluster - 1 -> Clusters \cup {Zeroed}]
         /\ ClusterSecIdx' \in Clusters \cup {-1}
         /\ \A s \in 0 .. SectorsPerCluster - 1 :
              ClusterBuffer'[s] = cluster \/ ClusterBuffer'[s] = ClusterBuffer[s]
         /\ n = Wanted /\ mounted =>
              \A s \in 0 .. SectorsPerCluster - 1 : ClusterBuffer'[s] = cluster
<1>1. ClusterBuffer \in [0 .. SectorsPerCluster - 1 -> Clusters \cup {Zeroed}]
  BY DEF Types, TypeOK
<1>2. ClusterBuffer' = [s \in 0 .. SectorsPerCluster - 1 |->
                          IF s < n THEN cluster ELSE ClusterBuffer[s]]
  BY <1>1 DEF load_Cluster
<1>3. ClusterSecIdx' \in Clusters \cup {-1}
  BY DEF load_Cluster, Types, TypeOK
<1>4. ClusterBuffer' \in [0 .. SectorsPerCluster - 1 -> Clusters \cup {Zeroed}]
  BY <1>1, <1>2
<1>5. n = Wanted /\ mounted =>
        \A s \in 0 .. SectorsPerCluster - 1 : ClusterBuffer'[s] = cluster
  BY <1>2, Sizes DEF Wanted
<1> QED
  BY <1>2, <1>3, <1>4, <1>5

-----------------------------------------------------------------------------
LEMMA EmptySequence == ASSUME NEW S PROVE <<>> \in Seq(S) /\ Len(<<>>) = 0
OBVIOUS

LEMMA NoIndex ==
  /\ \A i \in 1 .. Len(<<>>) : FALSE
  /\ \A i \in 1 .. Len(<<>>) - 1 : FALSE
OBVIOUS

LEMMA InitHolds == Init => IInv
<1> SUFFICES ASSUME Init PROVE IInv
  OBVIOUS
<1> USE DEF Init
<1>1. FATBuffer \in [0 .. EntriesPerSector - 1 -> Clusters \cup {EOC}]
  BY Sizes
<1>2. ClusterBuffer \in [0 .. SectorsPerCluster - 1 -> Clusters \cup {Zeroed}]
  OBVIOUS
<1>3. TypeOK
  <2>1. dirChain \in Seq(Clusters \cup {EOC}) /\ Len(dirChain) = 0
    BY EmptySequence
  <2>2. chain \in Seq(Clusters \cup {EOC}) /\ Len(chain) = 0
    BY EmptySequence
  <2>4. /\ FATSecIdx \in Nat \cup {-1} /\ ClusterSecIdx \in Clusters \cup {-1}
        /\ cmd.op = "boot" /\ opened \in Clusters
    BY Entries
  <2>5. sysPath = <<>> /\ dirClusterIndex = -1 /\ recordOffset = 0 /\ index = 0
    OBVIOUS
  <2> HIDE DEF Init
  <2>6. mounted \in BOOLEAN /\ followed \in BOOLEAN /\ pc = "boot"
    BY DEF Init
  <2>7. Len(sysPath) = 0
    BY <2>5, EmptySequence
  <2> QED
    BY <1>1, <1>2, <2>1, <2>2, <2>4, <2>5, <2>6, <2>7, Ranges DEF TypeOK
<1>4. IsRecord(file)
  BY Sizes DEF NoFile, IsRecord
<1>5. Types
  <2>1. sysPath \in Seq(Names)
    BY EmptySequence
  <2>2. cmd.op # "cd"
    OBVIOUS
  <2> QED
    BY <1>3, <1>4, <2>1, <2>2 DEF Types
<1>6. FatCacheCoherent
  BY DEF FatCacheCoherent
<1>7. Chains
  <2>1. chain = <<>> /\ dirChain = <<>> /\ pc = "boot"
    OBVIOUS
  <2> HIDE DEF Init
  <2> QED
    BY <2>1, NoIndex, Zenon DEF Chains, ChainFollowsFAT
<1>8. Phases
  BY DEF Phases
<1>9. Promise
  BY DEF Promise, Complete, NoFile
<1> QED
  BY <1>5, <1>6, <1>7, <1>8, <1>9 DEF IInv

(* The steps that end the command and leave the buffers alone. *)
LEMMA Ends ==
  ASSUME IInv, pc' = "ready",
         UNCHANGED <<fatVars, bufVars, dirVars, cmd, chain, followed, file, recordOffset, index>>
  PROVE  IInv'
<1> USE DEF IInv, fatVars, bufVars, dirVars
<1>1. Types'
  BY DEF Types, TypeOK
<1>2. FatCacheCoherent' /\ Chains' /\ Phases'
  BY DEF FatCacheCoherent, Chains, ChainFollowsFAT, Phases
<1>3. Promise'
  BY DEF Promise, Complete, AllDirs
<1> QED
  BY <1>1, <1>2, <1>3

LEMMA ReadHeaderStep == ASSUME IInv, ReadHeader PROVE IInv'
<1> USE DEF IInv, ReadHeader, fatVars, bufVars
<1>1. Types'
  BY Sizes, Entries DEF Types, TypeOK
<1>2. FatCacheCoherent' /\ Phases'
  BY DEF FatCacheCoherent, Phases
<1>3. Chains'
  BY Entries DEF Chains, ChainFollowsFAT
<1>4. Promise'
  BY Entries DEF Promise, Complete, AllDirs
<1> QED
  BY <1>1, <1>2, <1>3, <1>4

LEMMA TraverseStep ==
  ASSUME IInv, NEW ok \in BOOLEAN, pc = "traverse", TraverseReturns(ok)
  PROVE  IInv'
<1> USE DEF IInv, TraverseReturns, fatVars, bufVars
<1>1. Types'
  BY DEF Types, TypeOK
<1>2. FatCacheCoherent' /\ Phases'
  BY DEF FatCacheCoherent, Phases
<1>3. Chains'
  BY DEF Chains, ChainFollowsFAT, Phases
<1>4. Promise'
  BY Entries DEF Promise, Complete, AllDirs, Chains, Phases
<1> QED
  BY <1>1, <1>2, <1>3, <1>4

LEMMA StartStep == ASSUME IInv, User PROVE IInv'
<1>1. PICK op \in {"ls", "cd", "cat"}, name \in Names \cup {""} :
        Start(op, name) /\ (op = "cd" => name \in Names)
  BY DEF User
<1>2. cmd'.op = op /\ cmd'.name = name
  BY <1>1 DEF Start
<1>3. chain' = <<>> /\ chain' \in Seq(Clusters \cup {EOC}) /\ Len(chain') = 0
  BY <1>1, EmptySequence DEF Start
<1>4. pc' = "first" /\ file' = NoFile
  BY <1>1 DEF Start
<1>5. UNCHANGED <<fatVars, bufVars, dirVars>>
  BY <1>1 DEF Start
<1>6. op = "cd" => Len(sysPath) < MaxDepth
  BY <1>1 DEF Start
<1>7. recordOffset' \in 0 .. RecordsPerCluster /\ index' \in 0 .. MaxChain /\ followed' \in BOOLEAN
  <2>1. recordOffset' = 0 /\ index' = 0 /\ followed' = FALSE
    BY <1>1 DEF Start
  <2> QED
    BY <2>1, Ranges, Zenon
<1> USE DEF IInv, fatVars, bufVars, dirVars
<1>8. TypeOK'
  <2>1. cmd'.op \in {"boot", "ls", "cd", "cat"}
    BY <1>2
  <2>2. Len(chain') <= MaxChain
    BY <1>3, Ranges
  <2> QED
    BY <1>3, <1>4, <1>5, <1>7, <2>1, <2>2 DEF Types, TypeOK
<1>9. Types'
  BY <1>1, <1>2, <1>4, <1>5, <1>6, <1>8, Sizes DEF Types, IsRecord, NoFile
<1>10. FatCacheCoherent' /\ Phases'
  BY <1>1, <1>2, <1>4, <1>5 DEF FatCacheCoherent, Phases
<1>11. Chains'
  BY <1>1, <1>2, <1>3, <1>4, <1>5, NoIndex DEF Chains, ChainFollowsFAT
<1>12. Promise'
  BY <1>4, <1>5 DEF Promise, Complete, AllDirs
<1> QED
  BY <1>9, <1>10, <1>11, <1>12

LEMMA KeepClusterStep == ASSUME IInv, KeepCluster PROVE IInv'
<1> USE DEF IInv, KeepCluster, fatVars, bufVars, dirVars, cmdVars
<1>1. Types'
  BY DEF Types, TypeOK
<1>2. FatCacheCoherent' /\ Chains' /\ Phases'
  BY DEF FatCacheCoherent, Chains, ChainFollowsFAT, Phases
<1>3. Promise'
  BY DEF Promise, Complete, AllDirs
<1> QED
  BY <1>1, <1>2, <1>3

LEMMA OpenFoundStep == ASSUME IInv, OpenFound PROVE IInv'
<1> USE DEF IInv, OpenFound, fatVars, bufVars, dirVars, cmdVars
<1>1. Types'
  BY DEF Types, TypeOK
<1>2. FatCacheCoherent' /\ Chains' /\ Phases'
  BY DEF FatCacheCoherent, Chains, ChainFollowsFAT, Phases
<1>3. Promise'
  BY DEF Promise, Complete, AllDirs
<1> QED
  BY <1>1, <1>2, <1>3

LEMMA StartPrintStep == ASSUME IInv, StartPrint PROVE IInv'
<1> USE DEF IInv, StartPrint, fatVars, bufVars
<1>1. Types'
  BY Sizes DEF Types, TypeOK
<1>2. FatCacheCoherent' /\ Chains' /\ Phases'
  BY DEF FatCacheCoherent, Chains, ChainFollowsFAT, Phases
<1>3. Promise'
  BY DEF Promise, Complete, AllDirs
<1> QED
  BY <1>1, <1>2, <1>3

LEMMA ScanRecordStep == ASSUME IInv, ScanRecord PROVE IInv'
<1> USE DEF IInv, ScanRecord, fatVars, bufVars, dirVars
<1>1. recordOffset' \in 0 .. RecordsPerCluster
  BY Sizes DEF Types, TypeOK, InBuffer
<1>2. Types'
  BY <1>1 DEF Types, TypeOK
<1>3. FatCacheCoherent' /\ Chains' /\ Phases'
  BY DEF FatCacheCoherent, Chains, ChainFollowsFAT, Phases
<1>4. Promise'
  BY DEF Promise, Complete, AllDirs
<1> QED
  BY <1>2, <1>3, <1>4

LEMMA StartFileStep ==
  ASSUME IInv, pc = "scan", NEW record, StartFile(record), IsRecord(record),
         record.kind = "dir" => record.cluster \in Dirs \cup {0}
  PROVE  IInv'
<1> DEFINE start == IF record.cluster = 0 THEN Root ELSE record.cluster
<1>1. start \in Clusters /\ (record.kind = "dir" => start \in Dirs)
  BY Entries DEF IsRecord
<1>2. chain' = <<start>>
  BY DEF StartFile
<1> HIDE DEF start
<1>3. chain' \in Seq(Clusters \cup {EOC}) /\ Len(chain') = 1 /\ chain'[1] = start /\ chain' # <<>>
  BY <1>1, <1>2
<1>4. /\ file' = record /\ pc' = "traverse"
      /\ UNCHANGED <<fatVars, bufVars, dirVars, cmd, followed, recordOffset, index, printed>>
  BY DEF StartFile
<1> USE DEF IInv, fatVars, bufVars, dirVars
<1>5. Types'
  BY <1>3, <1>4, Sizes DEF Types, TypeOK
<1>6. FatCacheCoherent' /\ Phases'
  BY <1>4 DEF FatCacheCoherent, Phases
<1>7. Chains'
  BY <1>1, <1>3, <1>4 DEF Chains, ChainFollowsFAT, Phases
<1>8. Promise'
  BY <1>1, <1>3, <1>4 DEF Promise, Complete, AllDirs
<1> QED
  BY <1>5, <1>6, <1>7, <1>8

(* Where an entry of the chain is looked up, the FAT sector of that entry  *)
(* is the one that is cached when the entry is read.                       *)
LEMMA NextEntry ==
  ASSUME IInv, NextCluster
  PROVE  /\ FATSecIdx' \in Nat
         /\ FATBuffer' = FatSector(FATSecIdx')
         /\ FATBuffer' \in [0 .. EntriesPerSector - 1 -> Clusters \cup {EOC}]
         /\ chain # <<>> /\ Last(chain) = chain[Len(chain)] /\ Last(chain) \in Clusters
         /\ FatEntries[Last(chain)] \in Clusters \cup {EOC}
         /\ chain' = Append(chain, FatEntries[Last(chain)])
<1> DEFINE last == Last(chain)
           sector == last \div EntriesPerSector
<1>1. /\ chain \in Seq(Clusters \cup {EOC}) /\ chain # <<>>
      /\ last # EOC
  BY DEF IInv, Types, TypeOK, Chains, NextCluster, Follows
<1>2. last = chain[Len(chain)] /\ last \in Clusters
  BY <1>1 DEF Last
<1>3. /\ sector \in Nat
      /\ FatSector(sector) \in [0 .. EntriesPerSector - 1 -> Clusters \cup {EOC}]
      /\ FatSector(sector)[last % EntriesPerSector] = FatEntries[last]
  BY <1>2, FatLookup
<1>4. FATBuffer' = FatSector(sector) /\ FATSecIdx' = sector
  BY <1>3 DEF NextCluster, load_FATSect, fatVars, IInv, FatCacheCoherent
<1>5. chain' = Append(chain, FatEntries[last])
  BY <1>3, <1>4 DEF NextCluster
<1>6. FatEntries[last] \in Clusters \cup {EOC}
  BY <1>2, Entries
<1> QED
  BY <1>1, <1>2, <1>3, <1>4, <1>5, <1>6

LEMMA NextChain ==
  ASSUME IInv, NextCluster
  PROVE  /\ Len(chain) \in 1 .. MaxChain - 1
         /\ chain' \in Seq(Clusters \cup {EOC}) /\ chain' # <<>>
         /\ Len(chain') = Len(chain) + 1
         /\ \A i \in 1 .. Len(chain) : chain'[i] = chain[i]
         /\ chain'[Len(chain) + 1] = FatEntries[Last(chain)]
<1>1. PICK next \in Clusters \cup {EOC} : next = FatEntries[Last(chain)]
  BY NextEntry
<1>2. chain \in Seq(Clusters \cup {EOC}) /\ chain # <<>> /\ Len(chain) < MaxChain
  BY NextEntry DEF IInv, Types, TypeOK, NextCluster, Follows
<1>3. chain' = Append(chain, next)
  BY <1>1, NextEntry
<1> QED
  BY <1>1, <1>2, <1>3, Sizes

LEMMA NextClusterStep == ASSUME IInv, NextCluster PROVE IInv'
<1> DEFINE last == Last(chain)
           next == FatEntries[last]
<1>1. /\ FATSecIdx' \in Nat
      /\ FATBuffer' = FatSector(FATSecIdx')
      /\ FATBuffer' \in [0 .. EntriesPerSector - 1 -> Clusters \cup {EOC}]
      /\ chain # <<>> /\ last = chain[Len(chain)] /\ last \in Clusters
      /\ next \in Clusters \cup {EOC}
  BY NextEntry
<1>2. last \in Dirs => next \in Dirs \cup {EOC}
  BY Entries
<1>3. UNCHANGED <<bufVars, dirVars, cmd, followed, file, recordOffset, index, printed, pc>>
  BY DEF NextCluster
<1>4. pc = "traverse"
  BY DEF NextCluster
<1>5. /\ Len(chain) \in 1 .. MaxChain - 1
      /\ chain' \in Seq(Clusters \cup {EOC}) /\ Len(chain') = Len(chain) + 1 /\ chain' # <<>>
      /\ \A i \in 1 .. Len(chain) : chain'[i] = chain[i]
      /\ chain'[Len(chain) + 1] = next
  BY NextChain
<1>6. Len(chain') <= MaxChain /\ chain'[1] = chain[1]
  BY <1>5, Sizes
<1> HIDE DEF last, next
<1>7. Types'
  BY <1>1, <1>3, <1>5, <1>6 DEF IInv, Types, TypeOK, bufVars, dirVars
<1>8. FatCacheCoherent'
  BY <1>1 DEF FatCacheCoherent
<1>9. ChainFollowsFAT'
  BY <1>1, <1>5 DEF IInv, Chains, ChainFollowsFAT, next
<1>10. cmd.op = "boot" => \A i \in 1 .. Len(chain') : chain'[i] \in Dirs \cup {EOC}
  <2>1. SUFFICES ASSUME cmd.op = "boot", NEW i \in 1 .. Len(chain')
                 PROVE  chain'[i] \in Dirs \cup {EOC}
    OBVIOUS
  <2>2. \A j \in 1 .. Len(chain) : chain[j] \in Dirs \cup {EOC}
    BY <2>1 DEF IInv, Chains
  <2>3. last \in Dirs
    BY <1>1, <1>5, <2>2, Entries
  <2> QED
    BY <1>2, <1>5, <2>2, <2>3
<1>11. Chains'
  BY <1>1, <1>3, <1>5, <1>6, <1>9, <1>10 DEF IInv, Chains, dirVars
<1>12. Phases'
  BY <1>3 DEF IInv, Phases, dirVars
<1>13. Promise'
  BY <1>3, <1>4, <1>6 DEF IInv, Promise, Complete, AllDirs, bufVars, dirVars
<1> QED
  BY <1>7, <1>8, <1>11, <1>12, <1>13 DEF IInv

(* A cluster of currentDir is one of a directory once the chain is         *)
(* complete, and a cluster of the disk in any case.                        *)
LEMMA EntriesOfRoot ==
  ASSUME IInv, NEW i \in 0 .. MaxChain, NEW cluster \in DirClusters(i) \ {EOC}
  PROVE  /\ cluster \in Clusters
         /\ Complete /\ i < Len(dirChain) => cluster \in Dirs /\ i <= Len(dirChain) - 2
<1>1. dirChain \in Seq(Clusters \cup {EOC}) /\ \A j \in 1 .. Len(dirChain) : dirChain[j] \in Dirs \cup {EOC}
  BY DEF IInv, Types, TypeOK, Chains
<1>2. CASE i + 1 \in 1 .. Len(dirChain)
  <2>1. cluster = dirChain[i + 1] /\ cluster \in Dirs
    BY <1>1, <1>2 DEF DirClusters
  <2>2. Complete => i + 1 # Len(dirChain)
    BY <2>1 DEF Complete, Last
  <2> QED
    BY <1>1, <1>2, <2>1, <2>2, Entries, Sizes
<1>3. CASE i + 1 \notin 1 .. Len(dirChain)
  <2>1. cluster \in {0} \cup Clusters
    BY <1>3, Zenon DEF DirClusters
  <2>2. ~(i < Len(dirChain))
    BY <1>1, <1>3, Sizes
  <2> QED
    BY <2>1, <2>2, Sizes
<1> QED
  BY <1>2, <1>3

LEMMA LoadFirstClusterStep == ASSUME IInv, LoadFirstCluster PROVE IInv'
<1>1. PICK cluster \in DirClusters(0), n \in Arriving :
        load_Cluster(cluster, n) /\ pc' = IF n = Wanted THEN "scan" ELSE "ready"
  BY DEF LoadFirstCluster
<1>2. /\ cluster \in Clusters
      /\ Complete => cluster \in Dirs /\ mounted
  <2>1. CASE dirChain = <<>>
    <3>1. 0 + 1 \notin 1 .. Len(dirChain)
      BY <2>1
    <3> QED
      BY <2>1, <3>1, Sizes DEF DirClusters, Complete
  <2>2. CASE dirChain # <<>>
    <3>1. dirChain \in Seq(Clusters \cup {EOC}) /\ dirChain[1] \in Clusters /\ mounted
      BY <2>2 DEF IInv, Types, TypeOK, Chains
    <3>2. 0 < Len(dirChain) /\ 1 \in 1 .. Len(dirChain) /\ 0 \in 0 .. MaxChain
      BY <2>2, <3>1, Ranges
    <3>3. cluster = dirChain[1] /\ cluster # EOC
      BY <3>1, <3>2, Entries DEF DirClusters
    <3> QED
      BY <3>1, <3>2, <3>3, EntriesOfRoot
  <2> QED
    BY <2>1, <2>2
<1>3. /\ ClusterBuffer' \in [0 .. SectorsPerCluster - 1 -> Clusters \cup {Zeroed}]
      /\ ClusterSecIdx' \in Clusters \cup {-1}
      /\ \A s \in 0 .. SectorsPerCluster - 1 :
           ClusterBuffer'[s] = cluster \/ ClusterBuffer'[s] = ClusterBuffer[s]
      /\ n = Wanted /\ mounted =>
           \A s \in 0 .. SectorsPerCluster - 1 : ClusterBuffer'[s] = cluster
  BY <1>1, <1>2, LoadCluster DEF IInv
<1>4. /\ pc = "first"
      /\ UNCHANGED <<fatVars, dirVars, cmd, chain, followed, file, recordOffset, index>>
  BY DEF LoadFirstCluster, cmdVars
<1>5. /\ DOMAIN ClusterBuffer = 0 .. SectorsPerCluster - 1
      /\ DOMAIN ClusterBuffer' = 0 .. SectorsPerCluster - 1
  BY <1>3 DEF IInv, Types, TypeOK
<1> USE DEF IInv, fatVars, dirVars
<1>6. Types'
  BY <1>1, <1>3, <1>4 DEF Types, TypeOK
<1>7. FatCacheCoherent' /\ Chains' /\ Phases'
  BY <1>1, <1>4 DEF FatCacheCoherent, Chains, ChainFollowsFAT, Phases
<1>8. Complete' /\ dirClusterIndex' >= 0 => AllDirs' /\ dirClusterIndex' <= Len(dirChain') - 2
  BY <1>2, <1>3, <1>4, <1>5 DEF Promise, Complete, AllDirs
<1>9. Complete' /\ pc' \in {"scan", "next"} => AllDirs'
  BY <1>1, <1>2, <1>3, <1>4, <1>5 DEF Complete, AllDirs
<1>10. Promise'
  BY <1>1, <1>4, <1>8, <1>9 DEF Promise
<1> QED
  BY <1>6, <1>7, <1>10

LEMMA LoadNextClusterStep == ASSUME IInv, LoadNextCluster PROVE IInv'
<1> DEFINE i == dirClusterIndex + 1
<1>1. PICK cluster \in NextClusters \ {EOC}, n \in Arriving :
        /\ load_Cluster(cluster, n)
        /\ IF n = Wanted
           THEN dirClusterIndex' = i /\ pc' = "scan"
           ELSE UNCHANGED dirClusterIndex /\ pc' = "ready"
  BY DEF LoadNextCluster
<1>2. i \in 0 .. MaxChain /\ i <= MaxChain /\ cluster \in DirClusters(i) \ {EOC}
  BY <1>1, Sizes DEF NextClusters, IInv, Types, TypeOK
<1>3. pc = "next" /\ UNCHANGED <<fatVars, dirChain, sysPath, mounted, opened, cmdVars>>
  BY DEF LoadNextCluster
<1>4. Complete => i < Len(dirChain) /\ mounted
  <2>1. SUFFICES ASSUME Complete PROVE i < Len(dirChain) /\ mounted
    OBVIOUS
  <2>2. /\ dirChain # <<>> /\ Last(dirChain) = EOC /\ mounted
        /\ dirChain \in Seq(Clusters \cup {EOC}) /\ dirChain[1] \in Clusters
    BY <2>1 DEF Complete, IInv, Types, TypeOK, Chains
  <2>3. Len(dirChain) >= 2
    BY <2>2, Entries DEF Last
  <2>4. dirClusterIndex >= 0 => dirClusterIndex <= Len(dirChain) - 2
    BY <2>1 DEF IInv, Promise
  <2>5. dirClusterIndex \in -1 .. MaxChain
    BY DEF IInv, Types, TypeOK
  <2> QED
    BY <2>2, <2>3, <2>4, <2>5, Sizes
<1>5. /\ cluster \in Clusters
      /\ Complete => cluster \in Dirs /\ i <= Len(dirChain) - 2 /\ mounted
  BY <1>2, <1>4, EntriesOfRoot
<1>6. /\ ClusterBuffer' \in [0 .. SectorsPerCluster - 1 -> Clusters \cup {Zeroed}]
      /\ ClusterSecIdx' \in Clusters \cup {-1}
      /\ \A s \in 0 .. SectorsPerCluster - 1 :
           ClusterBuffer'[s] = cluster \/ ClusterBuffer'[s] = ClusterBuffer[s]
      /\ n = Wanted /\ mounted =>
           \A s \in 0 .. SectorsPerCluster - 1 : ClusterBuffer'[s] = cluster
  BY <1>1, <1>5, LoadCluster DEF IInv
<1>7. /\ DOMAIN ClusterBuffer = 0 .. SectorsPerCluster - 1
      /\ DOMAIN ClusterBuffer' = 0 .. SectorsPerCluster - 1
  BY <1>6 DEF IInv, Types, TypeOK
<1> HIDE DEF i
<1> USE DEF IInv, fatVars, cmdVars
<1>8. dirClusterIndex' \in -1 .. MaxChain
  BY <1>1, <1>2 DEF Types, TypeOK
<1>9. Types'
  BY <1>1, <1>3, <1>6, <1>8 DEF Types, TypeOK
<1>10. FatCacheCoherent' /\ Chains' /\ Phases'
  BY <1>1, <1>3 DEF FatCacheCoherent, Chains, ChainFollowsFAT, Phases
<1>11. Complete' /\ dirClusterIndex' >= 0 => AllDirs' /\ dirClusterIndex' <= Len(dirChain') - 2
  BY <1>1, <1>3, <1>5, <1>6, <1>7 DEF Promise, Complete, AllDirs
<1>12. Complete' /\ pc' \in {"scan", "next"} => AllDirs'
  BY <1>1, <1>3, <1>5, <1>6, <1>7 DEF Complete, AllDirs
<1>13. Promise'
  BY <1>1, <1>3, <1>11, <1>12 DEF Promise
<1> QED
  BY <1>9, <1>10, <1>13

LEMMA FrontShorter ==
  ASSUME NEW S, NEW s \in Seq(S), s # <<>>
  PROVE  Front(s) \in Seq(S) /\ Len(Front(s)) = Len(s) - 1
<1>1. PICK n \in Nat : n = Len(s) - 1
  OBVIOUS
<1>2. SubSeq(s, 1, n) = [i \in 1 .. n |-> s[i]]
  BY <1>1
<1>3. \A i \in 1 .. n : s[i] \in S
  BY <1>1
<1>4. [i \in 1 .. n |-> s[i]] \in Seq(S)
  BY <1>3
<1>5. Len([i \in 1 .. n |-> s[i]]) = n
  OBVIOUS
<1> QED
  BY <1>1, <1>2, <1>4, <1>5 DEF Front

LEMMA NewPathFits ==
  ASSUME IInv, pc = "open"
  PROVE  NewPath \in Seq(Names) /\ Len(NewPath) <= MaxDepth
<1>1. sysPath \in Seq(Names) /\ Len(sysPath) <= MaxDepth /\ Len(sysPath) \in Nat
  BY DEF IInv, Types, TypeOK
<1>2. CASE cmd.op = "boot" \/ cmd.name = "."
  BY <1>1, <1>2 DEF NewPath
<1>3. CASE cmd.op # "boot" /\ cmd.name # "." /\ cmd.name = ".."
  <2>1. CASE sysPath = <<>>
    BY <1>1, <1>3, <2>1, EmptySequence, Ranges DEF NewPath
  <2>2. CASE sysPath # <<>>
    <3>1. NewPath = Front(sysPath)
      BY <1>3, <2>2 DEF NewPath
    <3>2. Front(sysPath) \in Seq(Names) /\ Len(Front(sysPath)) = Len(sysPath) - 1
      BY <1>1, <2>2, FrontShorter
    <3> QED
      BY <1>1, <3>1, <3>2, Sizes
  <2> QED
    BY <2>1, <2>2
<1>4. CASE cmd.op # "boot" /\ cmd.name # "." /\ cmd.name # ".."
  <2>1. cmd.name \in Names /\ Len(sysPath) < MaxDepth
    BY <1>4 DEF IInv, Phases, Types
  <2>2. NewPath = Append(sysPath, cmd.name)
    BY <1>4 DEF NewPath
  <2> QED
    BY <1>1, <2>1, <2>2, Sizes
<1> QED
  BY <1>2, <1>3, <1>4

LEMMA OpenDirectoryStep == ASSUME IInv, OpenDirectory PROVE IInv'
<1> DEFINE cluster == chain[1]
<1>1. PICK n \in Arriving :
        /\ load_Cluster(cluster, n)
        /\ IF n = Wanted
           THEN dirClusterIndex' = 0 /\ sysPath' = NewPath /\ opened' = cluster
           ELSE UNCHANGED <<dirClusterIndex, sysPath, opened>>
  BY DEF OpenDirectory
<1>2. /\ pc = "open" /\ pc' = "ready"
      /\ UNCHANGED <<fatVars, dirChain, mounted, cmdVars>>
  BY DEF OpenDirectory
<1>3. cluster \in Dirs /\ cluster \in Clusters
  BY <1>2, Entries DEF IInv, Promise
<1> HIDE DEF cluster
<1>4. /\ ClusterBuffer' \in [0 .. SectorsPerCluster - 1 -> Clusters \cup {Zeroed}]
      /\ ClusterSecIdx' \in Clusters \cup {-1}
      /\ \A s \in 0 .. SectorsPerCluster - 1 :
           ClusterBuffer'[s] = cluster \/ ClusterBuffer'[s] = ClusterBuffer[s]
      /\ n = Wanted /\ mounted =>
           \A s \in 0 .. SectorsPerCluster - 1 : ClusterBuffer'[s] = cluster
  BY <1>1, <1>3, LoadCluster DEF IInv
<1>5. /\ DOMAIN ClusterBuffer = 0 .. SectorsPerCluster - 1
      /\ DOMAIN ClusterBuffer' = 0 .. SectorsPerCluster - 1
  BY <1>4 DEF IInv, Types, TypeOK
<1>6. sysPath' \in Seq(Names) /\ Len(sysPath') <= MaxDepth
  BY <1>1, <1>2, NewPathFits DEF IInv, Types, TypeOK
<1>7. dirClusterIndex' \in -1 .. MaxChain /\ opened' \in Clusters
  BY <1>1, <1>3, Sizes DEF IInv, Types, TypeOK
<1>8. Complete => Len(dirChain) >= 2 /\ mounted
  <2>1. SUFFICES ASSUME Complete PROVE Len(dirChain) >= 2 /\ mounted
    OBVIOUS
  <2>2. /\ dirChain # <<>> /\ Last(dirChain) = EOC /\ mounted
        /\ dirChain \in Seq(Clusters \cup {EOC}) /\ dirChain[1] \in Clusters
    BY <2>1 DEF Complete, IInv, Types, TypeOK, Chains
  <2> QED
    BY <2>2, Entries DEF Last
<1> USE DEF IInv, fatVars, cmdVars
<1>9. Types'
  BY <1>2, <1>4, <1>6, <1>7 DEF Types, TypeOK
<1>10. FatCacheCoherent' /\ Chains' /\ Phases'
  BY <1>2 DEF FatCacheCoherent, Chains, ChainFollowsFAT, Phases
<1>11. Complete' /\ dirClusterIndex' >= 0 => AllDirs' /\ dirClusterIndex' <= Len(dirChain') - 2
  BY <1>1, <1>2, <1>3, <1>4, <1>5, <1>8 DEF Types, TypeOK, Promise, Complete, AllDirs
<1>12. Promise'
  BY <1>2, <1>11 DEF Promise
<1> QED
  BY <1>9, <1>10, <1>12

LEMMA PrintClusterStep == ASSUME IInv, PrintCluster PROVE IInv'
<1>1. PICK cluster \in FileClusters(index) \ {EOC}, n \in Arriving : load_Cluster(cluster, n)
  BY DEF PrintCluster
<1>2. cluster \in Clusters
  <2>1. chain \in Seq(Clusters \cup {EOC}) /\ index \in 0 .. MaxChain
    BY DEF IInv, Types, TypeOK
  <2>2. CASE index < Len(chain)
    BY <1>1, <2>1, <2>2, Sizes DEF FileClusters
  <2>3. CASE ~(index < Len(chain))
    BY <1>1, <2>3 DEF FileClusters
  <2> QED
    BY <2>2, <2>3
<1>3. /\ ClusterBuffer' \in [0 .. SectorsPerCluster - 1 -> Clusters \cup {Zeroed}]
      /\ ClusterSecIdx' \in Clusters \cup {-1}
  BY <1>1, <1>2, LoadCluster DEF IInv
<1>4. index' \in 0 .. MaxChain
  BY Sizes DEF PrintCluster, IInv, Types, TypeOK
<1>5. /\ pc = "print"
      /\ UNCHANGED <<fatVars, dirVars, cmd, chain, followed, file, recordOffset, pc>>
  BY DEF PrintCluster
<1> USE DEF IInv, fatVars, dirVars
<1>6. Types'
  BY <1>3, <1>4, <1>5 DEF Types, TypeOK
<1>7. FatCacheCoherent' /\ Chains' /\ Phases'
  BY <1>5 DEF FatCacheCoherent, Chains, ChainFollowsFAT, Phases
<1>8. Promise'
  BY <1>5 DEF Promise, Complete, AllDirs
<1> QED
  BY <1>6, <1>7, <1>8

LEMMA StutterStep == ASSUME IInv, UNCHANGED vars PROVE IInv'
<1> USE DEF IInv, vars, fatVars, bufVars, dirVars, cmdVars
<1>1. Types'
  BY DEF Types, TypeOK
<1>2. FatCacheCoherent' /\ Chains' /\ Phases'
  BY DEF FatCacheCoherent, Chains, ChainFollowsFAT, Phases
<1>3. Promise'
  BY DEF Promise, Complete, AllDirs
<1> QED
  BY <1>1, <1>2, <1>3

LEMMA Step == IInv /\ [Next]_vars => IInv'
<1> SUFFICES ASSUME IInv, [Next]_vars PROVE IInv'
  OBVIOUS
<1>1. CASE BootFails
  BY <1>1, Ends DEF BootFails, cmdVars
<1>2. CASE ReadHeader
  BY <1>2, ReadHeaderStep
<1>3. CASE NextCluster
  BY <1>3, NextClusterStep
<1>4. CASE ChainEnds
  BY <1>4, TraverseStep DEF ChainEnds
<1>5. CASE FatReadFails
  BY <1>5, TraverseStep DEF FatReadFails
<1>6. CASE KeepCluster
  BY <1>6, KeepClusterStep
<1>7. CASE LoadFirstCluster
  BY <1>7, LoadFirstClusterStep
<1>8. CASE ScanEnds
  BY <1>8, Ends DEF ScanEnds, cmdVars
<1>9. CASE ScanRecord
  BY <1>9, ScanRecordStep
<1>10. CASE ScanMatches
  BY <1>10, StartFileStep, HereIsRecord DEF ScanMatches, IInv
<1>11. CASE ScanOutside
  BY <1>11, Ends DEF ScanOutside, dirVars
<1>12. CASE FindOutside
  <2>1. IsRecord(PathRecord) /\ PathRecord.kind # "dir"
    BY Sizes DEF IsRecord, PathRecord
  <2> QED
    BY <1>12, <2>1, StartFileStep DEF FindOutside
<1>13. CASE LoadNextCluster
  BY <1>13, LoadNextClusterStep
<1>14. CASE NoNextCluster
  BY <1>14, Ends DEF NoNextCluster, cmdVars
<1>15. CASE WrongKind
  BY <1>15, Ends DEF WrongKind, cmdVars
<1>16. CASE OpenFound
  BY <1>16, OpenFoundStep
<1>17. CASE OpenDirectory
  BY <1>17, OpenDirectoryStep
<1>18. CASE StartPrint
  BY <1>18, StartPrintStep
<1>19. CASE PrintCluster
  BY <1>19, PrintClusterStep
<1>20. CASE PrintEnds
  BY <1>20, Ends DEF PrintEnds, cmdVars
<1>21. CASE User
  BY <1>21, StartStep
<1>22. CASE UNCHANGED vars
  BY <1>22, StutterStep
<1> QED
  BY <1>1, <1>2, <1>3, <1>4, <1>5, <1>6, <1>7, <1>8, <1>9, <1>10, <1>11, <1>12, <1>13,
     <1>14, <1>15, <1>16, <1>17, <1>18, <1>19, <1>20, <1>21, <1>22 DEF Next, Driver

THEOREM Invariance == Spec => []IInv
<1>1. Init => IInv
  BY InitHolds
<1>2. IInv /\ [Next]_vars => IInv'
  BY Step
<1> QED
  BY <1>1, <1>2, PTL DEF Spec

(* The variables of the driver keep their types, whatever reads fail:      *)
(* every cluster that is read exists, no chain is longer than its array,   *)
(* and the two indexes that do leave their arrays go no further than the   *)
(* entry behind them: dirClusterIndex to clusters[8], and recordOffset to  *)
(* the end of ClusterBuffer (filesys.c:1-522).                             *)
THEOREM TypeCorrect == Spec => []TypeOK
<1>1. IInv => TypeOK
  BY DEF IInv, Types
<1> QED
  BY <1>1, Invariance, PTL

(* The sector in FATBuffer is the one FATSecIdx names, whatever reads fail *)
(* (load_FATSect, filesys.c:120-129).                                      *)
THEOREM CacheCoherent == Spec => []FatCacheCoherent
<1>1. IInv => FatCacheCoherent
  BY DEF IInv
<1> QED
  BY <1>1, Invariance, PTL

(* The clusters traverseFAT fills in are those of the table, on any disk   *)
(* and for every length of chain (filesys.c:149-177).                      *)
THEOREM ChainsFollow == Spec => []ChainFollowsFAT
<1>1. IInv => ChainFollowsFAT
  BY DEF IInv, Chains
<1> QED
  BY <1>1, Invariance, PTL

(* With the whole chain of the root in currentDir, findFile and listFiles  *)
(* take only sectors of directories for records, although printFile reads  *)
(* files into the same buffer and reads fail half way                      *)
(* (filesys.c:273, 308, 415).                                              *)
THEOREM OnlyDirectoriesScanned == Spec => []ScansDirectory
<1>1. IInv => ScansDirectory
  BY DEF IInv, Promise, ScansDirectory, Complete, AllDirs, Dirs
<1> QED
  BY <1>1, Invariance, PTL

(* Where a chain is used that was followed without an error it fills the   *)
(* array or ends with the mark, and printFile has not passed the mark.     *)
Filled ==
  /\ pc \in {"found", "print"} /\ followed => Len(chain) = MaxChain \/ Last(chain) = EOC
  /\ pc = "print" => \A i \in 1 .. index : i <= Len(chain) => chain[i] # EOC

LEMMA FilledStep ==
  ASSUME IInv, Filled, [Next]_vars
  PROVE  Filled'
<1> USE DEF Filled, cmdVars
<1>1. CASE ChainEnds
  <2>1. Len(chain) = MaxChain \/ Last(chain) = EOC
    BY <1>1, LenProperties, Sizes DEF ChainEnds, Follows, IInv, Types, TypeOK
  <2> QED
    BY <1>1, <2>1 DEF ChainEnds, TraverseReturns
<1>2. CASE FatReadFails
  BY <1>2 DEF FatReadFails, TraverseReturns
<1>3. CASE StartPrint
  <2>1. index' = 0 /\ \A i \in 1 .. 0 : FALSE
    BY <1>3 DEF StartPrint
  <2> QED
    BY <1>3, <2>1 DEF StartPrint
<1>4. CASE PrintCluster
  <2>1. /\ pc = "print" /\ UNCHANGED <<chain, followed, pc>>
        /\ index' = index + 1 /\ index \in Nat
        /\ chain \in Seq(Clusters \cup {EOC})
    BY <1>4, Sizes DEF PrintCluster, IInv, Types, TypeOK
  <2>2. index < Len(chain) => chain[index + 1] # EOC
    BY <1>4 DEF PrintCluster, FileClusters
  <2>3. ASSUME NEW i \in 1 .. index + 1, i <= Len(chain)
        PROVE  chain[i] # EOC
    BY <2>1, <2>2, <2>3
  <2> QED
    BY <2>1, <2>3
<1>5. CASE KeepCluster \/ LoadFirstCluster \/ LoadNextCluster \/ NoNextCluster
  BY <1>5 DEF KeepCluster, LoadFirstCluster, LoadNextCluster, NoNextCluster
<1>6. CASE ScanEnds \/ ScanRecord \/ ScanMatches \/ ScanOutside \/ FindOutside
  BY <1>6 DEF ScanEnds, ScanRecord, ScanMatches, ScanOutside, FindOutside, StartFile
<1>7. CASE BootFails \/ ReadHeader \/ NextCluster \/ User
  BY <1>7 DEF BootFails, ReadHeader, NextCluster, User, Start
<1>8. CASE WrongKind \/ OpenFound \/ OpenDirectory \/ PrintEnds
  BY <1>8 DEF WrongKind, OpenFound, OpenDirectory, PrintEnds
<1>9. CASE UNCHANGED vars
  BY <1>9 DEF vars
<1> QED
  BY <1>1, <1>2, <1>3, <1>4, <1>5, <1>6, <1>7, <1>8, <1>9 DEF Next, Driver

(* Of file.clusters and of currentDir.clusters only filled entries are     *)
(* read, for every limit of the array, when their chains were followed to  *)
(* where they end: printFile and the scans need no other mark of the end   *)
(* (filesys.c:274, 380, 473).                                              *)
THEOREM FilledEntriesRead == Spec => []ReadsFilledEntries
<1>1. Init => Filled
  BY DEF Init, Filled
<1>2. IInv /\ Filled /\ [Next]_vars => Filled'
  BY FilledStep
<1>3. IInv /\ Filled => ReadsFilledEntries
  <2>1. SUFFICES ASSUME IInv, Filled PROVE ReadsFilledEntries
    OBVIOUS
  <2>2. ASSUME pc = "print", followed, index < MaxChain PROVE index < Len(chain)
    <3>1. /\ chain \in Seq(Clusters \cup {EOC}) /\ chain # <<>> /\ index \in Nat
          /\ MaxChain \in Nat
      BY <2>1, <2>2, Sizes DEF IInv, Types, TypeOK, Chains
    <3>2. CASE Len(chain) = MaxChain
      BY <2>2, <3>2
    <3>3. CASE Last(chain) = EOC
      <4>1. Len(chain) \in Nat /\ Len(chain) >= 1 /\ chain[Len(chain)] = EOC
        BY <3>1, <3>3 DEF Last
      <4>2. ~(Len(chain) \in 1 .. index)
        BY <2>1, <2>2, <4>1 DEF Filled
      <4> QED
        BY <3>1, <4>1, <4>2
    <3> QED
      BY <2>1, <2>2, <3>2, <3>3 DEF Filled
  <2>3. ASSUME Complete PROVE dirClusterIndex + 1 < Len(dirChain)
    <3>1. /\ dirChain # <<>> /\ Last(dirChain) = EOC
          /\ dirChain \in Seq(Clusters \cup {EOC}) /\ dirChain[1] \in Clusters
      BY <2>1, <2>3 DEF Complete, IInv, Types, TypeOK, Chains
    <3>2. Len(dirChain) >= 2
      BY <3>1, Entries DEF Last
    <3>3. dirClusterIndex >= 0 => dirClusterIndex <= Len(dirChain) - 2
      BY <2>1, <2>3 DEF IInv, Promise
    <3>4. dirClusterIndex \in -1 .. MaxChain
      BY <2>1 DEF IInv, Types, TypeOK
    <3> QED
      BY <3>1, <3>2, <3>3, <3>4, Sizes
  <2> QED
    BY <2>2, <2>3 DEF ReadsFilledEntries, Complete
<1> QED
  BY <1>1, <1>2, <1>3, Invariance, PTL DEF Spec

-----------------------------------------------------------------------------
(* A drive that works. Course is what the steps of a command leave behind; *)
(* while a command holds a file, its chain begins at the file's cluster.   *)

Scanning == pc \in {"scan", "next"}

Holding == cmd.op # "boot" /\ pc \in {"traverse", "found", "open", "print"}

Target(record) == IF record.cluster = 0 THEN Root ELSE record.cluster

Course ==
  /\ pc = "boot" => cmd.op = "boot"
  /\ pc \in {"found", "print"} => cmd.op # "boot"
  /\ pc = "print" => cmd.op = "cat" /\ file.kind = "file"
  /\ pc = "open" /\ cmd.op # "boot" => file.kind = "dir"
  /\ cmd.op = "boot" => cmd.name = ""
  /\ cmd.op # "boot" \/ pc \in {"open", "ready"} => mounted
  /\ pc = "first" \/ Scanning => file = NoFile
  /\ pc = "first" => recordOffset = 0 /\ printed = <<>>
  /\ Scanning /\ cmd.op # "ls" => printed = <<>>
  /\ pc \in {"traverse", "found"} /\ cmd.op = "cat" => printed = <<>>
  /\ Holding => chain[1] = Target(file)

LEMMA InitCourse == Init => Course
<1> SUFFICES ASSUME Init PROVE Course
  OBVIOUS
<1>1. pc = "boot" /\ cmd.op = "boot" /\ cmd.name = ""
  BY DEF Init
<1> QED
  BY <1>1 DEF Course, Scanning, Holding

(* On a drive that works every sector that is wanted arrives. *)
LEMMA AllArrive ==
  ASSUME ~DriveFails, Course, IInv, pc \in {"ready", "first", "scan", "next", "open", "print"},
         NEW n \in Arriving, NEW cluster \in Clusters, load_Cluster(cluster, n)
  PROVE  /\ n = Wanted
         /\ \A s \in 0 .. SectorsPerCluster - 1 : ClusterBuffer'[s] = cluster
<1>1. n = Wanted
  BY DEF Arriving
<1>2. mounted
  BY DEF Course, IInv, Phases
<1> QED
  BY <1>1, <1>2, LoadCluster DEF IInv

LEMMA CourseStep ==
  ASSUME ~DriveFails, IInv, Course, [Next]_vars
  PROVE  Course'
<1> USE DEF Course, Scanning, Holding, dirVars, cmdVars
<1>1. CASE BootFails
  BY <1>1 DEF BootFails
<1>2. CASE ReadHeader
  BY <1>2 DEF ReadHeader
<1>3. CASE NextCluster
  <2>1. chain'[1] = chain[1]
    <3>1. Len(chain) \in 1 .. MaxChain - 1 /\ \A i \in 1 .. Len(chain) : chain'[i] = chain[i]
      BY <1>3, NextChain
    <3>2. 1 \in 1 .. Len(chain)
      BY ONLY <3>1, Sizes
    <3> QED
      BY <3>1, <3>2
  <2> QED
    BY <1>3, <2>1 DEF NextCluster
<1>4. CASE ChainEnds
  BY <1>4 DEF ChainEnds, TraverseReturns, IInv, Phases
<1>5. CASE FatReadFails
  BY <1>5 DEF FatReadFails
<1>6. CASE KeepCluster
  BY <1>6 DEF KeepCluster
<1>7. CASE LoadFirstCluster
  BY <1>7 DEF LoadFirstCluster, IInv, Phases
<1>8. CASE ScanEnds
  BY <1>8 DEF ScanEnds, IInv, Phases
<1>9. CASE ScanRecord
  BY <1>9 DEF ScanRecord
<1>10. CASE ScanMatches
  <2>1. chain' = <<Target(Here)>> /\ file' = Here
    BY <1>10 DEF ScanMatches, StartFile, Target
  <2>2. chain'[1] = Target(file')
    BY <2>1
  <2> QED
    BY <1>10, <2>2 DEF ScanMatches, StartFile, Matches, IInv, Phases
<1>11. CASE ScanOutside
  BY <1>11 DEF ScanOutside, IInv, Phases
<1>12. CASE FindOutside
  <2>1. chain' = <<Target(PathRecord)>> /\ file' = PathRecord
    BY <1>12 DEF FindOutside, StartFile, Target
  <2>2. chain'[1] = Target(file')
    BY <2>1
  <2> QED
    BY <1>12, <2>2 DEF FindOutside, StartFile, IInv, Phases
<1>13. CASE LoadNextCluster
  BY <1>13 DEF LoadNextCluster, IInv, Phases
<1>14. CASE NoNextCluster
  BY <1>14 DEF NoNextCluster, IInv, Phases
<1>15. CASE WrongKind
  BY <1>15 DEF WrongKind
<1>16. CASE OpenFound
  BY <1>16 DEF OpenFound
<1>17. CASE OpenDirectory
  BY <1>17 DEF OpenDirectory
<1>18. CASE StartPrint
  BY <1>18 DEF StartPrint
<1>19. CASE PrintCluster
  BY <1>19 DEF PrintCluster
<1>20. CASE PrintEnds
  BY <1>20 DEF PrintEnds
<1>21. CASE User
  <2>1. PICK op \in {"ls", "cd", "cat"}, name \in Names \cup {""} : Start(op, name)
    BY <1>21 DEF User
  <2>2. cmd'.op = op /\ op # "boot" /\ pc = "ready" /\ pc' = "first" /\ UNCHANGED mounted
    BY <2>1 DEF Start
  <2>3. file' = NoFile /\ recordOffset' = 0 /\ printed' = <<>>
    BY <2>1 DEF Start
  <2> QED
    BY <2>2, <2>3
<1>22. CASE UNCHANGED vars
  BY <1>22 DEF vars
<1> QED
  BY <1>1, <1>2, <1>3, <1>4, <1>5, <1>6, <1>7, <1>8, <1>9, <1>10, <1>11, <1>12, <1>13,
     <1>14, <1>15, <1>16, <1>17, <1>18, <1>19, <1>20, <1>21, <1>22 DEF Next, Driver

-----------------------------------------------------------------------------
(* What printFile prints. Arithmetic of sectors first. *)

LEMMA SectorsApart ==
  ASSUME NEW e \in Nat, NEW a \in Nat, NEW b \in Nat, a < b, NEW r \in 0 .. e - 1
  PROVE  a * e + r < b * e /\ a * e \in Nat /\ b * e \in Nat
<1>1. PICK d \in Nat : b = a + 1 + d
  OBVIOUS
<1>2. b * e = a * e + e + d * e
  BY <1>1
<1>3. a * e \in Nat /\ b * e \in Nat /\ d * e \in Nat
  OBVIOUS
<1>4. PICK ae \in Nat, be \in Nat, de \in Nat : ae = a * e /\ be = b * e /\ de = d * e
  BY <1>3
<1>5. ae + r < be
  BY <1>2, <1>4
<1> QED
  BY <1>3, <1>4, <1>5

LEMMA SectorBefore ==
  ASSUME NEW e \in Nat, NEW n \in Nat, NEW q \in Nat, NEW r \in 0 .. e - 1, q * e + r < n * e
  PROVE  q < n
<1>1. q * e \in Nat /\ n * e \in Nat
  OBVIOUS
<1>2. ASSUME n < q PROVE FALSE
  <2>1. 0 \in 0 .. e - 1
    OBVIOUS
  <2>2. n * e + 0 < q * e
    BY <1>2, <2>1, SectorsApart
  <2>3. PICK qe \in Nat, ne \in Nat : qe = q * e /\ ne = n * e
    BY <1>1
  <2> QED
    BY <2>2, <2>3
<1>3. n # q
  BY <1>1
<1> QED
  BY <1>2, <1>3

LEMMA QuotientIs ==
  ASSUME NEW e \in Nat, e > 0, NEW n \in Nat, NEW r \in 0 .. e - 1, NEW m \in Nat, m = n * e + r
  PROVE  m \div e = n /\ m % e = r
<1>1. PICK q \in Nat, k \in 0 .. e - 1 : q = m \div e /\ k = m % e /\ q * e + k = m
  BY Division
<1>2. ~(q < n)
  <2>1. q < n => q * e + k < n * e
    BY SectorsApart
  <2>2. PICK qe \in Nat, ne \in Nat : qe = q * e /\ ne = n * e
    OBVIOUS
  <2> QED
    BY <1>1, <2>1, <2>2
<1>3. ~(n < q)
  <2>1. n < q => n * e + r < q * e
    BY SectorsApart
  <2>2. PICK qe \in Nat, ne \in Nat : qe = q * e /\ ne = n * e
    OBVIOUS
  <2> QED
    BY <1>1, <2>1, <2>2
<1>4. q = n
  BY <1>2, <1>3
<1>5. PICK ne \in Nat : ne = n * e
  OBVIOUS
<1>6. k = r
  BY <1>1, <1>4, <1>5
<1> QED
  BY <1>1, <1>4, <1>6

(* A set of numbers that is not empty has a least one. *)
LEMMA MinIs ==
  ASSUME NEW S \in SUBSET Nat, S # {}
  PROVE  Min(S) \in S /\ \A n \in S : Min(S) <= n
<1> DEFINE less == {pair \in Nat \X Nat : pair[1] < pair[2]}
<1>1. IsWellFoundedOn(less, Nat)
  BY NatLessThanWellFounded DEF OpToRel
<1>2. PICK x \in S : \A y \in S : ~(<<y, x>> \in less)
  <2> HIDE DEF less
  <2> QED
    BY <1>1, WFMin
<1>3. ASSUME NEW y \in S
      PROVE  x <= y
  <2>1. x \in Nat /\ y \in Nat
    OBVIOUS
  <2>2. y < x => <<y, x>> \in less
    BY <2>1
  <2>3. ~(y < x)
    BY <1>2, <2>2, Zenon
  <2> QED
    BY <2>1, <2>3
<1> QED
  BY <1>3 DEF Min

LEMMA LeastIs ==
  ASSUME NEW S \in SUBSET Nat, NEW m \in S, \A n \in S : m <= n
  PROVE  Min(S) = m
<1>1. PICK k : k = Min(S)
  OBVIOUS
<1>2. k \in S /\ \A n \in S : k <= n
  BY <1>1, MinIs
<1>3. k \in Nat /\ m \in Nat /\ k <= m /\ m <= k
  BY <1>2
<1>4. k = m
  BY <1>3
<1> QED
  BY <1>1, <1>4

(* The entry behind an entry of a chain, and a chain up to its entry m. *)
Behind(c) == IF c = EOC THEN EOC ELSE FatEntries[c]

FollowsTable(c, start, m) ==
  /\ c \in [0 .. MaxChain -> Clusters \cup {EOC}]
  /\ c[0] = start
  /\ \A n \in 1 .. m : c[n] = Behind(c[n - 1])

LEMMA TableFollowed ==
  ASSUME NEW start \in Clusters
  PROVE  \E c : FollowsTable(c, start, MaxChain)
<1> DEFINE missing == {m \in 0 .. MaxChain : ~\E c : FollowsTable(c, start, m)}
<1>1. missing \in SUBSET Nat
  BY Sizes
<1>2. ASSUME missing # {} PROVE FALSE
  <2>1. PICK m \in missing : \A n \in missing : m <= n
    <3> HIDE DEF missing
    <3> QED
      BY <1>1, <1>2, MinIs
  <2>2. m # 0
    <3> DEFINE c == [n \in 0 .. MaxChain |-> start]
    <3>1. FollowsTable(c, start, 0)
      BY Sizes DEF FollowsTable
    <3> QED
      BY <3>1
  <2>3. m - 1 \in 0 .. MaxChain /\ m \in 1 .. MaxChain /\ ~(m - 1 \in missing)
    BY <2>1, <2>2, Sizes
  <2>4. PICK c : FollowsTable(c, start, m - 1)
    BY <2>3
  <2> DEFINE d == [c EXCEPT ![m] = Behind(c[m - 1])]
  <2>5. c[m - 1] \in Clusters \cup {EOC} /\ Behind(c[m - 1]) \in Clusters \cup {EOC}
    BY <2>3, <2>4, Entries DEF FollowsTable, Behind
  <2>6. FollowsTable(d, start, m)
    BY <2>3, <2>4, <2>5, Sizes DEF FollowsTable
  <2> QED
    BY <2>6
<1>3. MaxChain \in 0 .. MaxChain
  BY Sizes
<1> QED
  BY <1>2, <1>3

LEMMA ChainOfIs ==
  ASSUME NEW start \in Clusters
  PROVE  FollowsTable(ChainOf(start), start, MaxChain)
<1> DEFINE body(c) == [n \in 0 .. MaxChain |->
                         IF n = 0 THEN start
                         ELSE IF c[n - 1] = EOC THEN EOC ELSE FatEntries[c[n - 1]]]
<1>1. ChainOf(start) = CHOOSE c : c = body(c)
  BY DEF ChainOf
<1>2. PICK c : FollowsTable(c, start, MaxChain)
  BY TableFollowed
<1>3. c = body(c)
  BY <1>2, Sizes DEF FollowsTable, Behind
<1>4. (CHOOSE d : d = body(d)) = body(CHOOSE d : d = body(d))
  <2> HIDE DEF body
  <2> QED
    BY <1>3, Zenon
<1>5. PICK d : d = ChainOf(start)
  OBVIOUS
<1>6. d = body(d)
  <2> HIDE DEF body
  <2> QED
    BY <1>1, <1>4, <1>5
<1>7. DOMAIN d = 0 .. MaxChain /\ d[0] = start /\ \A n \in 1 .. MaxChain : d[n] = Behind(d[n - 1])
  BY <1>6, Sizes DEF Behind
<1>8. ASSUME NEW n \in 0 .. MaxChain, d[n] \notin Clusters \cup {EOC} PROVE FALSE
  <2> DEFINE wrong == {m \in 0 .. MaxChain : d[m] \notin Clusters \cup {EOC}}
  <2>1. wrong \in SUBSET Nat /\ n \in wrong
    BY <1>8, Sizes
  <2>2. PICK m \in wrong : \A k \in wrong : m <= k
    <3> HIDE DEF wrong
    <3> QED
      BY <2>1, MinIs
  <2>3. m # 0
    BY <1>7, <2>2
  <2>4. m \in 1 .. MaxChain /\ m - 1 \in 0 .. MaxChain /\ ~(m - 1 \in wrong)
    BY <2>2, <2>3, Sizes
  <2>5. d[m - 1] \in Clusters \cup {EOC} /\ d[m] = Behind(d[m - 1])
    BY <1>7, <2>4
  <2> QED
    BY <2>2, <2>5, Entries DEF Behind
<1>9. d \in [0 .. MaxChain -> Clusters \cup {EOC}]
  <2>1. d = [n \in 0 .. MaxChain |-> d[n]]
    BY <1>6
  <2>2. \A n \in 0 .. MaxChain : d[n] \in Clusters \cup {EOC}
    BY <1>8
  <2> HIDE DEF body
  <2> QED
    BY <2>1, <2>2
<1> QED
  BY <1>5, <1>7, <1>9 DEF FollowsTable

(* The clusters traverseFAT has filled in are those of the chain. *)
LEMMA ChainIs ==
  ASSUME IInv, chain # <<>>, NEW n \in 0 .. Len(chain) - 1
  PROVE  /\ chain[1] \in Clusters
         /\ n \in 0 .. MaxChain
         /\ ChainOf(chain[1])[n] = chain[n + 1]
<1>1. /\ chain \in Seq(Clusters \cup {EOC}) /\ Len(chain) <= MaxChain /\ chain[1] \in Clusters
      /\ ChainFollowsFAT
  BY DEF IInv, Types, TypeOK, Chains
<1>2. PICK c : c = ChainOf(chain[1]) /\ FollowsTable(c, chain[1], MaxChain)
  BY <1>1, ChainOfIs
<1> DEFINE wrong == {m \in 0 .. Len(chain) - 1 : c[m] # chain[m + 1]}
<1>3. ASSUME wrong # {} PROVE FALSE
  <2>1. wrong \in SUBSET Nat
    BY <1>1
  <2>2. PICK m \in wrong : \A k \in wrong : m <= k
    <3> HIDE DEF wrong
    <3> QED
      BY <1>3, <2>1, MinIs
  <2>3. m # 0
    BY <1>1, <1>2, <2>2 DEF FollowsTable
  <2>4. /\ m \in 1 .. Len(chain) - 1 /\ m \in 1 .. MaxChain
        /\ m - 1 \in 0 .. Len(chain) - 1 /\ ~(m - 1 \in wrong)
    BY <1>1, <2>2, <2>3, Sizes
  <2>5. c[m - 1] = chain[m] /\ c[m] = Behind(c[m - 1])
    BY <1>2, <2>4 DEF FollowsTable
  <2>6. chain[m] \in Clusters /\ chain[m + 1] = FatEntries[chain[m]]
    BY <1>1, <2>4 DEF ChainFollowsFAT
  <2> QED
    BY <2>2, <2>5, <2>6, Entries DEF Behind
<1>4. n \in 0 .. MaxChain
  BY <1>1, Sizes
<1> QED
  BY <1>1, <1>2, <1>3, <1>4

(* The i-th sector of the file that is held, and what is printed of the    *)
(* file when k of its clusters have been.                                  *)
SectorAt(i) == <<chain[(i - 1) \div SectorsPerCluster + 1], (i - 1) % SectorsPerCluster>>

PrintedTo(k) ==
  /\ printed \in Seq(Clusters \X (0 .. SectorsPerCluster - 1))
  /\ file.size <= k * SectorsPerCluster => Len(printed) = file.size
  /\ file.size > k * SectorsPerCluster => Len(printed) = k * SectorsPerCluster
  /\ \A i \in 1 .. Len(printed) : printed[i] = SectorAt(i)

Printing ==
  /\ pc \in {"found", "print"} /\ cmd.op # "boot" => Len(chain) = MaxChain \/ Last(chain) = EOC
  /\ pc = "print" =>
       /\ index <= Len(chain)
       /\ \A j \in 1 .. index : chain[j] # EOC
       /\ PrintedTo(index)
  /\ PrintsFile

(* A round of printFile prints the next cluster of the chain. *)
LEMMA PrintRound ==
  ASSUME IInv, Course, Printing, pc = "print", index < MaxChain,
         NEW c \in FileClusters(index), c # EOC
  PROVE  /\ index \in Nat /\ index < Len(chain)
         /\ c = chain[index + 1] /\ c \in Clusters
<1>1. /\ chain \in Seq(Clusters \cup {EOC}) /\ index \in Nat /\ index <= Len(chain) /\ chain # <<>>
      /\ Len(chain) = MaxChain \/ Last(chain) = EOC
      /\ \A j \in 1 .. index : chain[j] # EOC
  <2>1. chain \in Seq(Clusters \cup {EOC}) /\ index \in Nat /\ chain # <<>>
    BY DEF IInv, Types, TypeOK, Chains
  <2>2. cmd.op # "boot"
    BY DEF Course
  <2> QED
    BY <2>1, <2>2 DEF Printing
<1>2. index < Len(chain)
  <2>1. ASSUME index = Len(chain) PROVE FALSE
    <3>1. chain[Len(chain)] = EOC /\ Len(chain) \in 1 .. index
      BY <1>1, <2>1, Sizes DEF Last
    <3> QED
      BY <1>1, <3>1
  <2> QED
    BY <1>1, <2>1
<1>3. c = chain[index + 1]
  BY <1>2 DEF FileClusters
<1> QED
  BY <1>1, <1>2, <1>3

LEMMA PrintClusterPrints ==
  ASSUME ~DriveFails, IInv, Course, Printing, PrintCluster
  PROVE  Printing'
<1>1. /\ pc = "print" /\ index < MaxChain /\ index' = index + 1
      /\ UNCHANGED <<chain, file, cmd, pc>>
  BY DEF PrintCluster
<1>2. PICK c \in FileClusters(index) \ {EOC}, n \in Arriving : load_Cluster(c, n)
  BY DEF PrintCluster
<1>3. /\ index \in Nat /\ index < Len(chain)
      /\ c = chain[index + 1] /\ c \in Clusters
  BY <1>1, <1>2, PrintRound
<1>4. \A s \in 0 .. SectorsPerCluster - 1 : ClusterBuffer'[s] = c
  BY <1>1, <1>2, <1>3, AllArrive
<1>5. PICK size \in Nat, e \in Nat, k \in Nat :
        size = file.size /\ e = SectorsPerCluster /\ k = index /\ e > 0
  BY <1>3, Sizes DEF IInv, Types, IsRecord
<1>6. PICK w \in Nat : w = k * e
  BY <1>5
<1>7. (k + 1) * e = w + e /\ (k + 1) * e \in Nat
  BY <1>5, <1>6
<1> DEFINE S == Clusters \X (0 .. e - 1)
<1>8. /\ printed \in Seq(S)
      /\ size <= w => Len(printed) = size
      /\ size > w => Len(printed) = w
      /\ \A i \in 1 .. Len(printed) : printed[i] = SectorAt(i)
  BY <1>1, <1>5, <1>6 DEF Printing, PrintedTo
<1>9. PICK shown \in Int : shown = (IF size - w > e THEN e ELSE size - w)
  OBVIOUS
<1> DEFINE more == [s \in 1 .. shown |-> <<ClusterBuffer'[s - 1], s - 1>>]
<1>10. printed' = printed \o more
  BY <1>5, <1>6, <1>9 DEF PrintCluster
<1>11. PrintedTo(index)'
  <2>1. CASE size <= w
    <3>1. 1 .. shown = {}
      BY <1>9, <2>1
    <3>2. more = <<>>
      BY <3>1
    <3>3. printed' = printed
      <4> HIDE DEF more, S
      <4> QED
        BY <1>8, <1>10, <3>2
    <3>4. size <= w + e /\ ~(size > w + e)
      BY <1>5, <2>1
    <3>5. /\ SectorAt(1)' = SectorAt(1)
          /\ \A i \in 1 .. Len(printed) : SectorAt(i)' = SectorAt(i)
      BY <1>1 DEF SectorAt
    <3> HIDE DEF more
    <3> QED
      BY <1>1, <1>5, <1>6, <1>7, <1>8, <2>1, <3>3, <3>4, <3>5 DEF PrintedTo
  <2>2. CASE size > w
    <3>1. shown \in 1 .. e /\ Len(printed) = w
      BY <1>5, <1>8, <1>9, <2>2
    <3>2. more = [s \in 1 .. shown |-> <<c, s - 1>>]
      BY <1>4, <1>5, <3>1
    <3>3. \A s \in 1 .. shown : <<c, s - 1>> \in S
      BY <1>3, <3>1
    <3>4. more \in Seq(S) /\ Len(more) = shown /\ \A s \in 1 .. shown : more[s] = <<c, s - 1>>
      <4> HIDE DEF S
      <4> QED
        BY <3>1, <3>2, <3>3
    <3> HIDE DEF more, S
    <3>5. /\ printed' \in Seq(S)
          /\ Len(printed') = w + shown
          /\ \A i \in 1 .. w : printed'[i] = printed[i]
          /\ \A s \in 1 .. shown : printed'[w + s] = more[s]
      <4>1. PICK u : u = printed \o more
        OBVIOUS
      <4>2. /\ u \in Seq(S) /\ Len(u) = w + shown
            /\ \A i \in 1 .. w + shown : u[i] = IF i <= w THEN printed[i] ELSE more[i - w]
        BY <1>8, <3>1, <3>4, <4>1, ConcatProperties
      <4>3. ASSUME NEW i \in 1 .. w PROVE u[i] = printed[i]
        BY <3>1, <4>2
      <4>4. ASSUME NEW s \in 1 .. shown PROVE u[w + s] = more[s]
        <5>1. w + s \in 1 .. w + shown /\ ~(w + s <= w) /\ (w + s) - w = s
          BY <3>1
        <5> QED
          BY <4>2, <5>1
      <4> QED
        BY <1>10, <4>1, <4>2, <4>3, <4>4
    <3>6. ASSUME NEW i \in 1 .. w + shown
          PROVE  printed'[i] = SectorAt(i)'
      <4>1. SectorAt(i)' = SectorAt(i)
        BY <1>1 DEF SectorAt
      <4>2. CASE i <= w
        BY <1>8, <3>1, <3>5, <4>1, <4>2
      <4>3. CASE i > w
        <5>1. PICK s \in 1 .. shown : i = w + s
          BY <3>1, <4>3
        <5>2. PICK r \in 0 .. e - 1 : r = s - 1
          BY <1>5, <3>1
        <5>3. i - 1 = k * e + r /\ i - 1 \in Nat
          BY <1>6, <3>1, <5>1, <5>2
        <5>4. (i - 1) \div e = k /\ (i - 1) % e = r
          BY <1>5, <5>3, QuotientIs
        <5>5. SectorAt(i) = <<c, r>>
          BY <1>3, <1>5, <5>4 DEF SectorAt
        <5>6. printed'[i] = <<c, r>>
          BY <3>4, <3>5, <5>1, <5>2
        <5> QED
          BY <4>1, <5>5, <5>6
      <4> QED
        BY <3>1, <4>2, <4>3
    <3>7. /\ size <= w + e => Len(printed') = size
          /\ size > w + e => Len(printed') = w + e
      BY <1>5, <1>9, <2>2, <3>5
    <3> QED
      BY <1>1, <1>5, <1>6, <1>7, <3>5, <3>6, <3>7 DEF PrintedTo, S
  <2> QED
    BY <2>1, <2>2
<1>12. \A j \in 1 .. index' : chain'[j] # EOC
  BY <1>1, <1>2, <1>3 DEF Printing
<1>13. index' <= Len(chain')
  BY <1>1, <1>3 DEF IInv, Types, TypeOK
<1>14. Len(chain') = MaxChain \/ Last(chain') = EOC
  BY <1>1 DEF Printing, Course
<1>15. PrintsFile'
  BY <1>1 DEF PrintsFile, Ended
<1> QED
  BY <1>1, <1>11, <1>12, <1>13, <1>14, <1>15 DEF Printing

(* The file whose clusters end at the k-th is printed when k clusters are. *)
LEMMA AllPrinted ==
  ASSUME IInv, chain # <<>>, chain[1] = Target(file), NEW k \in 0 .. MaxChain,
         \A j \in 1 .. k : chain[j] # EOC,
         k <= Len(chain),
         k = MaxChain \/ (k < Len(chain) /\ chain[k + 1] = EOC),
         PrintedTo(k)
  PROVE  printed = Contents(file)
<1>1. PICK c : c = ChainOf(Target(file))
  OBVIOUS
<1>2. /\ chain \in Seq(Clusters \cup {EOC})
      /\ \A n \in 0 .. Len(chain) - 1 : c[n] = chain[n + 1]
  BY <1>1, ChainIs DEF IInv, Types, TypeOK
<1> DEFINE ends == {n \in 0 .. MaxChain : c[n] = EOC} \cup {MaxChain}
<1>3. k \in ends
  BY <1>2, Sizes
<1>4. ASSUME NEW n \in ends PROVE k <= n
  <2>1. n \in 0 .. MaxChain /\ k \in Nat
    BY Sizes
  <2>2. ASSUME n < k PROVE FALSE
    <3>1. c[n] = EOC
      BY <2>1, <2>2, Sizes
    <3>2. n + 1 \in 1 .. k /\ n \in 0 .. Len(chain) - 1
      BY <1>2, <2>1, <2>2
    <3> QED
      BY <1>2, <3>1, <3>2
  <2> QED
    BY <2>1, <2>2
<1>5. Min(ends) = k
  <2>1. ends \in SUBSET Nat
    BY Sizes
  <2> HIDE DEF ends
  <2> QED
    BY <1>3, <1>4, <2>1, LeastIs
<1>6. PICK size \in Nat, e \in Nat, w \in Nat :
        size = file.size /\ e = SectorsPerCluster /\ e > 0 /\ w = k * e
  BY Sizes DEF IInv, Types, IsRecord
<1>7. PICK m \in Nat : m = Min({file.size, k * SectorsPerCluster})
                       /\ m = (IF size <= w THEN size ELSE w)
  <2>1. {size, w} \in SUBSET Nat
    OBVIOUS
  <2>2. CASE size <= w
    <3>1. Min({size, w}) = size
      BY <2>1, <2>2, LeastIs
    <3> QED
      BY <1>6, <2>2, <3>1
  <2>3. CASE ~(size <= w)
    <3>1. Min({size, w}) = w
      BY <2>1, <2>3, LeastIs
    <3> QED
      BY <1>6, <2>3, <3>1
  <2> QED
    BY <2>2, <2>3
<1> DEFINE at(i) == <<c[(i - 1) \div SectorsPerCluster], (i - 1) % SectorsPerCluster>>
<1>8. Contents(file) = [i \in 1 .. m |-> at(i)]
  <2>1. Contents(file) =
          [i \in 1 .. Min({file.size, Min(ends) * SectorsPerCluster}) |-> at(i)]
    BY <1>1, Zenon DEF Contents, Target
  <2> HIDE DEF at, ends
  <2> QED
    BY <1>5, <1>7, <2>1
<1>9. /\ printed \in Seq(Clusters \X (0 .. SectorsPerCluster - 1)) /\ Len(printed) = m
      /\ \A i \in 1 .. m : printed[i] = SectorAt(i)
  <2>1. k * SectorsPerCluster = w
    BY <1>6
  <2>2. /\ printed \in Seq(Clusters \X (0 .. SectorsPerCluster - 1))
        /\ size <= w => Len(printed) = size
        /\ size > w => Len(printed) = w
        /\ \A i \in 1 .. Len(printed) : printed[i] = SectorAt(i)
    BY <1>6, <2>1, Zenon DEF PrintedTo
  <2>3. Len(printed) = m
    BY <1>7, <2>2
  <2> QED
    BY <2>2, <2>3
<1>10. ASSUME NEW i \in 1 .. m PROVE printed[i] = at(i)
  <2>1. i - 1 \in Nat /\ i - 1 < w
    BY <1>7
  <2>2. PICK q \in Nat, r \in 0 .. e - 1 :
          q = (i - 1) \div SectorsPerCluster /\ r = (i - 1) % SectorsPerCluster /\ q * e + r = i - 1
    BY <1>6, <2>1, Division
  <2>3. q < k
    BY <1>6, <2>1, <2>2, SectorBefore
  <2>4. q \in 0 .. Len(chain) - 1
    BY <1>2, <2>3
  <2>5. c[q] = chain[q + 1]
    BY <1>2, <2>4
  <2>6. SectorAt(i) = <<chain[q + 1], r>> /\ at(i) = <<c[q], r>>
    BY <2>2 DEF SectorAt
  <2> QED
    BY <1>9, <2>5, <2>6
<1> HIDE DEF at
<1>11. printed = [i \in 1 .. m |-> printed[i]]
  BY <1>9
<1> QED
  BY <1>8, <1>10, <1>11

LEMMA PrintEndsPrinted ==
  ASSUME IInv, Course, Printing, PrintEnds
  PROVE  printed = Contents(file)
<1>1. /\ pc = "print"
      /\ index = MaxChain \/ EOC \in FileClusters(index)
      /\ index \in 0 .. MaxChain /\ chain # <<>> /\ chain[1] = Target(file)
      /\ chain \in Seq(Clusters \cup {EOC}) /\ Len(chain) <= MaxChain
      /\ index <= Len(chain) /\ \A j \in 1 .. index : chain[j] # EOC
      /\ PrintedTo(index)
  BY DEF PrintEnds, IInv, Types, TypeOK, Chains, Course, Holding, Printing
<1>2. Len(chain) = MaxChain \/ Last(chain) = EOC
  BY <1>1 DEF Printing, Course
<1>3. index = MaxChain \/ (index < Len(chain) /\ chain[index + 1] = EOC)
  <2>1. CASE index < Len(chain)
    BY <1>1, <2>1 DEF FileClusters
  <2>2. CASE index = Len(chain)
    <3>1. Len(chain) \in 1 .. index
      BY <1>1, <2>2, Sizes
    <3>2. chain[Len(chain)] # EOC
      BY <1>1, <3>1
    <3> QED
      BY <1>2, <2>2, <3>2 DEF Last
  <2> QED
    BY <1>1, <2>1, <2>2, Sizes
<1> QED
  BY <1>1, <1>3, AllPrinted

LEMMA StartPrintPrints ==
  ASSUME IInv, Course, Printing, StartPrint
  PROVE  Printing'
<1>1. /\ pc = "found" /\ pc' = "print" /\ cmd.op = "cat" /\ index' = 0
      /\ UNCHANGED <<chain, cmd, file, printed>>
  BY DEF StartPrint
<1>2. printed = <<>> /\ (Len(chain) = MaxChain \/ Last(chain) = EOC) /\ Len(chain) \in Nat
  BY <1>1 DEF Course, Printing, IInv, Types, TypeOK
<1>3. PICK size \in Nat, w \in Nat : size = file.size /\ w = 0 * SectorsPerCluster /\ w = 0
  BY Sizes DEF IInv, Types, IsRecord
<1>4. printed' \in Seq(Clusters \X (0 .. SectorsPerCluster - 1)) /\ Len(printed') = 0
  BY <1>1, <1>2, EmptySequence
<1>5. PrintedTo(index)'
  BY <1>1, <1>3, <1>4 DEF PrintedTo
<1> QED
  BY <1>1, <1>2, <1>5 DEF Printing, PrintsFile, Ended

LEMMA NoFileEnds == NoFile.kind = "end"
BY Zenon DEF NoFile

LEMMA PrintingStep ==
  ASSUME ~DriveFails, IInv, Course, Printing, [Next]_vars
  PROVE  Printing'
<1> USE DEF Printing, PrintsFile, Ended, dirVars, cmdVars
<1>1. CASE BootFails
  BY <1>1 DEF BootFails
<1>2. CASE ReadHeader
  BY <1>2 DEF ReadHeader, Course
<1>3. CASE NextCluster
  BY <1>3 DEF NextCluster
<1>4. CASE ChainEnds
  <2>1. Len(chain) <= MaxChain /\ Len(chain) \in Nat
    BY DEF IInv, Types, TypeOK
  <2>2. Len(chain) = MaxChain \/ Last(chain) = EOC
    BY <1>4, <2>1, Sizes DEF ChainEnds, Follows
  <2> QED
    BY <1>4, <2>2 DEF ChainEnds, TraverseReturns
<1>5. CASE FatReadFails
  BY <1>5 DEF FatReadFails
<1>6. CASE KeepCluster
  BY <1>6 DEF KeepCluster
<1>7. CASE LoadFirstCluster
  BY <1>7, NoFileEnds DEF LoadFirstCluster, Course
<1>8. CASE ScanEnds
  BY <1>8, NoFileEnds DEF ScanEnds, Course, Scanning
<1>9. CASE ScanRecord
  BY <1>9 DEF ScanRecord
<1>10. CASE ScanMatches
  BY <1>10 DEF ScanMatches, StartFile
<1>11. CASE ScanOutside
  BY <1>11, NoFileEnds DEF ScanOutside, Course, Scanning
<1>12. CASE FindOutside
  BY <1>12 DEF FindOutside, StartFile
<1>13. CASE LoadNextCluster
  BY <1>13, NoFileEnds DEF LoadNextCluster, Course, Scanning
<1>14. CASE NoNextCluster
  BY <1>14, NoFileEnds DEF NoNextCluster, Course, Scanning
<1>15. CASE WrongKind
  BY <1>15 DEF WrongKind
<1>16. CASE OpenFound
  BY <1>16 DEF OpenFound
<1>17. CASE OpenDirectory
  BY <1>17 DEF OpenDirectory, IInv, Phases
<1>18. CASE StartPrint
  BY <1>18, StartPrintPrints
<1>19. CASE PrintCluster
  BY <1>19, PrintClusterPrints
<1>20. CASE PrintEnds
  <2>1. printed = Contents(file)
    BY <1>20, PrintEndsPrinted
  <2>2. printed' = Contents(file')
    BY <1>20, <2>1 DEF PrintEnds
  <2> QED
    BY <1>20, <2>2 DEF PrintEnds
<1>21. CASE User
  BY <1>21 DEF User, Start
<1>22. CASE UNCHANGED vars
  BY <1>22 DEF vars, PrintedTo, SectorAt
<1> QED
  BY <1>1, <1>2, <1>3, <1>4, <1>5, <1>6, <1>7, <1>8, <1>9, <1>10, <1>11, <1>12, <1>13,
     <1>14, <1>15, <1>16, <1>17, <1>18, <1>19, <1>20, <1>21, <1>22 DEF Next, Driver

(* On a drive that works cat prints the contents of the file: its sectors  *)
(* along the chain of the table, as far as its size and MaxChain clusters  *)
(* go, wherever on the disk its clusters lie and whatever they are         *)
(* (printFile, filesys.c:255-279).                                         *)
THEOREM PrintsTheFile == ~DriveFails => (Spec => []PrintsFile)
<1> SUFFICES ASSUME ~DriveFails PROVE Spec => []PrintsFile
  OBVIOUS
<1>1. Init => Course /\ Printing
  <2>1. Init => Printing
    BY DEF Init, Printing, PrintsFile, Ended
  <2> QED
    BY <2>1, InitCourse
<1>2. IInv /\ Course /\ Printing /\ [Next]_vars => (Course /\ Printing)'
  BY CourseStep, PrintingStep
<1>3. Printing => PrintsFile
  BY DEF Printing
<1> QED
  BY <1>1, <1>2, <1>3, Invariance, PTL DEF Spec

-----------------------------------------------------------------------------
(* A disk whose root directory lies in one cluster and ends in it, in a    *)
(* drive that works. (When printFile has used the buffer, the next scan    *)
(* starts with dirClusterIndex at -1; a root directory without an end      *)
(* would then be read a second time, behind its last record.)              *)
RootInOneCluster ==
  /\ ~DriveFails
  /\ FatEntries[Root] = EOC
  /\ \E i \in 1 .. RecordsPerCluster : Directory[Root][i].kind = "end"

InDirectory == ClusterBuffer[0]

OneDirectory ==
  /\ InDirectory \in Dirs
  /\ \A s \in 0 .. SectorsPerCluster - 1 : ClusterBuffer[s] = InDirectory

(* A command has found a file in the directory in the buffer, and has not  *)
(* read anything else into it.                                             *)
Found == cmd.op # "boot" /\ pc \in {"traverse", "found", "open"}

NotEnded(n) == \A i \in 1 .. n : Directory[InDirectory][i].kind # "end"

(* The buffer holds one directory whenever dirClusterIndex says so, and    *)
(* from the first record that is scanned until the command uses the file.  *)
Buffered ==
  /\ cmd.op = "boot" /\ pc \in {"traverse", "open"} => chain[1] = Root
  /\ cmd.op = "boot" /\ pc = "traverse" => Len(chain) = 1 \/ Last(chain) = EOC
  /\ cmd.op = "boot" /\ pc = "traverse" => Len(chain) <= 2
  /\ cmd.op # "boot" \/ pc \in {"open", "ready"} =>
       Len(dirChain) = 2 /\ dirChain[1] = Root /\ dirChain[2] = EOC
  /\ dirClusterIndex \in {-1, 0}
  /\ dirClusterIndex = 0 \/ Scanning \/ Found => OneDirectory
  /\ dirClusterIndex = -1 /\ (Scanning \/ Found) => InDirectory = Root
  /\ pc = "scan" => InBuffer
  /\ pc = "next" => recordOffset = RecordsPerCluster
  /\ Scanning => NotEnded(recordOffset)

(* What the scan looks at is the next record of that directory. *)
LEMMA HereIs ==
  ASSUME IInv, OneDirectory, InBuffer
  PROVE  /\ recordOffset + 1 \in 1 .. RecordsPerCluster
         /\ Here = Directory[InDirectory][recordOffset + 1]
         /\ Here.kind \in {"file", "dir", "deleted", "end"}
<1>1. /\ recordOffset \in Nat /\ recordOffset < SectorsPerCluster * RecordsPerSector
      /\ RecordsPerSector \in Nat /\ RecordsPerSector > 0 /\ SectorsPerCluster \in Nat
      /\ recordOffset + 1 \in 1 .. RecordsPerCluster
  BY Sizes, FileSysAssumption
     DEF FileSysAssumption, RecordsPerCluster, InBuffer, IInv, Types, TypeOK
<1>2. PICK q \in Nat, r \in 0 .. RecordsPerSector - 1 :
        q = recordOffset \div RecordsPerSector /\ q * RecordsPerSector + r = recordOffset
  BY <1>1, Division
<1>3. q < SectorsPerCluster
  BY <1>1, <1>2, SectorBefore
<1>4. ClusterBuffer[q] = InDirectory /\ InDirectory \in Dirs
  BY <1>1, <1>3 DEF OneDirectory
<1>5. Here = Directory[InDirectory][recordOffset + 1]
  BY <1>2, <1>4 DEF Here, Record, Dirs
<1>6. IsRecord(Here)
  BY HereIsRecord DEF IInv
<1> QED
  BY <1>1, <1>5, <1>6 DEF IsRecord

(* Behind the last record of the root directory the scan never gets. *)
LEMMA NextIsNotRoot ==
  ASSUME RootInOneCluster, IInv, Buffered, pc = "next"
  PROVE  dirClusterIndex = 0 /\ NextClusters = {EOC}
<1>1. NotEnded(RecordsPerCluster)
  BY DEF Buffered, Scanning
<1>2. InDirectory # Root
  BY <1>1 DEF RootInOneCluster, NotEnded
<1>3. dirClusterIndex = 0
  BY <1>2 DEF Buffered, Scanning
<1>4. Len(dirChain) = 2 /\ dirChain[2] = EOC
  BY DEF Buffered, IInv, Phases
<1>5. DirClusters(1) = {EOC}
  BY <1>4 DEF DirClusters
<1> QED
  BY <1>3, <1>5, Sizes DEF NextClusters

LEMMA RootIsFollowed ==
  ASSUME RootInOneCluster, IInv, Buffered, NextCluster
  PROVE  Buffered'
<1>1. /\ pc = "traverse" /\ pc' = pc
      /\ UNCHANGED <<bufVars, dirVars, cmd, followed, file, recordOffset, index, printed>>
  BY DEF NextCluster
<1>2. CASE cmd.op = "boot"
  <2>1. Last(chain) # EOC
    BY DEF NextCluster, Follows
  <2>2. Len(chain) = 1 /\ chain[1] = Root
    BY <1>1, <1>2, <2>1 DEF Buffered
  <2>3. Last(chain) = Root
    BY <2>2 DEF Last
  <2>4. /\ chain' \in Seq(Clusters \cup {EOC}) /\ Len(chain') = 2 /\ chain'[1] = Root
        /\ chain'[2] = EOC
    BY <2>2, <2>3, NextChain DEF RootInOneCluster
  <2>5. Last(chain') = EOC
    BY <2>4 DEF Last
  <2> QED
    BY <1>1, <1>2, <2>4, <2>5
       DEF Buffered, Scanning, Found, OneDirectory, InDirectory, NotEnded, InBuffer, bufVars, dirVars
<1>3. CASE cmd.op # "boot"
  BY <1>1, <1>3
     DEF Buffered, Scanning, Found, OneDirectory, InDirectory, NotEnded, InBuffer, bufVars, dirVars
<1> QED
  BY <1>2, <1>3

LEMMA RootIsRead ==
  ASSUME RootInOneCluster, IInv, Course, Buffered, LoadFirstCluster
  PROVE  Buffered' /\ pc' = "scan"
<1>1. /\ pc = "first" /\ cmd.op # "boot" /\ recordOffset = 0
      /\ UNCHANGED <<fatVars, dirVars, cmdVars>>
  BY DEF LoadFirstCluster, Course, IInv, Phases
<1>2. dirClusterIndex # 0 /\ dirClusterIndex \in {-1, 0}
  BY DEF LoadFirstCluster, Buffered
<1>3. DirClusters(0) = {Root} /\ Root \in Clusters /\ Root \in Dirs
  <2>1. Len(dirChain) = 2 /\ dirChain[1] = Root
    BY <1>1 DEF Buffered
  <2> QED
    BY <2>1, Entries DEF DirClusters
<1>4. PICK n \in Arriving : load_Cluster(Root, n) /\ pc' = IF n = Wanted THEN "scan" ELSE "ready"
  BY <1>3 DEF LoadFirstCluster
<1>5. n = Wanted /\ \A s \in 0 .. SectorsPerCluster - 1 : ClusterBuffer'[s] = Root
  BY <1>1, <1>3, <1>4, AllArrive DEF RootInOneCluster
<1>6. pc' = "scan"
  BY <1>4, <1>5
<1>7. OneDirectory' /\ InDirectory' = Root
  BY <1>3, <1>5, Sizes DEF OneDirectory, InDirectory
<1>8. InBuffer' /\ NotEnded(recordOffset)'
  BY <1>1, Sizes DEF InBuffer, NotEnded, cmdVars
<1> QED
  BY <1>1, <1>2, <1>6, <1>7, <1>8 DEF Buffered, Scanning, Found, dirVars, cmdVars

LEMMA DirectoryIsRead ==
  ASSUME RootInOneCluster, IInv, Course, Buffered, OpenDirectory
  PROVE  /\ Buffered'
         /\ dirClusterIndex' = 0 /\ sysPath' = NewPath /\ InDirectory' = chain[1]
<1>1. /\ pc = "open" /\ pc' = "ready"
      /\ UNCHANGED <<fatVars, dirChain, mounted, cmdVars>>
  BY DEF OpenDirectory
<1>2. chain[1] \in Dirs /\ chain[1] \in Clusters
  BY <1>1, Entries DEF IInv, Promise
<1>3. PICK n \in Arriving :
        /\ load_Cluster(chain[1], n)
        /\ n = Wanted => dirClusterIndex' = 0 /\ sysPath' = NewPath
  BY DEF OpenDirectory
<1>4. n = Wanted /\ \A s \in 0 .. SectorsPerCluster - 1 : ClusterBuffer'[s] = chain[1]
  BY <1>1, <1>2, <1>3, AllArrive DEF RootInOneCluster
<1>5. OneDirectory' /\ InDirectory' = chain[1]
  BY <1>2, <1>4, Sizes DEF OneDirectory, InDirectory
<1>6. Len(dirChain) = 2 /\ dirChain[1] = Root /\ dirChain[2] = EOC
  BY <1>1 DEF Buffered
<1> QED
  BY <1>1, <1>3, <1>4, <1>5, <1>6 DEF Buffered, Scanning, Found

LEMMA RecordIsScanned ==
  ASSUME IInv, Buffered, ScanRecord
  PROVE  /\ Buffered' /\ NotEnded(recordOffset + 1) /\ NotEnded(recordOffset)
         /\ OneDirectory /\ recordOffset \in Nat /\ recordOffset + 1 \in 1 .. RecordsPerCluster
         /\ Here = Directory[InDirectory][recordOffset + 1]
         /\ Here.kind \in {"file", "dir", "deleted"}
<1>1. /\ pc = "scan" /\ InBuffer /\ Here.kind # "end"
      /\ recordOffset' = recordOffset + 1
      /\ pc' = IF recordOffset' = RecordsPerCluster THEN "next" ELSE "scan"
      /\ UNCHANGED <<fatVars, bufVars, dirVars, cmd, chain, followed, file, index>>
  BY DEF ScanRecord
<1>2. OneDirectory /\ NotEnded(recordOffset) /\ recordOffset \in Nat
  BY <1>1, Sizes DEF Buffered, Scanning, IInv, Types, TypeOK
<1>3. /\ recordOffset + 1 \in 1 .. RecordsPerCluster
      /\ Here = Directory[InDirectory][recordOffset + 1]
      /\ Here.kind \in {"file", "dir", "deleted", "end"}
  BY <1>1, <1>2, HereIs
<1>4. NotEnded(recordOffset + 1)
  BY <1>1, <1>2, <1>3 DEF NotEnded
<1>5. NotEnded(recordOffset)' /\ OneDirectory'
  BY <1>1, <1>2, <1>4 DEF NotEnded, OneDirectory, InDirectory, bufVars
<1>6. pc' = "scan" => InBuffer'
  BY <1>1, <1>3, Sizes DEF InBuffer
<1> QED
  BY <1>1, <1>2, <1>3, <1>4, <1>5, <1>6
     DEF Buffered, Scanning, Found, InDirectory, bufVars, dirVars

LEMMA BufferedStep ==
  ASSUME RootInOneCluster, IInv, Course, Buffered, [Next]_vars
  PROVE  Buffered'
<1> USE DEF Buffered, Scanning, Found, OneDirectory, InDirectory, NotEnded, InBuffer,
            bufVars, dirVars, cmdVars
<1>1. CASE BootFails
  BY <1>1 DEF BootFails, RootInOneCluster
<1>2. CASE ReadHeader
  <2>1. chain' = <<Root>> /\ chain'[1] = Root /\ Len(chain') = 1 /\ cmd.op = "boot"
    BY <1>2 DEF ReadHeader, Course
  <2> QED
    BY <1>2, <2>1 DEF ReadHeader
<1>3. CASE NextCluster
  BY <1>3, RootIsFollowed
<1>4. CASE ChainEnds
  <2>1. chain \in Seq(Clusters \cup {EOC}) /\ chain # <<>>
    BY <1>4 DEF ChainEnds, IInv, Types, TypeOK, Chains
  <2>2. cmd.op = "boot" => Len(chain) = 2 /\ chain[1] = Root /\ chain[2] = EOC
    <3>1. SUFFICES ASSUME cmd.op = "boot"
                   PROVE  Len(chain) = 2 /\ chain[1] = Root /\ chain[2] = EOC
      OBVIOUS
    <3>2. chain[1] = Root /\ Len(chain) <= 2 /\ (Len(chain) = 1 \/ Last(chain) = EOC)
      BY <1>4, <3>1 DEF ChainEnds
    <3>3. Len(chain) # 1
      BY <1>4, <3>2, Sizes, Entries DEF ChainEnds, Follows, Last
    <3>4. Len(chain) \in Nat /\ Len(chain) # 0
      BY <2>1
    <3>5. PICK n \in Nat : n = Len(chain)
      BY <3>4
    <3>6. n = 2
      BY <3>2, <3>3, <3>4, <3>5
    <3> QED
      BY <3>2, <3>3, <3>5, <3>6 DEF Last
  <2> QED
    BY <1>4, <2>2 DEF ChainEnds, TraverseReturns
<1>5. CASE FatReadFails
  BY <1>5 DEF FatReadFails, RootInOneCluster
<1>6. CASE KeepCluster
  <2>1. recordOffset = 0 /\ cmd.op # "boot"
    BY <1>6 DEF KeepCluster, Course, IInv, Phases
  <2>2. recordOffset < RecordsPerCluster /\ \A i \in 1 .. recordOffset : FALSE
    BY ONLY <2>1, Sizes
  <2> QED
    BY <1>6, <2>1, <2>2 DEF KeepCluster
<1>7. CASE LoadFirstCluster
  BY <1>7, RootIsRead
<1>8. CASE ScanEnds
  BY <1>8 DEF ScanEnds, IInv, Phases
<1>9. CASE ScanRecord
  BY <1>9, RecordIsScanned
<1>10. CASE ScanMatches
  BY <1>10 DEF ScanMatches, StartFile, IInv, Phases
<1>11. CASE ScanOutside
  BY <1>11 DEF ScanOutside
<1>12. CASE FindOutside
  BY <1>12 DEF FindOutside
<1>13. CASE LoadNextCluster
  BY <1>13, NextIsNotRoot DEF LoadNextCluster
<1>14. CASE NoNextCluster
  BY <1>14 DEF NoNextCluster, IInv, Phases
<1>15. CASE WrongKind
  BY <1>15 DEF WrongKind, Course
<1>16. CASE OpenFound
  BY <1>16 DEF OpenFound
<1>17. CASE OpenDirectory
  BY <1>17, DirectoryIsRead
<1>18. CASE StartPrint
  BY <1>18 DEF StartPrint
<1>19. CASE PrintCluster
  <2>1. /\ pc = "print" /\ dirClusterIndex = -1 /\ cmd.op # "boot"
        /\ UNCHANGED <<dirVars, cmd, chain, pc>>
    BY <1>19 DEF PrintCluster, Course, IInv, Promise
  <2>2. Len(dirChain) = 2 /\ dirChain[1] = Root /\ dirChain[2] = EOC
    BY <2>1
  <2> QED
    BY ONLY <2>1, <2>2 DEF Buffered, Scanning, Found, dirVars
<1>20. CASE PrintEnds
  BY <1>20 DEF PrintEnds, Course
<1>21. CASE User
  <2>1. PICK op \in {"ls", "cd", "cat"}, name \in Names \cup {""} : Start(op, name)
    BY <1>21 DEF User
  <2>2. /\ cmd'.op = op /\ op # "boot" /\ pc = "ready" /\ pc' = "first"
        /\ UNCHANGED <<bufVars, dirVars>>
    BY <2>1 DEF Start
  <2> QED
    BY <2>2
<1>22. CASE UNCHANGED vars
  BY <1>22 DEF vars
<1> QED
  BY <1>1, <1>2, <1>3, <1>4, <1>5, <1>6, <1>7, <1>8, <1>9, <1>10, <1>11, <1>12, <1>13,
     <1>14, <1>15, <1>16, <1>17, <1>18, <1>19, <1>20, <1>21, <1>22 DEF Next, Driver

-----------------------------------------------------------------------------
(* What findFile finds. *)

Named(i) == i \in LiveRecords(InDirectory) /\ Directory[InDirectory][i].name = cmd.name

Sought ==
  /\ Scanning /\ cmd.op # "ls" => \A i \in 1 .. recordOffset : ~Named(i)
  /\ Found => \E r \in 1 .. RecordsPerCluster :
                /\ Named(r) /\ file = Directory[InDirectory][r]
                /\ \A i \in 1 .. RecordsPerCluster : Named(i) => r <= i
  /\ Found \/ pc = "print" => cmd.op # "ls" /\ file.kind \in {"file", "dir"}
  /\ (Ended("cd") \/ Ended("cat")) /\ file = NoFile =>
       \A i \in 1 .. RecordsPerCluster : ~Named(i)

(* Where a scan stops there is no live record further on. *)
LEMMA ScanIsOver ==
  ASSUME IInv, Buffered, pc = "next" \/ (pc = "scan" /\ InBuffer /\ Here.kind = "end")
  PROVE  \A i \in LiveRecords(InDirectory) : i \in 1 .. recordOffset
<1>1. recordOffset \in 0 .. RecordsPerCluster /\ RecordsPerCluster \in Nat
  BY Sizes DEF IInv, Types, TypeOK
<1>2. SUFFICES ASSUME NEW i \in LiveRecords(InDirectory) PROVE i \in 1 .. recordOffset
  OBVIOUS
<1>3. i \in 1 .. RecordsPerCluster /\ \A j \in 1 .. i : Directory[InDirectory][j].kind # "end"
  BY DEF LiveRecords
<1>4. CASE pc = "next"
  BY <1>3, <1>4 DEF Buffered
<1>5. CASE pc = "scan" /\ InBuffer /\ Here.kind = "end"
  <2>1. Directory[InDirectory][recordOffset + 1].kind = "end"
    BY <1>5, HereIs DEF Buffered, Scanning
  <2>2. ~(recordOffset + 1 \in 1 .. i)
    BY <1>3, <2>1
  <2> QED
    BY <1>1, <1>3, <2>2
<1> QED
  BY <1>4, <1>5

LEMMA NothingFound ==
  ASSUME IInv, Course, Buffered, Sought,
         pc = "next" \/ (pc = "scan" /\ InBuffer /\ Here.kind = "end"),
         pc' = "ready", UNCHANGED <<ClusterBuffer, cmd, file>>
  PROVE  Sought'
<1>1. cmd.op # "ls" => \A i \in 1 .. RecordsPerCluster : ~Named(i)
  BY ScanIsOver DEF Sought, Scanning, Named
<1> QED
  BY <1>1 DEF Sought, Scanning, Found, Named, InDirectory, Ended

LEMMA NotThisRecord ==
  ASSUME IInv, Course, Buffered, Sought, ScanRecord
  PROVE  Sought'
<1>1. /\ Here = Directory[InDirectory][recordOffset + 1]
      /\ recordOffset \in Nat /\ Here.kind \in {"file", "dir", "deleted"}
  BY RecordIsScanned
<1>2. /\ pc = "scan" /\ pc' \in {"scan", "next"} /\ recordOffset' = recordOffset + 1
      /\ ~Matches /\ UNCHANGED <<bufVars, cmd, file>>
  BY DEF ScanRecord
<1>3. cmd.op # "ls" => ~Named(recordOffset + 1)
  BY <1>1, <1>2 DEF Matches, Named, LiveRecords
<1>4. cmd.op # "ls" => \A i \in 1 .. recordOffset + 1 : ~Named(i)
  BY <1>1, <1>2, <1>3 DEF Sought, Scanning
<1> QED
  BY <1>2, <1>4 DEF Sought, Scanning, Found, Named, InDirectory, Ended, bufVars

LEMMA ThisRecord ==
  ASSUME IInv, Course, Buffered, Sought, ScanMatches
  PROVE  Sought'
<1>1. /\ pc = "scan" /\ InBuffer /\ Matches /\ cmd.op # "ls"
      /\ pc' = "traverse" /\ file' = Here
      /\ UNCHANGED <<bufVars, cmd>>
  BY DEF ScanMatches, StartFile, Matches
<1> DEFINE r == recordOffset + 1
<1>2. /\ r \in 1 .. RecordsPerCluster /\ Here = Directory[InDirectory][r]
      /\ NotEnded(recordOffset)
  BY <1>1, HereIs DEF Buffered, Scanning
<1>3. recordOffset \in Nat /\ RecordsPerCluster \in Nat
  BY Sizes DEF IInv, Types, TypeOK
<1>4. Named(r)
  BY <1>1, <1>2, <1>3 DEF Matches, Named, LiveRecords, NotEnded
<1>5. ASSUME NEW i \in 1 .. RecordsPerCluster, Named(i) PROVE r <= i
  <2>1. ~(i \in 1 .. recordOffset)
    BY <1>1, <1>5 DEF Sought, Scanning
  <2> QED
    BY <1>3, <2>1
<1>6. Here.kind \in {"file", "dir"}
  BY <1>1 DEF Matches
<1> HIDE DEF r
<1> QED
  BY <1>1, <1>2, <1>4, <1>5, <1>6
     DEF Sought, Scanning, Found, Named, InDirectory, Ended, bufVars

LEMMA SoughtStep ==
  ASSUME RootInOneCluster, IInv, Course, Buffered, Sought, [Next]_vars
  PROVE  Sought'
<1> USE DEF Sought, Scanning, Found, Named, InDirectory, Ended, bufVars, dirVars, cmdVars
<1>1. CASE BootFails
  BY <1>1 DEF BootFails, RootInOneCluster
<1>2. CASE ReadHeader
  BY <1>2 DEF ReadHeader, Course
<1>3. CASE NextCluster
  BY <1>3 DEF NextCluster
<1>4. CASE ChainEnds
  BY <1>4 DEF ChainEnds, TraverseReturns
<1>5. CASE FatReadFails
  BY <1>5 DEF FatReadFails, RootInOneCluster
<1>6. CASE KeepCluster
  <2>1. pc = "first" /\ pc' = "scan" /\ recordOffset = 0 /\ UNCHANGED recordOffset
    BY <1>6 DEF KeepCluster, Course
  <2>2. \A i \in 1 .. recordOffset' : FALSE
    BY ONLY <2>1
  <2> QED
    BY <2>1, <2>2
<1>7. CASE LoadFirstCluster
  <2>1. pc = "first" /\ pc' = "scan" /\ recordOffset = 0 /\ UNCHANGED recordOffset
    BY <1>7, RootIsRead DEF LoadFirstCluster, Course
  <2>2. \A i \in 1 .. recordOffset' : FALSE
    BY ONLY <2>1
  <2> QED
    BY <2>1, <2>2
<1>8. CASE ScanEnds
  BY <1>8, NothingFound DEF ScanEnds
<1>9. CASE ScanRecord
  BY <1>9, NotThisRecord
<1>10. CASE ScanMatches
  BY <1>10, ThisRecord
<1>11. CASE ScanOutside
  BY <1>11 DEF ScanOutside, Buffered
<1>12. CASE FindOutside
  BY <1>12 DEF FindOutside, Buffered
<1>13. CASE LoadNextCluster
  BY <1>13, NextIsNotRoot DEF LoadNextCluster
<1>14. CASE NoNextCluster
  BY <1>14, NothingFound DEF NoNextCluster
<1>15. CASE WrongKind
  BY <1>15, NoFileEnds DEF WrongKind, Course
<1>16. CASE OpenFound
  BY <1>16 DEF OpenFound
<1>17. CASE OpenDirectory
  BY <1>17, NoFileEnds DEF OpenDirectory
<1>18. CASE StartPrint
  BY <1>18 DEF StartPrint
<1>19. CASE PrintCluster
  BY <1>19 DEF PrintCluster
<1>20. CASE PrintEnds
  BY <1>20, NoFileEnds DEF PrintEnds
<1>21. CASE User
  BY <1>21 DEF User, Start
<1>22. CASE UNCHANGED vars
  BY <1>22 DEF vars
<1> QED
  BY <1>1, <1>2, <1>3, <1>4, <1>5, <1>6, <1>7, <1>8, <1>9, <1>10, <1>11, <1>12, <1>13,
     <1>14, <1>15, <1>16, <1>17, <1>18, <1>19, <1>20, <1>21, <1>22 DEF Next, Driver

LEMMA SoughtIsFound ==
  ASSUME RootInOneCluster, Course, Sought
  PROVE  FindsFile
<1> DEFINE records == Directory[ClusterBuffer[0]]
           hits == {i \in LiveRecords(ClusterBuffer[0]) : records[i].name = cmd.name}
<1>1. hits \in SUBSET (1 .. RecordsPerCluster) /\ hits \in SUBSET Nat
  BY Sizes DEF LiveRecords
<1>2. \A i \in 1 .. RecordsPerCluster : Named(i) <=> i \in hits
  BY DEF Named, InDirectory
<1>3. CASE pc = "found"
  <2>1. PICK r \in 1 .. RecordsPerCluster :
          /\ Named(r) /\ file = Directory[InDirectory][r]
          /\ \A i \in 1 .. RecordsPerCluster : Named(i) => r <= i
    BY <1>3 DEF Sought, Found, Course
  <2>2. r \in hits /\ \A i \in hits : r <= i
    BY <1>1, <1>2, <2>1
  <2>3. Min(hits) = r
    <3> HIDE DEF hits
    <3> QED
      BY <1>1, <2>2, LeastIs
  <2>4. file = IF hits = {} THEN NoFile ELSE records[Min(hits)]
    BY <2>1, <2>2, <2>3 DEF InDirectory
  <2> QED
    BY <2>4, Zenon DEF FindsFile
<1>4. CASE (Ended("cd") \/ Ended("cat")) /\ file = NoFile
  <2>1. hits = {}
    BY <1>1, <1>2, <1>4 DEF Sought
  <2> QED
    BY <1>4, <2>1, Zenon DEF FindsFile
<1> QED
  BY <1>3, <1>4, Zenon DEF FindsFile

LEMMA InitSearch == Init => Course /\ Buffered /\ Sought
<1> SUFFICES ASSUME Init PROVE Course /\ Buffered /\ Sought
  OBVIOUS
<1>1. pc = "boot" /\ cmd.op = "boot" /\ dirClusterIndex = -1
  BY DEF Init
<1>2. Buffered
  BY <1>1 DEF Buffered, Scanning, Found
<1>3. Sought
  BY <1>1 DEF Sought, Scanning, Found, Ended
<1> QED
  BY <1>2, <1>3, InitCourse

LEMMA Searches ==
  ASSUME RootInOneCluster
  PROVE  Spec => [](IInv /\ Course /\ Buffered /\ Sought)
<1>1. IInv /\ Course /\ Buffered /\ Sought /\ [Next]_vars => (Course /\ Buffered /\ Sought)'
  BY CourseStep, BufferedStep, SoughtStep DEF RootInOneCluster
<1> QED
  BY <1>1, InitSearch, Invariance, PTL DEF Spec

(* findFile returns the first record of the name it is asked for among the *)
(* live records of the directory in the buffer, and fails only if there is *)
(* none: in a directory of any size, with deleted records anywhere in it,  *)
(* also when it fills its cluster to the last record (filesys.c:283-399).  *)
THEOREM FindsTheFile == RootInOneCluster => (Spec => []FindsFile)
<1> SUFFICES ASSUME RootInOneCluster PROVE Spec => []FindsFile
  OBVIOUS
<1>1. IInv /\ Course /\ Buffered /\ Sought => FindsFile
  BY SoughtIsFound
<1> QED
  BY <1>1, Searches, PTL

-----------------------------------------------------------------------------
(* What listFiles lists. The place of a live record in the listing is the  *)
(* number of live records up to it.                                        *)

Live == LiveRecords(InDirectory)

Rank(i) == Cardinality(UpTo(i, Live))

ListedTo(n) ==
  /\ printed \in Seq(Names)
  /\ Len(printed) = Rank(n)
  /\ \A i \in UpTo(n, Live) :
       Rank(i) \in 1 .. Len(printed) /\ printed[Rank(i)] = Directory[InDirectory][i].name
  /\ \A k \in 1 .. Len(printed) : \E i \in UpTo(n, Live) : Rank(i) = k

Listing ==
  /\ Scanning /\ cmd.op = "ls" => ListedTo(recordOffset)
  /\ ListsDirectory

LEMMA LiveIsFinite ==
  /\ Live \subseteq 1 .. RecordsPerCluster /\ Live \in SUBSET Nat
  /\ IsFiniteSet(Live)
  /\ \A n : IsFiniteSet(UpTo(n, Live)) /\ Rank(n) \in Nat
<1>1. Live \subseteq 1 .. RecordsPerCluster /\ Live \in SUBSET Nat
  BY Sizes DEF Live, LiveRecords
<1>2. IsFiniteSet(1 .. RecordsPerCluster)
  BY Sizes, FS_Interval
<1>3. IsFiniteSet(Live)
  BY <1>1, <1>2, FS_Subset
<1>4. ASSUME NEW n PROVE IsFiniteSet(UpTo(n, Live)) /\ Rank(n) \in Nat
  <2>1. UpTo(n, Live) \subseteq Live
    BY DEF UpTo
  <2>2. IsFiniteSet(UpTo(n, Live))
    BY <1>3, <2>1, FS_Subset
  <2> QED
    BY <2>2, FS_CardinalityType DEF Rank
<1> QED
  BY <1>1, <1>3, <1>4

LEMMA RankOfNext ==
  ASSUME NEW n \in Nat
  PROVE  /\ n + 1 \in Live => /\ Rank(n + 1) = Rank(n) + 1
                              /\ UpTo(n + 1, Live) = UpTo(n, Live) \cup {n + 1}
         /\ n + 1 \notin Live => /\ Rank(n + 1) = Rank(n)
                                 /\ UpTo(n + 1, Live) = UpTo(n, Live)
<1>1. Live \in SUBSET Nat /\ IsFiniteSet(UpTo(n, Live))
  BY LiveIsFinite
<1>2. CASE n + 1 \in Live
  <2>1. UpTo(n + 1, Live) = UpTo(n, Live) \cup {n + 1} /\ n + 1 \notin UpTo(n, Live)
    <3>1. ASSUME NEW i \in Live PROVE i <= n + 1 <=> (i <= n \/ i = n + 1)
      BY <1>1, <3>1
    <3>2. ~(n + 1 <= n)
      OBVIOUS
    <3> QED
      BY <1>2, <3>1, <3>2, Zenon DEF UpTo
  <2>2. Cardinality(UpTo(n, Live) \cup {n + 1}) = Cardinality(UpTo(n, Live)) + 1
    BY <1>1, <2>1, FS_AddElement
  <2> QED
    BY <1>2, <2>1, <2>2 DEF Rank
<1>3. CASE n + 1 \notin Live
  <2>1. UpTo(n + 1, Live) = UpTo(n, Live)
    <3>1. ASSUME NEW i \in Live PROVE i <= n + 1 <=> i <= n
      BY <1>1, <1>3, <3>1
    <3> QED
      BY <3>1, Zenon DEF UpTo
  <2> QED
    BY <1>3, <2>1 DEF Rank
<1> QED
  BY <1>2, <1>3

LEMMA NothingListed ==
  ASSUME Course, pc = "first"
  PROVE  recordOffset = 0 /\ printed = <<>> /\ Rank(0) = 0 /\ UpTo(0, Live) = {}
<1>1. UpTo(0, Live) = {}
  <2>1. \A i \in Live : i \in 1 .. RecordsPerCluster
    BY LiveIsFinite
  <2> QED
    BY <2>1, Sizes DEF UpTo
<1>2. Rank(0) = 0
  BY <1>1, FS_EmptySet DEF Rank
<1> QED
  BY <1>1, <1>2 DEF Course

LEMMA LiveIsNamed ==
  ASSUME OneDirectory, NEW i \in Live
  PROVE  Directory[InDirectory][i].name \in Names
BY DEF OneDirectory, Names, Live, Dirs

LEMMA NextIsListed ==
  ASSUME IInv, Course, Buffered, Listing, ScanRecord
  PROVE  Listing'
<1>1. /\ Here = Directory[InDirectory][recordOffset + 1]
      /\ recordOffset \in Nat /\ Here.kind \in {"file", "dir", "deleted"}
      /\ recordOffset + 1 \in 1 .. RecordsPerCluster
      /\ NotEnded(recordOffset + 1) /\ OneDirectory
  BY RecordIsScanned
<1>2. /\ pc = "scan" /\ pc' \in {"scan", "next"} /\ recordOffset' = recordOffset + 1
      /\ printed' = IF cmd.op = "ls" /\ Here.kind # "deleted"
                    THEN Append(printed, Here.name) ELSE printed
      /\ UNCHANGED <<bufVars, cmd>>
  BY DEF ScanRecord
<1>3. SUFFICES ASSUME cmd.op = "ls" PROVE ListedTo(recordOffset)'
  BY <1>2 DEF Listing, ListsDirectory, Ended, Scanning
<1> DEFINE n == recordOffset
<1>4. /\ InDirectory' = InDirectory /\ Live' = Live
      /\ \A i : Rank(i)' = Rank(i) /\ UpTo(i, Live)' = UpTo(i, Live)
  BY <1>2 DEF InDirectory, Live, LiveRecords, Rank, UpTo, bufVars
<1>5. ListedTo(n)
  BY <1>2, <1>3 DEF Listing, Scanning
<1>6. n + 1 \in Live <=> Here.kind # "deleted"
  BY <1>1 DEF Live, LiveRecords, NotEnded
<1>7. Rank(n) \in Nat
  BY LiveIsFinite
<1>8. CASE Here.kind = "deleted"
  <2>1. printed' = printed /\ Rank(n + 1) = Rank(n) /\ UpTo(n + 1, Live) = UpTo(n, Live)
    BY <1>1, <1>2, <1>6, <1>8, RankOfNext
  <2> QED
    BY <1>2, <1>4, <1>5, <2>1, Zenon DEF ListedTo
<1>9. CASE Here.kind # "deleted"
  <2>1. /\ Rank(n + 1) = Rank(n) + 1 /\ UpTo(n + 1, Live) = UpTo(n, Live) \cup {n + 1}
        /\ n + 1 \in Live
    BY <1>1, <1>6, <1>9, RankOfNext
  <2>2. PICK name \in Names : name = Here.name
    BY <1>1, <2>1, LiveIsNamed
  <2>3. printed \in Seq(Names) /\ Len(printed) = Rank(n) /\ printed' = Append(printed, name)
    BY <1>2, <1>3, <1>5, <1>9, <2>2 DEF ListedTo
  <2>4. /\ printed' \in Seq(Names) /\ Len(printed') = Rank(n) + 1
        /\ \A k \in 1 .. Rank(n) : printed'[k] = printed[k]
        /\ printed'[Rank(n) + 1] = name
    BY <1>7, <2>3
  <2>5. ASSUME NEW i \in UpTo(n + 1, Live)
        PROVE  /\ Rank(i) \in 1 .. Len(printed')
               /\ printed'[Rank(i)] = Directory[InDirectory][i].name
    <3>1. CASE i = n + 1
      BY <1>1, <1>7, <2>1, <2>2, <2>4, <3>1
    <3>2. CASE i \in UpTo(n, Live)
      <4>1. Rank(i) \in 1 .. Rank(n) /\ printed[Rank(i)] = Directory[InDirectory][i].name
        BY <1>5, <3>2 DEF ListedTo
      <4> QED
        BY <1>7, <2>4, <4>1
    <3> QED
      BY <2>1, <3>1, <3>2
  <2>6. ASSUME NEW k \in 1 .. Len(printed')
        PROVE  \E i \in UpTo(n + 1, Live) : Rank(i) = k
    <3>1. CASE k = Rank(n) + 1
      BY <2>1, <3>1
    <3>2. CASE k # Rank(n) + 1
      <4>1. k \in 1 .. Rank(n)
        BY <1>7, <2>4, <3>2
      <4> QED
        BY <1>5, <2>1, <4>1 DEF ListedTo
    <3> QED
      BY <3>1, <3>2
  <2> QED
    BY <1>2, <1>4, <2>1, <2>4, <2>5, <2>6, Zenon DEF ListedTo
<1> QED
  BY <1>8, <1>9

(* When nothing live is left, the listing is the names of the directory. *)
LEMMA AllListed ==
  ASSUME ListedTo(recordOffset), \A i \in Live : i \in 1 .. recordOffset, recordOffset \in Nat
  PROVE  printed = NamesOf(ClusterBuffer[0])
<1>1. UpTo(recordOffset, Live) = Live
  BY DEF UpTo
<1> DEFINE Nth(k) == CHOOSE i \in Live : Rank(i) = k
           at(k) == Directory[ClusterBuffer[0]][Nth(k)].name
<1>2. PICK m \in Nat : m = Cardinality(Live)
  BY LiveIsFinite, FS_CardinalityType
<1>3. NamesOf(ClusterBuffer[0]) = [k \in 1 .. Cardinality(Live) |-> at(k)]
  BY Zenon DEF NamesOf, Live, InDirectory, Rank
<1>4. printed \in Seq(Names) /\ Len(printed) = m
  BY <1>1, <1>2 DEF ListedTo, Rank
<1>5. ASSUME NEW k \in 1 .. m PROVE printed[k] = at(k)
  <2>1. \E i \in Live : Rank(i) = k
    BY <1>1, <1>4 DEF ListedTo
  <2>2. Nth(k) \in Live /\ Rank(Nth(k)) = k
    BY <2>1, Zenon
  <2>3. printed[Rank(Nth(k))] = Directory[InDirectory][Nth(k)].name
    <3> HIDE DEF Nth
    <3> QED
      BY <1>1, <2>2 DEF ListedTo
  <2> HIDE DEF Nth
  <2> QED
    BY <2>2, <2>3 DEF InDirectory
<1> HIDE DEF at
<1>6. printed = [k \in 1 .. m |-> printed[k]]
  BY <1>4
<1> QED
  BY <1>2, <1>3, <1>5, <1>6

LEMMA ScanIsListed ==
  ASSUME IInv, Course, Buffered, Listing,
         pc = "next" \/ (pc = "scan" /\ InBuffer /\ Here.kind = "end"),
         pc' = "ready", UNCHANGED <<ClusterBuffer, cmd, printed>>
  PROVE  Listing'
<1>1. cmd.op = "ls" => printed = NamesOf(ClusterBuffer[0])
  <2>1. recordOffset \in Nat /\ \A i \in Live : i \in 1 .. recordOffset
    BY ScanIsOver, Sizes DEF Live, IInv, Types, TypeOK
  <2> QED
    BY <2>1, AllListed DEF Listing, Scanning
<1>2. cmd'.op = "ls" => printed' = NamesOf(ClusterBuffer'[0])
  BY <1>1
<1> QED
  BY <1>2 DEF Listing, ListsDirectory, Ended, Scanning

LEMMA ListingStarts ==
  ASSUME Course, pc = "first", pc' = "scan", UNCHANGED <<recordOffset, printed>>
  PROVE  Listing'
<1>1. recordOffset = 0 /\ printed = <<>>
  BY DEF Course
<1>2. Rank(0)' = 0 /\ UpTo(0, Live)' = {}
  <2>1. \A i \in Live' : i \in 1 .. RecordsPerCluster
    BY DEF Live, LiveRecords
  <2>2. UpTo(0, Live)' = {}
    BY <2>1, Sizes DEF UpTo
  <2> QED
    BY <2>2, FS_EmptySet DEF Rank
<1>3. ListedTo(0)'
  <2>1. printed' = <<>> /\ printed' \in Seq(Names) /\ Len(printed') = 0
    BY <1>1, EmptySequence
  <2> QED
    BY <1>2, <2>1 DEF ListedTo
<1>4. recordOffset' = 0
  BY <1>1
<1> QED
  BY <1>3, <1>4 DEF Listing, ListsDirectory, Ended

LEMMA ListingStep ==
  ASSUME RootInOneCluster, IInv, Course, Buffered, Sought, Listing, [Next]_vars
  PROVE  Listing'
<1> USE DEF Listing, ListsDirectory, Ended, Scanning, Found, bufVars, dirVars, cmdVars
<1>1. CASE BootFails
  BY <1>1 DEF BootFails, RootInOneCluster
<1>2. CASE ReadHeader
  BY <1>2 DEF ReadHeader
<1>3. CASE NextCluster
  BY <1>3 DEF NextCluster
<1>4. CASE ChainEnds
  BY <1>4 DEF ChainEnds, TraverseReturns
<1>5. CASE FatReadFails
  BY <1>5 DEF FatReadFails, RootInOneCluster
<1>6. CASE KeepCluster
  BY <1>6, ListingStarts DEF KeepCluster
<1>7. CASE LoadFirstCluster
  BY <1>7, RootIsRead, ListingStarts DEF LoadFirstCluster
<1>8. CASE ScanEnds
  BY <1>8, ScanIsListed DEF ScanEnds
<1>9. CASE ScanRecord
  BY <1>9, NextIsListed
<1>10. CASE ScanMatches
  BY <1>10 DEF ScanMatches, StartFile
<1>11. CASE ScanOutside
  BY <1>11 DEF ScanOutside, Buffered
<1>12. CASE FindOutside
  BY <1>12 DEF FindOutside, StartFile
<1>13. CASE LoadNextCluster
  BY <1>13, NextIsNotRoot DEF LoadNextCluster
<1>14. CASE NoNextCluster
  BY <1>14, ScanIsListed DEF NoNextCluster
<1>15. CASE WrongKind
  BY <1>15 DEF WrongKind, Sought, Course
<1>16. CASE OpenFound
  BY <1>16 DEF OpenFound
<1>17. CASE OpenDirectory
  BY <1>17 DEF OpenDirectory, Sought
<1>18. CASE StartPrint
  BY <1>18 DEF StartPrint
<1>19. CASE PrintCluster
  BY <1>19 DEF PrintCluster
<1>20. CASE PrintEnds
  BY <1>20 DEF PrintEnds, Sought
<1>21. CASE User
  BY <1>21 DEF User, Start
<1>22. CASE UNCHANGED vars
  <2>1. UNCHANGED <<pc, cmd, printed, recordOffset, ClusterBuffer>>
    BY <1>22 DEF vars
  <2>2. ListedTo(recordOffset)' <=> ListedTo(recordOffset)
    BY <2>1 DEF ListedTo, Rank, Live, InDirectory, LiveRecords, UpTo
  <2> QED
    BY <2>1, <2>2
<1> QED
  BY <1>1, <1>2, <1>3, <1>4, <1>5, <1>6, <1>7, <1>8, <1>9, <1>10, <1>11, <1>12, <1>13,
     <1>14, <1>15, <1>16, <1>17, <1>18, <1>19, <1>20, <1>21, <1>22 DEF Next, Driver

(* ls prints the names of the directory in the buffer: all of its live     *)
(* records, once each and in their order, whatever is deleted among them   *)
(* and also when the directory has no end (listFiles, filesys.c:402-490).  *)
THEOREM ListsTheDirectory == RootInOneCluster => (Spec => []ListsDirectory)
<1> SUFFICES ASSUME RootInOneCluster PROVE Spec => []ListsDirectory
  OBVIOUS
<1>1. Init => Listing
  BY DEF Init, Listing, ListsDirectory, Scanning, Ended
<1>2. IInv /\ Course /\ Buffered /\ Sought /\ Listing /\ [Next]_vars => Listing'
  BY ListingStep
<1>3. Listing => ListsDirectory
  BY DEF Listing
<1> QED
  BY <1>1, <1>2, <1>3, Searches, PTL DEF Spec

-----------------------------------------------------------------------------
(* The system path. The directories of a disk form a tree when they have   *)
(* depths: "." of a directory leads to itself, ".." one level up and       *)
(* every other record of a directory one level down. The root directory    *)
(* has neither "." nor "..".                                               *)
IsTree(depth) ==
  /\ depth \in [Dirs -> Nat]
  /\ depth[Root] = 0
  /\ \A c \in Dirs : \A i \in LiveRecords(c) :
       LET record == Directory[c][i]
           target == Target(record)
       IN  record.kind = "dir" =>
             /\ record.name = "." => target = c
             /\ record.name = ".." => depth[c] = depth[target] + 1
             /\ record.name \notin {".", ".."} => depth[target] = depth[c] + 1

(* Where the buffer is known: dirClusterIndex says that it holds what was  *)
(* opened, a scan is inside it, or a command has found a directory in it.  *)
(* The clusters of the root behind its first are read only when the scan   *)
(* has left the buffer, where it can find a file but no directory.         *)
InScan == (pc = "scan" /\ InBuffer) \/ pc = "next"

FoundDirectory == Found /\ file.kind = "dir"

Kept == dirClusterIndex = 0 \/ InScan \/ FoundDirectory

Placed ==
  /\ cmd.op = "boot" /\ pc \in {"traverse", "open"} => chain[1] = Root
  /\ cmd.op # "boot" \/ pc \in {"open", "ready"} => dirChain # <<>> /\ dirChain[1] = Root
  /\ pc = "next" => recordOffset = RecordsPerCluster
  /\ Kept => OneDirectory
  /\ Kept /\ dirClusterIndex # 0 => InDirectory = Root
  /\ InScan => NotEnded(recordOffset)
  /\ FoundDirectory =>
       \E r \in 1 .. RecordsPerCluster : Named(r) /\ file = Directory[InDirectory][r]

(* The directory in the buffer is no deeper than the path is long. *)
Deep(depth) == Kept => depth[InDirectory] <= Len(sysPath)

(* Before the first entry of currentDir and behind the last the index      *)
(* leads to the root: its first cluster is what is read for a scan.        *)
LEMMA FirstIsRoot ==
  ASSUME IInv, Placed, cmd.op # "boot"
  PROVE  DirClusters(0) = {Root}
<1>1. dirChain \in Seq(Clusters \cup {EOC}) /\ dirChain # <<>> /\ dirChain[1] = Root
  BY DEF Placed, IInv, Types, TypeOK
<1>2. 0 + 1 \in 1 .. Len(dirChain)
  BY <1>1
<1> QED
  BY <1>1, <1>2 DEF DirClusters

LEMMA FirstIsPlaced ==
  ASSUME ~DriveFails, IInv, Course, Placed, LoadFirstCluster
  PROVE  /\ Placed' /\ InDirectory' = Root
         /\ UNCHANGED <<dirClusterIndex, sysPath>>
<1>1. /\ pc = "first" /\ cmd.op # "boot" /\ recordOffset = 0 /\ dirClusterIndex # 0
      /\ UNCHANGED <<fatVars, dirVars, cmdVars>>
  BY DEF LoadFirstCluster, Course, IInv, Phases
<1>2. PICK n \in Arriving : load_Cluster(Root, n) /\ pc' = IF n = Wanted THEN "scan" ELSE "ready"
  BY <1>1, FirstIsRoot DEF LoadFirstCluster
<1>3. n = Wanted /\ \A s \in 0 .. SectorsPerCluster - 1 : ClusterBuffer'[s] = Root
  BY <1>1, <1>2, Entries, AllArrive
<1>4. OneDirectory' /\ InDirectory' = Root
  BY <1>3, Sizes, Entries DEF OneDirectory, InDirectory
<1>5. NotEnded(recordOffset)'
  BY <1>1 DEF NotEnded, cmdVars
<1> QED
  BY <1>1, <1>2, <1>3, <1>4, <1>5
     DEF Placed, Kept, InScan, FoundDirectory, Found, dirVars, cmdVars

(* The next cluster is the first one only when the index was at -1; in any *)
(* case the scan is then behind the buffer.                                *)
LEMMA NextIsPlaced ==
  ASSUME ~DriveFails, IInv, Course, Placed, LoadNextCluster
  PROVE  Placed' /\ (Kept' => InDirectory' = Root) /\ UNCHANGED sysPath
<1>1. PICK cluster \in NextClusters \ {EOC}, n \in Arriving :
        /\ load_Cluster(cluster, n)
        /\ IF n = Wanted
           THEN dirClusterIndex' = dirClusterIndex + 1 /\ pc' = "scan"
           ELSE UNCHANGED dirClusterIndex /\ pc' = "ready"
  BY DEF LoadNextCluster
<1>2. /\ pc = "next" /\ cmd.op # "boot" /\ recordOffset = RecordsPerCluster
      /\ UNCHANGED <<fatVars, dirChain, sysPath, mounted, opened, cmdVars>>
  BY DEF LoadNextCluster, Placed, IInv, Phases
<1>3. dirClusterIndex' = dirClusterIndex + 1 /\ pc' = "scan" /\ n = Wanted
  BY <1>1 DEF Arriving
<1>4. ~InBuffer' /\ ~InScan' /\ ~FoundDirectory'
  BY <1>2, <1>3, Sizes DEF InBuffer, InScan, FoundDirectory, Found, cmdVars
<1>5. dirClusterIndex' = 0 => OneDirectory' /\ InDirectory' = Root
  <2>1. SUFFICES ASSUME dirClusterIndex' = 0 PROVE OneDirectory' /\ InDirectory' = Root
    OBVIOUS
  <2>2. dirClusterIndex = -1
    BY <1>3, <2>1 DEF IInv, Types, TypeOK
  <2>3. cluster = Root
    BY <1>1, <1>2, <2>2, Sizes, FirstIsRoot DEF NextClusters
  <2>4. \A s \in 0 .. SectorsPerCluster - 1 : ClusterBuffer'[s] = Root
    BY <1>1, <1>2, <2>3, Entries, AllArrive
  <2> QED
    BY <2>4, Sizes, Entries DEF OneDirectory, InDirectory
<1> QED
  BY <1>2, <1>3, <1>4, <1>5 DEF Placed, Kept, cmdVars

LEMMA OpenedIsPlaced ==
  ASSUME ~DriveFails, IInv, Course, Placed, OpenDirectory
  PROVE  Placed' /\ sysPath' = NewPath /\ InDirectory' = chain[1]
<1>1. /\ pc = "open" /\ pc' = "ready"
      /\ UNCHANGED <<fatVars, dirChain, mounted, cmdVars>>
  BY DEF OpenDirectory
<1>2. chain[1] \in Dirs /\ chain[1] \in Clusters
  BY <1>1, Entries DEF IInv, Promise
<1>3. PICK n \in Arriving :
        /\ load_Cluster(chain[1], n)
        /\ n = Wanted => dirClusterIndex' = 0 /\ sysPath' = NewPath
  BY DEF OpenDirectory
<1>4. n = Wanted /\ \A s \in 0 .. SectorsPerCluster - 1 : ClusterBuffer'[s] = chain[1]
  BY <1>1, <1>2, <1>3, AllArrive
<1>5. OneDirectory' /\ InDirectory' = chain[1]
  BY <1>2, <1>4, Sizes DEF OneDirectory, InDirectory
<1> QED
  BY <1>1, <1>3, <1>4, <1>5 DEF Placed, Kept, InScan, FoundDirectory, Found

LEMMA ScannedIsPlaced ==
  ASSUME IInv, Placed, ScanRecord
  PROVE  Placed'
<1>1. /\ pc = "scan" /\ InBuffer /\ Here.kind # "end"
      /\ recordOffset' = recordOffset + 1
      /\ pc' = IF recordOffset' = RecordsPerCluster THEN "next" ELSE "scan"
      /\ UNCHANGED <<fatVars, bufVars, dirVars, cmd, chain, followed, file, index>>
  BY DEF ScanRecord
<1>2. OneDirectory /\ NotEnded(recordOffset) /\ recordOffset \in Nat
  BY <1>1, Sizes DEF Placed, Kept, InScan, IInv, Types, TypeOK
<1>3. Here = Directory[InDirectory][recordOffset + 1]
  BY <1>1, <1>2, HereIs
<1>4. NotEnded(recordOffset)' /\ OneDirectory'
  BY <1>1, <1>2, <1>3 DEF NotEnded, OneDirectory, InDirectory, bufVars
<1> QED
  BY <1>1, <1>2, <1>4
     DEF Placed, Kept, InScan, FoundDirectory, Found, InDirectory, bufVars, dirVars

LEMMA FoundIsPlaced ==
  ASSUME IInv, Placed, ScanMatches
  PROVE  Placed'
<1>1. /\ pc = "scan" /\ InBuffer /\ Matches /\ cmd.op # "boot"
      /\ pc' = "traverse" /\ file' = Here
      /\ UNCHANGED <<bufVars, dirVars, cmd, recordOffset>>
  BY DEF ScanMatches, StartFile, IInv, Phases
<1> DEFINE r == recordOffset + 1
<1>2. OneDirectory /\ NotEnded(recordOffset) /\ recordOffset \in Nat
  BY <1>1, Sizes DEF Placed, Kept, InScan, IInv, Types, TypeOK
<1>3. r \in 1 .. RecordsPerCluster /\ Here = Directory[InDirectory][r]
  BY <1>1, <1>2, HereIs
<1>4. Named(r)
  BY <1>1, <1>2, <1>3 DEF Matches, Named, LiveRecords, NotEnded
<1> HIDE DEF r
<1>5. \E q \in 1 .. RecordsPerCluster : (Named(q) /\ file = Directory[InDirectory][q])'
  BY <1>1, <1>3, <1>4 DEF Named, InDirectory, bufVars
<1>6. Kept /\ OneDirectory' /\ InDirectory' = InDirectory
  BY <1>1, <1>2 DEF Kept, InScan, OneDirectory, InDirectory, bufVars
<1> QED
  BY <1>1, <1>5, <1>6 DEF Placed, InScan, Named, dirVars

LEMMA PlacedStep ==
  ASSUME ~DriveFails, IInv, Course, Placed, [Next]_vars
  PROVE  Placed'
<1> USE DEF Placed, Kept, InScan, FoundDirectory, Found, OneDirectory, InDirectory,
            NotEnded, Named, InBuffer, bufVars, dirVars, cmdVars
<1>1. CASE BootFails
  BY <1>1 DEF BootFails
<1>2. CASE ReadHeader
  <2>1. chain' = <<Root>> /\ chain'[1] = Root /\ cmd.op = "boot"
    BY <1>2 DEF ReadHeader, Course
  <2> QED
    BY <1>2, <2>1 DEF ReadHeader
<1>3. CASE NextCluster
  <2>1. chain'[1] = chain[1]
    <3>1. Len(chain) \in 1 .. MaxChain - 1 /\ \A i \in 1 .. Len(chain) : chain'[i] = chain[i]
      BY <1>3, NextChain
    <3>2. 1 \in 1 .. Len(chain)
      BY ONLY <3>1, Sizes
    <3> QED
      BY <3>1, <3>2
  <2> QED
    BY <1>3, <2>1 DEF NextCluster
<1>4. CASE ChainEnds
  <2>1. chain # <<>>
    BY <1>4 DEF ChainEnds, IInv, Chains
  <2> QED
    BY <1>4, <2>1 DEF ChainEnds, TraverseReturns
<1>5. CASE FatReadFails
  BY <1>5 DEF FatReadFails
<1>6. CASE KeepCluster
  <2>1. recordOffset = 0 /\ cmd.op # "boot"
    BY <1>6 DEF KeepCluster, Course, IInv, Phases
  <2>2. \A i \in 1 .. recordOffset : FALSE
    BY ONLY <2>1
  <2> QED
    BY <1>6, <2>1, <2>2 DEF KeepCluster
<1>7. CASE LoadFirstCluster
  BY <1>7, FirstIsPlaced
<1>8. CASE ScanEnds
  BY <1>8 DEF ScanEnds, IInv, Phases
<1>9. CASE ScanRecord
  BY <1>9, ScannedIsPlaced
<1>10. CASE ScanMatches
  BY <1>10, FoundIsPlaced
<1>11. CASE ScanOutside
  BY <1>11 DEF ScanOutside, IInv, Phases
<1>12. CASE FindOutside
  <2>1. file'.kind = "file" /\ cmd.op # "boot"
    BY <1>12 DEF FindOutside, StartFile, PathRecord, IInv, Phases
  <2> QED
    BY <1>12, <2>1 DEF FindOutside, StartFile
<1>13. CASE LoadNextCluster
  BY <1>13, NextIsPlaced
<1>14. CASE NoNextCluster
  BY <1>14 DEF NoNextCluster, IInv, Phases
<1>15. CASE WrongKind
  BY <1>15 DEF WrongKind, Course
<1>16. CASE OpenFound
  BY <1>16 DEF OpenFound
<1>17. CASE OpenDirectory
  BY <1>17, OpenedIsPlaced
<1>18. CASE StartPrint
  BY <1>18 DEF StartPrint
<1>19. CASE PrintCluster
  BY <1>19 DEF PrintCluster, IInv, Promise
<1>20. CASE PrintEnds
  BY <1>20 DEF PrintEnds, Course
<1>21. CASE User
  BY <1>21 DEF User, Start
<1>22. CASE UNCHANGED vars
  BY <1>22 DEF vars
<1> QED
  BY <1>1, <1>2, <1>3, <1>4, <1>5, <1>6, <1>7, <1>8, <1>9, <1>10, <1>11, <1>12, <1>13,
     <1>14, <1>15, <1>16, <1>17, <1>18, <1>19, <1>20, <1>21, <1>22 DEF Next, Driver

(* What cd opens, and the name it was found under. *)
LEMMA WhatIsOpened ==
  ASSUME IInv, Course, Placed, NEW depth, IsTree(depth), pc = "open", cmd.op # "boot"
  PROVE  /\ InDirectory \in Dirs /\ chain[1] \in Dirs
         /\ cmd.name = "." => chain[1] = InDirectory
         /\ cmd.name = ".." => depth[InDirectory] = depth[chain[1]] + 1
         /\ cmd.name \notin {".", ".."} => depth[chain[1]] = depth[InDirectory] + 1
<1>1. FoundDirectory /\ file.kind = "dir"
  BY DEF FoundDirectory, Found, Course
<1>2. PICK r \in 1 .. RecordsPerCluster : Named(r) /\ file = Directory[InDirectory][r]
  BY <1>1 DEF Placed
<1>3. /\ InDirectory \in Dirs /\ chain[1] \in Dirs
      /\ chain[1] = Target(file)
      /\ r \in LiveRecords(InDirectory) /\ file.name = cmd.name
  BY <1>1, <1>2 DEF Placed, Kept, OneDirectory, IInv, Promise, Course, Holding, Named
<1> QED
  BY <1>1, <1>2, <1>3 DEF IsTree

LEMMA PathIsLong ==
  ASSUME IInv, Course, Placed, NEW depth, IsTree(depth), Deep(depth)
  PROVE  DelPathSafe
<1>1. SUFFICES ASSUME pc = "open", cmd.name = "..", sysPath = <<>> PROVE FALSE
  BY DEF DelPathSafe
<1>2. cmd.op # "boot"
  BY <1>1, Zenon DEF Course
<1>3. depth[InDirectory] = depth[chain[1]] + 1 /\ depth[chain[1]] \in Nat
  BY <1>1, <1>2, WhatIsOpened DEF IsTree
<1>4. depth[InDirectory] <= 0
  BY <1>1, <1>2, EmptySequence DEF Deep, Kept, FoundDirectory, Found, Course
<1> QED
  BY <1>3, <1>4

LEMMA PathFollows ==
  ASSUME ~DriveFails, IInv, Course, Placed, NEW depth, IsTree(depth), Deep(depth), OpenDirectory
  PROVE  Deep(depth)'
<1>1. pc = "open" /\ sysPath' = NewPath /\ InDirectory' = chain[1]
  BY OpenedIsPlaced DEF OpenDirectory
<1>2. sysPath \in Seq(Names) /\ Len(sysPath) \in Nat
  BY DEF IInv, Types
<1>3. CASE cmd.op = "boot"
  <2>1. chain[1] = Root /\ NewPath = sysPath
    BY <1>1, <1>3 DEF Placed, NewPath
  <2> QED
    BY <1>1, <1>2, <2>1 DEF Deep, IsTree
<1>4. CASE cmd.op # "boot"
  <2>1. /\ InDirectory \in Dirs /\ chain[1] \in Dirs
        /\ cmd.name = "." => chain[1] = InDirectory
        /\ cmd.name = ".." => depth[InDirectory] = depth[chain[1]] + 1
        /\ cmd.name \notin {".", ".."} => depth[chain[1]] = depth[InDirectory] + 1
    BY <1>1, <1>4, WhatIsOpened
  <2>2. PICK was \in Nat, is \in Nat, length \in Nat :
          was = depth[InDirectory] /\ is = depth[chain[1]] /\ length = Len(sysPath)
    BY <1>2, <2>1 DEF IsTree
  <2>3. was <= length
    BY <1>1, <1>4, <2>2 DEF Deep, Kept, FoundDirectory, Found, Course
  <2>4. is <= Len(NewPath)
    <3>1. CASE cmd.name = "."
      BY <2>1, <2>2, <2>3, <3>1 DEF NewPath
    <3>2. CASE cmd.name = ".." /\ cmd.name # "."
      <4>1. sysPath # <<>>
        BY <1>1, <3>2, PathIsLong DEF DelPathSafe
      <4>2. NewPath = Front(sysPath) /\ Len(Front(sysPath)) = length - 1
        BY <1>2, <1>4, <2>2, <3>2, <4>1, FrontShorter DEF NewPath
      <4> QED
        BY <2>1, <2>2, <2>3, <3>2, <4>2
    <3>3. CASE cmd.name \notin {".", ".."}
      <4>1. NewPath = Append(sysPath, cmd.name)
        BY <1>4, <3>3 DEF NewPath
      <4>2. cmd.name \in Names
        BY <1>1, <1>4 DEF IInv, Phases, Types
      <4>3. Len(NewPath) = length + 1
        BY <1>2, <2>2, <4>1, <4>2
      <4> QED
        BY <2>1, <2>2, <2>3, <3>3, <4>3
    <3> QED
      BY <3>1, <3>2, <3>3
  <2> QED
    BY <1>1, <2>2, <2>4 DEF Deep
<1> QED
  BY <1>3, <1>4

LEMMA DeepStep ==
  ASSUME ~DriveFails, IInv, Course, Placed, NEW depth, IsTree(depth), Deep(depth), [Next]_vars
  PROVE  Deep(depth)'
<1>1. CASE OpenDirectory
  BY <1>1, PathFollows
<1>2. CASE LoadFirstCluster \/ LoadNextCluster
  <2>1. (Kept' => InDirectory' = Root) /\ UNCHANGED sysPath
    BY <1>2, FirstIsPlaced, NextIsPlaced
  <2>2. Len(sysPath') \in Nat
    BY <2>1 DEF IInv, Types
  <2> QED
    BY <2>1, <2>2 DEF Deep, IsTree
<1>3. CASE StartPrint \/ PrintCluster
  <2>1. dirClusterIndex' = -1 /\ pc' = "print"
    BY <1>3 DEF StartPrint, PrintCluster, dirVars, IInv, Promise
  <2> QED
    BY <2>1 DEF Deep, Kept, InScan, FoundDirectory, Found
<1>4. CASE BootFails \/ FatReadFails
  BY <1>4 DEF BootFails, FatReadFails
<1>5. ASSUME UNCHANGED <<dirClusterIndex, sysPath, ClusterBuffer>>,
             (InScan \/ FoundDirectory)' => Kept
      PROVE  Deep(depth)'
  BY <1>5 DEF Deep, Kept, InDirectory
<1> USE DEF Kept, InScan, FoundDirectory, Found, InBuffer, bufVars, dirVars, cmdVars
<1>6. CASE ReadHeader \/ NextCluster \/ ChainEnds
  BY <1>5, <1>6 DEF ReadHeader, NextCluster, ChainEnds, TraverseReturns, Course
<1>7. CASE KeepCluster \/ ScanEnds \/ ScanRecord \/ ScanMatches
  BY <1>5, <1>7 DEF KeepCluster, ScanEnds, ScanRecord, ScanMatches, StartFile
<1>8. CASE ScanOutside \/ FindOutside \/ NoNextCluster
  <2>1. ~FoundDirectory'
    BY <1>8 DEF ScanOutside, FindOutside, StartFile, NoNextCluster, PathRecord
  <2>2. pc' \in {"ready", "traverse"} /\ UNCHANGED <<dirClusterIndex, sysPath, ClusterBuffer>>
    BY <1>8 DEF ScanOutside, FindOutside, StartFile, NoNextCluster
  <2> QED
    BY <1>5, <2>1, <2>2
<1>9. CASE WrongKind \/ OpenFound \/ PrintEnds
  BY <1>5, <1>9 DEF WrongKind, OpenFound, PrintEnds
<1>10. CASE User
  BY <1>5, <1>10 DEF User, Start
<1>11. CASE UNCHANGED vars
  BY <1>5, <1>11 DEF vars
<1> QED
  BY <1>1, <1>2, <1>3, <1>4, <1>6, <1>7, <1>8, <1>9, <1>10, <1>11 DEF Next, Driver

(* In a drive that works, and on a disk whose directories form a tree, be  *)
(* the root as long as it may and with an end mark or without, delPath is  *)
(* never called with an empty system path, although a cat resets the       *)
(* current directory to the root without touching the path, and the index  *)
(* of the root grows from one command to the next (filesys.c:506-513).     *)
THEOREM PathNeverUnderrun ==
  ~DriveFails /\ (\E depth : IsTree(depth)) => (Spec => []DelPathSafe)
<1>1. SUFFICES ASSUME ~DriveFails, NEW depth, IsTree(depth)
               PROVE  Spec => []DelPathSafe
  OBVIOUS
<1>2. Init => Course /\ Placed /\ Deep(depth)
  <2>1. SUFFICES ASSUME Init PROVE Course /\ Placed /\ Deep(depth)
    OBVIOUS
  <2>2. pc = "boot" /\ cmd.op = "boot" /\ dirClusterIndex = -1
    BY <2>1 DEF Init
  <2>3. Course
    BY <2>1, InitCourse
  <2> QED
    BY <2>2, <2>3 DEF Placed, Deep, Kept, InScan, FoundDirectory, Found
<1>3. IInv /\ Course /\ Placed /\ Deep(depth) /\ [Next]_vars => (Course /\ Placed /\ Deep(depth))'
  BY <1>1, CourseStep, PlacedStep, DeepStep
<1>4. IInv /\ Course /\ Placed /\ Deep(depth) => DelPathSafe
  BY <1>1, PathIsLong
<1> QED
  BY <1>1, <1>2, <1>3, <1>4, Invariance, PTL DEF Spec

-----------------------------------------------------------------------------
(* Steps of a command. *)

(* How many steps the driver may still take before the shell is back at    *)
(* its prompt.                                                             *)
StepsLeft ==
  IF pc = "ready" THEN 0
  ELSE IF pc = "open" THEN 1
  ELSE IF pc = "print" THEN MaxChain - index + 1
  ELSE IF pc = "found" THEN MaxChain + 2
  ELSE IF pc = "traverse" THEN 2 * MaxChain + 3 - Len(chain)
  ELSE IF pc = "boot" THEN 2 * MaxChain + 3
  ELSE IF pc = "next" THEN 2 * MaxChain + 5
  ELSE IF pc = "scan" THEN 2 * MaxChain + 4 +
                           (IF InBuffer THEN RecordsPerCluster - recordOffset + 1 ELSE 0)
  ELSE 2 * MaxChain + 6 + RecordsPerCluster

MostSteps == 2 * MaxChain + 6 + RecordsPerCluster

(* The next cluster is read behind the last record of one. *)
ClusterScanned == pc = "next" => recordOffset = RecordsPerCluster

StepsBounded == StepsLeft \in 0 .. MostSteps /\ (StepsLeft = 0 <=> pc = "ready")

StepsCounted == [][Driver => StepsLeft' < StepsLeft]_vars

LEMMA Counters ==
  ASSUME TypeOK
  PROVE  /\ MaxChain \in Nat /\ RecordsPerCluster \in Nat /\ RecordsPerCluster > 0
         /\ Len(chain) \in 0 .. MaxChain /\ index \in 0 .. MaxChain
         /\ recordOffset \in 0 .. RecordsPerCluster
         /\ (InBuffer <=> recordOffset < RecordsPerCluster)
         /\ pc \in {"boot", "traverse", "ready", "first", "scan", "next", "found", "open", "print"}
<1>1. Len(chain) \in Nat /\ Len(chain) <= MaxChain
  BY LenProperties DEF TypeOK
<1> QED
  BY <1>1, Sizes DEF TypeOK, InBuffer

LEMMA StepsAre ==
  ASSUME TypeOK
  PROVE  StepsBounded
<1>1. CASE pc = "ready"
  BY <1>1, Counters DEF StepsBounded, StepsLeft, MostSteps
<1>2. CASE pc # "ready"
  <2>1. PICK most \in Nat : most = MaxChain
    BY Counters
  <2>2. PICK records \in Nat : records = RecordsPerCluster /\ records > 0
    BY Counters
  <2>3. PICK len \in 0 .. most : len = Len(chain)
    BY <2>1, Counters
  <2>4. PICK i \in 0 .. most : i = index
    BY <2>1, Counters
  <2>5. PICK offset \in 0 .. records : offset = recordOffset
    BY <2>2, Counters
  <2>6. \E k \in 1 .. 2 * most + 6 + records : StepsLeft = k
    <3>1. CASE pc \in {"open", "print", "found"}
      <4>1. StepsLeft \in {1, most - i + 1, most + 2}
        BY <2>1, <2>4, <3>1 DEF StepsLeft
      <4>2. most - i + 1 \in 1 .. 2 * most + 6 + records
        BY <2>1, <2>4
      <4> QED
        BY <4>1, <4>2
    <3>2. CASE pc \in {"traverse", "boot", "next"}
      <4>1. StepsLeft \in {2 * most + 3 - len, 2 * most + 3, 2 * most + 5}
        BY <2>1, <2>3, <3>2 DEF StepsLeft
      <4>2. 2 * most + 3 - len \in 1 .. 2 * most + 6 + records
        BY <2>3
      <4> QED
        BY <4>1, <4>2
    <3>3. CASE pc = "first"
      <4>1. StepsLeft = 2 * most + 6 + records
        BY <2>1, <2>2, <3>3 DEF StepsLeft
      <4> QED
        BY <4>1
    <3>4. CASE pc = "scan" /\ InBuffer
      <4>1. StepsLeft = 2 * most + 4 + (records - offset + 1)
        BY <2>1, <2>2, <2>5, <3>4 DEF StepsLeft
      <4>2. 2 * most + 4 + (records - offset + 1) \in 1 .. 2 * most + 6 + records
        OBVIOUS
      <4> QED
        BY <4>1, <4>2
    <3>5. CASE pc = "scan" /\ ~InBuffer
      <4>1. StepsLeft = 2 * most + 4
        BY <2>1, <3>5 DEF StepsLeft
      <4> QED
        BY <4>1
    <3> QED
      BY <1>2, <3>1, <3>2, <3>3, <3>4, <3>5, Counters
  <2>7. StepsLeft \in 0 .. MostSteps /\ StepsLeft # 0
    BY <2>1, <2>2, <2>6 DEF MostSteps
  <2> QED
    BY <1>2, <2>7 DEF StepsBounded
<1> QED
  BY <1>1, <1>2

LEMMA ScannedFirst == Init => ClusterScanned
BY DEF Init, ClusterScanned

LEMMA ScannedStep == IInv /\ ClusterScanned /\ [Next]_vars => ClusterScanned'
<1> SUFFICES ASSUME IInv, ClusterScanned, [Next]_vars, pc' = "next"
             PROVE  recordOffset' = RecordsPerCluster
  BY DEF ClusterScanned
<1>1. CASE ScanRecord
  BY <1>1 DEF ScanRecord
<1>2. CASE UNCHANGED vars
  BY <1>2 DEF vars, cmdVars, ClusterScanned
<1>3. CASE NextCluster
  BY <1>3 DEF NextCluster
<1>4. CASE ChainEnds \/ FatReadFails
  BY <1>4 DEF ChainEnds, FatReadFails, TraverseReturns
<1>5. CASE BootFails \/ ReadHeader \/ KeepCluster \/ LoadFirstCluster \/ LoadNextCluster
  BY <1>5 DEF BootFails, ReadHeader, KeepCluster, LoadFirstCluster, LoadNextCluster
<1>6. CASE ScanEnds \/ ScanMatches \/ ScanOutside \/ FindOutside
  BY <1>6 DEF ScanEnds, ScanMatches, ScanOutside, FindOutside, StartFile
<1>7. CASE NoNextCluster \/ WrongKind \/ OpenFound \/ OpenDirectory
  BY <1>7 DEF NoNextCluster, WrongKind, OpenFound, OpenDirectory
<1>8. CASE StartPrint \/ PrintEnds
  BY <1>8 DEF StartPrint, PrintEnds
<1>9. CASE PrintCluster
  BY <1>9 DEF PrintCluster
<1>10. CASE User
  BY <1>10 DEF User, Start
<1> QED
  BY <1>1, <1>2, <1>3, <1>4, <1>5, <1>6, <1>7, <1>8, <1>9, <1>10 DEF Next, Driver

LEMMA DriverCounts ==
  ASSUME IInv, ClusterScanned, Driver, TypeOK'
  PROVE  StepsLeft' < StepsLeft
<1> DEFINE n == Len(chain)
<1>1. /\ MaxChain \in Nat /\ RecordsPerCluster \in Nat /\ RecordsPerCluster > 0
      /\ n \in 0 .. MaxChain /\ index \in 0 .. MaxChain
      /\ recordOffset \in 0 .. RecordsPerCluster
      /\ (InBuffer <=> recordOffset < RecordsPerCluster)
  BY Counters DEF IInv, Types
<1>2. /\ Len(chain') \in Nat /\ recordOffset' \in 0 .. RecordsPerCluster
      /\ (InBuffer' <=> recordOffset' < RecordsPerCluster)
  BY LenProperties DEF TypeOK, InBuffer
<1> HIDE DEF n
<1>3. CASE BootFails
  BY <1>1, <1>3 DEF BootFails, StepsLeft
<1>4. CASE ReadHeader
  <2>1. Len(chain') = 1 /\ pc = "boot" /\ pc' = "traverse"
    BY <1>4 DEF ReadHeader
  <2> QED
    BY <1>1, <2>1 DEF StepsLeft
<1>5. CASE NextCluster
  <2>1. pc = "traverse" /\ pc' = "traverse"
    BY <1>5 DEF NextCluster
  <2>2. Len(chain') = Len(chain) + 1
    BY <1>5 DEF NextCluster, IInv, Types, TypeOK
  <2> QED
    BY <1>1, <2>1, <2>2 DEF StepsLeft, n
<1>6. CASE ChainEnds \/ FatReadFails
  <2>1. pc = "traverse" /\ pc' \in {"open", "ready", "found"}
    BY <1>6 DEF ChainEnds, FatReadFails, TraverseReturns
  <2> QED
    BY <1>1, <2>1 DEF StepsLeft, n
<1>7. CASE KeepCluster \/ LoadFirstCluster
  <2>1. pc = "first" /\ pc' \in {"scan", "ready"}
    BY <1>7 DEF KeepCluster, LoadFirstCluster
  <2> QED
    BY <1>1, <1>2, <2>1 DEF StepsLeft
<1>8. CASE ScanRecord
  <2>1. /\ pc = "scan" /\ recordOffset < RecordsPerCluster /\ recordOffset' = recordOffset + 1
        /\ pc' = IF recordOffset' = RecordsPerCluster THEN "next" ELSE "scan"
    BY <1>8 DEF ScanRecord, InBuffer
  <2> QED
    BY <1>1, <1>2, <2>1 DEF StepsLeft
<1>9. CASE LoadNextCluster
  <2>1. pc = "next" /\ pc' \in {"scan", "ready"} /\ recordOffset' = RecordsPerCluster
    BY <1>9 DEF LoadNextCluster, cmdVars, ClusterScanned
  <2> QED
    BY <1>1, <1>2, <2>1 DEF StepsLeft
<1>10. CASE ScanMatches \/ FindOutside
  <2>1. pc = "scan" /\ pc' = "traverse" /\ Len(chain') = 1
    BY <1>10 DEF ScanMatches, FindOutside, StartFile
  <2> QED
    BY <1>1, <2>1 DEF StepsLeft
<1>11. CASE ScanEnds \/ ScanOutside \/ NoNextCluster
  <2>1. pc \in {"scan", "next"} /\ pc' = "ready"
    BY <1>11 DEF ScanEnds, ScanOutside, NoNextCluster
  <2> QED
    BY <1>1, <2>1 DEF StepsLeft
<1>12. CASE WrongKind \/ OpenFound \/ StartPrint
  <2>1. pc = "found" /\ (pc' \in {"ready", "open"} \/ (pc' = "print" /\ index' = 0))
    BY <1>12 DEF WrongKind, OpenFound, StartPrint
  <2> QED
    BY <1>1, <2>1 DEF StepsLeft
<1>13. CASE OpenDirectory
  <2>1. pc = "open" /\ pc' = "ready"
    BY <1>13 DEF OpenDirectory
  <2> QED
    BY <2>1 DEF StepsLeft
<1>14. CASE PrintCluster
  <2>1. pc = "print" /\ pc' = "print" /\ index' = index + 1
    BY <1>14 DEF PrintCluster
  <2> QED
    BY <1>1, <2>1 DEF StepsLeft
<1>15. CASE PrintEnds
  <2>1. pc = "print" /\ pc' = "ready"
    BY <1>15 DEF PrintEnds
  <2> QED
    BY <1>1, <2>1 DEF StepsLeft
<1> QED
  BY <1>3, <1>4, <1>5, <1>6, <1>7, <1>8, <1>9, <1>10, <1>11, <1>12, <1>13, <1>14, <1>15 DEF Driver

(* A command is over after MostSteps steps of the driver: each step brings *)
(* it nearer to its end, also on a chain with a cycle, with a directory    *)
(* that has no end, and with a drive that fails (filesys.c:149-490).       *)
THEOREM CommandsAreBounded == Spec => []StepsBounded /\ StepsCounted
<1>1. Init => IInv /\ ClusterScanned
  BY InitHolds, ScannedFirst
<1>2. IInv /\ ClusterScanned /\ [Next]_vars => IInv' /\ ClusterScanned'
  BY Step, ScannedStep
<1>3. IInv => StepsBounded
  BY StepsAre DEF IInv, Types
<1>4. IInv /\ ClusterScanned /\ IInv' => [Driver => StepsLeft' < StepsLeft]_vars
  BY DriverCounts DEF IInv, Types
<1> QED
  BY <1>1, <1>2, <1>3, <1>4, PTL DEF Spec, StepsCounted
=============================================================================
