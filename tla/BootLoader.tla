----------------------------- MODULE BootLoader -----------------------------
(***************************************************************************)
(* The boot loader, from the partition table to the jump to the kernel:    *)
(* it reads the first sector of the file system, which holds the code that *)
(* goes on, loads the root directory, finds KERNEL.SYS in it, loads the    *)
(* kernel over the directory, enables line A20 and enters protected mode.  *)
(* The BIOS reads sectors, and may fail to.                                *)
(*                                                                         *)
(* A processor register is a word, and an index of a cluster or a sector   *)
(* takes two of them; the arithmetic on such pairs is modelled as it is    *)
(* written. Memory from 0x8200 on is modelled by the addresses of the      *)
(* clusters that were read into it. "wild" is where the processor executes *)
(* or overwrites memory that it should not.                                *)
(***************************************************************************)
EXTENDS Integers, Sequences

CONSTANTS
  Word,               \* values of a register, 65536
  Shift,              \* a cluster has 2^Shift sectors: 2
  FatSectors,         \* sectors of the file allocation table
  EntriesPerSector,   \* entries of a FAT sector, 128
  RecordsPerCluster,  \* 64
  FatBase,            \* first sector of the file allocation table
  ClusterBase,        \* first sector of the clusters
  Slots,              \* clusters that fit between 0x8200 and 64K, 15
  Disks               \* what the disk may hold: table, directories, root chain

SectorsPerCluster == 2 ^ Shift

(* The indexes of the table, the mark that ends a chain, and another mark  *)
(* of the end that file systems know and the boot loader does not.         *)
Clusters == 0 .. FatSectors * EntriesPerSector - 1
EOC == (Word \div 16) * Word - 1
OtherEOC == EOC - 7

(* The sector that a cluster begins at. *)
ClusterLba(c) == ClusterBase + (c - 2) * SectorsPerCluster

ASSUME WordAssumption ==
  /\ Word \in Nat /\ Word >= 16 /\ Word % 2 = 0
  /\ Shift \in Nat /\ SectorsPerCluster \in 1 .. Word - 1
  /\ Word % SectorsPerCluster = 0
  /\ EntriesPerSector \in 1 .. Word \div 4
  /\ RecordsPerCluster \in Nat \ {0}
  /\ FatBase \in 0 .. Word * Word - 1
  /\ ClusterBase \in 0 .. Word * Word - 1
  /\ Slots \in Nat \ {0}
  /\ FatSectors \in Nat
  /\ EOC \notin Clusters /\ OtherEOC \notin Clusters
  /\ FatBase + FatSectors < Word * Word
  /\ \A c \in Clusters : ClusterLba(c) \in 0 .. Word * Word - 1

(* A disk in order: every entry of the table is the index of a cluster or  *)
(* ends a chain, and the chain of the root directory is written in it.     *)
ASSUME BootDiskAssumption ==
  \A d \in Disks :
    /\ d.fat \in [Clusters -> Clusters \cup {EOC, OtherEOC}]
    /\ d.root \in Seq(Clusters \cap DOMAIN d.dir)
    /\ d.root # <<>> /\ d.root[1] = 2
    /\ \A i \in 1 .. Len(d.root) :
         d.fat[d.root[i]] = IF i = Len(d.root) THEN EOC ELSE d.root[i + 1]
    /\ \A c \in DOMAIN d.dir, i \in 1 .. RecordsPerCluster :
         d.dir[c][i].name = "kernel" => d.dir[c][i].cluster \in Clusters

VARIABLES
  disk,
  bootable,  \* does the partition table name a FAT32 partition?
  bootPc,
  pass,      \* what load_file loads: "root" or "kernel"
  cluster,   \* dx:ax
  memory,    \* the sectors that load_file's clusters were read from
  record,    \* the record find_file is at, counted from 0
  a20,       \* is line A20 enabled?
  shadow,    \* does the byte at 0xFFFF:0x0510 hold the 1 of the test by chance?
  tries      \* ways of enabling line A20 that have been tried

bootVars == <<disk, bootable, bootPc, pass, cluster, memory, record, a20, shadow, tries>>

-----------------------------------------------------------------------------
(* Arithmetic on pairs of words. *)

Pair(n) == [lo |-> n % Word, hi |-> (n \div Word) % Word]
Value(p) == p.hi * Word + p.lo

(* add and adc *)
Plus(p, q) ==
  [lo |-> (p.lo + q.lo) % Word, hi |-> (p.hi + q.hi + (p.lo + q.lo) \div Word) % Word]

(* sub and sbb *)
MinusTwo(p) ==
  [lo |-> (p.lo - 2) % Word, hi |-> (p.hi - (IF p.lo < 2 THEN 1 ELSE 0)) % Word]

(* Mutant of Scaled: the bits that leave the low word are not picked out.  *)
ScaledLow(p) ==
  [lo |-> (p.lo * SectorsPerCluster) % Word, hi |-> (p.hi * SectorsPerCluster) % Word]

(* shl and rol: the bits that the rotation brings round are picked out     *)
(* with the mask of the header, and join the high word.                    *)
Scaled(p) ==
  LET shifted == p.lo * SectorsPerCluster
      rolled == (shifted % Word) + shifted \div Word
      round == rolled % SectorsPerCluster
  IN [lo |-> rolled - round, hi |-> ((p.hi * SectorsPerCluster) % Word) + round]

LbaOf(p) == Plus(Scaled(MinusTwo(p)), Pair(ClusterBase))

(* The comparison of div32 is one of signed words. *)
Signed(w) == IF w < Word \div 2 THEN w ELSE w - Word

Div32(p, d) ==
  LET rest == p.hi % d
      sum == (p.lo % d) + ((rest * Word) % d)
      over == Signed(sum) >= d
      lower == p.lo \div d + (rest * Word) \div d + (IF over THEN 1 ELSE 0)
  IN [quotient |-> [lo |-> lower % Word, hi |-> (p.hi \div d + lower \div Word) % Word],
      remainder |-> IF over THEN sum - d ELSE sum]

-----------------------------------------------------------------------------
BootInit ==
  /\ disk \in Disks
  /\ bootable \in BOOLEAN
  /\ bootPc = "start"
  /\ pass = "root"
  /\ cluster = Pair(2)
  /\ memory = <<>>
  /\ record = 0
  /\ a20 \in BOOLEAN
  /\ shadow \in BOOLEAN
  /\ tries = 0

machine == <<disk, bootable, shadow>>

CheckPartition ==
  /\ bootPc = "start"
  /\ bootPc' = IF bootable THEN "header" ELSE "halt"
  /\ UNCHANGED <<machine, pass, cluster, memory, record, a20, tries>>

LoadFile(what, c) ==
  /\ pass' = what
  /\ cluster' = c
  /\ memory' = <<>>
  /\ bootPc' = "load"

(* The carry flag is not tested behind the read of the file system's first *)
(* sector, and the next call is to code in it.                             *)
ReadHeader ==
  /\ bootPc = "header"
  /\ LoadFile("root", Pair(2))
  /\ UNCHANGED <<machine, record, a20, tries>>

ReadHeaderFails ==
  /\ bootPc = "header"
  /\ bootPc' = "wild"
  /\ UNCHANGED <<machine, pass, cluster, memory, record, a20, tries>>

(* load_file: a cluster. Behind the last slot the destination wraps round. *)
LoadCluster ==
  /\ bootPc = "load"
  /\ IF Len(memory) < Slots
     THEN memory' = Append(memory, Value(LbaOf(cluster))) /\ bootPc' = "fat"
     ELSE bootPc' = "wild" /\ UNCHANGED memory
  /\ UNCHANGED <<machine, pass, cluster, record, a20, tries>>

(* load_file: the sector of the table with the entry of this cluster, and  *)
(* in it the next one, or the end of the file: then find_file follows, or  *)
(* the test of line A20.                                                   *)
Entry ==
  LET at == Div32(cluster, EntriesPerSector)
      sector == Value(Plus(at.quotient, Pair(FatBase))) - FatBase
  IN sector * EntriesPerSector + at.remainder

LoadNext ==
  /\ bootPc = "fat"
  /\ Entry \in Clusters
  /\ LET next == disk.fat[Entry]
     IN IF next = EOC
        THEN /\ bootPc' = IF pass = "root" THEN "find" ELSE "a20"
             /\ UNCHANGED cluster
        ELSE /\ bootPc' = "load"
             /\ cluster' = Pair(next)
  /\ UNCHANGED <<machine, pass, memory, record, a20, tries>>

(* What lies behind the table is not known. *)
LoadOutside ==
  /\ bootPc = "fat"
  /\ Entry \notin Clusters
  /\ bootPc' = "wild"
  /\ UNCHANGED <<machine, pass, cluster, memory, record, a20, tries>>

LoadFails ==
  /\ bootPc \in {"load", "fat"}
  /\ bootPc' = "halt"
  /\ UNCHANGED <<machine, pass, cluster, memory, record, a20, tries>>

(* find_file: the record it is at, where the root directory was loaded.    *)
(* Only the name is compared, so that a volume or a directory of that name *)
(* is found too.                                                           *)
InRoot == record < Len(memory) * RecordsPerCluster

Loaded == CHOOSE c \in Clusters :
            ClusterLba(c) = memory[record \div RecordsPerCluster + 1]

Record == disk.dir[Loaded][(record % RecordsPerCluster) + 1]

(* Mutant of FindRecord: the pointer is not moved to the next record. *)
FindRecordStays ==
  /\ bootPc = "find"
  /\ InRoot
  /\ CASE Record.name = "end" -> bootPc' = "halt" /\ UNCHANGED <<pass, cluster, memory, record>>
       [] Record.name = "kernel" -> LoadFile("kernel", Pair(Record.cluster)) /\ UNCHANGED record
       [] OTHER -> UNCHANGED <<bootPc, pass, cluster, memory, record>>
  /\ UNCHANGED <<machine, a20, tries>>

FindRecord ==
  /\ bootPc = "find"
  /\ InRoot
  /\ CASE Record.name = "end" -> bootPc' = "halt" /\ UNCHANGED <<pass, cluster, memory, record>>
       [] Record.name = "kernel" -> LoadFile("kernel", Pair(Record.cluster)) /\ UNCHANGED record
       [] OTHER -> record' = record + 1 /\ UNCHANGED <<bootPc, pass, cluster, memory>>
  /\ UNCHANGED <<machine, a20, tries>>

(* Behind a root directory that is full to its last record memory holds    *)
(* what the BIOS left there: a zero that ends the search, or anything.     *)
FindOutside ==
  /\ bootPc = "find"
  /\ ~InRoot
  /\ bootPc' \in {"halt", "wild"}
  /\ UNCHANGED <<machine, pass, cluster, memory, record, a20, tries>>

(* The byte a megabyte higher is another one, if it is not 1. *)
A20Test == a20 /\ ~shadow

EnterKernel ==
  /\ bootPc = "a20"
  /\ A20Test
  /\ bootPc' = "kernel"
  /\ UNCHANGED <<machine, pass, cluster, memory, record, a20, tries>>

(* The BIOS, then port 0x92, are asked to enable the line, and may do so.  *)
EnableA20 ==
  /\ bootPc = "a20"
  /\ ~A20Test
  /\ tries < 2
  /\ tries' = tries + 1
  /\ a20' \in {a20, TRUE}
  /\ UNCHANGED <<machine, bootPc, pass, cluster, memory, record>>

GiveUpA20 ==
  /\ bootPc = "a20"
  /\ ~A20Test
  /\ tries = 2
  /\ bootPc' = "halt"
  /\ UNCHANGED <<machine, pass, cluster, memory, record, a20, tries>>

BootNext ==
  \/ CheckPartition \/ ReadHeader \/ ReadHeaderFails
  \/ LoadCluster \/ LoadNext \/ LoadOutside \/ LoadFails
  \/ FindRecord \/ FindOutside
  \/ EnterKernel \/ EnableA20 \/ GiveUpA20

-----------------------------------------------------------------------------
Words == 0 .. Word - 1

(* Type invariant of the boot loader. *)
BootTypeOK ==
  /\ disk \in Disks
  /\ bootPc \in {"start", "header", "load", "fat", "find", "a20", "kernel", "halt", "wild"}
  /\ pass \in {"root", "kernel"}
  /\ cluster \in [lo : Words, hi : Words]
  /\ memory \in Seq(Nat) /\ Len(memory) <= Slots
  /\ record \in Nat
  /\ a20 \in BOOLEAN /\ shadow \in BOOLEAN /\ bootable \in BOOLEAN
  /\ tries \in 0 .. 2

(* The records of the root directory in the order of its clusters. *)
RootRecord(d, k) == d.dir[d.root[k \div RecordsPerCluster + 1]][(k % RecordsPerCluster) + 1]

(* c is the first cluster of the first record with the kernel's name, and  *)
(* no end mark comes before it.                                            *)
KernelAt(d, c) ==
  \E k \in 0 .. Len(d.root) * RecordsPerCluster - 1 :
    /\ RootRecord(d, k).name = "kernel"
    /\ RootRecord(d, k).cluster = c
    /\ \A j \in 0 .. k - 1 : RootRecord(d, j).name \notin {"kernel", "end"}

(* The sectors in memory are those of a chain of clusters from c on.       *)
IsChainFrom(d, c, sectors) ==
  /\ sectors # <<>> /\ sectors[1] = ClusterLba(c)
  /\ \A i \in 1 .. Len(sectors) :
       \E x \in Clusters :
         /\ sectors[i] = ClusterLba(x)
         /\ IF i = Len(sectors) THEN d.fat[x] = EOC
            ELSE d.fat[x] # EOC /\ sectors[i + 1] = ClusterLba(d.fat[x])

(* The kernel is entered only with line A20 enabled, and with all clusters *)
(* of KERNEL.SYS in memory, in the order of their chain and each from its  *)
(* own sectors, whatever the 16-bit arithmetic had to carry                *)
(* (load_file.s:13-90, div_32.s:14-36, find_file.s:10-52).                 *)
KernelWhole ==
  bootPc = "kernel" =>
    /\ a20
    /\ \E c \in Clusters : KernelAt(disk, c) /\ IsChainFrom(disk, c, memory)
=============================================================================
