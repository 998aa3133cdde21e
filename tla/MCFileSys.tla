----------------------------- MODULE MCFileSys -----------------------------
(* Small disks for FileSys: two sectors to a cluster, two records to a     *)
(* sector, four entries to a sector of the file allocation table.          *)
EXTENDS FileSys

D(name, cluster) == [kind |-> "dir", name |-> name, cluster |-> cluster, size |-> 0]
F(name, cluster, size) == [kind |-> "file", name |-> name, cluster |-> cluster, size |-> size]
Deleted == [kind |-> "deleted", name |-> "", cluster |-> 0, size |-> 0]

(* sub fills its cluster to the last record; file g has more sectors than  *)
(* MaxChain clusters hold, and its chain is a cycle; file e is empty.      *)
MCDirectory ==
  [c \in {2, 3, 6, 7} |->
     CASE c = 2 -> <<D("sub", 3), F("f", 4, 3), F("e", 0, 0), NoFile>>
       [] c = 3 -> <<D(".", 3), D("..", 0), F("g", 5, 9), D("deep", 6)>>
       [] c = 6 -> <<D(".", 6), Deleted, D("..", 3), NoFile>>
       [] c = 7 -> <<F("h", 10, 1), NoFile, NoFile, NoFile>>]

(* f lies in clusters 4 and 8, g in 5 and 9: both chains change the FAT     *)
(* sector.                                                                 *)
MCFat ==
  [c \in 0 .. 11 |->
     CASE c = 4 -> 8 [] c = 5 -> 9 [] c = 9 -> 5
       [] c \in {0, 1, 11} -> 0
       [] OTHER -> EOC]

(* A smaller disk, for the drive that fails: the root directory lies in    *)
(* clusters 2 and 4, file f in 5 and 3, which it goes round for ever.      *)
MCSmallDirectory ==
  [c \in {2, 4, 6} |->
     CASE c = 2 -> <<D("sub", 6), F("f", 5, 3)>>
       [] c = 4 -> <<F("h", 7, 1), NoFile>>
       [] c = 6 -> <<D("..", 0), Deleted>>]

MCSmallFat ==
  [c \in 0 .. 7 |->
     CASE c = 2 -> 4 [] c = 3 -> 5 [] c = 5 -> 3
       [] c \in {0, 1} -> 0
       [] OTHER -> EOC]
=============================================================================
