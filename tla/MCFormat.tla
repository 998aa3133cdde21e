------------------------------ MODULE MCFormat ------------------------------
(* A small drive for Format: two letters, two runs, partitions whose number *)
(* of clusters is one below and at a multiple of the entries of a sector.   *)
EXTENDS Format

MCSizes == {63, 64}
=============================================================================
