----------------------------- MODULE MCConsole -----------------------------
(* Small screens for Console, as in MCScreen. *)
EXTENDS Console

MCShiftedCells == ((Pages - 1) * PageRows * Cols * 3) \div 4
=============================================================================
