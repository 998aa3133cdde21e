------------------------------ MODULE MCScreen ------------------------------
(* Small instances of Screen. The cells moved when the backup is full are  *)
(* as large a part of a full move as in the code: 18000 of 24000 bytes.    *)
EXTENDS Screen

MCShiftedCells == ((Pages - 1) * PageRows * Cols * 3) \div 4
=============================================================================
