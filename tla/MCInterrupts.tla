---------------------------- MODULE MCInterrupts ----------------------------
(* The timer and the disk are the other devices; all keys but the right    *)
(* shift key may be held for long.                                         *)
EXTENDS Interrupts

MCOtherIrqs == {0, 14}
MCRepeating == {"lshift", "a", "caps", "up"}
=============================================================================
