------------------------------ MODULE Startup ------------------------------
(***************************************************************************)
(* From the boot sector to the shell: the boot loader runs alone, and when *)
(* it has entered the kernel, the kernel identifies the drive and reads    *)
(* the header of the file system, and then what the shell asks for.        *)
(***************************************************************************)
EXTENDS BootLoader, AtaPio

vars == <<bootVars, ataVars>>

Init == BootInit /\ AtaInit

Boot == BootNext /\ UNCHANGED ataVars

InKernel(A) == bootPc = "kernel" /\ A /\ UNCHANGED bootVars

Next == Boot \/ InKernel(AtaNext)

(* The processor goes on, the BIOS answers, and a drive answers every       *)
(* command it has got.                                                     *)
Fairness == WF_vars(Boot) /\ WF_vars(InKernel(Kernel)) /\ WF_vars(InKernel(Drive))

Spec == Init /\ [][Next]_vars

FairSpec == Spec /\ Fairness

-----------------------------------------------------------------------------
(* Type invariant of both. *)
StartupTypeOK == BootTypeOK /\ AtaTypeOK

(* The machine does not hang silently in the boot loader or in identify:   *)
(* it stops with a message, runs wild where the code says so, or gets to   *)
(* the shell, whatever the disk holds and whichever read fails. Two loops  *)
(* of identify are excepted: a bus with nothing on it reads as busy for    *)
(* ever (filesys.c:51), and the loop with the empty body never ends when   *)
(* BSY was not yet set the first time the status was read (filesys.c:61).  *)
StartupEnds ==
  <>(bootPc \in {"halt", "wild"} \/ ataPc = "idle" \/ slow \/ kind = "floating")
=============================================================================
