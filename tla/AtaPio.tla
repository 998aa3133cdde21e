------------------------------- MODULE AtaPio -------------------------------
(***************************************************************************)
(* The ATA PIO protocol of the kernel: identify at boot and readSector,    *)
(* with the drive on the other side of the ports. The drive is modelled    *)
(* from how the code uses it and from what an ATA drive may do: it raises  *)
(* BSY some time after a command is written (a slow drive after the first  *)
(* status was read), clears it with DRQ for every sector, or with ERR.     *)
(* Where no drive is connected the status reads as zero, or as all ones.   *)
(*                                                                         *)
(* The status is a set of bits. A poll that finds nothing to do is a       *)
(* stuttering step. A sector is named by its address; the 256 words of one *)
(* are read in a single step, in which the drive can do nothing.           *)
(***************************************************************************)
EXTENDS Integers

CONSTANTS
  Reach,       \* sectors that three bytes of an address reach, 2^24
  MaxSectors,  \* sectors of a cluster, the largest read, 4
  Lbas,        \* addresses that are read
  MaxCalls     \* bound: reads after the file system has been loaded

ASSUME AtaAssumption ==
  /\ Reach \in Nat \ {0}
  /\ MaxSectors \in 1 .. Reach
  /\ Lbas \subseteq Nat
  /\ MaxCalls \in Nat

VARIABLES
  device,    \* the drive: its status, the sector it is at, how many are left
  kind,      \* what is connected
  slow,      \* may the drive raise BSY late?
  ataPc,
  status,    \* identify's variable
  request,   \* readSector's arguments
  buffer,    \* the sectors of readSector's buffer
  s,         \* readSector's s
  answer,    \* what readSector returned, "none" while it runs
  mounted,   \* has the header of the file system been read?
  calls,
  troubled   \* history: has a read failed?

driveVars == <<device, kind, slow>>
readVars == <<request, buffer, s, answer>>
ataVars == <<driveVars, readVars, ataPc, status, mounted, calls, troubled>>

Bits == {"BSY", "RDY", "DRQ", "ERR"}
Old == -1
IdData == -2
NoCommand == [lba |-> Old, n |-> 0]

AtaInit ==
  /\ kind \in {"ata", "atapi", "none", "floating"}
  /\ slow \in BOOLEAN
  /\ device = [bits |-> CASE kind = "none" -> {} [] kind = "floating" -> Bits
                          [] OTHER -> {"RDY"},
               next |-> 0, left |-> 0, pending |-> NoCommand]
  /\ ataPc = "boot"
  /\ status = Bits
  /\ request = [n |-> 0, lba |-> 0]
  /\ buffer = [i \in 0 .. MaxSectors - 1 |-> Old]
  /\ s = 0
  /\ answer = "ok"
  /\ mounted = FALSE
  /\ calls = 0
  /\ troubled = FALSE

-----------------------------------------------------------------------------
(* The drive. *)

Accepted(lba, n) ==
  [bits |-> {"BSY"}, next |-> lba, left |-> n, pending |-> NoCommand]

Engaged == device.bits \cap {"BSY", "DRQ"} # {} \/ device.pending # NoCommand

(* A command is written. While the drive is at an earlier one it may ignore *)
(* the new one or turn to it.                                               *)
Command(lba, n) ==
  IF kind \in {"none", "floating"} THEN UNCHANGED device
  ELSE IF Engaged THEN device' \in {device, Accepted(lba, n)}
  ELSE IF slow THEN device' = [device EXCEPT !.pending = [lba |-> lba, n |-> n]]
  ELSE device' = Accepted(lba, n)

Notice ==
  /\ device.pending # NoCommand
  /\ device' = Accepted(device.pending.lba, device.pending.n)

SectorReady ==
  /\ kind = "ata"
  /\ device.bits = {"BSY"}
  /\ device' = [device EXCEPT !.bits = {"RDY", "DRQ"}]

(* A drive of another kind refuses every ATA command. *)
CommandFails ==
  /\ device.bits = {"BSY"}
  /\ device' = [device EXCEPT !.bits = {"RDY", "ERR"}, !.left = 0]

Drive ==
  /\ Notice \/ SectorReady \/ CommandFails
  /\ UNCHANGED <<kind, slow, readVars, ataPc, status, mounted, calls, troubled>>

(* The 256 words of a sector are read. *)
Transferred ==
  [device EXCEPT !.bits = IF device.left = 1 THEN {"RDY"} ELSE {"BSY"},
                 !.next = @ + 1, !.left = @ - 1]

-----------------------------------------------------------------------------
(* A call of readSector. *)
Ask(n, lba) ==
  /\ request' = [n |-> n, lba |-> lba]
  /\ buffer' = [i \in DOMAIN buffer |-> Old]
  /\ s' = 0
  /\ answer' = "none"
  /\ ataPc' = "issue"

-----------------------------------------------------------------------------
(* identify *)

IssueIdentify ==
  /\ ataPc = "boot"
  /\ Command(IdData, 1)
  /\ ataPc' = "first"
  /\ UNCHANGED <<kind, slow, readVars, status, mounted, calls, troubled>>

(* The first status; zero means that there is no drive. *)
FirstStatus ==
  /\ ataPc = "first"
  /\ status' = device.bits
  /\ ataPc' = IF device.bits = {} THEN "idle" ELSE "busy"
  /\ UNCHANGED <<driveVars, readVars, mounted, calls, troubled>>

PollBusy ==
  /\ ataPc = "busy"
  /\ "BSY" \in status
  /\ status' = device.bits
  /\ UNCHANGED <<driveVars, readVars, ataPc, mounted, calls, troubled>>

(* The address registers are zero as written, unless a drive of another    *)
(* kind has left its signature there.                                      *)
Signature == kind = "atapi" /\ "ERR" \in device.bits

(* Mutant of CheckSignature: identify returns TRUE here. *)
CheckSignatureTrue ==
  /\ ataPc = "busy"
  /\ "BSY" \notin status
  /\ IF Signature THEN Ask(1, 1) ELSE ataPc' = "spin" /\ UNCHANGED readVars
  /\ UNCHANGED <<driveVars, status, mounted, calls, troubled>>

CheckSignature ==
  /\ ataPc = "busy"
  /\ "BSY" \notin status
  /\ ataPc' = IF Signature THEN "idle" ELSE "spin"
  /\ UNCHANGED <<driveVars, readVars, status, mounted, calls, troubled>>

(* The loop that should poll for DRQ or ERR has an empty body: it ends at  *)
(* once or never, and the status is read once more behind it.              *)
Spin ==
  /\ ataPc = "spin"
  /\ status \cap {"DRQ", "ERR"} = {}
  /\ UNCHANGED ataVars

EndSpin ==
  /\ ataPc = "spin"
  /\ status \cap {"DRQ", "ERR"} # {}
  /\ status' = device.bits
  /\ ataPc' = "verdict"
  /\ UNCHANGED <<driveVars, readVars, mounted, calls, troubled>>

NotIdentified ==
  /\ ataPc = "verdict"
  /\ "ERR" \in status
  /\ ataPc' = "idle"
  /\ UNCHANGED <<driveVars, readVars, status, mounted, calls, troubled>>

-----------------------------------------------------------------------------
(* readSector *)

(* identify reads its 256 words and returns; loadFileSystem reads the      *)
(* header of the file system from sector 1.                                *)
Identified ==
  /\ ataPc = "verdict"
  /\ "ERR" \notin status
  /\ device' = Transferred
  /\ Ask(1, 1)
  /\ UNCHANGED <<kind, slow, status, mounted, calls, troubled>>

(* load_FATSect and load_Cluster. Without a header a cluster has no        *)
(* sectors: the kernel goes on although loadFileSystem failed.             *)
Call(n, lba) ==
  /\ ataPc = "idle"
  /\ calls < MaxCalls
  /\ n = 0 <=> ~mounted
  /\ calls' = calls + 1
  /\ Ask(n, lba)
  /\ UNCHANGED <<driveVars, status, mounted, troubled>>

(* Mutant of Issue: the number of sectors is not sent. *)
IssueOne ==
  /\ ataPc = "issue"
  /\ Command(request.lba % Reach, 1)
  /\ ataPc' = "poll"
  /\ UNCHANGED <<kind, slow, readVars, status, mounted, calls, troubled>>

(* The registers and the command are written: three bytes of the address,  *)
(* and a byte for the number of sectors, where zero asks for 256.          *)
Issue ==
  /\ ataPc = "issue"
  /\ Command(request.lba % Reach, IF request.n = 0 THEN 256 ELSE request.n)
  /\ ataPc' = "poll"
  /\ UNCHANGED <<kind, slow, readVars, status, mounted, calls, troubled>>

(* The polling loop ends: the drive is not busy, and DRQ or ERR is set. *)
Ready == "BSY" \notin device.bits /\ device.bits \cap {"DRQ", "ERR"} # {}

ReadData ==
  /\ ataPc = "poll"
  /\ s < request.n
  /\ Ready
  /\ "ERR" \notin device.bits
  /\ buffer' = [buffer EXCEPT ![s] = device.next]
  /\ device' = Transferred
  /\ s' = s + 1
  /\ UNCHANGED <<kind, slow, request, answer, ataPc, status, mounted, calls, troubled>>

(* Mutant of ReadFails: the error is taken for the end of the data. *)
ReadFailsOk ==
  /\ ataPc = "poll"
  /\ s < request.n
  /\ Ready
  /\ "ERR" \in device.bits
  /\ answer' = "ok"
  /\ ataPc' = "idle"
  /\ troubled' = TRUE
  /\ UNCHANGED <<driveVars, request, buffer, s, status, mounted, calls>>

ReadFails ==
  /\ ataPc = "poll"
  /\ s < request.n
  /\ Ready
  /\ "ERR" \in device.bits
  /\ answer' = "failed"
  /\ ataPc' = "idle"
  /\ troubled' = TRUE
  /\ UNCHANGED <<driveVars, request, buffer, s, status, mounted, calls>>

(* All sectors are read. The first read of all brings the header. *)
ReadReturns ==
  /\ ataPc = "poll"
  /\ s = request.n
  /\ answer' = "ok"
  /\ ataPc' = "idle"
  /\ mounted' = (mounted \/ calls = 0)
  /\ UNCHANGED <<driveVars, request, buffer, s, status, calls, troubled>>

Identify ==
  \/ IssueIdentify \/ FirstStatus \/ PollBusy \/ CheckSignature
  \/ Spin \/ EndSpin \/ NotIdentified \/ Identified

ReadSector == Issue \/ ReadData \/ ReadFails \/ ReadReturns

Kernel == Identify \/ ReadSector

AtaNext ==
  \/ Drive
  \/ Kernel
  \/ \E n \in 0 .. MaxSectors, lba \in Lbas : Call(n, lba)

-----------------------------------------------------------------------------
(* Type invariant of the protocol. *)
AtaTypeOK ==
  /\ kind \in {"ata", "atapi", "none", "floating"}
  /\ slow \in BOOLEAN /\ mounted \in BOOLEAN /\ troubled \in BOOLEAN
  /\ device.bits \in SUBSET Bits
  /\ device.next \in Int /\ device.left \in Int
  /\ status \in SUBSET Bits
  /\ request \in [n : 0 .. MaxSectors, lba : Nat]
  /\ buffer \in [0 .. MaxSectors - 1 -> Int]
  /\ s \in 0 .. request.n
  /\ answer \in {"none", "ok", "failed"}

(* A drive that raises BSY at once can always be trusted; a slow one until  *)
(* a read has failed, because ERR of that read is still there when the next *)
(* one polls for the first time (filesys.c:93-99 reads the status directly *)
(* behind the command).                                                    *)
Trusted == ~(slow /\ troubled)

Device ==
  INSTANCE BlockDevice WITH arrived <- s, trusted <- Trusted, Sectors <- Int

(* readSector keeps its promise to the file system: it returns true only   *)
(* with all the sectors that were asked for, and false with the first ones *)
(* in place and the others untouched, which is what FileSys assumes of     *)
(* every read (filesys.c:77-116).                                          *)
ImplementsBlockDevice == Device!Spec

(* Every read comes to an end although readSector polls without a limit,   *)
(* as long as the drive answers and can be trusted (filesys.c:96-113).     *)
ReadsEnd == (ataPc = "poll") ~> (ataPc = "idle" \/ ~Trusted)

(* The kernel believes in a file system only where there is an ATA drive,  *)
(* and asks for sectors only then (filesys.c:197-199).                     *)
MountedOnDrive == mounted \/ request.n # 0 => kind = "ata"
=============================================================================
