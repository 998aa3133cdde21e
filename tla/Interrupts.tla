----------------------------- MODULE Interrupts -----------------------------
(***************************************************************************)
(* How a key gets from the keyboard to the driver: the keyboard controller *)
(* with its buffer of one code, the two interrupt controllers, set up by   *)
(* idt_init, the gates and the stubs, and the handlers, which acknowledge  *)
(* an interrupt before they do anything else.                              *)
(*                                                                         *)
(* The interrupt controllers are modelled from how the code sets them up:  *)
(* edge triggered, fixed priority, without automatic end of interrupt.     *)
(* Whatever the main program does is left out: a handler may come between  *)
(* any two of its instructions.                                            *)
(***************************************************************************)
EXTENDS Keyboard, FiniteSetsExt

CONSTANTS
  OtherIrqs,   \* other devices: the timer is 0, the disk is 14
  MaxOther     \* bound: interrupts of other devices, and false ones

ASSUME InterruptsAssumption ==
  /\ OtherIrqs \subseteq 0 .. 15 \ {1, 2}
  /\ MaxOther \in Nat

VARIABLES
  pc,        \* idt_init: "pic", "gates", "load", then "done"
  enabled,   \* does the processor accept interrupts?
  vector,    \* the vector of the first line of each controller
  gates,     \* the stub behind every vector that has one
  request,   \* lines that ask for an interrupt (IRR)
  service,   \* lines whose interrupt has not ended (ISR)
  handler,   \* the handler that runs, and where it is
  output,    \* the controller's buffer: a code, or None
  stuck,     \* history: was a code in it when the PICs were initialised?
  others

picVars == <<vector, request, service>>
cpuVars == <<pc, enabled, gates, handler>>
intVars == <<picVars, cpuVars, output, stuck, others>>
vars == <<intVars, driverVars, keyboardVars>>

None == [key |-> "none", up |-> FALSE]
NoHandler == [irq |-> -1, at |-> "none"]
Lines == 0 .. 15

(* The BIOS leaves its own vectors, and interrupts disabled. *)
Init ==
  /\ KeyboardInit
  /\ pc = "pic"
  /\ enabled = FALSE
  /\ vector = [master |-> 8, slave |-> 112]
  /\ gates = [v \in {} |-> -1]
  /\ request = {}
  /\ service = {}
  /\ handler = NoHandler
  /\ output = None
  /\ stuck = FALSE
  /\ others = 0

-----------------------------------------------------------------------------
(* The devices. *)

Type == Typist /\ UNCHANGED <<intVars, driverVars>>

(* A code goes to the controller's buffer, and its line goes up. *)
Fill ==
  /\ queue # <<>>
  /\ output = None
  /\ output' = Head(queue)
  /\ queue' = Tail(queue)
  /\ request' = request \cup {1}
  /\ UNCHANGED <<cpuVars, vector, service, stuck, others, driverVars,
                 held, meant, lost, capsRepeated, events>>

OtherDevice(i) ==
  /\ others < MaxOther
  /\ others' = others + 1
  /\ request' = request \cup {i}
  /\ UNCHANGED <<cpuVars, vector, service, output, stuck, driverVars, keyboardVars>>

-----------------------------------------------------------------------------
(* idt_init *)

(* The first command word makes a controller forget the edges it has seen. *)
InitPics ==
  /\ pc = "pic"
  /\ vector' = [master |-> 32, slave |-> 40]
  /\ request' = {}
  /\ service' = {}
  /\ stuck' = (output # None)
  /\ pc' = "gates"
  /\ UNCHANGED <<enabled, gates, handler, output, others, driverVars, keyboardVars>>

(* Mutant of Stub: every gate holds the stub of the line behind. *)
StubNext(v) == v - 31

Stub(v) == v - 32

FillGates ==
  /\ pc = "gates"
  /\ gates' = [v \in 32 .. 47 |-> Stub(v)]
  /\ pc' = "load"
  /\ UNCHANGED <<picVars, enabled, handler, output, stuck, others, driverVars, keyboardVars>>

LoadIdt ==
  /\ pc = "load"
  /\ enabled' = TRUE
  /\ pc' = "done"
  /\ UNCHANGED <<picVars, gates, handler, output, stuck, others, driverVars, keyboardVars>>

-----------------------------------------------------------------------------
(* The interrupt controllers. *)

(* The line of the master that a line comes in on. *)
MasterLine(i) == IF i < 8 THEN i ELSE 2

Waiting(i) == i \in request /\ \A j \in service : MasterLine(i) < MasterLine(j)

(* The lines before i in the order of priority. *)
Before(j, i) ==
  \/ MasterLine(j) < MasterLine(i)
  \/ MasterLine(j) = MasterLine(i) /\ j < i

VectorOf(i) == IF i < 8 THEN vector.master + i ELSE vector.slave + i - 8

(* The processor takes a gate, which disables interrupts, and its stub     *)
(* calls the handler. Without a gate it would fault.                       *)
Enter(i) ==
  LET irq == IF VectorOf(i) \in DOMAIN gates THEN gates[VectorOf(i)] ELSE -1
  IN /\ enabled' = FALSE
     /\ handler' = [irq |-> irq, at |-> CASE irq = -1 -> "fault"
                                         [] irq \in 0 .. 7 -> "master"
                                         [] OTHER -> "slave"]

Deliver(i) ==
  /\ enabled
  /\ Waiting(i)
  /\ \A j \in Lines : Waiting(j) /\ j # i => Before(i, j)
  /\ request' = request \ {i}
  /\ service' = service \cup {i, MasterLine(i)}
  /\ Enter(i)
  /\ UNCHANGED <<pc, vector, gates, output, stuck, others, driverVars, keyboardVars>>

(* A line that goes down before its interrupt is taken becomes the last    *)
(* line of its controller, which it does not take into service.            *)
Spurious(i) ==
  /\ enabled
  /\ service = {}
  /\ others < MaxOther
  /\ others' = others + 1
  /\ service' = IF i = 15 THEN {2} ELSE {}
  /\ Enter(i)
  /\ UNCHANGED <<pc, vector, gates, request, output, stuck, driverVars, keyboardVars>>

(* An end of interrupt ends the first one that is in service. *)
EndFirst(lines) ==
  service' = IF service \cap lines = {} THEN service
             ELSE service \ {Min(service \cap lines)}

-----------------------------------------------------------------------------
(* The handlers. *)

Goto(place) == handler' = [handler EXCEPT !.at = place]

(* Mutant of EndSlave: only the master is told. *)
EndSlaveUntold ==
  /\ handler.at = "slave"
  /\ Goto("master")
  /\ UNCHANGED <<pc, enabled, gates, picVars, output, stuck, others, driverVars, keyboardVars>>

EndSlave ==
  /\ handler.at = "slave"
  /\ EndFirst(8 .. 15)
  /\ Goto("master")
  /\ UNCHANGED <<pc, enabled, gates, vector, request, output, stuck, others, driverVars, keyboardVars>>

(* Mutant of EndMaster: only the handler that does more acknowledges. *)
EndMasterKeyboard ==
  /\ handler.at = "master"
  /\ IF handler.irq = 1 THEN EndFirst(0 .. 7) ELSE UNCHANGED service
  /\ Goto(IF handler.irq = 1 THEN "status" ELSE "return")
  /\ UNCHANGED <<pc, enabled, gates, vector, request, output, stuck, others, driverVars, keyboardVars>>

EndMaster ==
  /\ handler.at = "master"
  /\ EndFirst(0 .. 7)
  /\ Goto(IF handler.irq = 1 THEN "status" ELSE "return")
  /\ UNCHANGED <<pc, enabled, gates, vector, request, output, stuck, others, driverVars, keyboardVars>>

(* Mutant of ReadStatus: the bit is taken for the one of an empty buffer.  *)
ReadStatusEmpty ==
  /\ handler.at = "status"
  /\ Goto(IF output = None THEN "data" ELSE "return")
  /\ UNCHANGED <<pc, enabled, gates, picVars, output, stuck, others, driverVars, keyboardVars>>

ReadStatus ==
  /\ handler.at = "status"
  /\ Goto(IF output = None THEN "return" ELSE "data")
  /\ UNCHANGED <<pc, enabled, gates, picVars, output, stuck, others, driverVars, keyboardVars>>

(* The code is read, and handled. *)
ReadData ==
  /\ handler.at = "data"
  /\ output' = None
  /\ KeyboardHandler(output)
  /\ Goto("return")
  /\ UNCHANGED <<pc, enabled, gates, picVars, stuck, others, keyboardVars>>

Return ==
  /\ handler.at = "return"
  /\ handler' = NoHandler
  /\ enabled' = TRUE
  /\ UNCHANGED <<pc, gates, picVars, output, stuck, others, driverVars, keyboardVars>>

Processor ==
  \/ InitPics \/ FillGates \/ LoadIdt
  \/ \E i \in Lines : Deliver(i)
  \/ EndSlave \/ EndMaster \/ ReadStatus \/ ReadData \/ Return

Next ==
  \/ Type
  \/ Fill
  \/ \E i \in OtherIrqs : OtherDevice(i)
  \/ \E i \in {7, 15} : Spurious(i)
  \/ Processor

Spec == Init /\ [][Next]_vars

(* The processor goes on, and the keyboard sends its codes. *)
FairSpec == Spec /\ WF_vars(Processor) /\ WF_vars(Fill)

-----------------------------------------------------------------------------
(* Type invariant. *)
TypeOK ==
  /\ pc \in {"pic", "gates", "load", "done"}
  /\ enabled \in BOOLEAN /\ stuck \in BOOLEAN
  /\ lost \in BOOLEAN /\ capsRepeated \in BOOLEAN
  /\ lshift \in BOOLEAN /\ rshift \in BOOLEAN /\ capsLock \in BOOLEAN
  /\ request \subseteq Lines /\ service \subseteq Lines
  /\ handler.irq \in Lines \cup {-1}
  /\ handler.at \in {"none", "slave", "master", "status", "data", "return", "fault"}
  /\ held \subseteq Keys
  /\ others \in 0 .. MaxOther /\ events \in 0 .. MaxEvents

(* Whatever devices ask for interrupts, and whichever of them turn out to  *)
(* be false, every interrupt finds a gate, and none is in service any more *)
(* when its handler goes on behind the acknowledgement: one that stayed in *)
(* service would shut out others for good (interrupts.c:86-205, 207-280).  *)
ServiceEnds ==
  /\ handler.at # "fault"
  /\ handler.at \in {"none", "status", "data", "return"} => service = {}

(* A code in the controller's buffer always has a handler coming: its line *)
(* asks for an interrupt, or the handler has not got to its read. The line *)
(* only asks when a code arrives, so that a code is never read that an     *)
(* interrupt was not taken for, and a code that was there when the PICs    *)
(* were initialised stays there, and the keyboard with it                  *)
(* (interrupts.c:75-82, interrupts.c:214, keyboard.c:45-50).               *)
CodeWillBeRead ==
  output # None =>
    1 \in request \/ stuck \/ (handler.irq = 1 /\ handler.at \in {"master", "status", "data"})

(* Every code of the keyboard is read in the end (keyboard.c:50).          *)
CodesAreRead == (output # None /\ ~stuck) ~> (output = None \/ stuck)

AllHandled == queue = <<>> /\ output = None /\ handler = NoHandler

(* Texts of the same keys, a letter as a small one here and a capital      *)
(* there.                                                                  *)
SameKeys(s, t) ==
  Len(s) = Len(t) /\ \A i \in 1 .. Len(s) : (s[i] = "8") = (t[i] = "8")

(* When all codes are handled the driver's shift keys are the ones that    *)
(* are held and the text is the one that was meant, with prefixes, grey    *)
(* keys that pretend to release a shift key, repeated codes and other      *)
(* interrupts in between: as long as the keyboard did not lose a code. The *)
(* driver changes caps lock at every repeated code of its key as well; from*)
(* then on letters may be small that were meant as capitals, and the other *)
(* way round, but every key still types its one character                  *)
(* (keyboard.c:53-61, keyboard.c:77-83).                                   *)
TypedAsMeant ==
  AllHandled /\ ~lost =>
    /\ SameKeys(tempBuffer, meant.text)
    /\ ~capsRepeated => tempBuffer = meant.text /\ capsLock = meant.caps
    /\ "up" \notin held => lshift = ("lshift" \in held) /\ rshift = ("rshift" \in held)
=============================================================================
