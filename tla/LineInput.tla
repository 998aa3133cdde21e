----------------------------- MODULE LineInput -----------------------------
(***************************************************************************)
(* The line input of the kernel: the keyboard interrupt handler that       *)
(* collects a line in tempBuffer and hands it over in inputBuffer when     *)
(* Enter is pressed, and the shell's main loop that reads inputBuffer with *)
(* getStr, getLine and trimInput and empties it with clearInputBuffer.     *)
(*                                                                         *)
(* The handler runs behind an interrupt gate, so it is one atomic action,  *)
(* enabled at every control location of the main loop. The main loop takes *)
(* one step per access to the shared inputIndex and one per read of a      *)
(* cell that may be at or above it, where the handler writes. An iteration *)
(* of the moving loop touches only cells below inputIndex and is one step. *)
(* The kernel is compiled without optimisation, so every read of a global  *)
(* is a load, a cell that is compared twice and copied is loaded three     *)
(* times, and inputIndex -= count is a load, a subtraction and a store.    *)
(***************************************************************************)
EXTENDS Integers, Sequences, SequencesExt, FiniteSetsExt

CONSTANTS
  Letters,      \* printable characters that are not blanks
  ArgCommands,  \* words after which the shell reads an argument (cd, cat)
  Size,         \* size of the callers' buffers, 256 in kernel.c
  BufSize,      \* cells of inputBuffer that are modelled, 2048 in the code
  MaxLines,     \* bound: lines the user enters
  MaxLineLen    \* bound: characters the user types on one line

ASSUME LineInputAssumption ==
  /\ Size \in Nat \ {0}
  /\ MaxLines \in Nat
  /\ MaxLineLen \in Nat
  /\ BufSize \in Nat
  /\ Size <= BufSize
  /\ BufSize > MaxLines * (MaxLineLen + 1)
  /\ Letters \cap {"sp", "nl", "nul"} = {}

VARIABLES
  temp,         \* tempBuffer[0 .. tempIndex-1]
  inputBuffer,  \* cells 0 .. BufSize-1
  inputIndex,
  reading,
  pc,           \* control location of the main loop
  call,         \* the input function that runs: "getStr" or "getLine"
  word,         \* the caller's buffer, filled up to idx
  count,        \* trimInput: characters to remove
  dsti, srci,   \* trimInput: the two indexes of the moving loop
  limit,        \* trimInput: the register that holds inputIndex - count
  lines,        \* number of lines entered
  lastLine,     \* the line entered last
  orderly       \* history: was every line typed as the shell expects it?

kbdVars == <<temp, lines, lastLine, orderly>>
bufVars == <<inputBuffer, inputIndex>>
localVars == <<word, count, dsti, srci, limit>>
vars == <<kbdVars, bufVars, localVars, reading, pc, call>>

SP == "sp"
NL == "nl"
NUL == "nul"
Blanks == {SP, NL}
Chars == Letters \cup {SP, NL, NUL}

(* Where an iteration of the copying loop begins: getStr compares the cell *)
(* with the space and then with the newline, getLine with the newline.     *)
LoopTop(c) == IF c = "getStr" THEN "space" ELSE "newline"

(* The character that the current step compares a cell with. *)
Delim == IF pc \in {"space", "scan"} THEN SP ELSE NL

(* Uninitialised globals read as zero: nothing in the boot path clears .bss, *)
(* so this is the state of a machine whose memory was zero at power-on.      *)
Init ==
  /\ temp = <<>>
  /\ inputBuffer = [i \in 0 .. BufSize - 1 |-> NUL]
  /\ inputIndex = 0
  /\ reading = FALSE
  /\ pc = "prompt"
  /\ call = "getStr"
  /\ word = <<>>
  /\ count = 0 /\ dsti = 0 /\ srci = 0 /\ limit = 0
  /\ lines = 0
  /\ lastLine = <<>>
  /\ orderly = TRUE

-----------------------------------------------------------------------------
(* Keyboard interrupt: keyboardHandler for the keys that reach the line.   *)

MayType == lines < MaxLines

(* A printable key. *)
TypeChar(c) ==
  /\ MayType
  /\ Len(temp) < MaxLineLen
  /\ temp' = Append(temp, c)
  /\ UNCHANGED <<lines, lastLine, orderly, bufVars, localVars, reading, pc, call>>

Backspace ==
  /\ MayType
  /\ temp # <<>>
  /\ temp' = Front(temp)
  /\ UNCHANGED <<lines, lastLine, orderly, bufVars, localVars, reading, pc, call>>

(* The text before the first character of delims in the line, as the Size  *)
(* bytes of the caller's buffer truncate it.                               *)
Prefix(line, delims) ==
  LET ends == {i \in 1 .. Len(line) : line[i] \in delims} \cup {Size, Len(line) + 1}
  IN  SubSeq(line, 1, Min(ends) - 1)

(* What is left of the line behind its first word and the blanks after it. *)
Rest(line) ==
  LET w == Len(Prefix(line, Blanks))
      starts == {i \in w + 1 .. Len(line) : line[i] \notin Blanks} \cup {Len(line) + 1}
  IN  SubSeq(line, Min(starts), Len(line))

(* What the shell expects: a line comes when it waits for a command and    *)
(* brings the argument that the command needs.                             *)
Expected ==
  /\ pc = "wait" /\ inputIndex = 0
  /\ Prefix(temp, Blanks) \in ArgCommands => Rest(temp) # <<>>

(* Mutant of Enter: the newline is stored and not counted. *)
EnterUncounted ==
  /\ MayType
  /\ inputBuffer' = [i \in DOMAIN inputBuffer |->
                       IF i \in inputIndex .. inputIndex + Len(temp)
                       THEN Append(temp, NL)[i - inputIndex + 1]
                       ELSE inputBuffer[i]]
  /\ inputIndex' = inputIndex + Len(temp)
  /\ lines' = lines + 1
  /\ lastLine' = temp
  /\ orderly' = (orderly /\ Expected)
  /\ temp' = <<>>
  /\ UNCHANGED <<localVars, reading, pc, call>>

(* Enter appends the line and a newline to inputBuffer. A negative         *)
(* inputIndex makes the first cells fall before the array, in the padding  *)
(* between inputIndex and inputBuffer, where nothing reads them.           *)
Enter ==
  /\ MayType
  /\ inputBuffer' = [i \in DOMAIN inputBuffer |->
                       IF i \in inputIndex .. inputIndex + Len(temp)
                       THEN Append(temp, NL)[i - inputIndex + 1]
                       ELSE inputBuffer[i]]
  /\ inputIndex' = inputIndex + Len(temp) + 1
  /\ lines' = lines + 1
  /\ lastLine' = temp
  /\ orderly' = (orderly /\ Expected)
  /\ temp' = <<>>
  /\ UNCHANGED <<localVars, reading, pc, call>>

Keyboard == (\E c \in Letters \cup {SP} : TypeChar(c)) \/ Backspace \/ Enter

-----------------------------------------------------------------------------
(* The main loop. *)

(* Top of main's loop, after the prompt: clearInputBuffer, then getStr     *)
(* starts to wait.                                                         *)
ClearInputBuffer ==
  /\ pc = "prompt"
  /\ inputIndex' = 0
  /\ reading' = TRUE
  /\ call' = "getStr"
  /\ pc' = "wait"
  /\ UNCHANGED <<kbdVars, inputBuffer, localVars>>

(* Mutant of StopWaiting: it waits for more than one character. *)
StopWaitingLate ==
  /\ pc = "wait"
  /\ inputIndex > 1
  /\ reading' = FALSE
  /\ word' = <<>>
  /\ pc' = LoopTop(call)
  /\ UNCHANGED <<kbdVars, bufVars, count, dsti, srci, limit, call>>

(* The spin loop of getStr and getLine ends once inputIndex is not zero.   *)
StopWaiting ==
  /\ pc = "wait"
  /\ inputIndex # 0
  /\ reading' = FALSE
  /\ word' = <<>>
  /\ pc' = LoopTop(call)
  /\ UNCHANGED <<kbdVars, bufVars, count, dsti, srci, limit, call>>

(* Mutant of CopyGoesOn: no byte is kept for the terminator. *)
CopyGoesOnTooFar ==
  /\ inputBuffer[Len(word)] # Delim
  /\ pc = "newline" => Len(word) < Size

(* One comparison of the copying loop's condition: the cell is not the     *)
(* delimiter and, behind the last comparison, the caller's buffer has room *)
(* for one more character and the terminator.                              *)
CopyGoesOn ==
  /\ inputBuffer[Len(word)] # Delim
  /\ pc = "newline" => Len(word) < Size - 1

TestCell ==
  /\ pc \in {"space", "newline"}
  /\ CopyGoesOn
  /\ pc' = IF pc = "space" THEN "newline" ELSE "take"
  /\ UNCHANGED <<kbdVars, bufVars, localVars, reading, call>>

(* buffer[idx] = inputBuffer[idx] reads the cell once more. *)
CopyChar ==
  /\ pc = "take"
  /\ word' = Append(word, inputBuffer[Len(word)])
  /\ pc' = LoopTop(call)
  /\ UNCHANGED <<kbdVars, bufVars, count, dsti, srci, limit, reading, call>>

(* Mutant of EndCopy: one character too few is trimmed. *)
EndCopyShort ==
  /\ pc \in {"space", "newline"}
  /\ ~CopyGoesOn
  /\ count' = Len(word) - 1
  /\ pc' = "scan"
  /\ UNCHANGED <<kbdVars, bufVars, word, dsti, srci, limit, reading, call>>

(* buffer[idx] = 0, then trimInput(idx) is called. *)
EndCopy ==
  /\ pc \in {"space", "newline"}
  /\ ~CopyGoesOn
  /\ count' = Len(word)
  /\ pc' = "scan"
  /\ UNCHANGED <<kbdVars, bufVars, word, dsti, srci, limit, reading, call>>

(* Mutant of TrimsCell: only the newline is removed, not the space. *)
TrimsNewline == inputBuffer[count] = NL

(* trimInput: blanks behind the consumed characters are removed as well;   *)
(* each cell is compared with the space and then with the newline.         *)
TrimsCell == inputBuffer[count] = Delim

ScanCell ==
  /\ pc = "scan"
  /\ ~TrimsCell
  /\ pc' = "scanline"
  /\ UNCHANGED <<kbdVars, bufVars, localVars, reading, call>>

ScanBlank ==
  /\ pc \in {"scan", "scanline"}
  /\ TrimsCell
  /\ count' = count + 1
  /\ pc' = "scan"
  /\ UNCHANGED <<kbdVars, bufVars, word, dsti, srci, limit, reading, call>>

EndScan ==
  /\ pc = "scanline"
  /\ ~TrimsCell
  /\ dsti' = 0
  /\ srci' = count
  /\ pc' = "shift"
  /\ UNCHANGED <<kbdVars, bufVars, word, count, limit, reading, call>>

(* trimInput: the characters that stay move to the front of the buffer. *)
ShiftGoesOn == srci < inputIndex

ShiftChar ==
  /\ pc = "shift"
  /\ ShiftGoesOn
  /\ inputBuffer' = [inputBuffer EXCEPT ![dsti] = inputBuffer[srci]]
  /\ dsti' = dsti + 1
  /\ srci' = srci + 1
  /\ UNCHANGED <<kbdVars, inputIndex, word, count, limit, reading, pc, call>>

(* Mutant of EndShift: the loop is left only at inputIndex itself. *)
EndShiftExact ==
  /\ pc = "shift"
  /\ srci = inputIndex
  /\ pc' = "load"
  /\ UNCHANGED <<kbdVars, bufVars, localVars, reading, call>>

EndShift ==
  /\ pc = "shift"
  /\ ~ShiftGoesOn
  /\ pc' = "load"
  /\ UNCHANGED <<kbdVars, bufVars, localVars, reading, call>>

(* Mutant of LoadIndex: the blanks behind the word are not subtracted. *)
LoadIndexWord ==
  /\ pc = "load"
  /\ limit' = inputIndex - Len(word)
  /\ pc' = "store"
  /\ UNCHANGED <<kbdVars, bufVars, word, count, dsti, srci, reading, call>>

(* inputIndex -= count: load and subtract, then store. *)
LoadIndex ==
  /\ pc = "load"
  /\ limit' = inputIndex - count
  /\ pc' = "store"
  /\ UNCHANGED <<kbdVars, bufVars, word, count, dsti, srci, reading, call>>

(* The store returns to main. After getStr, the commands with an argument  *)
(* call getLine; after getLine, and for every other word, main goes back   *)
(* to the prompt.                                                          *)
StoreIndex ==
  /\ pc = "store"
  /\ inputIndex' = limit
  /\ IF call = "getStr" /\ word \in ArgCommands
     THEN pc' = "wait" /\ reading' = TRUE /\ call' = "getLine"
     ELSE pc' = "prompt" /\ UNCHANGED <<reading, call>>
  /\ UNCHANGED <<kbdVars, inputBuffer, localVars>>

Shell ==
  \/ ClearInputBuffer \/ StopWaiting
  \/ TestCell \/ CopyChar \/ EndCopy
  \/ ScanCell \/ ScanBlank \/ EndScan
  \/ ShiftChar \/ EndShift
  \/ LoadIndex \/ StoreIndex

Next == Keyboard \/ Shell

Spec == Init /\ [][Next]_vars

(* The processor goes on with the main loop between interrupts; the user   *)
(* owes the kernel nothing.                                                *)
FairSpec == Spec /\ WF_vars(Shell)

-----------------------------------------------------------------------------
(* Type invariant of the line input: every index and register is an        *)
(* integer, every cell a character.                                        *)
TypeOK ==
  /\ temp \in Seq(Letters \cup {SP})
  /\ inputBuffer \in [0 .. BufSize - 1 -> Chars]
  /\ inputIndex \in Int
  /\ reading \in BOOLEAN
  /\ pc \in {"prompt", "wait", "space", "newline", "take", "scan", "scanline",
             "shift", "load", "store"}
  /\ call \in {"getStr", "getLine"}
  /\ word \in Seq(Chars)
  /\ count \in Nat /\ dsti \in Nat /\ srci \in Nat
  /\ limit \in Int
  /\ lines \in 0 .. MaxLines
  /\ lastLine \in Seq(Letters \cup {SP})
  /\ orderly \in BOOLEAN

(* getStr and getLine never fill the caller's buffer beyond its last byte, *)
(* which they keep for the terminator, whatever the interrupts do to       *)
(* inputBuffer meanwhile (iobuffers.c, the copying loops).                 *)
WordFitsBuffer == Len(word) <= Size - 1

(* As long as the lines come as the shell expects them, they come out as   *)
(* typed: getStr returns the first word, getLine what is behind it.        *)
ShellReadsTheLine ==
  orderly /\ pc \in {"scan", "scanline", "shift", "load", "store"} =>
    word = IF call = "getStr"
           THEN Prefix(lastLine, Blanks)
           ELSE Prefix(Rest(lastLine), {NL})

(* The characters that are entered and not consumed, as the buffer shows   *)
(* them at each control location. Consuming takes effect when trimInput    *)
(* has found where the unread characters begin.                            *)
Cells(a, b) == [i \in 1 .. (IF b > a THEN b - a ELSE 0) |-> inputBuffer[a + i - 1]]

Unread ==
  IF pc \in {"shift", "load", "store"}
  THEN Cells(0, dsti) \o Cells(srci, inputIndex)
  ELSE Cells(0, inputIndex)

(* The line input implements the queue of LineQueue. *)
Queue == INSTANCE LineQueue WITH queue <- Unread, lines <- lines

(* Reading a line is one step of the queue although it takes the code      *)
(* many. The refinement holds for as long as the lines come as the shell   *)
(* expects them: TrimKeepsUnread is about what may happen after that.      *)
ImplementsQueue ==
  Queue!Init /\ [][orderly' => Queue!Next]_<<Unread, lines>>

(* A line that is entered joins the end of the unread characters and loses *)
(* none of them, wherever the main loop is interrupted (keyboard.c:103-114 *)
(* against iobuffers.c:17-28). Left out is only the case that trimInput    *)
(* has already run past inputIndex over blanks of earlier lines.           *)
EnterAppends ==
  [][ /\ lines' # lines
      /\ inputIndex >= 0
      /\ pc \in {"shift", "load", "store"} => srci <= inputIndex
      => Unread' = Unread \o Append(temp, NL) ]_vars

(* Nothing was entered since trimInput's moving loop ended. *)
Undisturbed == srci >= inputIndex

(* No step of the shell invents or reorders input: what is unread after it *)
(* is the tail of what was unread before. The store that ends trimInput    *)
(* is included as long as no line came in behind the moving loop.          *)
ShellOnlyConsumes ==
  [][ lines' = lines /\ (pc = "store" => Undisturbed)
      => IsSuffix(Unread', Unread) ]_vars


(* The shell always gets back to waiting for input, whatever is typed:     *)
(* none of its loops can run on for ever.                                  *)
ShellComesBack == []<>(pc = "wait")

(* A line entered while the shell waits is read, and the shell gets back to *)
(* its prompt without asking for more (main's loop, kernel.c:79-104),       *)
(* unless the user types ahead or leaves out an argument.                   *)
LineIsHandled ==
  (pc = "wait" /\ inputIndex # 0) ~> (pc = "prompt" \/ ~orderly)
=============================================================================
