----------------------------- MODULE LineQueue -----------------------------
(***************************************************************************)
(* What the line input of Sore-OS promises its caller: a queue of the      *)
(* characters the user has entered and the shell has not consumed yet.     *)
(* Enter puts one line at the end of the queue, getStr takes a word and    *)
(* getLine the rest of a line from its front, and clearInputBuffer throws  *)
(* the queue away. Each of them happens at once.                           *)
(***************************************************************************)
EXTENDS Integers, Sequences

CONSTANTS
  Size    \* size of the buffer the caller of getStr and getLine passes

VARIABLES
  queue,  \* characters entered and not yet consumed
  lines   \* number of lines entered

vars == <<queue, lines>>

SP == "sp"
NL == "nl"
NUL == "nul"
Blanks == {SP, NL}

Init ==
  /\ queue = <<>>
  /\ lines = 0

(* One line and its newline join the end of the queue. *)
Enter ==
  /\ lines' = lines + 1
  /\ Len(queue') > Len(queue)
  /\ SubSeq(queue', 1, Len(queue)) = queue
  /\ queue'[Len(queue')] = NL
  /\ \A i \in Len(queue) + 1 .. Len(queue') - 1 : queue'[i] # NL

(* The characters up to the first one in delims, at most Size - 1 of them, *)
(* leave the queue with the blanks that follow them.                       *)
TakeUpTo(delims) ==
  /\ queue # <<>>
  /\ \E k \in 0 .. Len(queue) : \E m \in k .. Len(queue) :
       /\ k < Size
       /\ \A i \in 1 .. k : queue[i] \notin delims
       /\ k = Size - 1 \/ (k < Len(queue) /\ queue[k + 1] \in delims)
       /\ \A i \in k + 1 .. m : queue[i] \in Blanks
       /\ m = Len(queue) \/ queue[m + 1] \notin Blanks
       /\ queue' = SubSeq(queue, m + 1, Len(queue))
  /\ UNCHANGED lines

GetStr == TakeUpTo(Blanks)
GetLine == TakeUpTo({NL})

Clear ==
  /\ queue' = <<>>
  /\ UNCHANGED lines

Next == Enter \/ GetStr \/ GetLine \/ Clear

Spec == Init /\ [][Next]_vars
=============================================================================
