-------------------------- MODULE LineInputProofs --------------------------
(***************************************************************************)
(* Theorems about LineInput, for buffers of any size, any number of lines  *)
(* and any line length, with an interrupt possible at every step.          *)
(***************************************************************************)
EXTENDS LineInput, SequenceTheorems, WellFoundedInduction, TLAPS

(* The room that the lines entered so far can have taken in inputBuffer.   *)
Room(n) == n * (MaxLineLen + 1)

(* The type invariant needs two facts more to be inductive: the copying    *)
(* loop keeps inside the caller's buffer, also between its test and the    *)
(* copy, and neither inputIndex nor the register that holds its next value *)
(* passes what has been entered.                                           *)
IInv ==
  /\ TypeOK
  /\ WordFitsBuffer
  /\ Len(temp) <= MaxLineLen
  /\ inputIndex <= Room(lines)
  /\ limit <= Room(lines)
  /\ pc = "take" => Len(word) < Size - 1

LEMMA RoomGrows ==
  ASSUME NEW n \in Nat
  PROVE  /\ Room(n) \in Nat
         /\ Room(n + 1) = Room(n) + MaxLineLen + 1
BY LineInputAssumption DEF LineInputAssumption, Room

LEMMA RoomFits ==
  ASSUME NEW n \in 0 .. MaxLines
  PROVE  Room(n) < BufSize
<1>1. n * (MaxLineLen + 1) <= MaxLines * (MaxLineLen + 1)
  BY LineInputAssumption DEF LineInputAssumption
<1> QED
  BY <1>1, LineInputAssumption DEF LineInputAssumption, Room

LEMMA InitIInv == Init => IInv
<1> SUFFICES ASSUME Init
             PROVE  IInv
  OBVIOUS
<1>1. Size \in Nat \ {0} /\ BufSize \in Nat /\ MaxLines \in Nat /\ MaxLineLen \in Nat
  BY LineInputAssumption DEF LineInputAssumption
<1>2. Room(0) = 0
  BY <1>1 DEF Room
<1>3. inputBuffer \in [0 .. BufSize - 1 -> Chars]
  BY DEF Init, Chars
<1>4. /\ temp \in Seq(Letters \cup {SP}) /\ Len(temp) = 0
      /\ word \in Seq(Chars) /\ Len(word) = 0
      /\ lastLine \in Seq(Letters \cup {SP})
  BY DEF Init
<1>5. /\ inputIndex = 0 /\ limit = 0 /\ lines = 0
      /\ count = 0 /\ dsti = 0 /\ srci = 0
      /\ reading \in BOOLEAN /\ pc = "prompt" /\ call = "getStr"
      /\ orderly \in BOOLEAN
  BY DEF Init
<1>6. TypeOK
  BY <1>1, <1>3, <1>4, <1>5 DEF TypeOK
<1>7. WordFitsBuffer /\ Len(temp) <= MaxLineLen
  BY <1>1, <1>4 DEF WordFitsBuffer
<1> QED
  BY <1>2, <1>5, <1>6, <1>7 DEF IInv

LEMMA NextIInv == IInv /\ [Next]_vars => IInv'
<1> SUFFICES ASSUME IInv, [Next]_vars
             PROVE  IInv'
  OBVIOUS
<1> USE LineInputAssumption DEF LineInputAssumption
<1>0. lines \in Nat /\ Room(lines) \in Nat /\ Room(lines) < BufSize
  <2>1. lines \in 0 .. MaxLines /\ lines \in Nat
    BY DEF IInv, TypeOK
  <2> QED
    BY <2>1, RoomGrows, RoomFits
<1>1. CASE \E c \in Letters \cup {SP} : TypeChar(c)
  BY <1>1 DEF IInv, TypeOK, WordFitsBuffer, TypeChar, bufVars, localVars
<1>2. CASE Backspace
  BY <1>2 DEF IInv, TypeOK, WordFitsBuffer, Backspace, bufVars, localVars, Front
<1>3. CASE Enter
  <2>1. Room(lines') = Room(lines) + MaxLineLen + 1 /\ Room(lines) \in Nat
    BY <1>3, RoomGrows DEF Enter, IInv, TypeOK
  <2>2. inputIndex' <= Room(lines') /\ limit' <= Room(lines') /\ limit' \in Int /\ inputIndex' \in Int
    BY <1>3, <2>1 DEF Enter, IInv, TypeOK, localVars
  <2>3. inputBuffer' \in [0 .. BufSize - 1 -> Chars]
    <3> DEFINE line == Append(temp, NL)
    <3>1. line \in Seq(Chars) /\ Len(line) = Len(temp) + 1 /\ Len(temp) \in Nat
      BY DEF IInv, TypeOK, Chars
    <3>2. \A i \in 1 .. Len(temp) + 1 : line[i] \in Chars
      BY <3>1
    <3>3. ASSUME NEW i \in 0 .. BufSize - 1, i \in inputIndex .. inputIndex + Len(temp)
          PROVE  line[i - inputIndex + 1] \in Chars
      <4>1. i - inputIndex + 1 \in 1 .. Len(temp) + 1
        BY <3>1, <3>3 DEF IInv, TypeOK
      <4> QED
        BY <3>2, <4>1
    <3> HIDE DEF line
    <3>4. inputBuffer' = [i \in 0 .. BufSize - 1 |->
                            IF i \in inputIndex .. inputIndex + Len(temp)
                            THEN line[i - inputIndex + 1]
                            ELSE inputBuffer[i]]
      BY <1>3 DEF Enter, IInv, TypeOK, line
    <3> QED
      BY <3>3, <3>4 DEF IInv, TypeOK
  <2>4. lines' \in 0 .. MaxLines
    BY <1>3 DEF Enter, MayType, IInv, TypeOK
  <2>5. /\ temp' = <<>> /\ lastLine' = temp
        /\ UNCHANGED <<word, count, dsti, srci, limit, reading, pc, call>>
    BY <1>3 DEF Enter, localVars
  <2>6. temp' \in Seq(Letters \cup {SP}) /\ Len(temp') = 0
    BY <2>5
  <2>7. orderly' \in BOOLEAN
    BY <1>3 DEF Enter
  <2>8. TypeOK'
    BY <2>2, <2>3, <2>4, <2>5, <2>6, <2>7 DEF IInv, TypeOK
  <2>9. WordFitsBuffer'
    BY <2>5 DEF IInv, WordFitsBuffer
  <2> QED
    BY <2>2, <2>5, <2>6, <2>8, <2>9 DEF IInv
<1>4. CASE ClearInputBuffer
  BY <1>4, RoomGrows DEF IInv, TypeOK, WordFitsBuffer, ClearInputBuffer, kbdVars, localVars
<1>5. CASE StopWaiting
  <2>1. word' \in Seq(Chars) /\ Len(word') <= Size - 1
    BY <1>5 DEF StopWaiting
  <2> QED
    BY <1>5, <2>1 DEF IInv, TypeOK, WordFitsBuffer, StopWaiting, LoopTop, kbdVars, bufVars
<1>6. CASE CopyChar
  <2>1. Len(word) \in 0 .. BufSize - 1 /\ Len(word) < Size - 1
    BY <1>6 DEF IInv, TypeOK, CopyChar
  <2>2. inputBuffer[Len(word)] \in Chars
    BY <2>1 DEF IInv, TypeOK
  <2> QED
    BY <1>6, <2>1, <2>2 DEF IInv, TypeOK, WordFitsBuffer, CopyChar, LoopTop, kbdVars, bufVars
<1>7. CASE EndCopy
  BY <1>7 DEF IInv, TypeOK, WordFitsBuffer, EndCopy, kbdVars, bufVars
<1>8. CASE ScanBlank
  BY <1>8 DEF IInv, TypeOK, WordFitsBuffer, ScanBlank, kbdVars, bufVars
<1>9. CASE EndScan
  BY <1>9 DEF IInv, TypeOK, WordFitsBuffer, EndScan, kbdVars, bufVars
<1>10. CASE ShiftChar
  <2>1. srci \in 0 .. BufSize - 1
    BY <1>0, <1>10 DEF IInv, TypeOK, ShiftChar, ShiftGoesOn
  <2>2. inputBuffer' \in [0 .. BufSize - 1 -> Chars]
    <3>1. inputBuffer[srci] \in Chars
      BY <2>1 DEF IInv, TypeOK
    <3> QED
      BY <1>10, <3>1 DEF IInv, TypeOK, ShiftChar
  <2> QED
    BY <1>10, <2>2 DEF IInv, TypeOK, WordFitsBuffer, ShiftChar, kbdVars
<1>11. CASE EndShift
  BY <1>11 DEF IInv, TypeOK, WordFitsBuffer, EndShift, kbdVars, bufVars, localVars
<1>12. CASE LoadIndex
  <2>1. limit' \in Int /\ limit' <= Room(lines)
    BY <1>0, <1>12 DEF IInv, TypeOK, LoadIndex
  <2> QED
    BY <1>12, <2>1 DEF IInv, TypeOK, WordFitsBuffer, LoadIndex, kbdVars, bufVars
<1>13. CASE StoreIndex
  BY <1>13 DEF IInv, TypeOK, WordFitsBuffer, StoreIndex, kbdVars, localVars
<1>14. CASE UNCHANGED vars
  BY <1>14 DEF IInv, TypeOK, WordFitsBuffer, vars, kbdVars, bufVars, localVars
<1>15. CASE TestCell
  <2>1. pc' = "take" => pc = "newline" /\ Len(word) < Size - 1
    BY <1>15 DEF TestCell, CopyGoesOn
  <2> QED
    BY <1>15, <2>1 DEF IInv, TypeOK, WordFitsBuffer, TestCell, kbdVars, bufVars, localVars
<1>16. CASE ScanCell
  BY <1>16 DEF IInv, TypeOK, WordFitsBuffer, ScanCell, kbdVars, bufVars, localVars
<1> QED
  BY <1>1, <1>2, <1>3, <1>4, <1>5, <1>6, <1>7, <1>8, <1>9, <1>10, <1>11, <1>12,
     <1>13, <1>14, <1>15, <1>16 DEF Next, Keyboard, Shell

THEOREM Invariance == Spec => []IInv
BY InitIInv, NextIInv, PTL DEF Spec

(* Every index and register of the line input keeps its type, whatever is  *)
(* typed and whenever: no read of inputBuffer by the moving loop and no    *)
(* copied character lies outside it (iobuffers.c:17-66).                   *)
THEOREM TypeCorrect == Spec => []TypeOK
<1>1. IInv => TypeOK
  BY DEF IInv
<1> QED
  BY <1>1, Invariance, PTL

(* getStr and getLine never overflow the buffer of their caller, however   *)
(* the keyboard interrupt changes inputBuffer under the copying loop       *)
(* (iobuffers.c:41-43, 60-62).                                             *)
THEOREM CallerBufferSafe == Spec => []WordFitsBuffer
<1>1. IInv => WordFitsBuffer
  BY DEF IInv
<1> QED
  BY <1>1, Invariance, PTL

-----------------------------------------------------------------------------
(* What the indexes of trimInput say while it moves the unread characters. *)

(* The two indexes stay apart by what is removed, and the moving loop only *)
(* runs up to inputIndex. Unless a line came in meanwhile, the new value   *)
(* of inputIndex is where the loop has put the last character.             *)
Moving == pc \in {"shift", "load", "store"}

Indexes ==
  /\ Moving => srci = dsti + count /\ (dsti > 0 => srci <= inputIndex)
  /\ pc = "store" =>
       srci < inputIndex \/ limit = dsti \/ (limit <= 0 /\ dsti = 0)

LEMMA NextIndexes == IInv /\ Indexes /\ [Next]_vars => Indexes'
<1> SUFFICES ASSUME IInv, Indexes, [Next]_vars
             PROVE  Indexes'
  OBVIOUS
<1> USE DEF Indexes, Moving
<1>0. /\ inputIndex \in Int /\ limit \in Int
      /\ count \in Nat /\ dsti \in Nat /\ srci \in Nat /\ Len(temp) \in Nat
  BY DEF IInv, TypeOK
<1>1. CASE \E c \in Letters \cup {SP} : TypeChar(c)
  BY <1>1 DEF TypeChar, bufVars, localVars
<1>2. CASE Backspace
  BY <1>2 DEF Backspace, bufVars, localVars
<1>3. CASE Enter
  <2>1. inputIndex' \in Int /\ inputIndex' >= inputIndex
    BY <1>0, <1>3 DEF Enter
  <2>2. UNCHANGED <<pc, count, dsti, srci, limit>>
    BY <1>3 DEF Enter, localVars
  <2> QED
    BY <1>0, <2>1, <2>2
<1>4. CASE Shell
  <2>1. CASE EndScan
    BY <1>0, <2>1 DEF EndScan, bufVars
  <2>2. CASE ShiftChar
    <3>1. /\ srci = dsti + count /\ srci < inputIndex
          /\ dsti' = dsti + 1 /\ srci' = srci + 1 /\ UNCHANGED <<inputIndex, count>>
      BY <2>2 DEF ShiftChar, ShiftGoesOn
    <3>2. srci' = dsti' + count' /\ srci' <= inputIndex'
      BY <1>0, <3>1
    <3> QED
      BY <2>2, <3>2 DEF ShiftChar
  <2>3. CASE EndShift
    BY <2>3 DEF EndShift, bufVars, localVars
  <2>4. CASE LoadIndex
    <3>1. /\ srci = dsti + count /\ (dsti > 0 => srci <= inputIndex)
          /\ limit' = inputIndex - count
          /\ UNCHANGED <<inputIndex, count, dsti, srci>>
      BY <2>4 DEF LoadIndex, bufVars
    <3>2. srci < inputIndex \/ limit' = dsti \/ (limit' <= 0 /\ dsti = 0)
      BY <1>0, <3>1
    <3> QED
      BY <2>4, <3>1, <3>2 DEF LoadIndex
  <2>5. CASE \/ ClearInputBuffer \/ StopWaiting \/ TestCell \/ CopyChar \/ EndCopy
            \/ ScanCell \/ ScanBlank \/ StoreIndex
    BY <2>5 DEF ClearInputBuffer, StopWaiting, TestCell, CopyChar, LoopTop, EndCopy, ScanCell,
       ScanBlank, StoreIndex
  <2> QED
    BY <1>4, <2>1, <2>2, <2>3, <2>4, <2>5 DEF Shell
<1>5. CASE UNCHANGED vars
  BY <1>5 DEF vars, bufVars, localVars
<1> QED
  BY <1>1, <1>2, <1>3, <1>4, <1>5 DEF Next, Keyboard

LEMMA IndexesHold == Spec => [](IInv /\ Indexes)
<1>1. Init => IInv /\ Indexes
  BY InitIInv DEF Init, Indexes, Moving
<1> QED
  BY <1>1, NextIInv, NextIndexes, PTL DEF Spec

-----------------------------------------------------------------------------
(* Parts of a buffer. *)

Buffers == [0 .. BufSize - 1 -> Chars]

Part(buf, a, b) == [i \in 1 .. (IF b > a THEN b - a ELSE 0) |-> buf[a + i - 1]]

LEMMA PartIsSeq ==
  ASSUME NEW buf \in Buffers, NEW a \in Nat, NEW b \in Int, b <= BufSize
  PROVE  /\ Part(buf, a, b) \in Seq(Chars)
         /\ Len(Part(buf, a, b)) = IF b > a THEN b - a ELSE 0
         /\ \A i \in 1 .. Len(Part(buf, a, b)) : Part(buf, a, b)[i] = buf[a + i - 1]
<1> DEFINE n == IF b > a THEN b - a ELSE 0
<1>1. n \in Nat
  OBVIOUS
<1>2. \A i \in 1 .. n : buf[a + i - 1] \in Chars
  BY LineInputAssumption DEF LineInputAssumption, Buffers
<1>3. Part(buf, a, b) = [i \in 1 .. n |-> buf[a + i - 1]]
  BY DEF Part
<1> HIDE DEF n
<1>4. Part(buf, a, b) \in [1 .. n -> Chars]
  BY <1>2, <1>3
<1>5. Part(buf, a, b) \in Seq(Chars) /\ Len(Part(buf, a, b)) = n
  BY <1>1, <1>4
<1> QED
  BY <1>3, <1>5 DEF n

LEMMA PartCells ==
  ASSUME NEW buf, NEW a, NEW b
  PROVE  \A i \in DOMAIN Part(buf, a, b) : Part(buf, a, b)[i] = buf[a + i - 1]
BY DEF Part

LEMMA PartBetween ==
  ASSUME NEW buf \in Buffers, NEW a \in Nat, NEW b \in Nat, a <= b, b <= BufSize
  PROVE  /\ Part(buf, a, b) \in Seq(Chars)
         /\ Len(Part(buf, a, b)) = b - a
         /\ \A i \in 1 .. Len(Part(buf, a, b)) : Part(buf, a, b)[i] = buf[a + i - 1]
<1>1. b \in Int /\ (IF b > a THEN b - a ELSE 0) = b - a
  OBVIOUS
<1> QED
  BY <1>1, PartIsSeq

(* A line that is stored behind a part makes the part longer by it, and    *)
(* leaves what is in front of it alone.                                    *)
Stored(buf, line, at) ==
  [i \in 0 .. BufSize - 1 |->
     IF i \in at .. at + Len(line) - 1 THEN line[i - at + 1] ELSE buf[i]]

LEMMA StoredInBuffers ==
  ASSUME NEW buf \in Buffers, NEW line \in Seq(Chars), NEW at \in Nat
  PROVE  Stored(buf, line, at) \in Buffers
<1>1. ASSUME NEW i \in 0 .. BufSize - 1
      PROVE  (IF i \in at .. at + Len(line) - 1 THEN line[i - at + 1] ELSE buf[i]) \in Chars
  <2>1. CASE i \in at .. at + Len(line) - 1
    <3>1. i - at + 1 \in 1 .. Len(line)
      BY <2>1
    <3> QED
      BY <2>1, <3>1
  <2>2. CASE i \notin at .. at + Len(line) - 1
    BY <2>2 DEF Buffers
  <2> QED
    BY <2>1, <2>2
<1> QED
  BY <1>1 DEF Stored, Buffers

LEMMA PartBeforeStored ==
  ASSUME NEW buf \in Buffers, NEW line \in Seq(Chars), NEW at \in Nat,
         NEW a \in Nat, NEW b \in Int, b <= at, at + Len(line) <= BufSize
  PROVE  Part(Stored(buf, line, at), a, b) = Part(buf, a, b)
<1> DEFINE new == Stored(buf, line, at)
<1>1. new \in Buffers
  BY StoredInBuffers
<1>2. b <= BufSize /\ BufSize \in Nat
  BY LineInputAssumption DEF LineInputAssumption
<1>3. ASSUME NEW i \in Int, i >= 0, i < b
      PROVE  new[i] = buf[i]
  BY <1>2, <1>3 DEF Stored
<1> HIDE DEF new
<1>4. /\ Part(new, a, b) \in Seq(Chars) /\ Part(buf, a, b) \in Seq(Chars)
      /\ Len(Part(new, a, b)) = Len(Part(buf, a, b))
  BY <1>1, <1>2, PartIsSeq
<1>5. ASSUME NEW i \in 1 .. Len(Part(new, a, b))
      PROVE  Part(new, a, b)[i] = Part(buf, a, b)[i]
  <2>1. Len(Part(new, a, b)) = IF b > a THEN b - a ELSE 0
    BY <1>1, <1>2, PartIsSeq
  <2>2. a + i - 1 >= 0 /\ a + i - 1 < b
    BY <2>1
  <2>3. Part(new, a, b)[i] = new[a + i - 1] /\ Part(buf, a, b)[i] = buf[a + i - 1]
    BY <1>1, <1>2, <1>4, PartIsSeq
  <2> QED
    BY <1>3, <2>2, <2>3
<1> QED
  BY <1>4, <1>5, SeqEqual DEF new

LEMMA PartWithStored ==
  ASSUME NEW buf \in Buffers, NEW line \in Seq(Chars), NEW at \in Nat,
         NEW a \in Nat, a <= at, at + Len(line) <= BufSize
  PROVE  Part(Stored(buf, line, at), a, at + Len(line)) = Part(buf, a, at) \o line
<1> DEFINE new == Stored(buf, line, at)
           left == Part(new, a, at + Len(line))
           old == Part(buf, a, at)
<1>1. new \in Buffers
  BY StoredInBuffers
<1>2. at <= BufSize /\ BufSize \in Nat /\ Len(line) \in Nat
  BY LineInputAssumption DEF LineInputAssumption
<1>3. \A i \in 0 .. BufSize - 1 :
        new[i] = IF i \in at .. at + Len(line) - 1 THEN line[i - at + 1] ELSE buf[i]
  BY DEF Stored
<1> HIDE DEF new
<1>4. /\ left \in Seq(Chars) /\ Len(left) = at + Len(line) - a
      /\ \A i \in 1 .. Len(left) : left[i] = new[a + i - 1]
  <2> DEFINE end == at + Len(line)
  <2>1. end \in Nat /\ a <= end /\ end <= BufSize
    BY <1>2
  <2> HIDE DEF end
  <2>2. /\ Part(new, a, end) \in Seq(Chars) /\ Len(Part(new, a, end)) = end - a
        /\ \A i \in 1 .. Len(Part(new, a, end)) : Part(new, a, end)[i] = new[a + i - 1]
    BY <1>1, <2>1, PartBetween
  <2> QED
    BY <2>2 DEF end
<1>5. /\ old \in Seq(Chars) /\ Len(old) = at - a
      /\ \A i \in 1 .. Len(old) : old[i] = buf[a + i - 1]
  BY <1>2, PartBetween
<1> HIDE DEF left, old
<1>6. /\ old \o line \in Seq(Chars) /\ Len(old \o line) = Len(left)
      /\ \A i \in 1 .. Len(left) :
           (old \o line)[i] = IF i <= Len(old) THEN old[i] ELSE line[i - Len(old)]
  <2>1. Len(left) = Len(old) + Len(line)
    BY <1>2, <1>4, <1>5
  <2>2. /\ old \o line \in Seq(Chars) /\ Len(old \o line) = Len(old) + Len(line)
        /\ \A i \in 1 .. Len(old) + Len(line) :
             (old \o line)[i] = IF i <= Len(old) THEN old[i] ELSE line[i - Len(old)]
    BY <1>5, ConcatProperties
  <2> QED
    BY <2>1, <2>2
<1>7. ASSUME NEW i \in 1 .. Len(left)
      PROVE  left[i] = (old \o line)[i]
  <2>1. left[i] = new[a + i - 1] /\ a + i - 1 \in 0 .. BufSize - 1
    BY <1>2, <1>4
  <2>2. CASE i <= Len(old)
    <3>1. a + i - 1 < at /\ i \in 1 .. Len(old)
      BY <1>5, <2>2
    <3>2. new[a + i - 1] = buf[a + i - 1]
      BY <1>3, <2>1, <3>1
    <3> QED
      BY <1>5, <1>6, <2>1, <2>2, <3>1, <3>2
  <2>3. CASE i > Len(old)
    <3>1. a + i - 1 \in at .. at + Len(line) - 1 /\ (a + i - 1) - at + 1 = i - Len(old)
      BY <1>2, <1>4, <1>5, <2>3
    <3>2. new[a + i - 1] = line[i - Len(old)]
      BY <1>3, <2>1, <3>1
    <3>3. ~(i <= Len(old))
      BY <1>2, <1>4, <1>5, <2>3
    <3>4. (old \o line)[i] = line[i - Len(old)]
      BY <1>6, <3>3
    <3> QED
      BY <2>1, <3>2, <3>4
  <2>4. i <= Len(old) \/ i > Len(old)
    <3>1. Len(old) \in Int /\ Len(left) \in Int
      BY <1>2, <1>4, <1>5
    <3>2. i \in Int
      BY <3>1
    <3> QED
      BY <3>1, <3>2
  <2> QED
    BY <2>2, <2>3, <2>4
<1> QED
  BY <1>4, <1>6, <1>7, SeqEqual DEF left, old, new

-----------------------------------------------------------------------------
(* Entering a line. *)

Bounds ==
  /\ inputBuffer \in Buffers
  /\ inputIndex \in Int /\ inputIndex < BufSize
  /\ Moving => dsti < BufSize
  /\ dsti \in Nat /\ srci \in Nat /\ count \in Nat /\ limit \in Int
  /\ BufSize \in Nat

LEMMA BoundsHold == IInv /\ Indexes => Bounds
<1> SUFFICES ASSUME IInv, Indexes
             PROVE  Bounds
  OBVIOUS
<1>1. lines \in Nat /\ Room(lines) \in Nat /\ Room(lines) < BufSize /\ BufSize \in Nat
  <2>1. lines \in 0 .. MaxLines /\ lines \in Nat /\ BufSize \in Nat
    BY LineInputAssumption DEF LineInputAssumption, IInv, TypeOK
  <2> QED
    BY <2>1, RoomGrows, RoomFits
<1>2. inputIndex < BufSize
  BY <1>1 DEF IInv, TypeOK
<1>3. Moving => dsti < BufSize
  BY <1>1, <1>2, LineInputAssumption DEF LineInputAssumption, IInv, TypeOK, Indexes
<1> QED
  BY <1>1, <1>2, <1>3 DEF Bounds, IInv, TypeOK, Buffers

LEMMA UnreadParts ==
  Unread = IF Moving THEN Part(inputBuffer, 0, dsti) \o Part(inputBuffer, srci, inputIndex)
           ELSE Part(inputBuffer, 0, inputIndex)
BY DEF Unread, Moving, Cells, Part

LEMMA EnterStep ==
  ASSUME IInv, Indexes, Enter, inputIndex >= 0, Moving => srci <= inputIndex
  PROVE  Unread' = Unread \o Append(temp, NL)
<1> DEFINE line == Append(temp, NL)
<1>1. /\ line \in Seq(Chars) /\ Len(line) = Len(temp) + 1 /\ Len(temp) \in Nat
  BY DEF IInv, TypeOK, Chars
<1>2. Bounds /\ inputIndex \in Nat
  BY BoundsHold DEF Bounds
<1>3. inputIndex + Len(line) <= BufSize
  <2>1. lines + 1 \in 0 .. MaxLines /\ lines \in Nat
    BY LineInputAssumption DEF LineInputAssumption, Enter, MayType, IInv, TypeOK
  <2>2. /\ Room(lines) \in Nat /\ MaxLineLen \in Nat /\ BufSize \in Nat
        /\ Room(lines) + MaxLineLen + 1 < BufSize
    BY <2>1, RoomGrows, RoomFits, LineInputAssumption DEF LineInputAssumption
  <2>3. inputIndex <= Room(lines) /\ Len(temp) <= MaxLineLen /\ inputIndex \in Int
    BY DEF IInv, TypeOK
  <2> QED
    BY <1>1, <2>2, <2>3
<1>4. /\ inputBuffer' = Stored(inputBuffer, line, inputIndex)
      /\ inputIndex' = inputIndex + Len(line)
      /\ UNCHANGED <<dsti, srci, pc>>
  <2>1. DOMAIN inputBuffer = 0 .. BufSize - 1
    BY <1>2 DEF Bounds, Buffers
  <2>2. inputIndex + Len(line) - 1 = inputIndex + Len(temp)
    BY <1>1, <1>2
  <2>3. inputBuffer' = Stored(inputBuffer, line, inputIndex)
    BY <2>1, <2>2 DEF Enter, Stored
  <2>4. inputIndex' = inputIndex + Len(line)
    BY <1>1, <1>2 DEF Enter
  <2> QED
    BY <2>3, <2>4 DEF Enter, localVars
<1>5. /\ Unread' = IF Moving
                   THEN Part(inputBuffer', 0, dsti) \o Part(inputBuffer', srci, inputIndex')
                   ELSE Part(inputBuffer', 0, inputIndex')
  BY <1>4 DEF Unread, Moving, Cells, Part
<1> HIDE DEF line
<1>6. CASE ~Moving
  <2> DEFINE first == 0
  <2>1. first \in Nat /\ first <= inputIndex /\ inputBuffer \in Buffers
    BY <1>2 DEF Bounds
  <2> HIDE DEF first
  <2>2. Part(Stored(inputBuffer, line, inputIndex), first, inputIndex + Len(line))
          = Part(inputBuffer, first, inputIndex) \o line
    BY <1>1, <1>2, <1>3, <2>1, PartWithStored
  <2>3. Part(inputBuffer', 0, inputIndex') = Part(inputBuffer, 0, inputIndex) \o line
    BY <1>4, <2>2 DEF first
  <2> QED
    BY <1>5, <1>6, <2>3, UnreadParts DEF line
<1>7. CASE Moving
  <2>1. dsti <= inputIndex
    BY <1>2, <1>7 DEF Bounds, Indexes
  <2> DEFINE moved == Part(inputBuffer, 0, dsti)
             rest == Part(inputBuffer, srci, inputIndex)
  <2> DEFINE first == 0
  <2>2. Part(inputBuffer', 0, dsti) = moved
    <3>1. first \in Nat /\ inputBuffer \in Buffers /\ dsti \in Int
      BY <1>2 DEF Bounds
    <3> HIDE DEF first
    <3>2. Part(Stored(inputBuffer, line, inputIndex), first, dsti) = Part(inputBuffer, first, dsti)
      BY <1>1, <1>2, <1>3, <2>1, <3>1, PartBeforeStored
    <3> QED
      BY <1>4, <3>2 DEF first
  <2>3. Part(inputBuffer', srci, inputIndex') = rest \o line
    <3>1. inputBuffer \in Buffers /\ srci \in Nat /\ srci <= inputIndex
      BY <1>2, <1>7 DEF Bounds
    <3>2. Part(Stored(inputBuffer, line, inputIndex), srci, inputIndex + Len(line)) = rest \o line
      BY <1>1, <1>2, <1>3, <3>1, PartWithStored
    <3> QED
      BY <1>4, <3>2
  <2>4. moved \in Seq(Chars) /\ rest \in Seq(Chars)
    BY <1>2, <1>7, PartIsSeq DEF Bounds
  <2>5. Unread' = moved \o (rest \o line) /\ Unread = moved \o rest
    BY <1>5, <1>7, <2>2, <2>3, UnreadParts
  <2> HIDE DEF moved, rest
  <2>6. (moved \o rest) \o line = moved \o (rest \o line)
    <3>1. line \in Seq(Chars)
      BY <1>1
    <3> QED
      BY ONLY <2>4, <3>1, ConcatAssociative
  <2>7. Unread' = Unread \o line
    BY <2>5, <2>6
  <2> QED
    BY <2>7 DEF line
<1> QED
  BY <1>6, <1>7

(* Enter loses nothing that is unread, and adds nothing but the line and a *)
(* newline, wherever the interrupt finds the shell (keyboard.c:103-114     *)
(* against iobuffers.c:17-28).                                             *)
THEOREM EnterLosesNothing == Spec => EnterAppends
<1>1. IInv /\ Indexes /\ [Next]_vars =>
        [ /\ lines' # lines
          /\ inputIndex >= 0
          /\ pc \in {"shift", "load", "store"} => srci <= inputIndex
          => Unread' = Unread \o Append(temp, NL) ]_vars
  <2> SUFFICES ASSUME IInv, Indexes, Next, lines' # lines, inputIndex >= 0,
                      Moving => srci <= inputIndex
               PROVE  Unread' = Unread \o Append(temp, NL)
    BY DEF Moving
  <2>1. Enter
    BY DEF Next, Keyboard, TypeChar, Backspace, Shell, ClearInputBuffer, StopWaiting, TestCell,
           CopyChar, EndCopy, ScanCell, ScanBlank, EndScan, ShiftChar, EndShift, LoadIndex,
           StoreIndex, kbdVars
  <2> QED
    BY <2>1, EnterStep
<1> QED
  BY <1>1, IndexesHold, PTL DEF Spec, EnterAppends

-----------------------------------------------------------------------------
(* Consuming input. *)

LEMMA ReverseProperties ==
  ASSUME NEW S, NEW q \in Seq(S)
  PROVE  /\ Reverse(q) \in Seq(S)
         /\ Len(Reverse(q)) = Len(q)
         /\ \A i \in 1 .. Len(q) : Reverse(q)[i] = q[Len(q) - i + 1]
<1>1. Len(q) \in Nat
  OBVIOUS
<1>2. \A i \in 1 .. Len(q) : q[Len(q) - i + 1] \in S
  BY <1>1, ElementOfSeq
<1>3. Reverse(q) = [i \in 1 .. Len(q) |-> q[(Len(q) - i) + 1]]
  BY DEF Reverse
<1>4. Reverse(q) \in [1 .. Len(q) -> S]
  BY <1>2, <1>3
<1> QED
  BY <1>1, <1>3, <1>4

LEMMA SuffixIf ==
  ASSUME NEW S, NEW p \in Seq(S), NEW q \in Seq(S), Len(p) <= Len(q),
         \A i \in 1 .. Len(p) : p[i] = q[i + Len(q) - Len(p)]
  PROVE  IsSuffix(p, q)
<1> DEFINE rp == Reverse(p)
           rq == Reverse(q)
           head == SubSeq(rq, 1, Len(p))
<1>1. Len(p) \in Nat /\ Len(q) \in Nat
  OBVIOUS
<1>2. /\ rp \in Seq(S) /\ Len(rp) = Len(p)
      /\ \A i \in 1 .. Len(p) : rp[i] = p[Len(p) - i + 1]
  BY ReverseProperties
<1>3. /\ rq \in Seq(S) /\ Len(rq) = Len(q)
      /\ \A i \in 1 .. Len(q) : rq[i] = q[Len(q) - i + 1]
  BY ReverseProperties
<1> HIDE DEF rp, rq
<1>4. \A i \in 1 .. Len(p) : rp[i] = rq[i]
  <2> SUFFICES ASSUME NEW i \in 1 .. Len(p)
               PROVE  rp[i] = rq[i]
    OBVIOUS
  <2>1. Len(p) - i + 1 \in 1 .. Len(p) /\ i \in 1 .. Len(q)
    BY <1>1
  <2>2. (Len(p) - i + 1) + Len(q) - Len(p) = Len(q) - i + 1
    BY <1>1
  <2>3. p[Len(p) - i + 1] = q[Len(q) - i + 1]
    BY <2>1, <2>2
  <2> QED
    BY <1>2, <1>3, <2>1, <2>3
<1>5. head \in Seq(S) /\ Len(head) = Len(p) /\ \A i \in 1 .. Len(p) : head[i] = rq[i]
  BY <1>1, <1>3, SubSeqProperties
<1>6. SubSeq(rp, 1, Len(rp)) = rp
  BY <1>2, SubSeqFull
<1> HIDE DEF head
<1>7. rp = head
  BY <1>2, <1>4, <1>5, SeqEqual
<1>8. IsPrefix(rp, rq)
  BY <1>1, <1>2, <1>3, <1>6, <1>7 DEF IsPrefix, head
<1> QED
  BY <1>8 DEF IsSuffix, rp, rq

LEMMA SuffixSelf ==
  ASSUME NEW S, NEW q \in Seq(S)
  PROVE  IsSuffix(q, q)
<1>1. \A i \in 1 .. Len(q) : q[i] = q[i + Len(q) - Len(q)]
  <2> SUFFICES ASSUME NEW i \in 1 .. Len(q)
               PROVE  q[i] = q[i + Len(q) - Len(q)]
    OBVIOUS
  <2>1. i + Len(q) - Len(q) = i
    OBVIOUS
  <2> QED
    BY <2>1
<1> QED
  BY <1>1, SuffixIf

(* What is behind the middle of a part is the end of the part. *)
LEMMA PartSuffix ==
  ASSUME NEW buf \in Buffers, NEW a \in Nat, NEW c \in Nat, NEW b \in Int,
         a <= c, b <= BufSize
  PROVE  IsSuffix(Part(buf, c, b), Part(buf, a, b))
<1> DEFINE p == Part(buf, c, b)
           q == Part(buf, a, b)
<1>1. /\ p \in Seq(Chars) /\ Len(p) = IF b > c THEN b - c ELSE 0
      /\ \A i \in 1 .. Len(p) : p[i] = buf[c + i - 1]
  BY PartIsSeq
<1>2. /\ q \in Seq(Chars) /\ Len(q) = IF b > a THEN b - a ELSE 0
      /\ \A i \in 1 .. Len(q) : q[i] = buf[a + i - 1]
  BY PartIsSeq
<1> HIDE DEF p, q
<1>3. Len(p) <= Len(q)
  BY <1>1, <1>2
<1>4. ASSUME NEW i \in 1 .. Len(p)
      PROVE  p[i] = q[i + Len(q) - Len(p)]
  <2>1. Len(p) = b - c /\ Len(q) = b - a
    BY <1>1, <1>2
  <2>2. i + Len(q) - Len(p) \in 1 .. Len(q)
    BY <2>1
  <2>3. a + (i + Len(q) - Len(p)) - 1 = c + i - 1
    BY <2>1
  <2> QED
    BY <1>1, <1>2, <2>2, <2>3
<1> QED
  BY <1>1, <1>2, <1>3, <1>4, SuffixIf DEF p, q

(* A step of the moving loop leaves the unread characters what they were.  *)
Moved(buf, new, d, c, b) ==
  /\ buf \in Buffers /\ new \in Buffers
  /\ d \in Nat /\ c \in Nat /\ b \in Nat
  /\ d <= c /\ c < b /\ b < BufSize
  /\ \A i \in 0 .. BufSize - 1 : new[i] = IF i = d THEN buf[c] ELSE buf[i]

LEMMA MoveKeeps ==
  ASSUME NEW buf, NEW new, NEW d, NEW c, NEW b, Moved(buf, new, d, c, b)
  PROVE  Part(new, 0, d + 1) \o Part(new, c + 1, b) = Part(buf, 0, d) \o Part(buf, c, b)
<1> DEFINE p == Part(new, 0, d + 1)
           q == Part(new, c + 1, b)
           r == Part(buf, 0, d)
           t == Part(buf, c, b)
<1>0. /\ buf \in Buffers /\ BufSize \in Nat
      /\ d \in Nat /\ c \in Nat /\ b \in Nat
      /\ d <= c /\ c < b /\ b < BufSize
  BY LineInputAssumption DEF LineInputAssumption, Moved
<1>1. /\ new \in Buffers
      /\ \A i \in 0 .. BufSize - 1 : new[i] = IF i = d THEN buf[c] ELSE buf[i]
  BY DEF Moved
<1>2. /\ p \in Seq(Chars) /\ Len(p) = d + 1
      /\ \A i \in 1 .. d + 1 : p[i] = new[i - 1]
  <2> DEFINE first == 0  next == d + 1
  <2>1. first \in Nat /\ next \in Nat /\ first <= next /\ next <= BufSize
    BY <1>0
  <2> HIDE DEF first, next
  <2>2. /\ Part(new, first, next) \in Seq(Chars) /\ Len(Part(new, first, next)) = next - first
        /\ \A i \in 1 .. Len(Part(new, first, next)) : Part(new, first, next)[i] = new[first + i - 1]
    BY <1>1, <2>1, PartBetween
  <2>3. \A i \in 1 .. d + 1 : 0 + i - 1 = i - 1
    BY <1>0
  <2> QED
    BY <1>0, <2>2, <2>3 DEF first, next
<1>3. /\ q \in Seq(Chars) /\ Len(q) = b - c - 1
      /\ \A i \in 1 .. Len(q) : q[i] = new[c + i]
  <2> DEFINE from == c + 1
  <2>1. /\ from \in Nat /\ from <= b /\ b <= BufSize /\ b - from = b - c - 1
        /\ b \in Nat /\ new \in Buffers
    BY <1>0, <1>1
  <2>2. \A i \in 1 .. b - c - 1 : from + i - 1 = c + i
    BY <1>0
  <2> HIDE DEF from
  <2>3. /\ Part(new, from, b) \in Seq(Chars) /\ Len(Part(new, from, b)) = b - from
        /\ \A i \in 1 .. Len(Part(new, from, b)) : Part(new, from, b)[i] = new[from + i - 1]
    BY ONLY <2>1, PartBetween
  <2>4. /\ Part(new, from, b) \in Seq(Chars) /\ Len(Part(new, from, b)) = b - c - 1
        /\ \A i \in 1 .. Len(Part(new, from, b)) : Part(new, from, b)[i] = new[c + i]
    BY <2>1, <2>2, <2>3
  <2> QED
    BY <2>4 DEF from
<1>4. /\ r \in Seq(Chars) /\ Len(r) = d
      /\ \A i \in 1 .. d : r[i] = buf[i - 1]
  <2> DEFINE first == 0
  <2>1. first \in Nat /\ first <= d /\ d <= BufSize
    BY <1>0
  <2> HIDE DEF first
  <2>2. /\ Part(buf, first, d) \in Seq(Chars) /\ Len(Part(buf, first, d)) = d - first
        /\ \A i \in 1 .. Len(Part(buf, first, d)) : Part(buf, first, d)[i] = buf[first + i - 1]
    BY <1>0, <2>1, PartBetween
  <2>3. \A i \in 1 .. d : 0 + i - 1 = i - 1
    BY <1>0
  <2> QED
    BY <1>0, <2>2, <2>3 DEF first
<1>5. /\ t \in Seq(Chars) /\ Len(t) = b - c
      /\ \A i \in 1 .. b - c : t[i] = buf[c + i - 1]
  <2>1. c \in Nat /\ b \in Nat /\ c <= b /\ b <= BufSize /\ buf \in Buffers
    BY <1>0
  <2>2. /\ t \in Seq(Chars) /\ Len(t) = b - c
        /\ \A i \in 1 .. Len(t) : t[i] = buf[c + i - 1]
    BY ONLY <2>1, PartBetween
  <2> QED
    BY <2>2
<1> HIDE DEF p, q, r, t
<1>6. /\ p \o q \in Seq(Chars) /\ Len(p \o q) = d + b - c
      /\ \A i \in 1 .. d + b - c : (p \o q)[i] = IF i <= d + 1 THEN p[i] ELSE q[i - (d + 1)]
  <2>1. Len(p) + Len(q) = d + b - c
    BY <1>0, <1>2, <1>3
  <2>2. /\ p \o q \in Seq(Chars) /\ Len(p \o q) = Len(p) + Len(q)
        /\ \A i \in 1 .. Len(p) + Len(q) : (p \o q)[i] = IF i <= Len(p) THEN p[i] ELSE q[i - Len(p)]
    BY <1>2, <1>3, ConcatProperties
  <2> QED
    BY <1>2, <2>1, <2>2
<1>7. /\ r \o t \in Seq(Chars) /\ Len(r \o t) = d + b - c
      /\ \A i \in 1 .. d + b - c : (r \o t)[i] = IF i <= d THEN r[i] ELSE t[i - d]
  <2>1. Len(r) + Len(t) = d + b - c
    BY <1>0, <1>4, <1>5
  <2>2. /\ r \o t \in Seq(Chars) /\ Len(r \o t) = Len(r) + Len(t)
        /\ \A i \in 1 .. Len(r) + Len(t) : (r \o t)[i] = IF i <= Len(r) THEN r[i] ELSE t[i - Len(r)]
    BY <1>4, <1>5, ConcatProperties
  <2> QED
    BY <1>4, <2>1, <2>2
<1>8. ASSUME NEW i \in 1 .. d + b - c
      PROVE  (p \o q)[i] = (r \o t)[i]
  <2>1. CASE i <= d
    <3>1. i \in 1 .. d + 1 /\ i \in 1 .. d /\ i - 1 \in 0 .. BufSize - 1 /\ i - 1 # d
      BY <1>0, <2>1
    <3>2. (p \o q)[i] = new[i - 1] /\ (r \o t)[i] = buf[i - 1]
      BY <1>2, <1>4, <1>6, <1>7, <2>1, <3>1
    <3> QED
      BY <1>1, <3>1, <3>2
  <2>2. CASE i = d + 1
    <3>1. i \in 1 .. d + 1 /\ ~(i <= d) /\ i - d = 1 /\ 1 \in 1 .. b - c /\ i - 1 = d /\ d \in 0 .. BufSize - 1
      BY <1>0, <2>2
    <3>2. (p \o q)[i] = new[d]
      <4>1. i <= d + 1
        BY <2>2
      <4>2. (p \o q)[i] = p[i]
        BY <1>6, <4>1
      <4>3. p[i] = new[i - 1]
        BY <1>2, <3>1
      <4> QED
        BY <3>1, <4>2, <4>3
    <3>3. (r \o t)[i] = t[1]
      BY <1>7, <3>1
    <3>4. t[1] = buf[c]
      <4>1. c + 1 - 1 = c
        BY <1>0
      <4> QED
        BY <1>5, <3>1, <4>1
    <3> QED
      BY <1>1, <3>1, <3>2, <3>3, <3>4
  <2>3. CASE i > d + 1
    <3>1. /\ i - (d + 1) \in 1 .. Len(q) /\ i - d \in 1 .. b - c
          /\ c + (i - (d + 1)) \in 0 .. BufSize - 1 /\ c + (i - (d + 1)) # d
          /\ c + (i - d) - 1 = c + (i - (d + 1))
          /\ ~(i <= d + 1) /\ ~(i <= d)
      BY <1>0, <1>3, <2>3
    <3>2. (p \o q)[i] = new[c + (i - (d + 1))]
      BY <1>3, <1>6, <3>1
    <3>3. (r \o t)[i] = buf[c + (i - d) - 1]
      BY <1>5, <1>7, <3>1
    <3> QED
      BY <1>1, <3>1, <3>2, <3>3
  <2>4. i <= d \/ i = d + 1 \/ i > d + 1
    BY <1>0
  <2> QED
    BY <2>1, <2>2, <2>3, <2>4
<1>9. p \o q = r \o t
  BY <1>6, <1>7, <1>8, SeqEqual
<1> QED
  BY <1>9 DEF p, q, r, t

LEMMA UnreadIsSeq == Bounds => Unread \in Seq(Chars)
<1> SUFFICES ASSUME Bounds
             PROVE  Unread \in Seq(Chars)
  OBVIOUS
<1>1. Part(inputBuffer, 0, inputIndex) \in Seq(Chars) /\ Part(inputBuffer, srci, inputIndex) \in Seq(Chars)
  BY PartIsSeq DEF Bounds
<1>2. Moving => Part(inputBuffer, 0, dsti) \in Seq(Chars)
  BY PartIsSeq DEF Bounds
<1> QED
  BY <1>1, <1>2, UnreadParts, ConcatProperties

LEMMA PrimedParts ==
  Unread' = IF Moving'
            THEN Part(inputBuffer', 0, dsti') \o Part(inputBuffer', srci', inputIndex')
            ELSE Part(inputBuffer', 0, inputIndex')
BY DEF Unread, Moving, Cells, Part

LEMMA EmptyPart ==
  ASSUME NEW buf \in Buffers, NEW a \in Nat, NEW b \in Int, b <= a, b <= BufSize
  PROVE  Part(buf, a, b) = <<>>
<1>1. Part(buf, a, b) \in Seq(Chars) /\ Len(Part(buf, a, b)) = 0
  BY PartIsSeq
<1> QED
  BY <1>1

(* The moving loop moves, and changes nothing of what is unread.           *)
LEMMA ShiftKeeps ==
  ASSUME IInv, Indexes, ShiftChar
  PROVE  Unread' = Unread
<1>0. Bounds
  BY BoundsHold
<1>1. /\ inputBuffer' = [inputBuffer EXCEPT ![dsti] = inputBuffer[srci]]
      /\ dsti' = dsti + 1 /\ srci' = srci + 1 /\ inputIndex' = inputIndex
      /\ Moving /\ Moving' /\ srci < inputIndex
  BY DEF ShiftChar, ShiftGoesOn, Moving
<1>2. /\ dsti \in Nat /\ srci \in Nat /\ inputIndex \in Nat
      /\ dsti <= srci /\ srci < inputIndex /\ inputIndex < BufSize
      /\ inputBuffer \in Buffers
  <2>1. srci = dsti + count /\ srci < inputIndex
    BY <1>1 DEF Indexes
  <2>2. /\ dsti \in Nat /\ srci \in Nat /\ count \in Nat /\ inputIndex \in Int
        /\ inputIndex < BufSize /\ inputBuffer \in Buffers
    BY <1>0 DEF Bounds
  <2> QED
    BY <2>1, <2>2
<1>3. Unread' = Part(inputBuffer', 0, dsti + 1) \o Part(inputBuffer', srci + 1, inputIndex)
  BY <1>1, PrimedParts
<1>4. Unread = Part(inputBuffer, 0, dsti) \o Part(inputBuffer, srci, inputIndex)
  BY <1>1, UnreadParts
<1> DEFINE new == [inputBuffer EXCEPT ![dsti] = inputBuffer[srci]]
<1>5. Part(new, 0, dsti + 1) \o Part(new, srci + 1, inputIndex)
        = Part(inputBuffer, 0, dsti) \o Part(inputBuffer, srci, inputIndex)
  <2>1. inputBuffer[srci] \in Chars
    BY <1>0, <1>2 DEF Bounds, Buffers
  <2>2. new \in Buffers
    BY <1>2, <2>1 DEF Buffers
  <2>3. \A i \in 0 .. BufSize - 1 : new[i] = IF i = dsti THEN inputBuffer[srci] ELSE inputBuffer[i]
    BY <1>2 DEF Buffers
  <2> HIDE DEF new
  <2>4. Moved(inputBuffer, new, dsti, srci, inputIndex)
    BY <1>2, <2>2, <2>3 DEF Moved
  <2> QED
    BY ONLY <2>4, MoveKeeps
<1> HIDE DEF new
<1>6. inputBuffer' = new
  BY <1>1 DEF new
<1> QED
  BY <1>3, <1>4, <1>5, <1>6

(* Neither does the store of inputIndex, if no line came in meanwhile.     *)
LEMMA StoreKeeps ==
  ASSUME IInv, Indexes, StoreIndex, Undisturbed
  PROVE  Unread' = Unread
<1>0. Bounds
  BY BoundsHold
<1>1. /\ inputBuffer' = inputBuffer /\ inputIndex' = limit
      /\ Moving /\ ~Moving' /\ srci >= inputIndex /\ pc = "store"
  BY DEF StoreIndex, Moving, Undisturbed
<1>2. limit = dsti \/ (limit <= 0 /\ dsti = 0)
  BY <1>0, <1>1 DEF Indexes, Bounds
<1>3. limit < BufSize /\ dsti < BufSize
  BY <1>0, <1>1, <1>2 DEF Bounds
<1>4. Unread' = Part(inputBuffer, 0, limit)
  BY <1>1, PrimedParts
<1>5. Unread = Part(inputBuffer, 0, dsti)
  <2>1. Part(inputBuffer, srci, inputIndex) = <<>>
    BY <1>0, <1>1, EmptyPart DEF Bounds
  <2>2. Part(inputBuffer, 0, dsti) \in Seq(Chars)
    BY <1>0, <1>3, PartIsSeq DEF Bounds
  <2>3. Unread = Part(inputBuffer, 0, dsti) \o <<>>
    BY <1>1, <2>1, UnreadParts
  <2> QED
    BY <2>2, <2>3, ConcatEmptySeq
<1>6. CASE limit = dsti
  BY <1>4, <1>5, <1>6
<1>7. CASE limit <= 0 /\ dsti = 0
  <2>1. Part(inputBuffer, 0, limit) = <<>> /\ Part(inputBuffer, 0, dsti) = <<>>
    BY <1>0, <1>3, <1>7, EmptyPart DEF Bounds
  <2> QED
    BY <1>4, <1>5, <2>1
<1> QED
  BY <1>2, <1>6, <1>7

(* What trimInput leaves begins where it found the first character to keep. *)
LEMMA EndScanLeaves ==
  ASSUME IInv, Indexes, EndScan
  PROVE  /\ Unread = Part(inputBuffer, 0, inputIndex)
         /\ Unread' = Part(inputBuffer, count, inputIndex)
<1>0. Bounds
  BY BoundsHold
<1>1. /\ UNCHANGED <<inputBuffer, inputIndex>> /\ dsti' = 0 /\ srci' = count
      /\ ~Moving /\ Moving'
  BY DEF EndScan, bufVars, Moving
<1>2. Part(inputBuffer, 0, 0) = <<>>
  BY <1>0, EmptyPart DEF Bounds
<1>3. Part(inputBuffer, count, inputIndex) \in Seq(Chars)
  BY <1>0, PartIsSeq DEF Bounds
<1>4. Unread' = <<>> \o Part(inputBuffer, count, inputIndex)
  BY <1>1, <1>2, PrimedParts
<1>5. Unread' = Part(inputBuffer, count, inputIndex)
  BY <1>3, <1>4, ConcatEmptySeq
<1> QED
  BY <1>1, <1>5, UnreadParts

LEMMA ConsumeStep ==
  ASSUME IInv, Indexes, [Next]_vars, lines' = lines, pc = "store" => Undisturbed
  PROVE  IsSuffix(Unread', Unread)
<1>1. Bounds /\ Unread \in Seq(Chars)
  BY BoundsHold, UnreadIsSeq
<1>2. ASSUME UNCHANGED <<inputBuffer, inputIndex, dsti, srci, Moving>>
      PROVE  IsSuffix(Unread', Unread)
  <2>1. Unread' = Unread
    BY <1>2, UnreadParts, PrimedParts
  <2> QED
    BY <1>1, <2>1, SuffixSelf
<1>3. CASE \E c \in Letters \cup {SP} : TypeChar(c)
  BY <1>2, <1>3 DEF TypeChar, bufVars, localVars, Moving
<1>4. CASE Backspace
  BY <1>2, <1>4 DEF Backspace, bufVars, localVars, Moving
<1>5. CASE Enter
  BY <1>5 DEF Enter, IInv, TypeOK
<1>6. CASE ClearInputBuffer
  <2>1. inputBuffer' = inputBuffer /\ inputIndex' = 0 /\ ~Moving /\ ~Moving'
    BY <1>6 DEF ClearInputBuffer, Moving
  <2>2. Unread' = Part(inputBuffer, 0, 0)
    BY <2>1, PrimedParts
  <2>3. Unread' \in Seq(Chars) /\ Len(Unread') = 0
    BY <1>1, <2>2, PartIsSeq DEF Bounds
  <2>4. Len(Unread') <= Len(Unread) /\ 1 .. Len(Unread') = {}
    BY <1>1, <2>3
  <2>5. \A i \in 1 .. Len(Unread') : Unread'[i] = Unread[i + Len(Unread) - Len(Unread')]
    BY <2>4
  <2>6. \A q \in Seq(Chars) : Len(q) <= Len(Unread)
             /\ (\A i \in 1 .. Len(q) : q[i] = Unread[i + Len(Unread) - Len(q)])
             => IsSuffix(q, Unread)
    BY <1>1, SuffixIf
  <2> QED
    BY <2>3, <2>4, <2>5, <2>6
<1>7. CASE StopWaiting
  BY <1>2, <1>7 DEF StopWaiting, LoopTop, bufVars, Moving
<1>8. CASE CopyChar
  BY <1>2, <1>8 DEF CopyChar, LoopTop, bufVars, Moving
<1>9. CASE EndCopy
  BY <1>2, <1>9 DEF EndCopy, bufVars, Moving
<1>10. CASE ScanBlank
  BY <1>2, <1>10 DEF ScanBlank, bufVars, Moving
<1>11. CASE EndScan
  <2>1. /\ Unread = Part(inputBuffer, 0, inputIndex)
        /\ Unread' = Part(inputBuffer, count, inputIndex)
    BY <1>11, EndScanLeaves
  <2>2. \A a \in Nat : a <= count =>
          IsSuffix(Part(inputBuffer, count, inputIndex), Part(inputBuffer, a, inputIndex))
    BY <1>1, PartSuffix DEF Bounds
  <2>3. 0 \in Nat /\ 0 <= count
    BY <1>1 DEF Bounds
  <2> QED
    BY <2>1, <2>2, <2>3
<1>12. CASE ShiftChar
  BY <1>1, <1>12, ShiftKeeps, SuffixSelf
<1>13. CASE EndShift
  BY <1>2, <1>13 DEF EndShift, bufVars, localVars, Moving
<1>14. CASE LoadIndex
  BY <1>2, <1>14 DEF LoadIndex, bufVars, Moving
<1>15. CASE StoreIndex
  <2>1. Unread' = Unread
    BY <1>15, StoreKeeps DEF StoreIndex
  <2> QED
    BY <1>1, <2>1, SuffixSelf
<1>16. CASE UNCHANGED vars
  BY <1>2, <1>16 DEF vars, bufVars, localVars, Moving
<1>17. CASE TestCell \/ ScanCell
  BY <1>2, <1>17 DEF TestCell, ScanCell, bufVars, localVars, Moving
<1> QED
  BY <1>3, <1>4, <1>5, <1>6, <1>7, <1>8, <1>9, <1>10, <1>11, <1>12, <1>13, <1>14,
     <1>15, <1>16, <1>17 DEF Next, Keyboard, Shell

(* What the shell leaves unread is the tail of what was unread: it makes   *)
(* up nothing and changes no order, at any of its steps (iobuffers.c:9-66).*)
THEOREM ShellConsumes == Spec => ShellOnlyConsumes
<1>1. IInv /\ Indexes /\ [Next]_vars =>
        [ lines' = lines /\ (pc = "store" => Undisturbed)
          => IsSuffix(Unread', Unread) ]_vars
  BY ConsumeStep
<1> QED
  BY <1>1, IndexesHold, PTL DEF Spec, ShellOnlyConsumes

-----------------------------------------------------------------------------
(* What Prefix and Rest make of a line.                                    *)

LEMMA MinIs ==
  ASSUME NEW S \in SUBSET Nat, S # {}
  PROVE  Min(S) \in S /\ \A n \in S : Min(S) <= n
<1> DEFINE less == {pair \in Nat \X Nat : pair[1] < pair[2]}
<1>1. IsWellFoundedOn(less, Nat)
  BY NatLessThanWellFounded DEF OpToRel
<1>2. PICK x \in S : \A y \in S : ~(<<y, x>> \in less)
  <2> HIDE DEF less
  <2> QED
    BY <1>1, WFMin
<1>3. ASSUME NEW y \in S
      PROVE  x <= y
  <2>1. x \in Nat /\ y \in Nat
    OBVIOUS
  <2>2. y < x => <<y, x>> \in less
    BY <2>1
  <2>3. ~(y < x)
    BY <1>2, <2>2, Zenon
  <2> QED
    BY <2>1, <2>3
<1> QED
  BY <1>3 DEF Min

(* The copying loop, with k characters copied, stops on this line.         *)
StopsAt(line, delims, k) ==
  /\ k \in Nat /\ k <= Len(line) /\ k <= Size - 1
  /\ \A i \in 1 .. k : line[i] \notin delims
  /\ k = Size - 1 \/ k = Len(line) \/ line[k + 1] \in delims

LEMMA PrefixIs ==
  ASSUME NEW line \in Seq(Chars), NEW delims, NEW k, StopsAt(line, delims, k)
  PROVE  Prefix(line, delims) = SubSeq(line, 1, k) /\ Len(Prefix(line, delims)) = k
<1> DEFINE ends == {i \in 1 .. Len(line) : line[i] \in delims} \cup {Size, Len(line) + 1}
<1>1. Size \in Nat /\ k \in Nat /\ Len(line) \in Nat
  BY LineInputAssumption DEF LineInputAssumption, StopsAt
<1>2. ends \in SUBSET Nat /\ ends # {}
  BY <1>1
<1>3. k + 1 \in ends /\ \A e \in ends : k + 1 <= e
  BY <1>1 DEF StopsAt
<1> HIDE DEF ends
<1>4. Min(ends) = k + 1
  <2>1. Min(ends) \in ends /\ \A n \in ends : Min(ends) <= n
    BY <1>2, MinIs
  <2>2. Min(ends) <= k + 1 /\ k + 1 <= Min(ends) /\ Min(ends) \in Nat
    BY <1>2, <1>3, <2>1
  <2> QED
    BY <1>1, <2>2
<1>5. Prefix(line, delims) = SubSeq(line, 1, Min(ends) - 1)
  BY DEF Prefix, ends
<1>6. Min(ends) - 1 = k
  BY <1>1, <1>4
<1> QED
  BY <1>1, <1>5, <1>6 DEF StopsAt

LEMMA PrefixStops ==
  ASSUME NEW line \in Seq(Chars), NEW delims
  PROVE  Len(Prefix(line, delims)) \in 0 .. Len(line)
<1> DEFINE ends == {i \in 1 .. Len(line) : line[i] \in delims} \cup {Size, Len(line) + 1}
<1>1. Size \in Nat /\ Size > 0 /\ Len(line) \in Nat
  BY LineInputAssumption DEF LineInputAssumption
<1>2. ends \in SUBSET Nat /\ Len(line) + 1 \in ends /\ \A e \in ends : e >= 1
  BY <1>1
<1> HIDE DEF ends
<1>3. PICK k \in 0 .. Len(line) : k = Min(ends) - 1
  <2>1. Min(ends) \in ends /\ \A n \in ends : Min(ends) <= n
    BY <1>2, MinIs
  <2>2. Min(ends) <= Len(line) + 1 /\ 1 <= Min(ends) /\ Min(ends) \in Nat
    BY <1>2, <2>1
  <2> QED
    BY <1>1, <2>2
<1>4. Prefix(line, delims) = SubSeq(line, 1, k)
  BY <1>3 DEF Prefix, ends
<1> QED
  BY <1>1, <1>4

LEMMA RestIs ==
  ASSUME NEW line \in Seq(Chars)
  PROVE  \E m \in Len(Prefix(line, Blanks)) .. Len(line) :
           /\ Rest(line) = SubSeq(line, m + 1, Len(line))
           /\ Rest(line) \in Seq(Chars)
           /\ Len(Rest(line)) = Len(line) - m
           /\ \A i \in 1 .. Len(line) - m : Rest(line)[i] = line[m + i]
           /\ \A i \in Len(Prefix(line, Blanks)) + 1 .. m : line[i] \in Blanks
           /\ m < Len(line) => line[m + 1] \notin Blanks
<1>1. PICK w \in 0 .. Len(line) : w = Len(Prefix(line, Blanks))
  BY PrefixStops
<1>2. PICK n \in Nat : n = Len(line)
  OBVIOUS
<1> DEFINE starts == {i \in w + 1 .. Len(line) : line[i] \notin Blanks} \cup {Len(line) + 1}
<1>3. starts \in SUBSET Nat /\ starts # {} /\ \A s \in starts : w + 1 <= s /\ s <= n + 1
  BY <1>2
<1>4. Min(starts) \in starts /\ \A s \in starts : Min(starts) <= s
  <2> HIDE DEF starts
  <2> QED
    BY <1>3, MinIs
<1>5. PICK m \in w .. n : m + 1 = Min(starts)
  <2> HIDE DEF starts
  <2>1. Min(starts) \in Nat /\ w + 1 <= Min(starts) /\ Min(starts) <= n + 1
    BY <1>3, <1>4
  <2> QED
    BY <2>1
<1>6. Rest(line) = SubSeq(line, m + 1, n)
  BY <1>1, <1>2, <1>5 DEF Rest
<1>7. \A i \in w + 1 .. m : line[i] \in Blanks
  <2> SUFFICES ASSUME NEW i \in w + 1 .. m, line[i] \notin Blanks
               PROVE  FALSE
    OBVIOUS
  <2>1. i \in starts /\ i < m + 1
    BY <1>2
  <2> HIDE DEF starts
  <2> QED
    BY <1>4, <1>5, <2>1
<1>8. m < n => line[m + 1] \notin Blanks
  BY <1>2, <1>4, <1>5
<1> HIDE DEF starts
<1>9. /\ Rest(line) \in Seq(Chars) /\ Len(Rest(line)) = n - m
      /\ \A i \in 1 .. n - m : Rest(line)[i] = line[m + i]
  BY <1>2, <1>6
<1> QED
  BY <1>1, <1>2, <1>6, <1>7, <1>8, <1>9

-----------------------------------------------------------------------------
(* As long as the lines come as the shell expects them. What inputBuffer   *)
(* holds at every step of getStr, trimInput and getLine.                   *)

(* The line that is read, and the characters that end its first part.      *)
Line == IF call = "getStr" THEN lastLine ELSE Rest(lastLine)
Delims(c) == IF c = "getStr" THEN Blanks ELSE {NL}

Holds(text) ==
  /\ inputIndex = Len(text)
  /\ \A i \in 1 .. Len(text) : inputBuffer[i - 1] = text[i]

(* The characters of the first word and the blanks behind it.              *)
Skipped == Len(lastLine) - Len(Rest(lastLine))

(* The command that was read needs an argument, and the line has one.      *)
WantsMore == call = "getStr" /\ word \in ArgCommands
Complete == Prefix(lastLine, Blanks) \in ArgCommands => Rest(lastLine) # <<>>

(* The cells 0 .. n-1 hold the line and its newline from Skipped on.       *)
Shifted(n) == \A i \in 0 .. n - 1 : inputBuffer[i] = Append(lastLine, NL)[Skipped + i + 1]

Waiting ==
  pc = "wait" =>
    \/ call = "getStr" /\ inputIndex = 0
    \/ Holds(Append(Line, NL)) /\ Complete

(* While a word is copied, and what the comparisons have shown of the cell *)
(* that is copied next.                                                    *)
Copying ==
  /\ pc \in {"space", "newline", "take"} =>
       /\ Holds(Append(Line, NL)) /\ Complete
       /\ Len(word) <= Len(Line)
       /\ word = SubSeq(Line, 1, Len(word))
       /\ \A i \in 1 .. Len(word) : Line[i] \notin Delims(call)
  /\ pc = "space" => call = "getStr"
  /\ pc = "newline" /\ call = "getStr" => inputBuffer[Len(word)] # SP
  /\ pc = "take" => inputBuffer[Len(word)] \notin Delims(call)

Trimming ==
  /\ pc \in {"scan", "scanline", "shift", "load", "store"} => word = Prefix(Line, Delims(call))
  /\ pc \in {"scan", "scanline", "shift", "load", "store"} /\ WantsMore => Rest(lastLine) # <<>>
  /\ pc = "scanline" => inputBuffer[count] # SP
  /\ pc \in {"scan", "scanline"} /\ WantsMore =>
       Holds(Append(lastLine, NL)) /\ Len(word) <= count /\ count <= Skipped
  /\ pc = "shift" /\ WantsMore =>
       /\ count = Skipped /\ srci = dsti + count /\ srci <= Len(lastLine) + 1
       /\ inputIndex = Len(lastLine) + 1
       /\ Shifted(dsti)
       /\ \A i \in srci .. Len(lastLine) : inputBuffer[i] = Append(lastLine, NL)[i + 1]
  /\ pc = "load" /\ WantsMore =>
       /\ count = Skipped /\ inputIndex = Len(lastLine) + 1
       /\ Shifted(Len(lastLine) + 1 - Skipped)
  /\ pc = "store" /\ WantsMore =>
       /\ limit = Len(lastLine) + 1 - Skipped
       /\ Shifted(Len(lastLine) + 1 - Skipped)

Ordered == Waiting /\ Copying /\ Trimming

LEMMA LineFacts ==
  ASSUME IInv
  PROVE  /\ lastLine \in Seq(Chars) /\ Line \in Seq(Chars) /\ Rest(lastLine) \in Seq(Chars)
         /\ Skipped \in Len(Prefix(lastLine, Blanks)) .. Len(lastLine)
         /\ Len(Prefix(lastLine, Blanks)) \in Nat
         /\ Len(Rest(lastLine)) = Len(lastLine) - Skipped
         /\ \A i \in 1 .. Len(lastLine) - Skipped : Rest(lastLine)[i] = lastLine[Skipped + i]
         /\ \A i \in Len(Prefix(lastLine, Blanks)) + 1 .. Skipped : lastLine[i] \in Blanks
         /\ Rest(lastLine) # <<>> =>
              Skipped < Len(lastLine) /\ lastLine[Skipped + 1] \notin Blanks
<1>1. lastLine \in Seq(Chars)
  BY DEF IInv, TypeOK, Chars
<1>2. PICK m \in Len(Prefix(lastLine, Blanks)) .. Len(lastLine) :
        /\ Rest(lastLine) \in Seq(Chars)
        /\ Len(Rest(lastLine)) = Len(lastLine) - m
        /\ \A i \in 1 .. Len(lastLine) - m : Rest(lastLine)[i] = lastLine[m + i]
        /\ \A i \in Len(Prefix(lastLine, Blanks)) + 1 .. m : lastLine[i] \in Blanks
        /\ m < Len(lastLine) => lastLine[m + 1] \notin Blanks
  BY <1>1, RestIs
<1>3. Len(Prefix(lastLine, Blanks)) \in Nat /\ Len(lastLine) \in Nat
  BY <1>1, PrefixStops
<1>4. Skipped = m
  BY <1>2, <1>3 DEF Skipped
<1>5. Rest(lastLine) # <<>> => m < Len(lastLine)
  BY <1>2, <1>3
<1>6. Line \in Seq(Chars)
  BY <1>1, <1>2 DEF Line
<1> QED
  BY <1>1, <1>2, <1>3, <1>4, <1>5, <1>6

LEMMA WithNewline ==
  ASSUME NEW line \in Seq(Chars)
  PROVE  /\ Append(line, NL) \in Seq(Chars) /\ Len(Append(line, NL)) = Len(line) + 1
         /\ \A i \in 1 .. Len(line) : Append(line, NL)[i] = line[i]
         /\ Append(line, NL)[Len(line) + 1] = NL
BY DEF Chars

LEMMA InitOrdered == Init => Ordered
BY DEF Init, Ordered, Waiting, Copying, Trimming

(* A line that comes as it is expected is what the buffer holds.           *)
LEMMA EnterOrdered ==
  ASSUME IInv, IInv', Ordered, Enter, Expected
  PROVE  Ordered'
<1>1. /\ pc = "wait" /\ inputIndex = 0
      /\ Prefix(temp, Blanks) \in ArgCommands => Rest(temp) # <<>>
  BY DEF Expected
<1>2. temp \in Seq(Chars) /\ Len(temp) \in Nat
  <2>1. temp \in Seq(Letters \cup {SP})
    BY DEF IInv, TypeOK
  <2> QED
    BY ONLY <2>1 DEF Chars
<1>3. call = "getStr"
  <2>1. Line \in Seq(Chars)
    BY LineFacts
  <2>2. ~Holds(Append(Line, NL))
    BY <1>1, <2>1, WithNewline DEF Holds
  <2> QED
    BY <1>1, <2>2 DEF Ordered, Waiting
<1>4. /\ inputIndex' = Len(temp) + 1 /\ lastLine' = temp
      /\ UNCHANGED <<pc, call>>
  BY <1>1, <1>2 DEF Enter
<1> DEFINE line == Append(temp, NL)
<1>5. line \in Seq(Chars) /\ Len(line) = Len(temp) + 1
  BY <1>2, WithNewline
<1>6. Len(temp) + 1 <= BufSize - 1
  <2>1. lines' \in 0 .. MaxLines /\ inputIndex' <= Room(lines')
    BY DEF IInv, TypeOK
  <2>2. Room(lines') < BufSize /\ Room(lines') \in Nat /\ BufSize \in Nat
    BY <2>1, RoomFits, RoomGrows, LineInputAssumption DEF LineInputAssumption
  <2> QED
    BY <1>2, <1>4, <2>1, <2>2
<1>7. \A i \in 1 .. Len(temp) + 1 : inputBuffer'[i - 1] = line[i]
  <2> SUFFICES ASSUME NEW i \in 1 .. Len(temp) + 1
               PROVE  inputBuffer'[i - 1] = line[i]
    OBVIOUS
  <2>1. DOMAIN inputBuffer = 0 .. BufSize - 1 /\ BufSize \in Nat
    BY LineInputAssumption DEF LineInputAssumption, IInv, TypeOK
  <2>2. i - 1 \in DOMAIN inputBuffer /\ i - 1 \in 0 .. 0 + Len(temp) /\ (i - 1) - 0 + 1 = i
    BY <1>2, <1>6, <2>1
  <2>3. inputBuffer'[i - 1] = line[(i - 1) - inputIndex + 1]
    BY <1>1, <2>2 DEF Enter
  <2> QED
    BY <1>1, <2>2, <2>3
<1>8. Line' = temp
  BY <1>3, <1>4 DEF Line
<1>9. Holds(Append(Line, NL))'
  BY <1>4, <1>5, <1>7, <1>8 DEF Holds
<1>10. Complete'
  BY <1>1, <1>4 DEF Complete
<1> QED
  BY <1>1, <1>4, <1>9, <1>10 DEF Ordered, Waiting, Copying, Trimming

LEMMA StopWaitingOrdered ==
  ASSUME IInv, Ordered, StopWaiting
  PROVE  Ordered'
<1>1. /\ pc = "wait" /\ inputIndex # 0 /\ pc' = LoopTop(call) /\ word' = <<>>
      /\ UNCHANGED <<call, lastLine, inputBuffer, inputIndex>>
  BY DEF StopWaiting, kbdVars, bufVars
<1>2. Holds(Append(Line, NL)) /\ Complete
  BY <1>1 DEF Ordered, Waiting
<1>3. Line' = Line /\ Holds(Append(Line, NL))' /\ Complete'
  BY <1>1, <1>2 DEF Line, Holds, Complete
<1>4. Line \in Seq(Chars) /\ SubSeq(Line, 1, 0) = <<>> /\ Len(<<>>) = 0
  BY LineFacts
<1>5. pc' = IF call = "getStr" THEN "space" ELSE "newline"
  BY <1>1 DEF LoopTop
<1> QED
  BY <1>1, <1>3, <1>4, <1>5 DEF Ordered, Waiting, Copying, Trimming

(* A comparison of the copying loop.                                       *)
LEMMA TestCellOrdered ==
  ASSUME IInv, Ordered, TestCell
  PROVE  Ordered'
<1>1. /\ pc \in {"space", "newline"} /\ pc' = (IF pc = "space" THEN "newline" ELSE "take")
      /\ UNCHANGED <<call, lastLine, inputBuffer, inputIndex, word>>
  BY DEF TestCell, kbdVars, bufVars, localVars
<1>2. inputBuffer[Len(word)] # IF pc = "space" THEN SP ELSE NL
  BY <1>1 DEF TestCell, CopyGoesOn, Delim
<1>3. /\ Holds(Append(Line, NL)) /\ Complete
      /\ Len(word) <= Len(Line) /\ word = SubSeq(Line, 1, Len(word))
      /\ \A i \in 1 .. Len(word) : Line[i] \notin Delims(call)
  BY <1>1 DEF Ordered, Copying
<1>4. Line' = Line /\ Holds(Append(Line, NL))' /\ Complete'
  BY <1>1, <1>3 DEF Line, Holds, Complete
<1>5. pc = "newline" => inputBuffer[Len(word)] \notin Delims(call)
  BY <1>1, <1>2 DEF Ordered, Copying, Delims, Blanks
<1>6. Copying'
  BY <1>1, <1>2, <1>3, <1>4, <1>5 DEF Copying
<1> QED
  BY <1>1, <1>6 DEF Ordered, Waiting, Trimming

LEMMA CopyCharOrdered ==
  ASSUME IInv, Ordered, CopyChar
  PROVE  Ordered'
<1>1. /\ pc = "take" /\ pc' = LoopTop(call) /\ word' = Append(word, inputBuffer[Len(word)])
      /\ inputBuffer[Len(word)] \notin Delims(call)
      /\ UNCHANGED <<call, lastLine, inputBuffer, inputIndex>>
  BY DEF CopyChar, kbdVars, bufVars, Ordered, Copying
<1>2. PICK k \in Nat : k = Len(word)
  BY DEF IInv, TypeOK
<1>3. PICK n \in Nat : n = Len(Line)
  BY LineFacts
<1>4. Line \in Seq(Chars) /\ word \in Seq(Chars)
  BY LineFacts DEF IInv, TypeOK
<1>5. /\ Holds(Append(Line, NL)) /\ Complete /\ k <= n /\ word = SubSeq(Line, 1, k)
      /\ \A i \in 1 .. k : Line[i] \notin Delims(call)
  BY <1>1, <1>2, <1>3 DEF Ordered, Copying
<1>6. inputBuffer[k] = Append(Line, NL)[k + 1]
  <2>1. k + 1 \in 1 .. Len(Append(Line, NL)) /\ (k + 1) - 1 = k
    BY <1>2, <1>3, <1>4, <1>5, WithNewline
  <2> QED
    BY <1>5, <2>1 DEF Holds
<1>7. k < n
  <2>1. NL \in Delims(call)
    BY DEF Delims, Blanks
  <2>2. k # n
    BY <1>1, <1>2, <1>3, <1>4, <1>6, <2>1, WithNewline
  <2> QED
    BY <1>5, <2>2
<1>8. inputBuffer[k] = Line[k + 1]
  BY <1>3, <1>4, <1>6, <1>7, WithNewline
<1>9. word' = SubSeq(Line, 1, k + 1) /\ Len(word') = k + 1
  BY <1>1, <1>2, <1>3, <1>4, <1>5, <1>7, <1>8
<1>10. \A i \in 1 .. k + 1 : Line[i] \notin Delims(call)
  BY <1>1, <1>2, <1>5, <1>8
<1>11. Line' = Line /\ Holds(Append(Line, NL))' /\ Complete'
  BY <1>1, <1>5 DEF Line, Holds, Complete
<1>12. pc' = IF call = "getStr" THEN "space" ELSE "newline"
  BY <1>1 DEF LoopTop
<1> QED
  BY <1>1, <1>3, <1>7, <1>9, <1>10, <1>11, <1>12 DEF Ordered, Waiting, Copying, Trimming

(* Where the copying loop ends, the line tells it to.                      *)
LEMMA CopyStops ==
  ASSUME IInv, Ordered, pc \in {"space", "newline"}, ~CopyGoesOn
  PROVE  /\ Holds(Append(Line, NL)) /\ Complete
         /\ word = SubSeq(Line, 1, Len(word))
         /\ StopsAt(Line, Delims(call), Len(word))
<1>1. inputBuffer[Len(word)] \in Delims(call) \/ Len(word) >= Size - 1
  <2>1. CASE pc = "space"
    BY <2>1 DEF CopyGoesOn, Delim, Ordered, Copying, Delims, Blanks
  <2>2. CASE pc = "newline"
    <3>1. inputBuffer[Len(word)] = NL \/ ~(Len(word) < Size - 1)
      BY <2>2 DEF CopyGoesOn, Delim
    <3>2. NL \in Delims(call)
      BY DEF Delims, Blanks
    <3> QED
      BY <3>1, <3>2, LineInputAssumption DEF LineInputAssumption, IInv, TypeOK
  <2> QED
    BY <2>1, <2>2
<1>2. PICK k \in Nat : k = Len(word)
  BY DEF IInv, TypeOK
<1>3. PICK n \in Nat : n = Len(Line)
  BY LineFacts
<1>4. Line \in Seq(Chars) /\ word \in Seq(Chars)
  BY LineFacts DEF IInv, TypeOK
<1>5. /\ Holds(Append(Line, NL)) /\ Complete /\ k <= n /\ word = SubSeq(Line, 1, k)
      /\ \A i \in 1 .. k : Line[i] \notin Delims(call)
  BY <1>2, <1>3 DEF Ordered, Copying
<1>6. inputBuffer[k] = Append(Line, NL)[k + 1]
  <2>1. k + 1 \in 1 .. Len(Append(Line, NL)) /\ (k + 1) - 1 = k
    BY <1>2, <1>3, <1>4, <1>5, WithNewline
  <2> QED
    BY <1>5, <2>1 DEF Holds
<1>7. k < n => inputBuffer[k] = Line[k + 1]
  BY <1>3, <1>4, <1>6, WithNewline
<1>8. k <= Size - 1 /\ Size \in Nat
  BY <1>2, LineInputAssumption DEF LineInputAssumption, IInv, WordFitsBuffer
<1>9. StopsAt(Line, Delims(call), k)
  BY <1>1, <1>2, <1>3, <1>5, <1>7, <1>8 DEF StopsAt
<1> QED
  BY <1>2, <1>5, <1>9

LEMMA EndCopyOrdered ==
  ASSUME IInv, Ordered, EndCopy
  PROVE  Ordered'
<1>1. /\ pc \in {"space", "newline"} /\ pc' = "scan" /\ count' = Len(word) /\ ~CopyGoesOn
      /\ UNCHANGED <<call, lastLine, inputBuffer, inputIndex, word>>
  BY DEF EndCopy, kbdVars, bufVars
<1>2. PICK k \in Nat : k = Len(word)
  BY DEF IInv, TypeOK
<1>4. Line \in Seq(Chars)
  BY LineFacts
<1>5. /\ Holds(Append(Line, NL)) /\ Complete /\ word = SubSeq(Line, 1, k)
      /\ StopsAt(Line, Delims(call), k)
  BY <1>1, <1>2, CopyStops
<1>9. word = Prefix(Line, Delims(call)) /\ Len(Prefix(Line, Delims(call))) = k
  BY <1>4, <1>5, PrefixIs
<1>10. Line' = Line /\ Skipped' = Skipped /\ (WantsMore' <=> WantsMore)
  BY <1>1 DEF Line, Skipped, WantsMore
<1>11. ASSUME WantsMore
       PROVE  /\ Rest(lastLine) # <<>> /\ Holds(Append(lastLine, NL))
              /\ k <= Skipped
  <2>1. Line = lastLine /\ Delims(call) = Blanks
    BY <1>11 DEF WantsMore, Line, Delims
  <2>2. word = Prefix(lastLine, Blanks) /\ Len(Prefix(lastLine, Blanks)) = k
    BY <1>9, <2>1
  <2>3. Rest(lastLine) # <<>>
    BY <1>5, <1>11, <2>2 DEF Complete, WantsMore
  <2>4. k <= Skipped
    BY <2>2, LineFacts
  <2> QED
    BY <1>5, <2>1, <2>3, <2>4
<1>12. (WantsMore => Rest(lastLine) # <<>>)' /\ (WantsMore => Holds(Append(lastLine, NL)))'
  BY <1>1, <1>10, <1>11 DEF Holds
<1>13. (word = Prefix(Line, Delims(call)))'
  BY <1>1, <1>9, <1>10
<1> QED
  BY <1>1, <1>2, <1>10, <1>11, <1>12, <1>13 DEF Ordered, Waiting, Copying, Trimming

(* The first comparison of a cell behind the word.                         *)
LEMMA ScanCellOrdered ==
  ASSUME IInv, Ordered, ScanCell
  PROVE  Ordered'
<1>1. /\ pc = "scan" /\ pc' = "scanline" /\ inputBuffer[count] # SP
      /\ UNCHANGED <<call, lastLine, inputBuffer, inputIndex, word, count>>
  BY DEF ScanCell, TrimsCell, Delim, kbdVars, bufVars, localVars
<1>2. Line' = Line /\ Skipped' = Skipped /\ (WantsMore' <=> WantsMore)
  BY <1>1 DEF Line, Skipped, WantsMore
<1>3. Holds(Append(lastLine, NL))' <=> Holds(Append(lastLine, NL))
  BY <1>1 DEF Holds
<1>4. Trimming'
  BY <1>1, <1>2, <1>3 DEF Ordered, Trimming
<1> QED
  BY <1>1, <1>4 DEF Ordered, Waiting, Copying

LEMMA ScanBlankOrdered ==
  ASSUME IInv, Ordered, ScanBlank
  PROVE  Ordered'
<1>1. /\ pc \in {"scan", "scanline"} /\ pc' = "scan" /\ inputBuffer[count] \in Blanks
      /\ count' = count + 1
      /\ UNCHANGED <<call, lastLine, inputBuffer, inputIndex, word>>
  BY DEF ScanBlank, TrimsCell, Delim, Blanks, kbdVars, bufVars
<1>2. Line' = Line /\ Skipped' = Skipped /\ (WantsMore' <=> WantsMore)
  BY <1>1 DEF Line, Skipped, WantsMore
<1>3. ASSUME WantsMore
      PROVE  count + 1 <= Skipped
  <2>1. /\ Holds(Append(lastLine, NL)) /\ count <= Skipped /\ Rest(lastLine) # <<>>
    BY <1>1, <1>3 DEF Ordered, Trimming
  <2>2. /\ Skipped < Len(lastLine) /\ lastLine[Skipped + 1] \notin Blanks
        /\ lastLine \in Seq(Chars) /\ Skipped \in Int /\ count \in Nat
    BY <2>1, LineFacts DEF IInv, TypeOK
  <2>3. count + 1 \in 1 .. Len(lastLine) /\ (count + 1) - 1 = count
    BY <2>1, <2>2
  <2>4. inputBuffer[count] = lastLine[count + 1]
    <3>1. count + 1 \in 1 .. Len(Append(lastLine, NL)) /\ Append(lastLine, NL)[count + 1] = lastLine[count + 1]
      BY <2>2, <2>3, WithNewline
    <3> QED
      BY <2>1, <2>3, <3>1 DEF Holds
  <2>5. count # Skipped
    BY <1>1, <2>2, <2>4
  <2> QED
    BY <2>1, <2>2, <2>5
<1>4. WantsMore => Holds(Append(lastLine, NL)) /\ Len(word) <= count
  BY <1>1 DEF Ordered, Trimming
<1>5. (WantsMore => Holds(Append(lastLine, NL)) /\ Len(word) <= count)'
  <2>1. Len(word) \in Nat /\ count \in Nat
    BY DEF IInv, TypeOK
  <2> QED
    BY <1>1, <1>2, <1>4, <2>1 DEF Holds
<1>6. (word = Prefix(Line, Delims(call)))' /\ (WantsMore => Rest(lastLine) # <<>>)'
  BY <1>1, <1>2 DEF Ordered, Trimming
<1> QED
  BY <1>1, <1>2, <1>3, <1>5, <1>6 DEF Ordered, Waiting, Copying, Trimming

LEMMA EndScanOrdered ==
  ASSUME IInv, Ordered, EndScan
  PROVE  Ordered'
<1>1. /\ pc = "scanline" /\ pc' = "shift" /\ inputBuffer[count] \notin Blanks
      /\ dsti' = 0 /\ srci' = count
      /\ UNCHANGED <<call, lastLine, inputBuffer, inputIndex, word, count>>
  BY DEF EndScan, TrimsCell, Delim, Blanks, kbdVars, bufVars, Ordered, Trimming
<1>2. Line' = Line /\ Skipped' = Skipped /\ (WantsMore' <=> WantsMore)
  BY <1>1 DEF Line, Skipped, WantsMore
<1>3. (word = Prefix(Line, Delims(call)))' /\ (WantsMore => Rest(lastLine) # <<>>)'
  BY <1>1, <1>2 DEF Ordered, Trimming
<1>4. ASSUME WantsMore
      PROVE  /\ count = Skipped /\ Skipped \in Nat /\ Skipped <= Len(lastLine)
             /\ inputIndex = Len(lastLine) + 1
             /\ \A i \in 0 .. Len(lastLine) : inputBuffer[i] = Append(lastLine, NL)[i + 1]
  <2>1. /\ Holds(Append(lastLine, NL)) /\ count <= Skipped /\ Len(word) <= count
        /\ Rest(lastLine) # <<>> /\ word = Prefix(Line, Delims(call))
    BY <1>1, <1>4 DEF Ordered, Trimming
  <2>2. word = Prefix(lastLine, Blanks)
    BY <1>4, <2>1 DEF WantsMore, Line, Delims
  <2>3. /\ Skipped < Len(lastLine) /\ lastLine \in Seq(Chars) /\ Skipped \in Int /\ count \in Nat
        /\ \A i \in Len(word) + 1 .. Skipped : lastLine[i] \in Blanks
        /\ Len(word) \in Nat /\ Len(lastLine) \in Nat
    BY <2>1, <2>2, LineFacts DEF IInv, TypeOK
  <2>4. \A i \in 0 .. Len(lastLine) : inputBuffer[i] = Append(lastLine, NL)[i + 1]
    <3> SUFFICES ASSUME NEW i \in 0 .. Len(lastLine)
                 PROVE  inputBuffer[i] = Append(lastLine, NL)[i + 1]
      OBVIOUS
    <3>1. i + 1 \in 1 .. Len(Append(lastLine, NL)) /\ (i + 1) - 1 = i
      BY <2>3, WithNewline
    <3> QED
      BY <2>1, <3>1 DEF Holds
  <2>5. count = Skipped
    <3> SUFFICES ASSUME count < Skipped
                 PROVE  FALSE
      BY <2>1, <2>3
    <3>1. count + 1 \in Len(word) + 1 .. Skipped /\ count + 1 \in 1 .. Len(lastLine)
          /\ count \in 0 .. Len(lastLine)
      BY <2>1, <2>3
    <3>2. inputBuffer[count] = lastLine[count + 1]
      BY <2>3, <2>4, <3>1, WithNewline
    <3> QED
      BY <1>1, <2>3, <3>1, <3>2
  <2>6. inputIndex = Len(lastLine) + 1
    BY <2>1, <2>3, WithNewline DEF Holds
  <2>7. Skipped \in Nat /\ Skipped <= Len(lastLine)
    BY <2>3, <2>5
  <2> QED
    BY <2>4, <2>5, <2>6, <2>7, Zenon
<1>5. (WantsMore =>
        /\ count = Skipped /\ srci = dsti + count /\ srci <= Len(lastLine) + 1
        /\ inputIndex = Len(lastLine) + 1
        /\ Shifted(dsti)
        /\ \A i \in srci .. Len(lastLine) : inputBuffer[i] = Append(lastLine, NL)[i + 1])'
  <2> SUFFICES ASSUME WantsMore
               PROVE  /\ count = Skipped /\ srci' = dsti' + count /\ srci' <= Len(lastLine) + 1
                      /\ inputIndex = Len(lastLine) + 1
                      /\ Shifted(dsti)'
                      /\ \A i \in srci' .. Len(lastLine) :
                           inputBuffer[i] = Append(lastLine, NL)[i + 1]
    BY <1>1, <1>2
  <2>1. Shifted(dsti)'
    BY <1>1 DEF Shifted
  <2>2. Len(lastLine) \in Nat
    BY LineFacts
  <2> QED
    BY <1>1, <1>4, <2>1, <2>2
<1> QED
  BY <1>1, <1>3, <1>5 DEF Ordered, Waiting, Copying, Trimming

LEMMA ShiftCharOrdered ==
  ASSUME IInv, Ordered, ShiftChar
  PROVE  Ordered'
<1>1. /\ pc = "shift" /\ pc' = "shift" /\ srci < inputIndex
      /\ inputBuffer' = [inputBuffer EXCEPT ![dsti] = inputBuffer[srci]]
      /\ dsti' = dsti + 1 /\ srci' = srci + 1
      /\ UNCHANGED <<call, lastLine, inputIndex, word, count>>
  BY DEF ShiftChar, ShiftGoesOn, kbdVars
<1>2. Line' = Line /\ Skipped' = Skipped /\ (WantsMore' <=> WantsMore)
  BY <1>1 DEF Line, Skipped, WantsMore
<1>3. (word = Prefix(Line, Delims(call)))' /\ (WantsMore => Rest(lastLine) # <<>>)'
  BY <1>1, <1>2 DEF Ordered, Trimming
<1>4. ASSUME WantsMore
      PROVE  /\ count = Skipped /\ srci + 1 = (dsti + 1) + count
             /\ srci + 1 <= Len(lastLine) + 1 /\ inputIndex = Len(lastLine) + 1
             /\ \A i \in 0 .. dsti : inputBuffer'[i] = Append(lastLine, NL)[Skipped + i + 1]
             /\ \A i \in srci + 1 .. Len(lastLine) :
                  inputBuffer'[i] = Append(lastLine, NL)[i + 1]
  <2>1. /\ count = Skipped /\ srci = dsti + count /\ inputIndex = Len(lastLine) + 1
        /\ Shifted(dsti)
        /\ \A i \in srci .. Len(lastLine) : inputBuffer[i] = Append(lastLine, NL)[i + 1]
    BY <1>1, <1>4 DEF Ordered, Trimming
  <2>2. /\ dsti \in Nat /\ srci \in Nat /\ count \in Nat /\ Len(lastLine) \in Nat
        /\ DOMAIN inputBuffer = 0 .. BufSize - 1 /\ BufSize \in Nat
    BY LineFacts, LineInputAssumption DEF LineInputAssumption, IInv, TypeOK
  <2>3. Len(lastLine) + 1 < BufSize
    <3>1. lines \in 0 .. MaxLines /\ inputIndex <= Room(lines)
      BY DEF IInv, TypeOK
    <3>2. Room(lines) < BufSize /\ Room(lines) \in Nat
      BY <3>1, RoomFits, RoomGrows
    <3> QED
      BY <2>1, <2>2, <3>1, <3>2
  <2>4. srci <= Len(lastLine) /\ dsti <= srci /\ dsti \in DOMAIN inputBuffer
    <3>1. srci < Len(lastLine) + 1
      BY <1>1, <2>1
    <3>2. dsti + count = srci /\ dsti <= srci
      BY <2>1, <2>2
    <3>3. dsti \in 0 .. BufSize - 1
      BY <2>2, <2>3, <3>1, <3>2
    <3> QED
      BY <2>2, <3>1, <3>2, <3>3
  <2>5. inputBuffer'[dsti] = Append(lastLine, NL)[Skipped + dsti + 1]
    <3>1. inputBuffer'[dsti] = inputBuffer[srci]
      BY <1>1, <2>4
    <3>2. srci \in srci .. Len(lastLine)
      BY <2>2, <2>4
    <3>3. inputBuffer[srci] = Append(lastLine, NL)[srci + 1]
      BY <2>1, <3>2
    <3>4. srci + 1 = Skipped + dsti + 1
      BY <2>1, <2>2
    <3> QED
      BY <3>1, <3>3, <3>4
  <2>6. ASSUME NEW i \in 0 .. dsti
        PROVE  inputBuffer'[i] = Append(lastLine, NL)[Skipped + i + 1]
    <3>1. CASE i = dsti
      BY <2>5, <3>1
    <3>2. CASE i # dsti
      <4>1. inputBuffer'[i] = inputBuffer[i] /\ i \in 0 .. dsti - 1
        BY <1>1, <2>2, <2>4, <3>2
      <4> QED
        BY <2>1, <4>1 DEF Shifted
    <3> QED
      BY <3>1, <3>2
  <2>7. ASSUME NEW i \in srci + 1 .. Len(lastLine)
        PROVE  inputBuffer'[i] = Append(lastLine, NL)[i + 1]
    <3>1. inputBuffer'[i] = inputBuffer[i] /\ i \in srci .. Len(lastLine)
      BY <1>1, <2>2, <2>3, <2>4
    <3> QED
      BY <2>1, <3>1
  <2>8. srci + 1 = (dsti + 1) + count /\ srci + 1 <= Len(lastLine) + 1
    BY <2>1, <2>2, <2>4
  <2>9. count = Skipped /\ inputIndex = Len(lastLine) + 1
    BY <2>1
  <2> QED
    BY <2>6, <2>7, <2>8, <2>9, Zenon
<1>5. (WantsMore =>
        /\ count = Skipped /\ srci = dsti + count /\ srci <= Len(lastLine) + 1
        /\ inputIndex = Len(lastLine) + 1
        /\ Shifted(dsti)
        /\ \A i \in srci .. Len(lastLine) : inputBuffer[i] = Append(lastLine, NL)[i + 1])'
  <2> SUFFICES ASSUME WantsMore
               PROVE  /\ count = Skipped /\ srci' = dsti' + count /\ srci' <= Len(lastLine) + 1
                      /\ inputIndex = Len(lastLine) + 1
                      /\ Shifted(dsti)'
                      /\ \A i \in srci' .. Len(lastLine) :
                           inputBuffer'[i] = Append(lastLine, NL)[i + 1]
    BY <1>1, <1>2
  <2>1. dsti \in Nat /\ dsti' - 1 = dsti
    BY <1>1 DEF IInv, TypeOK
  <2>2. Shifted(dsti)'
    BY <1>1, <1>2, <1>4, <2>1 DEF Shifted
  <2> QED
    BY <1>1, <1>4, <2>2
<1> QED
  BY <1>1, <1>3, <1>5 DEF Ordered, Waiting, Copying, Trimming

LEMMA EndShiftOrdered ==
  ASSUME IInv, Ordered, EndShift
  PROVE  Ordered'
<1>1. /\ pc = "shift" /\ pc' = "load" /\ srci >= inputIndex
      /\ UNCHANGED <<call, lastLine, inputBuffer, inputIndex, word, count>>
  BY DEF EndShift, ShiftGoesOn, kbdVars, bufVars, localVars, IInv, TypeOK
<1>2. Line' = Line /\ Skipped' = Skipped /\ (WantsMore' <=> WantsMore)
  BY <1>1 DEF Line, Skipped, WantsMore
<1>3. (word = Prefix(Line, Delims(call)))' /\ (WantsMore => Rest(lastLine) # <<>>)'
  BY <1>1, <1>2 DEF Ordered, Trimming
<1>4. ASSUME WantsMore
      PROVE  /\ count = Skipped /\ inputIndex = Len(lastLine) + 1
             /\ Shifted(Len(lastLine) + 1 - Skipped)
  <2>1. /\ count = Skipped /\ srci = dsti + count /\ srci <= Len(lastLine) + 1
        /\ inputIndex = Len(lastLine) + 1 /\ Shifted(dsti)
    BY <1>1, <1>4 DEF Ordered, Trimming
  <2>2. dsti \in Nat /\ srci \in Nat /\ count \in Nat /\ Len(lastLine) \in Nat
    BY LineFacts DEF IInv, TypeOK
  <2>3. dsti = Len(lastLine) + 1 - Skipped
    BY <1>1, <2>1, <2>2
  <2> QED
    BY <2>1, <2>3
<1>5. (Shifted(Len(lastLine) + 1 - Skipped))' <=> Shifted(Len(lastLine) + 1 - Skipped)
  BY <1>1, <1>2 DEF Shifted
<1> QED
  BY <1>1, <1>2, <1>3, <1>4, <1>5 DEF Ordered, Waiting, Copying, Trimming

LEMMA LoadIndexOrdered ==
  ASSUME IInv, Ordered, LoadIndex
  PROVE  Ordered'
<1>1. /\ pc = "load" /\ pc' = "store" /\ limit' = inputIndex - count
      /\ UNCHANGED <<call, lastLine, inputBuffer, inputIndex, word, count>>
  BY DEF LoadIndex, kbdVars, bufVars
<1>2. Line' = Line /\ Skipped' = Skipped /\ (WantsMore' <=> WantsMore)
  BY <1>1 DEF Line, Skipped, WantsMore
<1>3. (word = Prefix(Line, Delims(call)))' /\ (WantsMore => Rest(lastLine) # <<>>)'
  BY <1>1, <1>2 DEF Ordered, Trimming
<1>4. ASSUME WantsMore
      PROVE  limit' = Len(lastLine) + 1 - Skipped /\ Shifted(Len(lastLine) + 1 - Skipped)
  <2>1. /\ count = Skipped /\ inputIndex = Len(lastLine) + 1
        /\ Shifted(Len(lastLine) + 1 - Skipped)
    BY <1>1, <1>4 DEF Ordered, Trimming
  <2>2. limit' = inputIndex - count
    BY <1>1
  <2>3. limit' = Len(lastLine) + 1 - Skipped
    <3>1. Len(lastLine) \in Nat /\ count \in Nat
      BY LineFacts DEF IInv, TypeOK
    <3> QED
      BY ONLY <2>1, <2>2, <3>1
  <2> QED
    BY <2>1, <2>3
<1>5. (Shifted(Len(lastLine) + 1 - Skipped))' <=> Shifted(Len(lastLine) + 1 - Skipped)
  BY <1>1, <1>2 DEF Shifted
<1> QED
  BY <1>1, <1>2, <1>3, <1>4, <1>5 DEF Ordered, Waiting, Copying, Trimming

LEMMA StoreIndexOrdered ==
  ASSUME IInv, Ordered, StoreIndex
  PROVE  Ordered'
<1>1. /\ pc = "store" /\ inputIndex' = limit /\ UNCHANGED <<lastLine, inputBuffer, word>>
  BY DEF StoreIndex, kbdVars, localVars
<1>2. CASE WantsMore
  <2>1. pc' = "wait" /\ call' = "getLine"
    BY <1>2 DEF StoreIndex, WantsMore
  <2>2. /\ limit = Len(lastLine) + 1 - Skipped /\ Shifted(Len(lastLine) + 1 - Skipped)
        /\ Rest(lastLine) # <<>>
    BY <1>1, <1>2 DEF Ordered, Trimming
  <2> DEFINE rest == Rest(lastLine)
  <2>3. /\ lastLine \in Seq(Chars) /\ rest \in Seq(Chars) /\ Skipped \in Nat
        /\ Len(lastLine) \in Nat /\ Len(rest) = Len(lastLine) - Skipped
        /\ Skipped < Len(lastLine)
        /\ \A i \in 1 .. Len(lastLine) - Skipped : rest[i] = lastLine[Skipped + i]
    BY <2>2, LineFacts
  <2>4. Line' = rest
    BY <1>1, <2>1 DEF Line
  <2> HIDE DEF rest
  <2>5. PICK n \in Nat, l \in Nat :
              n = Len(rest) /\ l = Len(lastLine) /\ n = l - Skipped /\ Skipped + n = l
    <3>1. Len(rest) \in Nat /\ Skipped + Len(rest) = Len(lastLine)
      BY <2>3
    <3> QED
      BY <2>3, <3>1
  <2>6. ASSUME NEW i \in 1 .. n + 1
        PROVE  inputBuffer[i - 1] = Append(rest, NL)[i]
    <3>1. inputBuffer[i - 1] = Append(lastLine, NL)[Skipped + i]
      <4>1. i - 1 \in 0 .. (Len(lastLine) + 1 - Skipped) - 1 /\ Skipped + (i - 1) + 1 = Skipped + i
        BY <2>3, <2>5
      <4> QED
        BY <2>2, <4>1 DEF Shifted
    <3>2. CASE i <= n
      <4>1. i \in 1 .. Len(lastLine) - Skipped /\ Skipped + i \in 1 .. Len(lastLine)
        BY <2>3, <2>5, <3>2
      <4>2. Append(lastLine, NL)[Skipped + i] = lastLine[Skipped + i]
        BY <2>3, <4>1, WithNewline
      <4>3. Append(rest, NL)[i] = rest[i]
        BY <2>3, <2>5, <3>2, WithNewline
      <4> QED
        BY <2>3, <3>1, <4>1, <4>2, <4>3
    <3>3. CASE i = n + 1
      <4>1. Skipped + i = Len(lastLine) + 1
        <5>1. Skipped \in Nat
          BY <2>3
        <5>2. Skipped + i = l + 1
          BY ONLY <2>5, <3>3, <5>1, n \in Nat, l \in Nat
        <5> QED
          BY <2>5, <5>2
      <4>2. Append(lastLine, NL)[Len(lastLine) + 1] = NL /\ Append(rest, NL)[n + 1] = NL
        BY <2>3, <2>5, WithNewline
      <4> QED
        BY <3>1, <3>3, <4>1, <4>2
    <3>4. i <= n \/ i = n + 1
      BY ONLY n \in Nat, i \in 1 .. n + 1
    <3> QED
      BY <3>2, <3>3, <3>4
  <2>7. Len(Append(rest, NL)) = n + 1 /\ inputIndex' = n + 1
    BY <1>1, <2>2, <2>3, <2>5, WithNewline
  <2>8. Holds(Append(Line, NL))'
    BY <1>1, <2>4, <2>6, <2>7 DEF Holds
  <2>9. Complete'
    BY <1>1, <2>2 DEF Complete
  <2> QED
    BY <2>1, <2>8, <2>9 DEF Ordered, Waiting, Copying, Trimming
<1>3. CASE ~WantsMore
  <2>1. pc' = "prompt"
    BY <1>3 DEF StoreIndex, WantsMore
  <2> QED
    BY <2>1 DEF Ordered, Waiting, Copying, Trimming
<1> QED
  BY <1>2, <1>3

(* Nothing that the lines are about changes.                               *)
LEMMA StillOrdered ==
  ASSUME Ordered, UNCHANGED <<lastLine, bufVars, localVars, pc, call>>
  PROVE  Ordered'
<1>1. /\ UNCHANGED <<lastLine, inputBuffer, inputIndex, word, count, dsti, srci, limit, pc, call>>
  BY DEF bufVars, localVars
<1>2. /\ UNCHANGED <<Line, Skipped>> /\ (WantsMore' <=> WantsMore) /\ (Complete' <=> Complete)
  BY <1>1 DEF Line, Skipped, WantsMore, Complete
<1>3. Waiting' /\ Copying'
  BY <1>1, <1>2 DEF Ordered, Waiting, Copying, Holds
<1>4. Trimming'
  BY <1>1, <1>2 DEF Ordered, Trimming, Holds, Shifted
<1> QED
  BY <1>3, <1>4 DEF Ordered

LEMMA ClearOrdered ==
  ASSUME ClearInputBuffer
  PROVE  Ordered'
BY DEF ClearInputBuffer, Ordered, Waiting, Copying, Trimming

LEMMA NextOrdered ==
  IInv /\ (orderly => Ordered) /\ [Next]_vars => (orderly => Ordered)'
<1> SUFFICES ASSUME IInv, orderly => Ordered, [Next]_vars, orderly'
             PROVE  Ordered'
  OBVIOUS
<1>1. CASE Enter
  <2>1. orderly /\ Expected
    BY <1>1 DEF Enter
  <2>2. IInv'
    BY NextIInv
  <2> QED
    BY <1>1, <2>1, <2>2, EnterOrdered
<1>2. CASE (\E c \in Letters \cup {SP} : TypeChar(c)) \/ Backspace
  <2>1. UNCHANGED <<orderly, lastLine, bufVars, localVars, pc, call>>
    BY <1>2 DEF TypeChar, Backspace
  <2> QED
    BY <2>1, StillOrdered
<1>3. CASE Shell
  <2>1. orderly
    BY <1>3
       DEF Shell, ClearInputBuffer, StopWaiting, TestCell, CopyChar, EndCopy, ScanCell,
           ScanBlank, EndScan, ShiftChar, EndShift, LoadIndex, StoreIndex, kbdVars
  <2> QED
    BY <1>3, <2>1, ClearOrdered, StopWaitingOrdered, TestCellOrdered, CopyCharOrdered,
       EndCopyOrdered, ScanCellOrdered, ScanBlankOrdered, EndScanOrdered, ShiftCharOrdered,
       EndShiftOrdered, LoadIndexOrdered, StoreIndexOrdered DEF Shell
<1>4. CASE UNCHANGED vars
  BY <1>4, StillOrdered DEF vars, kbdVars
<1> QED
  BY <1>1, <1>2, <1>3, <1>4 DEF Next, Keyboard

(* As long as the lines come as the shell expects them, getStr returns the *)
(* first word of the line and getLine what is behind it, as typed, cut to  *)
(* the buffer of the caller (iobuffers.c:11-69, kernel.c:79-104).          *)
THEOREM LineIsRead == Spec => []ShellReadsTheLine
<1>1. Init => (orderly => Ordered)
  BY InitOrdered
<1>2. (orderly => Ordered) => ShellReadsTheLine
  <2> SUFFICES ASSUME orderly, Ordered,
                      pc \in {"scan", "scanline", "shift", "load", "store"}
               PROVE  word = IF call = "getStr" THEN Prefix(lastLine, Blanks)
                             ELSE Prefix(Rest(lastLine), {NL})
    BY DEF ShellReadsTheLine
  <2>1. word = Prefix(Line, Delims(call))
    BY DEF Ordered, Trimming
  <2> QED
    BY <2>1 DEF Line, Delims
<1> QED
  BY <1>1, <1>2, NextOrdered, Invariance, PTL DEF Spec

-----------------------------------------------------------------------------
(* The line input is the queue of LineQueue as long as the lines come as   *)
(* the shell expects them.                                                 *)

(* What has been copied and passed over when trimInput looks for the first *)
(* character to keep, and that no line comes in behind the moving loop.    *)
Taking ==
  /\ pc \in {"scan", "scanline"} =>
       /\ Holds(Append(Line, NL))
       /\ StopsAt(Line, Delims(call), Len(word))
       /\ Len(word) <= count
       /\ \A i \in Len(word) .. count - 1 : inputBuffer[i] \in Blanks
  /\ pc \in {"load", "store"} => Undisturbed

LEMMA NextTaking ==
  ASSUME IInv, Ordered, Taking, [Next]_vars, orderly'
  PROVE  Taking'
<1>0. count \in Nat /\ Len(word) \in Nat /\ srci \in Nat /\ inputIndex \in Int
  BY DEF IInv, TypeOK
<1>1. CASE pc' \notin {"scan", "scanline", "load", "store"}
  BY <1>1 DEF Taking
<1>2. CASE EndCopy
  <2>1. /\ pc \in {"space", "newline"} /\ ~CopyGoesOn /\ pc' = "scan" /\ count' = Len(word)
        /\ UNCHANGED <<call, lastLine, inputBuffer, inputIndex, word>>
    BY <1>2 DEF EndCopy, kbdVars, bufVars
  <2>2. Holds(Append(Line, NL)) /\ StopsAt(Line, Delims(call), Len(word))
    BY <2>1, CopyStops
  <2>3. Line' = Line
    BY <2>1 DEF Line
  <2>4. Holds(Append(Line, NL))' /\ StopsAt(Line', Delims(call'), Len(word'))
    BY <2>1, <2>2, <2>3 DEF Holds
  <2>5. Len(word') <= count' /\ Len(word') .. count' - 1 = {}
    BY <1>0, <2>1
  <2> QED
    BY <2>1, <2>4, <2>5 DEF Taking
<1>3. CASE ScanBlank
  <2>1. /\ pc \in {"scan", "scanline"} /\ pc' = "scan" /\ inputBuffer[count] \in Blanks
        /\ count' = count + 1
        /\ UNCHANGED <<call, lastLine, inputBuffer, inputIndex, word>>
    BY <1>3 DEF ScanBlank, TrimsCell, Delim, Blanks, kbdVars, bufVars
  <2>2. Line' = Line
    BY <2>1 DEF Line
  <2>3. /\ Holds(Append(Line, NL)) /\ StopsAt(Line, Delims(call), Len(word)) /\ Len(word) <= count
        /\ \A i \in Len(word) .. count - 1 : inputBuffer[i] \in Blanks
    BY <2>1 DEF Taking
  <2>4. Holds(Append(Line, NL))' /\ StopsAt(Line', Delims(call'), Len(word'))
    BY <2>1, <2>2, <2>3 DEF Holds
  <2>5. Len(word') <= count' /\ \A i \in Len(word') .. count' - 1 : inputBuffer'[i] \in Blanks
    BY <1>0, <2>1, <2>3
  <2> QED
    BY <2>1, <2>4, <2>5 DEF Taking
<1>4. CASE EndShift
  BY <1>0, <1>4 DEF EndShift, ShiftGoesOn, Taking, Undisturbed, bufVars, localVars
<1>5. CASE LoadIndex
  BY <1>5 DEF LoadIndex, Taking, Undisturbed, bufVars
<1>6. CASE UNCHANGED <<lastLine, bufVars, localVars, pc, call>>
  <2>1. UNCHANGED <<inputBuffer, inputIndex, word, count, srci, pc, call, Line>>
    BY <1>6 DEF bufVars, localVars, Line
  <2>2. Holds(Append(Line, NL))' <=> Holds(Append(Line, NL))
    BY <2>1 DEF Holds
  <2>3. StopsAt(Line', Delims(call'), Len(word')) <=> StopsAt(Line, Delims(call), Len(word))
    BY <2>1
  <2> QED
    BY <2>1, <2>2, <2>3 DEF Taking, Undisturbed
<1>7. CASE Enter
  <2>1. pc' = "wait"
    BY <1>7 DEF Enter, Expected
  <2> QED
    BY <1>1, <2>1
<1>8. (\E c \in Letters \cup {SP} : TypeChar(c)) \/ Backspace \/ UNCHANGED vars
        => UNCHANGED <<lastLine, bufVars, localVars, pc, call>>
  BY DEF TypeChar, Backspace, vars, kbdVars
<1>9. \/ ClearInputBuffer \/ StopWaiting \/ TestCell \/ CopyChar \/ EndScan \/ ShiftChar
      \/ StoreIndex
      => pc' \notin {"scan", "scanline", "load", "store"}
  BY DEF ClearInputBuffer, StopWaiting, TestCell, CopyChar, LoopTop, EndScan, ShiftChar, StoreIndex
<1>10. CASE ScanCell
  <2>1. /\ pc = "scan" /\ pc' = "scanline"
        /\ UNCHANGED <<inputBuffer, inputIndex, word, count, call, Line>>
    BY <1>10 DEF ScanCell, kbdVars, bufVars, localVars, Line
  <2>2. Holds(Append(Line, NL))' <=> Holds(Append(Line, NL))
    BY <2>1 DEF Holds
  <2>3. StopsAt(Line', Delims(call'), Len(word')) <=> StopsAt(Line, Delims(call), Len(word))
    BY <2>1
  <2> QED
    BY <2>1, <2>2, <2>3 DEF Taking
<1> QED
  BY <1>1, <1>2, <1>3, <1>4, <1>5, <1>6, <1>7, <1>8, <1>9, <1>10 DEF Next, Keyboard, Shell

(* An expected line is the only one in the queue.                          *)
LEMMA EnterQueues ==
  ASSUME IInv, Indexes, Enter, Expected
  PROVE  Queue!Enter
<1> DEFINE line == Append(temp, NL)
<1>1. temp \in Seq(Letters \cup {SP}) /\ temp \in Seq(Chars) /\ Len(temp) \in Nat
  <2>1. temp \in Seq(Letters \cup {SP})
    BY DEF IInv, TypeOK
  <2> QED
    BY ONLY <2>1 DEF Chars
<1>2. pc = "wait" /\ inputIndex = 0 /\ ~Moving
  BY DEF Expected, Moving
<1>3. Unread = <<>>
  <2>1. Unread = Part(inputBuffer, 0, 0)
    BY <1>2, UnreadParts
  <2> QED
    BY <2>1, BoundsHold, EmptyPart DEF Bounds
<1>4. line \in Seq(Chars) /\ Len(line) = Len(temp) + 1 /\ line[Len(temp) + 1] = NL
      /\ \A i \in 1 .. Len(temp) : line[i] = temp[i]
  BY <1>1, WithNewline
<1>5. Unread' = <<>> \o line
  BY <1>2, <1>3, EnterStep
<1>6. Unread' = line
  BY <1>4, <1>5, ConcatEmptySeq
<1>7. \A i \in 1 .. Len(temp) : temp[i] # NL
  BY <1>1, LineInputAssumption DEF LineInputAssumption, SP, NL
<1> HIDE DEF line
<1>8. /\ Len(Unread') > Len(Unread) /\ SubSeq(Unread', 1, Len(Unread)) = Unread
      /\ Unread'[Len(Unread')] = NL
      /\ \A i \in Len(Unread) + 1 .. Len(Unread') - 1 : Unread'[i] # NL
  BY <1>1, <1>3, <1>4, <1>6, <1>7
<1> QED
  BY <1>8 DEF Enter, Queue!Enter, Queue!NL, NL

(* The word and the blanks behind it leave the queue when trimInput has    *)
(* found what comes next, which may lie behind all that was entered.       *)
LEMMA EndScanTakes ==
  ASSUME IInv, Indexes, Ordered, Taking, EndScan
  PROVE  Queue!TakeUpTo(Delims(call))
<1>1. /\ pc = "scanline" /\ inputBuffer[count] \notin Blanks /\ lines' = lines
  BY DEF EndScan, TrimsCell, Delim, Blanks, kbdVars, Ordered, Trimming
<1>2. PICK k \in Nat : k = Len(word)
  BY DEF IInv, TypeOK
<1>3. PICK n \in Nat : n = Len(Line)
  BY LineFacts
<1>4. Line \in Seq(Chars) /\ count \in Nat /\ Size \in Nat
  BY LineFacts, LineInputAssumption DEF LineInputAssumption, IInv, TypeOK
<1>5. /\ Holds(Append(Line, NL)) /\ StopsAt(Line, Delims(call), k) /\ k <= count
      /\ \A i \in k .. count - 1 : inputBuffer[i] \in Blanks
  BY <1>1, <1>2 DEF Taking
<1>6. inputIndex = n + 1 /\ \A i \in 1 .. n + 1 : inputBuffer[i - 1] = Append(Line, NL)[i]
  BY <1>3, <1>4, <1>5, WithNewline DEF Holds
<1>7. /\ k <= n /\ k <= Size - 1
      /\ \A i \in 1 .. k : Line[i] \notin Delims(call)
      /\ k = Size - 1 \/ k = n \/ Line[k + 1] \in Delims(call)
  BY <1>3, <1>5 DEF StopsAt
<1>8. inputBuffer \in Buffers /\ BufSize \in Nat /\ n + 1 <= BufSize
  BY <1>6, BoundsHold DEF Bounds
<1>9. PICK first \in Nat : first = 0
  OBVIOUS
<1> DEFINE q == Part(inputBuffer, first, n + 1)
           left == Part(inputBuffer, count, n + 1)
<1>10. Unread = q /\ Unread' = left
  BY <1>6, <1>9, EndScanLeaves
<1>11. /\ q \in Seq(Chars) /\ Len(q) = n + 1
       /\ left \in Seq(Chars) /\ Len(left) = IF n + 1 > count THEN n + 1 - count ELSE 0
  <2>1. PICK b \in Int : b = n + 1
    OBVIOUS
  <2>2. /\ Part(inputBuffer, first, b) \in Seq(Chars)
        /\ Len(Part(inputBuffer, first, b)) = IF b > first THEN b - first ELSE 0
        /\ Part(inputBuffer, count, b) \in Seq(Chars)
        /\ Len(Part(inputBuffer, count, b)) = IF b > count THEN b - count ELSE 0
    BY <1>4, <1>8, <2>1, PartIsSeq
  <2>3. q = Part(inputBuffer, first, b) /\ left = Part(inputBuffer, count, b)
    BY <2>1
  <2> HIDE DEF q, left
  <2> QED
    BY <1>4, <1>9, <2>1, <2>2, <2>3
<1>12. \A i \in 1 .. n + 1 : q[i] = inputBuffer[i - 1]
  BY <1>9 DEF Part
<1>13. \A i \in 1 .. Len(left) : left[i] = inputBuffer[count + i - 1]
  <2>1. \A i \in DOMAIN left : left[i] = inputBuffer[count + i - 1]
    BY PartCells
  <2> HIDE DEF left
  <2>2. DOMAIN left = 1 .. Len(left)
    BY <1>11
  <2> QED
    BY <2>1, <2>2
<1> HIDE DEF q, left
<1>14. PICK m \in k .. n + 1 : m = IF count <= n + 1 THEN count ELSE n + 1
  BY <1>4, <1>5, <1>7
<1>15. \A i \in 1 .. k : q[i] \notin Delims(call)
  BY <1>3, <1>4, <1>6, <1>7, <1>12, WithNewline
<1>16. k = Size - 1 \/ (k < n + 1 /\ q[k + 1] \in Delims(call))
  <2>1. k + 1 \in 1 .. n + 1 /\ q[k + 1] = Append(Line, NL)[k + 1]
    <3>1. k + 1 \in 1 .. n + 1 /\ (k + 1) - 1 = k
      BY <1>7
    <3> QED
      BY <1>6, <1>12, <3>1
  <2>2. CASE k = n
    BY <1>3, <1>4, <2>1, <2>2, WithNewline DEF Delims, Blanks
  <2>3. CASE k # n
    <3>1. k + 1 \in 1 .. n
      BY <1>7, <2>3
    <3>2. Append(Line, NL)[k + 1] = Line[k + 1]
      BY <1>3, <1>4, <3>1, WithNewline
    <3> QED
      BY <1>7, <2>1, <2>3, <3>1, <3>2
  <2> QED
    BY <2>2, <2>3
<1>17. \A i \in k + 1 .. m : q[i] \in Blanks
  <2> SUFFICES ASSUME NEW i \in k + 1 .. m
               PROVE  q[i] \in Blanks
    OBVIOUS
  <2>1. i \in 1 .. n + 1 /\ i - 1 \in k .. count - 1
    BY <1>4, <1>14
  <2> QED
    BY <1>5, <1>12, <2>1
<1>18. m = n + 1 \/ q[m + 1] \notin Blanks
  <2>1. m # n + 1 => m + 1 \in 1 .. n + 1 /\ (m + 1) - 1 = count
    BY <1>4, <1>14
  <2> QED
    BY <1>1, <1>12, <2>1
<1>19. left = SubSeq(q, m + 1, n + 1)
  <2>1. Len(left) = n + 1 - m
    BY <1>4, <1>11, <1>14
  <2>2. /\ SubSeq(q, m + 1, n + 1) \in Seq(Chars) /\ Len(SubSeq(q, m + 1, n + 1)) = n + 1 - m
        /\ \A i \in 1 .. n + 1 - m : SubSeq(q, m + 1, n + 1)[i] = q[m + i]
    BY <1>11, <1>14
  <2>3. ASSUME NEW i \in 1 .. Len(left)
        PROVE  left[i] = SubSeq(q, m + 1, n + 1)[i]
    <3>1. i \in 1 .. n + 1 - m /\ count = m /\ m + i \in 1 .. n + 1 /\ (m + i) - 1 = count + i - 1
      BY <1>4, <1>14, <2>1
    <3> QED
      BY <1>11, <1>12, <1>13, <2>2, <3>1
  <2> QED
    BY <1>11, <2>1, <2>2, <2>3, SeqEqual
<1>20. /\ q # <<>> /\ k \in 0 .. Len(q) /\ m \in k .. Len(q) /\ k < Size
       /\ k = Size - 1 \/ (k < Len(q) /\ q[k + 1] \in Delims(call))
       /\ m = Len(q) \/ q[m + 1] \notin Blanks
       /\ left = SubSeq(q, m + 1, Len(q))
  BY <1>4, <1>7, <1>11, <1>14, <1>16, <1>18, <1>19
<1> QED
  BY <1>1, <1>10, <1>15, <1>17, <1>20
     DEF Queue!TakeUpTo, Queue!Blanks, Queue!SP, Queue!NL, Blanks, SP, NL

(* Each step of the shell and of the handler is one of the queue or none.  *)
LEMMA QueueStep ==
  ASSUME IInv, Indexes, Ordered, Taking, [Next]_vars, orderly'
  PROVE  Queue!Next \/ UNCHANGED <<Unread, lines>>
<1>1. CASE Enter
  BY <1>1, EnterQueues DEF Enter, Queue!Next
<1>2. CASE ClearInputBuffer
  <2>1. inputBuffer' = inputBuffer /\ inputIndex' = 0 /\ ~Moving' /\ lines' = lines
    BY <1>2 DEF ClearInputBuffer, Moving, kbdVars
  <2>2. Unread' = Part(inputBuffer, 0, 0)
    BY <2>1, PrimedParts
  <2>3. Unread' = <<>>
    BY <2>2, BoundsHold, EmptyPart DEF Bounds
  <2> QED
    BY <2>1, <2>3 DEF Queue!Clear, Queue!Next
<1>3. CASE EndScan
  <2>1. Queue!TakeUpTo(Delims(call)) /\ call \in {"getStr", "getLine"}
    BY <1>3, EndScanTakes DEF IInv, TypeOK
  <2>2. CASE call = "getStr"
    <3>1. Delims(call) = Queue!Blanks
      BY <2>2 DEF Delims, Blanks, SP, NL, Queue!Blanks, Queue!SP, Queue!NL
    <3> QED
      BY <2>1, <3>1 DEF Queue!GetStr, Queue!Next
  <2>3. CASE call # "getStr"
    <3>1. Delims(call) = {Queue!NL}
      BY <2>3 DEF Delims, NL, Queue!NL
    <3> QED
      BY <2>1, <3>1 DEF Queue!GetLine, Queue!Next
  <2> QED
    BY <2>2, <2>3
<1>4. CASE ShiftChar
  BY <1>4, ShiftKeeps DEF ShiftChar, kbdVars
<1>5. CASE StoreIndex
  BY <1>5, StoreKeeps DEF StoreIndex, Taking, kbdVars
<1>6. CASE UNCHANGED <<inputBuffer, inputIndex, dsti, srci, lines>> /\ (Moving' <=> Moving)
  BY <1>6, UnreadParts, PrimedParts
<1>7. (\E c \in Letters \cup {SP} : TypeChar(c)) \/ Backspace \/ UNCHANGED vars
        => UNCHANGED <<inputBuffer, inputIndex, dsti, srci, lines, pc>>
  BY DEF TypeChar, Backspace, vars, kbdVars, bufVars, localVars
<1>8. StopWaiting \/ TestCell \/ CopyChar \/ EndCopy \/ ScanCell \/ ScanBlank
        => UNCHANGED <<inputBuffer, inputIndex, dsti, srci, lines>> /\ ~Moving /\ ~Moving'
  BY DEF StopWaiting, TestCell, CopyChar, LoopTop, EndCopy, ScanCell, ScanBlank, kbdVars, bufVars,
     localVars, Moving
<1>9. EndShift \/ LoadIndex
        => UNCHANGED <<inputBuffer, inputIndex, dsti, srci, lines>> /\ Moving /\ Moving'
  BY DEF EndShift, LoadIndex, kbdVars, bufVars, localVars, Moving
<1>10. pc' = pc => (Moving' <=> Moving)
  BY DEF Moving
<1> QED
  BY <1>1, <1>2, <1>3, <1>4, <1>5, <1>6, <1>7, <1>8, <1>9, <1>10 DEF Next, Keyboard, Shell

(* Reading a line takes getStr, trimInput and getLine many steps with      *)
(* interrupts between them; what their caller sees is a queue from whose   *)
(* front a word or the rest of a line is taken at once (iobuffers.c:9-69,  *)
(* keyboard.c:103-114).                                                    *)
THEOREM QueueIsImplemented == Spec => ImplementsQueue
<1> DEFINE Inv == IInv /\ Indexes /\ (orderly => Ordered /\ Taking)
<1>1. Init => Inv
  BY InitIInv, InitOrdered DEF Init, Indexes, Moving, Taking
<1>2. [Next]_vars /\ orderly' => orderly
  BY DEF Next, Keyboard, TypeChar, Backspace, Enter, Shell, ClearInputBuffer, StopWaiting,
         TestCell, CopyChar, EndCopy, ScanCell, ScanBlank, EndScan, ShiftChar, EndShift,
         LoadIndex, StoreIndex, vars, kbdVars
<1>3. Inv /\ [Next]_vars => Inv'
  BY <1>2, NextIInv, NextIndexes, NextOrdered, NextTaking
<1>4. Inv /\ [Next]_vars => [orderly' => Queue!Next]_<<Unread, lines>>
  <2> SUFFICES ASSUME Inv, [Next]_vars, orderly'
               PROVE  Queue!Next \/ UNCHANGED <<Unread, lines>>
    OBVIOUS
  <2> QED
    BY <1>2, QueueStep
<1>5. Init => Queue!Init
  <2> SUFFICES ASSUME Init
               PROVE  Queue!Init
    OBVIOUS
  <2>1. Unread = Part(inputBuffer, 0, 0) /\ lines = 0
    BY UnreadParts DEF Init, Moving
  <2>2. Bounds
    BY <1>1, BoundsHold
  <2>3. Unread = <<>>
    BY <2>1, <2>2, EmptyPart DEF Bounds
  <2> QED
    BY <2>1, <2>3 DEF Queue!Init
<1> QED
  BY <1>1, <1>3, <1>4, <1>5, PTL DEF Spec, ImplementsQueue

-----------------------------------------------------------------------------
(* Steps of the shell. *)

(* Behind the room of the lines entered so far no cell was written, and    *)
(* none of the indexes gets there for good.                                *)
InBuffer ==
  /\ \A i \in 0 .. BufSize - 1 : i >= Room(lines) => inputBuffer[i] = NUL
  /\ count < BufSize /\ srci < BufSize

(* How many steps the shell may still take before it waits.                *)
StepsLeft ==
  IF pc = "wait" THEN 0
  ELSE IF pc = "prompt" THEN 1
  ELSE IF pc = "store" THEN 2
  ELSE IF pc = "load" THEN 3
  ELSE IF pc = "shift" THEN 4 + (BufSize - srci)
  ELSE IF pc = "scanline" THEN 4 + 2 * (BufSize - count)
  ELSE IF pc = "scan" THEN 5 + 2 * (BufSize - count)
  ELSE IF pc = "take" THEN 4 + 3 * (BufSize - Len(word))
  ELSE IF pc = "newline" THEN 5 + 3 * (BufSize - Len(word))
  ELSE 6 + 3 * (BufSize - Len(word))

StepsBounded == StepsLeft \in 0 .. 3 * BufSize + 6 /\ (StepsLeft = 0 <=> pc = "wait")

StepsCounted ==
  [][pc # "wait" => IF Shell THEN StepsLeft' < StepsLeft ELSE StepsLeft' = StepsLeft]_vars

LEMMA Counters ==
  ASSUME IInv
  PROVE  /\ BufSize \in Nat /\ Len(word) \in Nat /\ Len(word) < BufSize
         /\ count \in Nat /\ srci \in Nat /\ dsti \in Nat /\ inputIndex \in Int
         /\ Room(lines) \in Nat /\ Room(lines) < BufSize
         /\ inputIndex <= Room(lines)
         /\ lines \in Nat /\ Len(temp) \in Nat /\ Len(temp) <= MaxLineLen
         /\ MaxLineLen \in Nat
         /\ pc \in {"prompt", "wait", "space", "newline", "take", "scan", "scanline",
                    "shift", "load", "store"}
<1>1. /\ Size \in Nat \ {0} /\ BufSize \in Nat /\ Size <= BufSize /\ MaxLineLen \in Nat
      /\ MaxLines \in Nat
  BY LineInputAssumption DEF LineInputAssumption
<1>2. lines \in 0 .. MaxLines /\ lines \in Nat
  BY <1>1 DEF IInv, TypeOK
<1>3. Len(word) \in Nat /\ Len(word) <= Size - 1 /\ Len(temp) \in Nat
  BY DEF IInv, TypeOK, WordFitsBuffer
<1>4. Len(word) < BufSize
  BY <1>1, <1>3
<1>5. Room(lines) \in Nat /\ Room(lines) < BufSize
  BY <1>2, RoomFits, RoomGrows
<1> QED
  BY <1>1, <1>2, <1>3, <1>4, <1>5 DEF IInv, TypeOK

LEMMA InitInBuffer == Init => InBuffer
BY LineInputAssumption DEF LineInputAssumption, Init, InBuffer

LEMMA SameInBuffer ==
  ASSUME InBuffer, UNCHANGED <<inputBuffer, lines, count, srci>>
  PROVE  InBuffer'
BY DEF InBuffer

LEMMA EnterInBuffer == ASSUME IInv, InBuffer, Enter PROVE InBuffer'
<1>1. PICK last \in Nat : last = Len(temp) /\ last <= MaxLineLen
  BY Counters
<1>2. PICK room \in Nat : room = Room(lines)
  BY Counters
<1>3. Room(lines') = room + MaxLineLen + 1
  BY <1>2, Counters, RoomGrows DEF Enter
<1>4. ASSUME NEW i \in 0 .. BufSize - 1, i >= Room(lines')
      PROVE  inputBuffer'[i] = NUL
  <2>1. i > inputIndex + last /\ i >= room
    BY <1>1, <1>2, <1>3, <1>4, Counters
  <2>2. DOMAIN inputBuffer = 0 .. BufSize - 1
    BY DEF IInv, TypeOK
  <2>3. i \notin inputIndex .. inputIndex + last
    BY <2>1, Counters
  <2>4. inputBuffer'[i] = inputBuffer[i]
    BY <1>1, <2>2, <2>3 DEF Enter
  <2> QED
    BY <1>2, <2>1, <2>4 DEF InBuffer
<1> QED
  BY <1>4 DEF InBuffer, Enter, localVars

LEMMA NextInBuffer == IInv /\ Indexes /\ InBuffer /\ [Next]_vars => InBuffer'
<1> SUFFICES ASSUME IInv, Indexes, InBuffer, [Next]_vars PROVE InBuffer'
  OBVIOUS
<1>1. CASE Enter
  BY <1>1, EnterInBuffer
<1>2. CASE (\E c \in Letters \cup {SP} : TypeChar(c)) \/ Backspace \/ UNCHANGED vars
  BY <1>2, SameInBuffer DEF TypeChar, Backspace, vars, bufVars, localVars, kbdVars
<1>3. CASE \/ ClearInputBuffer \/ StopWaiting \/ TestCell \/ CopyChar \/ ScanCell
           \/ EndShift \/ LoadIndex \/ StoreIndex
  BY <1>3, SameInBuffer
     DEF ClearInputBuffer, StopWaiting, TestCell, CopyChar, ScanCell, EndShift, LoadIndex,
         StoreIndex, kbdVars, bufVars, localVars
<1>4. CASE EndCopy
  <2>1. UNCHANGED <<inputBuffer, lines, srci>> /\ count' = Len(word)
    BY <1>4 DEF EndCopy, kbdVars, bufVars
  <2> QED
    BY <2>1, Counters DEF InBuffer
<1>5. CASE ScanBlank
  <2>1. UNCHANGED <<inputBuffer, lines, srci>> /\ count' = count + 1
    BY <1>5 DEF ScanBlank, kbdVars, bufVars
  <2>2. count \in 0 .. BufSize - 1 /\ inputBuffer[count] # NUL
    BY <1>5, Counters DEF ScanBlank, TrimsCell, Delim, SP, NL, NUL, InBuffer
  <2>3. count < Room(lines)
    BY <2>2, Counters DEF InBuffer
  <2> QED
    BY <2>1, <2>3, Counters DEF InBuffer
<1>6. CASE EndScan
  BY <1>6 DEF EndScan, kbdVars, bufVars, InBuffer
<1>7. CASE ShiftChar
  <2>1. /\ UNCHANGED <<lines, count>> /\ srci' = srci + 1 /\ srci < inputIndex
        /\ inputBuffer' = [inputBuffer EXCEPT ![dsti] = inputBuffer[srci]]
    BY <1>7 DEF ShiftChar, ShiftGoesOn, kbdVars
  <2>2. srci' < BufSize
    BY <2>1, Counters
  <2>3. ASSUME NEW i \in 0 .. BufSize - 1, i >= Room(lines)
        PROVE  inputBuffer'[i] = NUL
    <3>1. CASE i = dsti
      <4>1. srci < Room(lines)
        BY <2>1, Counters
      <4>2. dsti <= srci
        BY <1>7, Counters DEF ShiftChar, Indexes, Moving
      <4> QED
        BY <2>3, <3>1, <4>1, <4>2, Counters
    <3>2. CASE i # dsti
      BY <2>1, <2>3, <3>2 DEF InBuffer, IInv, TypeOK
    <3> QED
      BY <3>1, <3>2
  <2> QED
    BY <2>1, <2>2, <2>3 DEF InBuffer
<1> QED
  BY <1>1, <1>2, <1>3, <1>4, <1>5, <1>6, <1>7 DEF Next, Keyboard, Shell

LEMMA StepsAre == ASSUME IInv, InBuffer PROVE StepsBounded
<1>1. PICK size \in Nat : size = BufSize /\ size > 0
  BY Counters
<1>2. PICK len \in 0 .. size - 1 : len = Len(word)
  BY <1>1, Counters
<1>3. PICK src \in 0 .. size - 1 : src = srci
  BY <1>1, Counters DEF InBuffer
<1>4. PICK cnt \in 0 .. size - 1 : cnt = count
  BY <1>1, Counters DEF InBuffer
<1>5. CASE pc = "wait"
  BY <1>1, <1>5 DEF StepsBounded, StepsLeft
<1>6. CASE pc \in {"prompt", "store", "load"}
  <2>1. StepsLeft \in {1, 2, 3}
    BY <1>6 DEF StepsLeft
  <2> QED
    BY <1>1, <1>6, <2>1 DEF StepsBounded
<1>7. CASE pc \in {"shift", "scan", "scanline", "space", "newline", "take"}
  <2>1. StepsLeft \in {4 + (size - src), 4 + 2 * (size - cnt), 5 + 2 * (size - cnt),
                       4 + 3 * (size - len), 5 + 3 * (size - len), 6 + 3 * (size - len)}
    BY <1>1, <1>2, <1>3, <1>4, <1>7 DEF StepsLeft
  <2>2. /\ 4 + (size - src) \in 1 .. 3 * size + 6
        /\ 4 + 2 * (size - cnt) \in 1 .. 3 * size + 6 /\ 5 + 2 * (size - cnt) \in 1 .. 3 * size + 6
        /\ 4 + 3 * (size - len) \in 1 .. 3 * size + 6 /\ 5 + 3 * (size - len) \in 1 .. 3 * size + 6
        /\ 6 + 3 * (size - len) \in 1 .. 3 * size + 6
    BY <1>2, <1>3, <1>4
  <2> QED
    BY <1>1, <1>7, <2>1, <2>2 DEF StepsBounded
<1> QED
  BY <1>5, <1>6, <1>7, Counters

LEMMA ShellSteps ==
  ASSUME IInv, InBuffer, Shell, pc # "wait"
  PROVE  StepsLeft' < StepsLeft
<1>1. PICK uncopied \in Nat : uncopied > 0 /\ uncopied = BufSize - Len(word)
  BY Counters
<1>2. PICK unscanned \in Nat : unscanned > 0 /\ unscanned = BufSize - count
  BY Counters DEF InBuffer
<1>3. PICK unmoved \in Nat : unmoved > 0 /\ unmoved = BufSize - srci
  BY Counters DEF InBuffer
<1>4. CASE ClearInputBuffer
  BY <1>4 DEF ClearInputBuffer, StepsLeft
<1>5. CASE TestCell
  <2>1. \/ pc = "space" /\ pc' = "newline"
        \/ pc = "newline" /\ pc' = "take"
    BY <1>5 DEF TestCell
  <2>2. BufSize - Len(word') = uncopied
    BY <1>1, <1>5 DEF TestCell, localVars
  <2> QED
    BY <1>1, <2>1, <2>2 DEF StepsLeft
<1>6. CASE CopyChar
  <2>1. Len(word') = Len(word) + 1 /\ pc' \in {"space", "newline"} /\ pc = "take"
    BY <1>6 DEF CopyChar, LoopTop, IInv, TypeOK
  <2>2. BufSize - Len(word') = uncopied - 1
    BY <1>1, <2>1, Counters
  <2>3. StepsLeft = 4 + 3 * uncopied
    BY <1>1, <2>1 DEF StepsLeft
  <2>4. StepsLeft' \in {5 + 3 * (uncopied - 1), 6 + 3 * (uncopied - 1)}
    BY <2>1, <2>2 DEF StepsLeft
  <2> QED
    BY <1>1, <2>3, <2>4
<1>7. CASE EndCopy
  <2>1. pc \in {"space", "newline"} /\ pc' = "scan" /\ BufSize - count' = uncopied
    BY <1>1, <1>7 DEF EndCopy
  <2>2. StepsLeft \in {5 + 3 * uncopied, 6 + 3 * uncopied} /\ StepsLeft' = 5 + 2 * uncopied
    BY <1>1, <2>1 DEF StepsLeft
  <2> QED
    BY <1>1, <2>2
<1>8. CASE ScanCell
  <2>1. pc = "scan" /\ pc' = "scanline" /\ BufSize - count' = unscanned
    BY <1>2, <1>8 DEF ScanCell, localVars
  <2> QED
    BY <1>2, <2>1 DEF StepsLeft
<1>9. CASE ScanBlank
  <2>1. pc \in {"scan", "scanline"} /\ pc' = "scan" /\ count' = count + 1
    BY <1>9 DEF ScanBlank
  <2>2. BufSize - count' = unscanned - 1
    BY <1>2, <2>1, Counters
  <2>3. StepsLeft \in {4 + 2 * unscanned, 5 + 2 * unscanned}
    BY <1>2, <2>1 DEF StepsLeft
  <2>4. StepsLeft' = 5 + 2 * (unscanned - 1)
    BY <2>1, <2>2 DEF StepsLeft
  <2> QED
    BY <1>2, <2>3, <2>4
<1>10. CASE EndScan
  <2>1. pc = "scanline" /\ pc' = "shift" /\ BufSize - srci' = unscanned
    BY <1>2, <1>10 DEF EndScan
  <2>2. StepsLeft = 4 + 2 * unscanned /\ StepsLeft' = 4 + unscanned
    BY <1>2, <2>1 DEF StepsLeft
  <2> QED
    BY <1>2, <2>2
<1>11. CASE ShiftChar
  <2>1. pc = "shift" /\ pc' = "shift" /\ srci' = srci + 1
    BY <1>11 DEF ShiftChar
  <2>2. BufSize - srci' = unmoved - 1
    BY <1>3, <2>1, Counters
  <2>3. StepsLeft = 4 + unmoved /\ StepsLeft' = 4 + (unmoved - 1)
    BY <1>3, <2>1, <2>2 DEF StepsLeft
  <2> QED
    BY <1>3, <2>3
<1>12. CASE EndShift
  <2>1. pc = "shift" /\ pc' = "load"
    BY <1>12 DEF EndShift
  <2>2. StepsLeft = 4 + unmoved /\ StepsLeft' = 3
    BY <1>3, <2>1 DEF StepsLeft
  <2> QED
    BY <1>3, <2>2
<1>13. CASE LoadIndex
  BY <1>13 DEF LoadIndex, StepsLeft
<1>14. CASE StoreIndex
  BY <1>14 DEF StoreIndex, StepsLeft
<1>15. CASE StopWaiting
  BY <1>15 DEF StopWaiting
<1> QED
  BY <1>4, <1>5, <1>6, <1>7, <1>8, <1>9, <1>10, <1>11, <1>12, <1>13, <1>14, <1>15 DEF Shell

LEMMA KeyboardSteps ==
  ASSUME Keyboard \/ UNCHANGED vars
  PROVE  StepsLeft' = StepsLeft
<1>1. UNCHANGED <<pc, word, count, srci>>
  BY DEF Keyboard, TypeChar, Backspace, Enter, vars, localVars
<1> QED
  BY <1>1 DEF StepsLeft

(* However fast the user types and whenever the interrupts come, trimInput *)
(* and the copying loops stay inside inputBuffer as long as all that is    *)
(* entered would fit into it, and between two waits the shell takes no     *)
(* more than three steps for each cell of the buffer, and six: each of its *)
(* steps brings it nearer to waiting, and no key puts it back              *)
(* (iobuffers.c:9-31, and the copying loops of getStr and getLine).        *)
THEOREM ShellIsBounded == Spec => [](InBuffer /\ StepsBounded) /\ StepsCounted
<1> DEFINE Inv == IInv /\ Indexes /\ InBuffer
<1>1. Init => Inv
  BY InitIInv, InitInBuffer DEF Init, Indexes, Moving
<1>2. Inv /\ [Next]_vars => Inv'
  BY NextIInv, NextIndexes, NextInBuffer
<1>3. Inv => InBuffer /\ StepsBounded
  BY StepsAre
<1>4. Inv /\ [Next]_vars =>
        [pc # "wait" => IF Shell THEN StepsLeft' < StepsLeft ELSE StepsLeft' = StepsLeft]_vars
  BY ShellSteps, KeyboardSteps DEF Next
<1> QED
  BY <1>1, <1>2, <1>3, <1>4, PTL DEF Spec, StepsCounted
=============================================================================
