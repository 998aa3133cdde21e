-------------------------- MODULE InterruptsProofs --------------------------
(***************************************************************************)
(* Theorems about Interrupts, for any other devices on any lines, any      *)
(* number of interrupts and keys, and a keyboard of any size.              *)
(***************************************************************************)
EXTENDS Interrupts, TLAPS

(* While idt_init runs no interrupt is accepted. Behind it every line      *)
(* finds its own stub.                                                     *)
Configured ==
  /\ pc # "done" => ~enabled /\ handler = NoHandler /\ service = {}
  /\ enabled => handler = NoHandler
  /\ pc # "pic" => vector = [master |-> 32, slave |-> 40]
  /\ pc \in {"load", "done"} => gates = [v \in 32 .. 47 |-> Stub(v)]

(* Handlers do not nest, so that at most one line of the slave, and the    *)
(* line of the master it comes in on, are in service.                      *)
InService ==
  /\ handler.at = "slave" => \E i \in 8 .. 15 : service \in {{2}, {2, i}}
  /\ handler.at = "master" => \E i \in 0 .. 7 : service \in {{}, {i}}
  /\ handler.at \notin {"slave", "master"} => service = {}
  /\ handler.at # "fault"

IInv == TypeOK /\ Configured /\ InService /\ CodeWillBeRead

LEMMA InitIInv == Init => IInv
<1> SUFFICES ASSUME Init
             PROVE  IInv
  OBVIOUS
<1> USE InterruptsAssumption DEF InterruptsAssumption
<1>1. /\ lshift \in BOOLEAN /\ rshift \in BOOLEAN /\ capsLock \in BOOLEAN
      /\ lost \in BOOLEAN /\ capsRepeated \in BOOLEAN
  BY DEF Init, KeyboardInit
<1>2. enabled \in BOOLEAN /\ stuck \in BOOLEAN
  BY DEF Init
<1>3. TypeOK
  BY <1>1, <1>2, KeyboardAssumption
     DEF Init, KeyboardInit, TypeOK, NoHandler, KeyboardAssumption
<1>4. Configured /\ InService /\ CodeWillBeRead
  BY DEF Init, Configured, InService, CodeWillBeRead, NoHandler
<1> QED
  BY <1>3, <1>4 DEF IInv

-----------------------------------------------------------------------------
(* The type invariant, action by action. *)

LEMMA KeysTypes ==
  ASSUME TypeOK, Type
  PROVE  TypeOK'
<1>1. PICK key \in Keys : Press(key) \/ Repeat(key) \/ Release(key)
  BY DEF Type, Typist
<1>2. held' \subseteq Keys
  BY <1>1 DEF Press, Repeat, Release, TypeOK
<1>3. lost' \in BOOLEAN
  <2>1. \E codes : Send(codes)
    BY <1>1 DEF Press, Repeat, Release
  <2> QED
    BY <2>1 DEF Send, TypeOK
<1>5. capsRepeated' \in BOOLEAN
  <2>1. capsRepeated \in BOOLEAN
    BY DEF TypeOK
  <2>2. capsRepeated' = capsRepeated \/ capsRepeated' = (capsRepeated \/ key = "caps")
    BY <1>1 DEF Press, Repeat, Release
  <2>3. PICK flag \in BOOLEAN : flag = (capsRepeated \/ key = "caps")
    BY Zenon
  <2> QED
    BY <2>1, <2>2, <2>3
<1>4. events' \in 0 .. MaxEvents
  BY KeyboardAssumption DEF Type, Typist, TypeOK, KeyboardAssumption
<1> QED
  BY <1>2, <1>3, <1>4, <1>5 DEF Type, intVars, picVars, cpuVars, driverVars, TypeOK

LEMMA HandlerTypes ==
  ASSUME TypeOK, NEW code, KeyboardHandler(code)
  PROVE  lshift' \in BOOLEAN /\ rshift' \in BOOLEAN /\ capsLock' \in BOOLEAN
<1>1. CASE KeyChar(code.key) = "none"
  <2>1. SysKey(code)
    BY <1>1 DEF KeyboardHandler
  <2>2. lshift \in BOOLEAN /\ rshift \in BOOLEAN /\ capsLock \in BOOLEAN
    BY DEF TypeOK
  <2>3. lshift' \in BOOLEAN
    BY <2>1, <2>2, Zenon DEF SysKey
  <2>4. rshift' \in BOOLEAN
    BY <2>1, <2>2, Zenon DEF SysKey
  <2>5. capsLock' \in BOOLEAN
    BY <2>1, <2>2, Zenon DEF SysKey
  <2> QED
    BY <2>3, <2>4, <2>5
<1>2. CASE KeyChar(code.key) # "none"
  BY <1>2 DEF KeyboardHandler, TypeOK
<1> QED
  BY <1>1, <1>2

(* What a delivered interrupt finds: its own stub. *)
LEMMA OwnStub ==
  ASSUME Configured, enabled, NEW i \in Lines, Enter(i)
  PROVE  handler' = [irq |-> i, at |-> IF i \in 0 .. 7 THEN "master" ELSE "slave"]
<1>1. vector = [master |-> 32, slave |-> 40] /\ gates = [v \in 32 .. 47 |-> Stub(v)]
  BY DEF Configured
<1>2. VectorOf(i) = i + 32
  BY <1>1 DEF VectorOf, Lines
<1>3. VectorOf(i) \in DOMAIN gates /\ gates[VectorOf(i)] = i
  BY <1>1, <1>2 DEF Stub, Lines
<1> QED
  BY <1>3 DEF Enter, Lines

LEMMA DeliverIInv ==
  ASSUME IInv, NEW i \in Lines, Deliver(i)
  PROVE  IInv'
<1> DEFINE place == IF i \in 0 .. 7 THEN "master" ELSE "slave"
<1>1. handler' = [irq |-> i, at |-> place] /\ enabled' = FALSE
  BY OwnStub DEF IInv, Deliver, Enter
<1>2. handler = NoHandler /\ service = {} /\ pc = "done"
  BY DEF IInv, Deliver, Configured, InService, NoHandler
<1>3. service' = {i, MasterLine(i)}
  BY <1>2 DEF Deliver
<1>4. TypeOK'
  <2>1. request' \subseteq Lines /\ service' \subseteq Lines
    BY <1>3 DEF IInv, TypeOK, Deliver, Lines, MasterLine
  <2>2. handler'.irq \in Lines /\ handler'.at \in {"master", "slave"}
    BY <1>1
  <2> QED
    BY <1>1, <2>1, <2>2 DEF IInv, TypeOK, Deliver, driverVars, keyboardVars
<1>5. Configured'
  BY <1>1, <1>2 DEF IInv, Configured, Deliver
<1>6. InService'
  <2>1. CASE i \in 0 .. 7
    BY <1>1, <1>3, <2>1 DEF InService, MasterLine
  <2>2. CASE i \notin 0 .. 7
    <3>1. i \in 8 .. 15 /\ MasterLine(i) = 2
      BY <2>2 DEF Lines, MasterLine
    <3> QED
      BY <1>1, <1>3, <2>2, <3>1 DEF InService
  <2> QED
    BY <2>1, <2>2
<1>7. CodeWillBeRead'
  BY <1>1, <1>2 DEF IInv, CodeWillBeRead, Deliver, NoHandler
<1> QED
  BY <1>4, <1>5, <1>6, <1>7 DEF IInv

LEMMA SpuriousIInv ==
  ASSUME IInv, NEW i \in {7, 15}, Spurious(i)
  PROVE  IInv'
<1>1. handler' = [irq |-> i, at |-> IF i \in 0 .. 7 THEN "master" ELSE "slave"] /\ enabled' = FALSE
  <2>1. i \in Lines /\ enabled /\ Enter(i) /\ Configured
    BY DEF IInv, Spurious, Lines
  <2>2. enabled' = FALSE
    BY <2>1 DEF Enter
  <2> QED
    BY <2>1, <2>2, OwnStub
<1>2. handler = NoHandler /\ pc = "done"
  BY DEF IInv, Spurious, Configured, NoHandler
<1>3. TypeOK'
  <2>1. service' \subseteq Lines /\ handler'.irq \in Lines /\ handler'.at \in {"master", "slave"}
    BY <1>1 DEF Spurious, Lines
  <2>2. others' \in 0 .. MaxOther
    BY InterruptsAssumption DEF InterruptsAssumption, IInv, TypeOK, Spurious
  <2> QED
    BY <1>1, <2>1, <2>2 DEF IInv, TypeOK, Spurious, driverVars, keyboardVars
<1>4. Configured'
  BY <1>1, <1>2 DEF IInv, Configured, Spurious
<1>5. InService'
  BY <1>1 DEF InService, Spurious
<1>6. CodeWillBeRead'
  BY <1>1, <1>2 DEF IInv, CodeWillBeRead, Spurious, NoHandler
<1> QED
  BY <1>3, <1>4, <1>5, <1>6 DEF IInv

(* The end of the only interrupt in service of a controller ends it. *)
LEMMA EndsOnly ==
  ASSUME NEW lines \in SUBSET Nat, NEW i \in Nat, service \cap lines = {i}, EndFirst(lines)
  PROVE  service' = service \ {i}
<1>1. Min({i}) = i
  BY DEF Min
<1> QED
  BY <1>1 DEF EndFirst

LEMMA EndSlaveIInv ==
  ASSUME IInv, EndSlave
  PROVE  IInv'
<1>1. PICK i \in 8 .. 15 : service \in {{2}, {2, i}}
  BY DEF IInv, InService, EndSlave
<1>2. service' = {2}
  <2>1. CASE service = {2}
    BY <2>1 DEF EndSlave, EndFirst
  <2>2. CASE service = {2, i}
    <3>1. service \cap (8 .. 15) = {i}
      <4>1. 2 \notin 8 .. 15
        OBVIOUS
      <4> QED
        BY <2>2, <4>1
    <3>2. service' = service \ {i}
      BY <3>1, EndsOnly DEF EndSlave
    <3> QED
      BY <2>2, <3>2
  <2> QED
    BY <1>1, <2>1, <2>2
<1>3. handler' = [handler EXCEPT !.at = "master"] /\ handler.at = "slave"
  BY DEF EndSlave, Goto
<1> QED
  BY <1>2, <1>3
     DEF IInv, EndSlave, TypeOK, Configured, InService, CodeWillBeRead, NoHandler, Lines,
         driverVars, keyboardVars

LEMMA EndMasterIInv ==
  ASSUME IInv, EndMaster
  PROVE  IInv'
<1>1. PICK i \in 0 .. 7 : service \in {{}, {i}}
  BY DEF IInv, InService, EndMaster
<1>2. service' = {}
  <2>1. CASE service = {}
    BY <2>1 DEF EndMaster, EndFirst
  <2>2. CASE service = {i}
    <3>1. service \cap (0 .. 7) = {i}
      BY <2>2
    <3>2. service' = service \ {i}
      BY <3>1, EndsOnly DEF EndMaster
    <3> QED
      BY <2>2, <3>2
  <2> QED
    BY <1>1, <2>1, <2>2
<1>3. /\ handler.at = "master"
      /\ handler' = [handler EXCEPT !.at = IF handler.irq = 1 THEN "status" ELSE "return"]
  BY DEF EndMaster, Goto
<1> QED
  BY <1>2, <1>3
     DEF IInv, EndMaster, TypeOK, Configured, InService, CodeWillBeRead, NoHandler,
         driverVars, keyboardVars

-----------------------------------------------------------------------------
LEMMA NextIInv == IInv /\ [Next]_vars => IInv'
<1> SUFFICES ASSUME IInv, [Next]_vars
             PROVE  IInv'
  OBVIOUS
<1>1. CASE Type
  BY <1>1, KeysTypes
     DEF IInv, Configured, InService, CodeWillBeRead, Type, intVars, picVars, cpuVars
<1>2. CASE Fill
  <2>1. TypeOK'
    BY <1>2 DEF IInv, TypeOK, Fill, cpuVars, driverVars, Lines
  <2> QED
    BY <1>2, <2>1 DEF IInv, Configured, InService, CodeWillBeRead, Fill, cpuVars
<1>3. ASSUME NEW i \in OtherIrqs, OtherDevice(i)
      PROVE  IInv'
  <2>1. request' \subseteq Lines /\ others' \in 0 .. MaxOther
    BY <1>3, InterruptsAssumption
       DEF InterruptsAssumption, IInv, TypeOK, OtherDevice, Lines
  <2> QED
    BY <1>3, <2>1
       DEF IInv, TypeOK, Configured, InService, CodeWillBeRead, OtherDevice, cpuVars,
           driverVars, keyboardVars
<1>4. ASSUME NEW i \in {7, 15}, Spurious(i)
      PROVE  IInv'
  BY <1>4, SpuriousIInv
<1>5. CASE InitPics
  <2>1. stuck' \in BOOLEAN
    BY <1>5 DEF InitPics
  <2>2. TypeOK'
    BY <1>5, <2>1 DEF InitPics, IInv, TypeOK, driverVars, keyboardVars
  <2>3. Configured' /\ InService'
    BY <1>5 DEF InitPics, IInv, Configured, InService
  <2>4. CodeWillBeRead'
    BY <1>5 DEF InitPics, IInv, CodeWillBeRead
  <2> QED
    BY <2>2, <2>3, <2>4 DEF IInv
<1>6. CASE FillGates
  BY <1>6
     DEF FillGates, IInv, TypeOK, Configured, InService, CodeWillBeRead, picVars,
         driverVars, keyboardVars
<1>7. CASE LoadIdt
  BY <1>7
     DEF LoadIdt, IInv, TypeOK, Configured, InService, CodeWillBeRead, picVars,
         driverVars, keyboardVars
<1>8. ASSUME NEW i \in Lines, Deliver(i)
      PROVE  IInv'
  BY <1>8, DeliverIInv
<1>9. CASE EndSlave
  BY <1>9, EndSlaveIInv
<1>10. CASE EndMaster
  BY <1>10, EndMasterIInv
<1>11. CASE ReadStatus
  BY <1>11
     DEF ReadStatus, Goto, IInv, TypeOK, Configured, InService, CodeWillBeRead, NoHandler,
         picVars, driverVars, keyboardVars
<1>12. CASE ReadData
  <2>1. lshift' \in BOOLEAN /\ rshift' \in BOOLEAN /\ capsLock' \in BOOLEAN
    BY <1>12, HandlerTypes DEF IInv, ReadData
  <2> QED
    BY <1>12, <2>1
       DEF ReadData, Goto, IInv, TypeOK, Configured, InService, CodeWillBeRead, NoHandler,
           picVars, keyboardVars
<1>13. CASE Return
  BY <1>13
     DEF Return, IInv, TypeOK, Configured, InService, CodeWillBeRead, NoHandler, Lines,
         picVars, driverVars, keyboardVars
<1>14. CASE UNCHANGED vars
  BY <1>14
     DEF vars, IInv, TypeOK, Configured, InService, CodeWillBeRead, intVars, picVars,
         cpuVars, driverVars, keyboardVars
<1> QED
  BY <1>1, <1>2, <1>3, <1>4, <1>5, <1>6, <1>7, <1>8, <1>9, <1>10, <1>11, <1>12,
     <1>13, <1>14 DEF Next, Processor

THEOREM Invariance == Spec => []IInv
BY InitIInv, NextIInv, PTL DEF Spec

(* The types of the driver's and of the controllers' state are kept,       *)
(* whatever interrupts come and in whatever order (interrupts.c:8-82).     *)
THEOREM TypeCorrect == Spec => []TypeOK
<1>1. IInv => TypeOK
  BY DEF IInv
<1> QED
  BY <1>1, Invariance, PTL

(* Every interrupt finds the stub of its own line, and has ended on both   *)
(* controllers before its handler goes on, false interrupts included       *)
(* (interrupts.c:11-53, 86-205, 207-280).                                  *)
THEOREM InterruptsEnd == Spec => []ServiceEnds
<1>1. IInv => ServiceEnds
  BY DEF IInv, InService, ServiceEnds
<1> QED
  BY <1>1, Invariance, PTL

(* No code of the keyboard is ever left in the controller without a        *)
(* handler to come, but for one that was there when the PICs were          *)
(* initialised (interrupts.c:75-82, keyboard.c:45-50).                     *)
THEOREM NoCodeForgotten == Spec => []CodeWillBeRead
<1>1. IInv => CodeWillBeRead
  BY DEF IInv
<1> QED
  BY <1>1, Invariance, PTL

-----------------------------------------------------------------------------
(* What is typed. The driver's state as the keys that are on and the text, *)
(* what a code makes of it, and what a sequence of codes does.             *)

Codes == [key : Keys \cup {"e0"}, up : BOOLEAN]

On(left, right, caps) ==
  (IF left THEN {"lshift"} ELSE {}) \cup (IF right THEN {"rshift"} ELSE {})
    \cup (IF caps THEN {"caps"} ELSE {})

Driver == [on |-> On(lshift, rshift, capsLock), text |-> tempBuffer]

Char(st, key) == IF key = "up" THEN "8" ELSE IF st.on = {} THEN "a" ELSE "A"

After(st, code) ==
  IF code.key \in {"a", "up"}
  THEN IF code.up THEN st
       ELSE [on |-> st.on, text |-> Append(st.text, Char(st, code.key))]
  ELSE IF code.key \in Shifts
  THEN [on |-> IF code.up THEN st.on \ {code.key} ELSE st.on \cup {code.key}, text |-> st.text]
  ELSE IF code = Down("caps")
  THEN [on |-> IF "caps" \in st.on THEN st.on \ {"caps"} ELSE st.on \cup {"caps"},
        text |-> st.text]
  ELSE st

Reaches(codes, st, end) ==
  \E f : /\ f[0] = st /\ f[Len(codes)] = end
         /\ \A i \in 1 .. Len(codes) : f[i] = After(f[i - 1], codes[i])

LEMMA ReachNone == ASSUME NEW st PROVE Reaches(<<>>, st, st)
<1> DEFINE f == [i \in {0} |-> st]
<1>1. f[0] = st
  OBVIOUS
<1> HIDE DEF f
<1>2. Len(<<>>) = 0
  OBVIOUS
<1> QED
  BY <1>1, <1>2 DEF Reaches

LEMMA ReachOne == ASSUME NEW st, NEW c PROVE Reaches(<<c>>, st, After(st, c))
<1> DEFINE f == [i \in {0, 1} |-> IF i = 0 THEN st ELSE After(st, c)]
<1>1. f[0] = st /\ f[1] = After(st, c)
  OBVIOUS
<1> HIDE DEF f
<1>2. Len(<<c>>) = 1 /\ <<c>>[1] = c
  OBVIOUS
<1>3. \A i \in 1 .. Len(<<c>>) : f[i] = After(f[i - 1], <<c>>[i])
  BY <1>1, <1>2
<1> QED
  BY <1>1, <1>2, <1>3 DEF Reaches

LEMMA ReachTwo ==
  ASSUME NEW st, NEW c, NEW d
  PROVE  Reaches(<<c, d>>, st, After(After(st, c), d))
<1> DEFINE f == [i \in {0, 1, 2} |-> IF i = 0 THEN st
                                     ELSE IF i = 1 THEN After(st, c)
                                     ELSE After(After(st, c), d)]
<1>1. f[0] = st
  OBVIOUS
<1>2. f[1] = After(st, c)
  OBVIOUS
<1>3. f[2] = After(After(st, c), d)
  OBVIOUS
<1> HIDE DEF f
<1>4. Len(<<c, d>>) = 2 /\ <<c, d>>[1] = c /\ <<c, d>>[2] = d
  OBVIOUS
<1>5. \A i \in 1 .. Len(<<c, d>>) : f[i] = After(f[i - 1], <<c, d>>[i])
  BY <1>1, <1>2, <1>3, <1>4
<1> QED
  BY <1>1, <1>3, <1>4, <1>5 DEF Reaches

LEMMA ReachBoth ==
  ASSUME NEW p \in Seq(Codes), NEW q \in Seq(Codes), NEW s, NEW t, NEW u,
         Reaches(p, s, t), Reaches(q, t, u)
  PROVE  Reaches(p \o q, s, u)
<1>1. PICK f : /\ f[0] = s /\ f[Len(p)] = t
               /\ \A i \in 1 .. Len(p) : f[i] = After(f[i - 1], p[i])
  BY DEF Reaches
<1>2. PICK g : /\ g[0] = t /\ g[Len(q)] = u
               /\ \A i \in 1 .. Len(q) : g[i] = After(g[i - 1], q[i])
  BY DEF Reaches
<1>3. PICK m \in Nat : m = Len(p)
  OBVIOUS
<1>4. PICK n \in Nat : n = Len(q)
  OBVIOUS
<1> DEFINE r == p \o q
<1>5. /\ Len(r) = m + n
      /\ \A i \in 1 .. m : r[i] = p[i]
      /\ \A i \in m + 1 .. m + n : r[i] = q[i - m]
  BY <1>3, <1>4
<1> HIDE DEF r
<1> DEFINE h == [i \in 0 .. m + n |-> IF i <= m THEN f[i] ELSE g[i - m]]
<1>6. h[0] = s /\ h[m + n] = u
  <2>1. h[0] = f[0]
    OBVIOUS
  <2>2. CASE n = 0
    <3>1. h[m + n] = f[m]
      BY <2>2
    <3> QED
      BY <1>1, <1>2, <1>3, <1>4, <2>1, <2>2, <3>1
  <2>3. CASE n > 0
    <3>1. h[m + n] = g[n]
      BY <2>3
    <3> QED
      BY <1>1, <1>2, <1>4, <2>1, <3>1
  <2> QED
    BY <2>2, <2>3
<1>7. ASSUME NEW i \in 1 .. m + n
      PROVE  h[i] = After(h[i - 1], r[i])
  <2>1. CASE i <= m
    <3>1. h[i] = f[i] /\ h[i - 1] = f[i - 1] /\ i \in 1 .. m
      BY <2>1
    <3> QED
      BY <1>1, <1>3, <1>5, <3>1
  <2>2. CASE i = m + 1
    <3>1. h[i] = g[1] /\ h[i - 1] = f[m] /\ r[i] = q[1] /\ 1 \in 1 .. n
      BY <1>5, <2>2
    <3>2. g[1] = After(g[0], q[1])
      BY <1>2, <1>4, <3>1
    <3> QED
      BY <1>1, <1>2, <1>3, <3>1, <3>2
  <2>3. CASE i > m + 1
    <3>1. PICK j \in 1 .. n : j = i - m /\ j > 1
      BY <2>3
    <3>2. h[i] = g[j] /\ h[i - 1] = g[j - 1] /\ r[i] = q[j]
      BY <1>5, <2>3, <3>1
    <3> QED
      BY <1>2, <1>4, <3>1, <3>2
  <2> QED
    BY <2>1, <2>2, <2>3
<1> HIDE DEF h
<1>8. Reaches(r, s, u)
  BY <1>5, <1>6, <1>7 DEF Reaches
<1> QED
  BY <1>8 DEF r

LEMMA ReachTail ==
  ASSUME NEW q \in Seq(Codes), q # <<>>, NEW s, NEW t, Reaches(q, s, t)
  PROVE  Reaches(Tail(q), After(s, Head(q)), t)
<1>1. PICK f : /\ f[0] = s /\ f[Len(q)] = t
               /\ \A i \in 1 .. Len(q) : f[i] = After(f[i - 1], q[i])
  BY DEF Reaches
<1>2. PICK n \in Nat : n = Len(q) /\ n > 0
  OBVIOUS
<1> DEFINE r == Tail(q)
<1>3. Len(r) = n - 1 /\ Head(q) = q[1] /\ \A i \in 1 .. n - 1 : r[i] = q[i + 1]
  BY <1>2
<1> HIDE DEF r
<1> DEFINE h == [i \in 0 .. n - 1 |-> f[i + 1]]
<1>4. h[0] = f[1] /\ h[n - 1] = f[n]
  BY <1>2
<1>5. f[1] = After(s, q[1])
  BY <1>1, <1>2
<1>6. ASSUME NEW i \in 1 .. n - 1
      PROVE  h[i] = After(h[i - 1], r[i])
  <2>1. h[i] = f[i + 1] /\ h[i - 1] = f[i] /\ i + 1 \in 1 .. n
    BY <1>2
  <2>2. f[i + 1] = After(f[i + 1 - 1], q[i + 1])
    BY <1>1, <1>2, <2>1
  <2> QED
    BY <1>3, <2>1, <2>2
<1> HIDE DEF h
<1>7. Reaches(r, After(s, Head(q)), t)
  BY <1>1, <1>2, <1>3, <1>4, <1>5, <1>6 DEF Reaches
<1> QED
  BY <1>7 DEF r

LEMMA ReachedAlready ==
  ASSUME NEW s, NEW t, Reaches(<<>>, s, t)
  PROVE  s = t
BY DEF Reaches

(* The driver does what After says. *)
LEMMA KeyChars ==
  /\ KeyChar("a") = IF lshift \/ rshift \/ capsLock THEN "A" ELSE "a"
  /\ KeyChar("up") = "8"
  /\ \A key \in Shifts \cup {"caps", "e0"} : KeyChar(key) = "none"
<1>1. KeyChar("a") = IF lshift \/ rshift \/ capsLock THEN "A" ELSE "a"
  BY Zenon DEF KeyChar
<1>2. KeyChar("up") = "8"
  BY Zenon DEF KeyChar
<1>3. ASSUME NEW key \in Shifts \cup {"caps", "e0"} PROVE KeyChar(key) = "none"
  <2>1. key # "a" /\ key # "up"
    BY DEF Shifts
  <2> QED
    BY <2>1, Zenon DEF KeyChar
<1> QED
  BY <1>1, <1>2, <1>3

LEMMA MeantIs ==
  ASSUME NEW m
  PROVE
  /\ Meant(m, "a") = [m EXCEPT !.text = Append(@, IF Shifted(m.caps) THEN "A" ELSE "a")]
  /\ Meant(m, "up") = [m EXCEPT !.text = Append(@, "8")]
  /\ Meant(m, "caps") = [m EXCEPT !.caps = ~@]
  /\ \A key \in Shifts : Meant(m, key) = m
<1>1. Meant(m, "a") = [m EXCEPT !.text = Append(@, IF Shifted(m.caps) THEN "A" ELSE "a")]
  BY Zenon DEF Meant
<1>2. Meant(m, "up") = [m EXCEPT !.text = Append(@, "8")]
  BY Zenon DEF Meant
<1>3. Meant(m, "caps") = [m EXCEPT !.caps = ~@]
  BY Zenon DEF Meant
<1>4. ASSUME NEW key \in Shifts PROVE Meant(m, key) = m
  <2>1. key # "a" /\ key # "up" /\ key # "caps"
    BY DEF Shifts
  <2> QED
    BY <2>1, Zenon DEF Meant
<1> QED
  BY <1>1, <1>2, <1>3, <1>4

State(on, text) == [on |-> on, text |-> text]

LEMMA AfterShift ==
  ASSUME NEW key \in Shifts, NEW on, NEW text
  PROVE  /\ After(State(on, text), Up(key)) = State(on \ {key}, text)
         /\ After(State(on, text), Down(key)) = State(on \cup {key}, text)
BY DEF After, State, Up, Down, Shifts

LEMMA AfterPrefix == ASSUME NEW on, NEW text PROVE After(State(on, text), Prefix) = State(on, text)
BY DEF After, State, Prefix, Up, Down, Shifts

LEMMA AfterUp ==
  ASSUME NEW key \in {"a", "up", "caps"}, NEW on, NEW text
  PROVE  After(State(on, text), Up(key)) = State(on, text)
BY DEF After, State, Up, Down, Shifts

LEMMA AfterChar ==
  ASSUME NEW key \in {"a", "up"}, NEW on, NEW text
  PROVE  After(State(on, text), Down(key)) =
           State(on, Append(text, IF key = "up" THEN "8" ELSE IF on = {} THEN "a" ELSE "A"))
BY DEF After, State, Down, Char

LEMMA AfterCaps ==
  ASSUME NEW on, NEW text
  PROVE  After(State(on, text), Down("caps")) =
           State(IF "caps" \in on THEN on \ {"caps"} ELSE on \cup {"caps"}, text)
BY DEF After, State, Down, Shifts

LEMMA HandlerIs ==
  ASSUME TypeOK, NEW code \in Codes, KeyboardHandler(code)
  PROVE  Driver' = After(Driver, code)
<1>1. lshift \in BOOLEAN /\ rshift \in BOOLEAN /\ capsLock \in BOOLEAN
  BY DEF TypeOK
<1>2. lshift' \in BOOLEAN /\ rshift' \in BOOLEAN /\ capsLock' \in BOOLEAN
  BY HandlerTypes
<1>3. /\ code.key \in {"a", "up", "lshift", "rshift", "caps", "e0"} /\ code.up \in BOOLEAN
      /\ code = [key |-> code.key, up |-> code.up]
  BY DEF Codes, Keys, Shifts
<1>4. CASE code.key \in {"a", "up"}
  <2>1. KeyChar(code.key) = Char(Driver, code.key)
    <3>1. CASE code.key = "a"
      <4>1. Driver.on = {} <=> ~(lshift \/ rshift \/ capsLock)
        BY DEF Driver, On
      <4> QED
        BY <3>1, <4>1, KeyChars DEF Char
    <3>2. CASE code.key = "up"
      BY <3>2, KeyChars DEF Char
    <3> QED
      BY <1>4, <3>1, <3>2
  <2>2. KeyChar(code.key) # "none"
    BY <2>1 DEF Char
  <2>3. /\ UNCHANGED <<lshift, rshift, capsLock>>
        /\ tempBuffer' = IF code.up THEN tempBuffer ELSE Append(tempBuffer, KeyChar(code.key))
    BY <2>2 DEF KeyboardHandler
  <2>4. Driver'.on = Driver.on
    BY <2>3 DEF Driver, On
  <2>5. /\ Driver' = [on |-> Driver'.on, text |-> tempBuffer']
        /\ Driver = [on |-> Driver.on, text |-> tempBuffer]
    BY DEF Driver
  <2> HIDE DEF Driver
  <2> QED
    BY <1>4, <2>1, <2>3, <2>4, <2>5 DEF After
<1>5. CASE code.key \notin {"a", "up"}
  <2>1. KeyChar(code.key) = "none"
    BY <1>3, <1>5, KeyChars DEF Shifts
  <2>2. SysKey(code) /\ tempBuffer' = tempBuffer
    BY <2>1 DEF KeyboardHandler
  <2>3. lshift' <=> IF code.key = "lshift" THEN ~code.up ELSE lshift
    BY <1>1, <1>2, <1>3, <2>2, Zenon DEF SysKey
  <2>4. rshift' <=> IF code.key = "rshift" THEN ~code.up ELSE rshift
    BY <1>1, <1>2, <1>3, <2>2, Zenon DEF SysKey
  <2>5. capsLock' <=> IF code = Down("caps") THEN ~capsLock ELSE capsLock
    BY <1>1, <1>2, <1>3, <2>2, Zenon DEF SysKey
  <2>6. code = Down("caps") <=> code.key = "caps" /\ ~code.up
    BY <1>3 DEF Down
  <2> DEFINE on == On(lshift, rshift, capsLock)
             new == On(lshift', rshift', capsLock')
  <2>7. Driver = [on |-> on, text |-> tempBuffer] /\ Driver' = [on |-> new, text |-> tempBuffer']
    BY DEF Driver, On
  <2>8. /\ on \subseteq {"lshift", "rshift", "caps"} /\ new \subseteq {"lshift", "rshift", "caps"}
        /\ "lshift" \in on <=> lshift
        /\ "rshift" \in on <=> rshift
        /\ "caps" \in on <=> capsLock
    BY DEF On
  <2>9. /\ "lshift" \in new <=> lshift'
        /\ "rshift" \in new <=> rshift'
        /\ "caps" \in new <=> capsLock'
    BY DEF On
  <2> HIDE DEF on, new
  <2>10. CASE code.key \in Shifts
    <3>1. code # Down("caps")
      BY <2>6, <2>10 DEF Shifts
    <3>2. new = IF code.up THEN on \ {code.key} ELSE on \cup {code.key}
      BY <2>3, <2>4, <2>5, <2>8, <2>9, <2>10, <3>1 DEF Shifts
    <3> QED
      BY <1>5, <2>2, <2>7, <2>10, <3>2 DEF After
  <2>11. CASE code = Down("caps")
    <3>1. code.key = "caps"
      BY <2>6, <2>11
    <3>2. new = IF "caps" \in on THEN on \ {"caps"} ELSE on \cup {"caps"}
      BY <2>3, <2>4, <2>5, <2>8, <2>9, <2>11, <3>1
    <3> QED
      BY <1>5, <2>2, <2>7, <2>11, <3>1, <3>2 DEF After, Shifts
  <2>12. CASE code.key \notin Shifts /\ code # Down("caps")
    <3>1. new = on
      <4>1. (lshift' <=> lshift) /\ (rshift' <=> rshift) /\ (capsLock' <=> capsLock)
        BY <2>3, <2>4, <2>5, <2>12 DEF Shifts
      <4> QED
        BY <4>1 DEF On, new, on
    <3> QED
      BY <1>5, <2>2, <2>7, <2>12, <3>1 DEF After
  <2> QED
    BY <2>10, <2>11, <2>12
<1> QED
  BY <1>4, <1>5

-----------------------------------------------------------------------------
(* The codes of a key do to the driver what was meant by the key.          *)

(* What some keys held and some meaning m of the keys typed make of it.    *)
Goal(keys, m) ==
  State((IF "up" \in keys THEN {} ELSE keys \cap Shifts)
          \cup (IF m.caps THEN {"caps"} ELSE {}), m.text)

Meanings == [text : Seq({"a", "A", "8"}), caps : BOOLEAN]

(* A prefix and a shift key. *)
LEMMA PretendOne ==
  ASSUME NEW key \in Shifts, NEW up \in BOOLEAN, NEW on, NEW text
  PROVE  /\ <<Prefix, [key |-> key, up |-> up]>> \in Seq(Codes)
         /\ Reaches(<<Prefix, [key |-> key, up |-> up]>>, State(on, text),
                    State(IF up THEN on \ {key} ELSE on \cup {key}, text))
<1> DEFINE code == [key |-> key, up |-> up]
           end == State(IF up THEN on \ {key} ELSE on \cup {key}, text)
<1>1. Prefix \in Codes /\ code \in Codes
  BY DEF Prefix, Up, Codes, Keys
<1>2. code = IF up THEN Up(key) ELSE Down(key)
  BY DEF Up, Down
<1>3. After(State(on, text), Prefix) = State(on, text) /\ After(State(on, text), code) = end
  <2>1. /\ After(State(on, text), Prefix) = State(on, text)
        /\ After(State(on, text), Up(key)) = State(on \ {key}, text)
        /\ After(State(on, text), Down(key)) = State(on \cup {key}, text)
    BY AfterPrefix, AfterShift
  <2>2. CASE up
    <3>1. code = Up(key) /\ end = State(on \ {key}, text)
      BY <2>2 DEF Up
    <3> QED
      BY <2>1, <3>1
  <2>3. CASE ~up
    <3>1. code = Down(key) /\ end = State(on \cup {key}, text)
      BY <2>3 DEF Down
    <3> QED
      BY <2>1, <3>1
  <2> QED
    BY <2>2, <2>3
<1> HIDE DEF code, end
<1>4. Reaches(<<Prefix, code>>, State(on, text), end)
  <2>1. Reaches(<<Prefix, code>>, State(on, text), After(After(State(on, text), Prefix), code))
    BY ReachTwo
  <2> QED
    BY <1>3, <2>1
<1>5. <<Prefix, code>> \in Seq(Codes)
  BY <1>1
<1> QED
  BY <1>4, <1>5 DEF code, end

LEMMA PretendIs ==
  ASSUME NEW up \in BOOLEAN, NEW on, NEW text
  PROVE  /\ Pretend(up) \in Seq(Codes)
         /\ Reaches(Pretend(up), State(on, text),
                    State(IF up THEN on \ (held \cap Shifts)
                          ELSE on \cup (held \cap Shifts), text))
<1> DEFINE Part(key) == IF key \in held THEN <<Prefix, [key |-> key, up |-> up]>> ELSE <<>>
           Moved(s, key) == IF key \notin held THEN s ELSE IF up THEN s \ {key} ELSE s \cup {key}
<1>1. ASSUME NEW key \in Shifts, NEW s
      PROVE  Part(key) \in Seq(Codes) /\ Reaches(Part(key), State(s, text), State(Moved(s, key), text))
  <2>1. CASE key \in held
    BY <2>1, PretendOne
  <2>2. CASE key \notin held
    BY <2>2, ReachNone
  <2> QED
    BY <2>1, <2>2
<1>2. Pretend(up) = Part("lshift") \o Part("rshift")
  BY DEF Pretend
<1>3. Moved(Moved(on, "lshift"), "rshift") =
        IF up THEN on \ (held \cap Shifts) ELSE on \cup (held \cap Shifts)
  <2>1. CASE up
    BY <2>1 DEF Shifts
  <2>2. CASE ~up
    BY <2>2 DEF Shifts
  <2> QED
    BY <2>1, <2>2
<1> DEFINE one == Moved(on, "lshift")
           two == Moved(one, "rshift")
           left == Part("lshift")
           right == Part("rshift")
<1>4. /\ left \in Seq(Codes) /\ Reaches(left, State(on, text), State(one, text))
      /\ right \in Seq(Codes) /\ Reaches(right, State(one, text), State(two, text))
  <2>1. "lshift" \in Shifts /\ "rshift" \in Shifts
    BY DEF Shifts
  <2> HIDE DEF Part, Moved
  <2> QED
    BY <1>1, <2>1
<1> HIDE DEF one, two, left, right, Part, Moved
<1>5. left \o right \in Seq(Codes) /\ Reaches(left \o right, State(on, text), State(two, text))
  BY <1>4, ReachBoth
<1> QED
  BY <1>2, <1>3, <1>5 DEF one, two, left, right

LEMMA BothCodes ==
  ASSUME NEW p \in Seq(Codes), NEW q \in Seq(Codes)
  PROVE  p \o q \in Seq(Codes)
OBVIOUS

(* What the codes of a key that goes down, or is repeated, do. *)
LEMMA DownIs ==
  ASSUME NEW m \in Meanings, NEW n, NEW key \in Keys,
         "up" \notin held \/ key \notin Shifts \cup {"up"},
         n = Meant(m, key), held' = held \cup {key}
  PROVE  /\ DownCodes(key) \in Seq(Codes)
         /\ Reaches(DownCodes(key), Goal(held, m), Goal(held', n))
         /\ n \in Meanings
<1> DEFINE on == (IF "up" \in held THEN {} ELSE held \cap Shifts)
                   \cup (IF m.caps THEN {"caps"} ELSE {})
           next == (IF "up" \in held' THEN {} ELSE held' \cap Shifts)
                     \cup (IF n.caps THEN {"caps"} ELSE {})
<1>1. Goal(held, m) = State(on, m.text) /\ Goal(held', n) = State(next, n.text)
  BY DEF Goal
<1>2. /\ m = [text |-> m.text, caps |-> m.caps]
      /\ m.caps \in BOOLEAN /\ m.text \in Seq({"a", "A", "8"})
  BY DEF Meanings
<1>3. CASE key \in Shifts
  <2>1. n = m
    BY <1>3, MeantIs
  <2>2. next = on \cup {key}
    BY <1>3, <2>1 DEF Shifts
  <2>3. DownCodes(key) = <<Down(key)>> /\ Down(key) \in Codes
    BY <1>3 DEF DownCodes, Shifts, Down, Codes, Keys
  <2>4. After(Goal(held, m), Down(key)) = Goal(held', n)
    <3> HIDE DEF on, next
    <3>1. After(State(on, m.text), Down(key)) =
            State(on \cup {key}, m.text)
      BY <1>3, AfterShift
    <3> QED
      BY <1>1, <2>1, <2>2, <3>1
  <2>5. Reaches(<<Down(key)>>, Goal(held, m), Goal(held', n))
    BY <2>4, ReachOne
  <2>6. n \in Meanings
    BY <2>1 DEF Meanings
  <2> QED
    BY <2>3, <2>5, <2>6
<1>4. CASE key = "caps"
  <2>1. n = [text |-> m.text, caps |-> ~m.caps]
    <3>1. n = [m EXCEPT !.caps = ~@]
      BY <1>4, MeantIs, Zenon
    <3> QED
      BY <1>2, <3>1
  <2>2. next = IF "caps" \in on THEN on \ {"caps"} ELSE on \cup {"caps"}
    <3>1. "caps" \in on <=> m.caps
      BY DEF Shifts
    <3>2. n.caps <=> ~m.caps
      <4>1. PICK flag \in BOOLEAN : flag <=> ~m.caps
        BY Zenon
      <4>2. flag = ~m.caps
        BY <4>1, Zenon
      <4>3. n.caps = flag
        BY <2>1, <4>2
      <4> QED
        BY <4>1, <4>3
    <3> QED
      BY <1>4, <3>1, <3>2 DEF Shifts
  <2>3. DownCodes(key) = <<Down("caps")>> /\ Down("caps") \in Codes
    BY <1>4 DEF DownCodes, Down, Codes, Keys
  <2>4. After(Goal(held, m), Down("caps")) = Goal(held', n)
    <3> HIDE DEF on, next
    <3>1. After(State(on, m.text), Down("caps")) =
            State(IF "caps" \in on THEN on \ {"caps"} ELSE on \cup {"caps"}, m.text)
      BY AfterCaps
    <3> QED
      BY <1>1, <2>1, <2>2, <3>1
  <2>5. Reaches(<<Down("caps")>>, Goal(held, m), Goal(held', n))
    BY <2>4, ReachOne
  <2>6. n \in Meanings
    <3>1. PICK flag \in BOOLEAN : flag = ~m.caps
      BY Zenon
    <3>2. n = [text |-> m.text, caps |-> flag]
      BY <2>1, <3>1
    <3> QED
      BY <1>2, <3>2 DEF Meanings
  <2> QED
    BY <2>3, <2>5, <2>6
<1>5. CASE key = "a"
  <2>1. n = [text |-> Append(m.text, IF Shifted(m.caps) THEN "A" ELSE "a"), caps |-> m.caps]
    BY <1>2, <1>5, MeantIs
  <2>2. next = on /\ (Shifted(m.caps) <=> on # {})
    BY <1>5, <2>1 DEF Shifts, Shifted
  <2>3. DownCodes(key) = <<Down("a")>> /\ Down("a") \in Codes
    BY <1>5 DEF DownCodes, Down, Codes, Keys
  <2>4. After(Goal(held, m), Down("a")) = Goal(held', n)
    <3> HIDE DEF on, next
    <3>1. After(State(on, m.text), Down("a")) =
            State(on, Append(m.text, IF on = {} THEN "a" ELSE "A"))
      BY AfterChar
    <3> QED
      BY <1>1, <2>1, <2>2, <3>1
  <2>5. Reaches(<<Down("a")>>, Goal(held, m), Goal(held', n))
    BY <2>4, ReachOne
  <2>6. n \in Meanings
    BY <1>2, <1>5, <2>1 DEF Meanings
  <2> QED
    BY <2>3, <2>5, <2>6
<1>6. CASE key = "up"
  <2>1. n = [text |-> Append(m.text, "8"), caps |-> m.caps]
    <3>1. n = [m EXCEPT !.text = Append(@, "8")]
      BY <1>6, MeantIs, Zenon
    <3> QED
      BY <1>2, <3>1
  <2>2. next = on \ (held \cap Shifts)
    BY <1>6, <2>1 DEF Shifts
  <2>3. DownCodes(key) = Pretend(TRUE) \o <<Prefix, Down("up")>> /\ <<Prefix, Down("up")>> \in Seq(Codes)
    BY <1>6 DEF DownCodes, Prefix, Up, Down, Codes, Keys
  <2>4. Pretend(TRUE) \in Seq(Codes) /\ Reaches(Pretend(TRUE), Goal(held, m), State(next, m.text))
    <3> HIDE DEF on, next
    <3>1. Pretend(TRUE) \in Seq(Codes)
          /\ Reaches(Pretend(TRUE), State(on, m.text), State(on \ (held \cap Shifts), m.text))
      BY PretendIs
    <3> QED
      BY <1>1, <2>2, <3>1
  <2>5. Reaches(<<Prefix, Down("up")>>, State(next, m.text), Goal(held', n))
    <3>1. After(After(State(next, m.text), Prefix), Down("up")) = Goal(held', n)
      <4>1. After(State(next, m.text), Prefix) = State(next, m.text)
        BY AfterPrefix
      <4>2. After(State(next, m.text), Down("up")) = State(next, Append(m.text, "8"))
        BY AfterChar
      <4> QED
        BY <1>1, <2>1, <4>1, <4>2
    <3> QED
      BY <3>1, ReachTwo
  <2>6. n \in Meanings
    BY <1>2, <1>6, <2>1 DEF Meanings
  <2>7. Reaches(DownCodes(key), Goal(held, m), Goal(held', n))
    BY <2>3, <2>4, <2>5, ReachBoth
  <2>8. DownCodes(key) \in Seq(Codes)
    BY <2>3, <2>4, BothCodes
  <2> QED
    BY <2>6, <2>7, <2>8
<1> QED
  BY <1>3, <1>4, <1>5, <1>6 DEF Keys

(* What the codes of a key that comes up do. *)
LEMMA UpIs ==
  ASSUME NEW m \in Meanings, held \subseteq Keys, NEW key \in held,
         "up" \in held => key \notin Shifts, held' = held \ {key}
  PROVE  /\ UpCodes(key) \in Seq(Codes)
         /\ Reaches(UpCodes(key), Goal(held, m), Goal(held', m))
<1> DEFINE on == (IF "up" \in held THEN {} ELSE held \cap Shifts)
                   \cup (IF m.caps THEN {"caps"} ELSE {})
           next == (IF "up" \in held' THEN {} ELSE held' \cap Shifts)
                     \cup (IF m.caps THEN {"caps"} ELSE {})
<1>1. Goal(held, m) = State(on, m.text) /\ Goal(held', m) = State(next, m.text)
  BY DEF Goal
<1>2. key \in Keys
  OBVIOUS
<1>3. CASE key # "up"
  <2>1. UpCodes(key) = <<Up(key)>> /\ Up(key) \in Codes
    BY <1>2, <1>3 DEF UpCodes, Up, Codes
  <2>2. After(Goal(held, m), Up(key)) = Goal(held', m)
    <3>1. CASE key \in Shifts
      <4>1. next = on \ {key}
        BY <3>1 DEF Shifts
      <4> QED
        BY <1>1, <3>1, <4>1, AfterShift
    <3>2. CASE key \notin Shifts
      <4>1. next = on
        BY <1>3, <3>2
      <4>2. key \in {"a", "up", "caps"}
        BY <1>2, <3>2 DEF Keys
      <4> QED
        BY <1>1, <4>1, <4>2, AfterUp
    <3> QED
      BY <3>1, <3>2
  <2>3. Reaches(<<Up(key)>>, Goal(held, m), Goal(held', m))
    BY <2>2, ReachOne
  <2> QED
    BY <1>2, <2>1, <2>3
<1>4. CASE key = "up"
  <2>1. UpCodes(key) = <<Prefix, Up("up")>> \o Pretend(FALSE) /\ <<Prefix, Up("up")>> \in Seq(Codes)
    BY <1>4 DEF UpCodes, Prefix, Up, Codes, Keys
  <2>2. next = on \cup (held \cap Shifts)
    BY <1>4 DEF Shifts
  <2>3. Reaches(<<Prefix, Up("up")>>, Goal(held, m), Goal(held, m))
    <3>1. After(After(Goal(held, m), Prefix), Up("up")) = Goal(held, m)
      BY <1>1, AfterPrefix, AfterUp
    <3> QED
      BY <3>1, ReachTwo
  <2>4. Pretend(FALSE) \in Seq(Codes) /\ Reaches(Pretend(FALSE), Goal(held, m), Goal(held', m))
    <3> HIDE DEF on, next
    <3>1. Pretend(FALSE) \in Seq(Codes)
          /\ Reaches(Pretend(FALSE), State(on, m.text), State(on \cup (held \cap Shifts), m.text))
      BY PretendIs
    <3> QED
      BY <1>1, <2>2, <3>1
  <2>5. UpCodes(key) \in Seq(Codes) /\ Reaches(UpCodes(key), Goal(held, m), Goal(held', m))
    <3> DEFINE p == <<Prefix, Up("up")>>
               q == Pretend(FALSE)
    <3>1. /\ p \in Seq(Codes) /\ q \in Seq(Codes) /\ UpCodes(key) = p \o q
          /\ Reaches(p, Goal(held, m), Goal(held, m)) /\ Reaches(q, Goal(held, m), Goal(held', m))
      BY <2>1, <2>3, <2>4
    <3> HIDE DEF p, q
    <3>2. p \o q \in Seq(Codes) /\ Reaches(p \o q, Goal(held, m), Goal(held', m))
      BY <3>1, ReachBoth, BothCodes
    <3> QED
      BY <3>1, <3>2
  <2> QED
    BY <1>2, <2>5
<1> QED
  BY <1>3, <1>4

(* What the codes of a key that is repeated do. *)
LEMMA RepeatIs ==
  ASSUME NEW m \in Meanings, held \subseteq Keys, NEW key \in held,
         "up" \in held => key \notin Shifts, held' = held
  PROVE  /\ RepeatCodes(key) \in Seq(Codes)
         /\ Reaches(RepeatCodes(key), Goal(held, m), Goal(held', Meant(m, key)))
         /\ Meant(m, key) \in Meanings
<1>1. CASE key # "up"
  <2>1. RepeatCodes(key) = DownCodes(key)
    BY <1>1 DEF RepeatCodes, DownCodes
  <2>2. held' = held \cup {key} /\ key \in Keys
    OBVIOUS
  <2>3. "up" \notin held \/ key \notin Shifts \cup {"up"}
    BY <1>1
  <2>4. /\ DownCodes(key) \in Seq(Codes)
        /\ Reaches(DownCodes(key), Goal(held, m), Goal(held', Meant(m, key)))
        /\ Meant(m, key) \in Meanings
    BY <2>2, <2>3, DownIs
  <2> QED
    BY <2>1, <2>4
<1>2. CASE key = "up"
  <2> DEFINE n == Meant(m, key)
             on == IF m.caps THEN {"caps"} ELSE {}
  <2>1. n = [text |-> Append(m.text, "8"), caps |-> m.caps]
    <3>1. m = [text |-> m.text, caps |-> m.caps]
      BY DEF Meanings
    <3>2. n = [m EXCEPT !.text = Append(@, "8")]
      BY <1>2, MeantIs, Zenon
    <3> QED
      BY <3>1, <3>2
  <2>2. Goal(held, m) = State(on, m.text) /\ Goal(held', n) = State(on, n.text)
    BY <1>2, <2>1 DEF Goal
  <2>3. RepeatCodes(key) = <<Prefix, Down("up")>> /\ <<Prefix, Down("up")>> \in Seq(Codes)
    BY <1>2 DEF RepeatCodes, Prefix, Up, Down, Codes, Keys
  <2> HIDE DEF on
  <2>4. After(After(State(on, m.text), Prefix), Down("up")) = State(on, n.text)
    <3>1. After(State(on, m.text), Prefix) = State(on, m.text)
      BY AfterPrefix
    <3>2. After(State(on, m.text), Down("up")) = State(on, Append(m.text, "8"))
      BY AfterChar
    <3> QED
      BY <2>1, <3>1, <3>2
  <2>5. n \in Meanings
    BY <2>1 DEF Meanings
  <2>6. Reaches(<<Prefix, Down("up")>>, State(on, m.text), State(on, n.text))
    BY <2>4, ReachTwo
  <2> QED
    BY <2>2, <2>3, <2>5, <2>6
<1> QED
  BY <1>1, <1>2

(* A key types the same whatever the state of caps lock. *)
LEMMA MeantAlike ==
  ASSUME NEW m \in Meanings, NEW n \in Meanings, NEW key \in Keys, SameKeys(m.text, n.text)
  PROVE  SameKeys(Meant(m, key).text, Meant(n, key).text)
<1> DEFINE sign(k) == IF key = "up" THEN "8" ELSE IF Shifted(k.caps) THEN "A" ELSE "a"
<1>1. ASSUME NEW k \in Meanings
      PROVE  Meant(k, key).text = IF key \in {"a", "up"} THEN Append(k.text, sign(k)) ELSE k.text
  <2>1. k = [text |-> k.text, caps |-> k.caps]
    BY DEF Meanings
  <2>2. CASE key = "a"
    <3>1. Meant(k, key) = [k EXCEPT !.text = Append(@, IF Shifted(k.caps) THEN "A" ELSE "a")]
      BY <2>2, MeantIs, Zenon
    <3> QED
      BY <2>1, <2>2, <3>1
  <2>3. CASE key = "up"
    <3>1. Meant(k, key) = [k EXCEPT !.text = Append(@, "8")]
      BY <2>3, MeantIs, Zenon
    <3> QED
      BY <2>1, <2>3, <3>1
  <2>4. CASE key = "caps"
    <3>1. Meant(k, key) = [k EXCEPT !.caps = ~@]
      BY <2>4, MeantIs, Zenon
    <3> QED
      BY <2>1, <2>4, <3>1
  <2>5. CASE key \in Shifts
    <3>1. Meant(k, key) = k
      BY <2>5, MeantIs
    <3> QED
      BY <2>5, <3>1 DEF Shifts
  <2> QED
    BY <2>2, <2>3, <2>4, <2>5 DEF Keys
<1>2. (sign(m) = "8") = (sign(n) = "8")
  OBVIOUS
<1>3. m.text \in Seq({"a", "A", "8"}) /\ n.text \in Seq({"a", "A", "8"})
  BY DEF Meanings
<1>4. SameKeys(Append(m.text, sign(m)), Append(n.text, sign(n)))
  <2> HIDE DEF sign
  <2> QED
    BY <1>2, <1>3 DEF SameKeys
<1> QED
  BY <1>1, <1>4

(* The driver, once it has handled the code in the controller's buffer.    *)
Pending == IF output = None THEN Driver ELSE After(Driver, output)

(* The meanings that the driver may be on the way to: the one that was     *)
(* meant, or any with the same keys once caps lock was repeated.           *)
Agrees(m) ==
  /\ m \in Meanings
  /\ SameKeys(m.text, meant.text)
  /\ ~capsRepeated => m = meant

MeantTypes == held \subseteq Keys /\ meant \in Meanings

(* The codes on their way make of the driver what was meant.               *)
Follows ==
  /\ queue \in Seq(Codes)
  /\ output \in Codes \cup {None}
  /\ MeantTypes
  /\ handler.at = "data" => output # None
  /\ ~lost => \E m : Agrees(m) /\ Reaches(queue, Pending, Goal(held, m))

LEMMA NoneIsNoCode == None \notin Codes
BY DEF None, Codes, Keys, Shifts

LEMMA InitFollows == Init => Follows
<1> SUFFICES ASSUME Init
             PROVE  Follows
  OBVIOUS
<1>1. Pending = State({}, <<>>)
  BY DEF Init, KeyboardInit, Pending, Driver, On, State
<1>2. Goal(held, meant) = State({}, <<>>)
  BY DEF Init, KeyboardInit, Goal
<1>3. MeantTypes /\ Agrees(meant)
  BY DEF Init, KeyboardInit, MeantTypes, Meanings, Agrees, SameKeys
<1>4. queue = <<>> /\ output = None /\ handler.at = "none"
  BY DEF Init, KeyboardInit, NoHandler
<1>5. Reaches(queue, Pending, Goal(held, meant))
  BY <1>1, <1>2, <1>4, ReachNone
<1> QED
  BY <1>3, <1>4, <1>5 DEF Follows

(* What is sent is added to what is on its way, or lost.                   *)
LEMMA SendFollows ==
  ASSUME Follows, NEW codes \in Seq(Codes), Send(codes),
         \A m : Agrees(m) => \E n : Agrees(n)' /\ Reaches(codes, Goal(held, m), Goal(held', n)),
         MeantTypes', UNCHANGED <<intVars, driverVars>>
  PROVE  Follows'
<1>1. output' = output /\ handler' = handler /\ Pending' = Pending
  BY DEF intVars, cpuVars, driverVars, Pending, Driver
<1>2. CASE queue' = queue \o codes /\ lost' = lost
  <2>1. queue' \in Seq(Codes)
    BY <1>2, BothCodes DEF Follows
  <2>2. ASSUME ~lost
        PROVE  \E n : Agrees(n)' /\ Reaches(queue', Pending, Goal(held', n))
    <3>1. PICK m : Agrees(m) /\ Reaches(queue, Pending, Goal(held, m))
      BY <2>2 DEF Follows
    <3>2. PICK n : Agrees(n)' /\ Reaches(codes, Goal(held, m), Goal(held', n))
      BY <3>1
    <3>3. Reaches(queue', Pending, Goal(held', n))
      BY <1>2, <3>1, <3>2, ReachBoth DEF Follows
    <3> QED
      BY <3>2, <3>3
  <2> QED
    BY <1>1, <1>2, <2>1, <2>2 DEF Follows
<1>3. CASE lost' = TRUE /\ queue' = queue
  BY <1>1, <1>3 DEF Follows
<1> QED
  BY <1>2, <1>3 DEF Send

LEMMA TypeFollows ==
  ASSUME Follows, Type
  PROVE  Follows'
<1>1. PICK key \in Keys : Press(key) \/ Repeat(key) \/ Release(key)
  BY DEF Type, Typist
<1>2. UNCHANGED <<intVars, driverVars>> /\ MeantTypes
  BY DEF Type, Follows
<1>3. CASE Press(key)
  <2>1. "up" \notin held \/ key \notin Shifts \cup {"up"}
    BY <1>3 DEF Press
  <2>2. /\ Send(DownCodes(key)) /\ meant' = Meant(meant, key) /\ held' = held \cup {key}
        /\ capsRepeated' = capsRepeated
    BY <1>3 DEF Press
  <2>3. DownCodes(key) \in Seq(Codes) /\ MeantTypes'
    BY <1>2, <2>1, <2>2, DownIs DEF MeantTypes
  <2>4. ASSUME NEW m, Agrees(m)
        PROVE  \E n : Agrees(n)' /\ Reaches(DownCodes(key), Goal(held, m), Goal(held', n))
    <3> DEFINE n == Meant(m, key)
    <3>1. n \in Meanings /\ Reaches(DownCodes(key), Goal(held, m), Goal(held', n))
      BY <2>1, <2>2, <2>4, DownIs DEF Agrees
    <3>2. SameKeys(n.text, meant'.text)
      BY <1>2, <2>2, <2>4, MeantAlike DEF Agrees, MeantTypes
    <3>3. ~capsRepeated' => n = meant'
      BY <2>2, <2>4 DEF Agrees
    <3> QED
      BY <3>1, <3>2, <3>3 DEF Agrees
  <2> QED
    BY <1>2, <2>2, <2>3, <2>4, SendFollows
<1>4. CASE Repeat(key)
  <2>1. ("up" \in held => key \notin Shifts) /\ key \in held
    BY <1>4 DEF Repeat
  <2>2. /\ Send(RepeatCodes(key)) /\ held' = held
        /\ meant' = IF key = "caps" THEN meant ELSE Meant(meant, key)
        /\ capsRepeated' = (capsRepeated \/ key = "caps")
    BY <1>4 DEF Repeat
  <2>3. RepeatCodes(key) \in Seq(Codes) /\ MeantTypes'
    BY <1>2, <2>1, <2>2, RepeatIs DEF MeantTypes
  <2>4. ASSUME NEW m, Agrees(m)
        PROVE  \E n : Agrees(n)' /\ Reaches(RepeatCodes(key), Goal(held, m), Goal(held', n))
    <3> DEFINE n == Meant(m, key)
    <3>1. n \in Meanings /\ Reaches(RepeatCodes(key), Goal(held, m), Goal(held', n))
      BY <1>2, <2>1, <2>2, <2>4, RepeatIs DEF Agrees, MeantTypes
    <3>2. SameKeys(n.text, meant'.text)
      <4>1. CASE key = "caps"
        <5>1. m = [text |-> m.text, caps |-> m.caps]
          BY <2>4 DEF Agrees, Meanings
        <5>2. n.text = m.text
          BY <4>1, <5>1, MeantIs
        <5> QED
          BY <2>2, <2>4, <4>1, <5>2 DEF Agrees
      <4>2. CASE key # "caps"
        BY <1>2, <2>2, <2>4, <4>2, MeantAlike DEF Agrees, MeantTypes
      <4> QED
        BY <4>1, <4>2
    <3>3. ~capsRepeated' => n = meant'
      BY <2>2, <2>4 DEF Agrees
    <3> QED
      BY <3>1, <3>2, <3>3 DEF Agrees
  <2> QED
    BY <1>2, <2>2, <2>3, <2>4, SendFollows
<1>5. CASE Release(key)
  <2>1. ("up" \in held => key \notin Shifts) /\ key \in held
    BY <1>5 DEF Release
  <2>2. /\ Send(UpCodes(key)) /\ held' = held \ {key}
        /\ meant' = meant /\ capsRepeated' = capsRepeated
    BY <1>5 DEF Release
  <2>3. UpCodes(key) \in Seq(Codes) /\ MeantTypes'
    BY <1>2, <2>1, <2>2, UpIs DEF MeantTypes
  <2>4. ASSUME NEW m, Agrees(m)
        PROVE  \E n : Agrees(n)' /\ Reaches(UpCodes(key), Goal(held, m), Goal(held', n))
    <3>1. Agrees(m)'
      BY <2>2, <2>4 DEF Agrees
    <3>2. Reaches(UpCodes(key), Goal(held, m), Goal(held', m))
      BY <1>2, <2>1, <2>2, <2>4, UpIs DEF Agrees, MeantTypes
    <3> QED
      BY <3>1, <3>2
  <2> QED
    BY <1>2, <2>2, <2>3, <2>4, SendFollows
<1> QED
  BY <1>1, <1>3, <1>4, <1>5

(* Nothing changes that the codes on their way are about.                  *)
LEMMA StillFollows ==
  ASSUME Follows, UNCHANGED <<output, driverVars, keyboardVars>>,
         handler'.at = "data" => output # None
  PROVE  Follows'
<1>1. Pending' = Pending /\ held' = held /\ (MeantTypes' <=> MeantTypes)
  BY DEF Pending, Driver, MeantTypes, driverVars, keyboardVars
<1>2. \A m : Agrees(m)' <=> Agrees(m)
  BY DEF Agrees, keyboardVars
<1> QED
  BY <1>1, <1>2 DEF Follows, keyboardVars

LEMMA FillFollows ==
  ASSUME Follows, Fill
  PROVE  Follows'
<1>1. /\ queue \in Seq(Codes) /\ queue # <<>> /\ output = None
      /\ queue' = Tail(queue) /\ output' = Head(queue)
      /\ UNCHANGED <<driverVars, held, meant, lost, capsRepeated, handler>>
  BY DEF Follows, Fill, cpuVars
<1>2. Head(queue) \in Codes /\ Tail(queue) \in Seq(Codes)
  BY <1>1
<1>3. Pending = Driver /\ Pending' = After(Driver, Head(queue))
  BY <1>1, <1>2, NoneIsNoCode DEF Pending, Driver, driverVars
<1>4. (\A m : Agrees(m)' <=> Agrees(m)) /\ MeantTypes'
  BY <1>1 DEF Agrees, MeantTypes, Follows
<1>5. ASSUME ~lost
      PROVE  \E m : Agrees(m)' /\ Reaches(queue', Pending', Goal(held', m))
  <2>1. PICK m : Agrees(m) /\ Reaches(queue, Pending, Goal(held, m))
    BY <1>5 DEF Follows
  <2>2. Reaches(Tail(queue), After(Driver, Head(queue)), Goal(held, m))
    BY <1>1, <1>3, <2>1, ReachTail
  <2> QED
    BY <1>1, <1>3, <1>4, <2>1, <2>2
<1>6. output' # None
  BY <1>1, <1>2, NoneIsNoCode
<1> QED
  BY <1>1, <1>2, <1>3, <1>4, <1>5, <1>6 DEF Follows

LEMMA ReadFollows ==
  ASSUME TypeOK, Follows, ReadData
  PROVE  Follows'
<1>1. /\ output \in Codes /\ output # None /\ output' = None /\ KeyboardHandler(output)
      /\ UNCHANGED keyboardVars
  BY DEF Follows, ReadData
<1>2. Driver' = After(Driver, output)
  BY <1>1, HandlerIs
<1>3. Pending' = Pending
  BY <1>1, <1>2 DEF Pending
<1>4. held' = held /\ (\A m : Agrees(m)' <=> Agrees(m)) /\ (MeantTypes' <=> MeantTypes)
  BY <1>1 DEF Agrees, MeantTypes, keyboardVars
<1>5. handler'.at = "return"
  BY DEF ReadData, Goto, TypeOK
<1> QED
  BY <1>1, <1>3, <1>4, <1>5 DEF Follows, keyboardVars

LEMMA NextFollows == TypeOK /\ Follows /\ [Next]_vars => Follows'
<1> SUFFICES ASSUME TypeOK, Follows, [Next]_vars
             PROVE  Follows'
  OBVIOUS
<1>1. CASE Type
  BY <1>1, TypeFollows
<1>2. CASE Fill
  BY <1>2, FillFollows
<1>3. CASE ReadData
  BY <1>3, ReadFollows
<1>4. CASE ReadStatus
  BY <1>4, StillFollows DEF ReadStatus, Goto
<1>5. CASE EndSlave \/ EndMaster \/ Return
  <2>1. handler'.at # "data" /\ UNCHANGED <<output, driverVars, keyboardVars>>
    <3>1. CASE EndSlave
      BY <3>1 DEF EndSlave, Goto
    <3>2. CASE EndMaster
      BY <3>2 DEF EndMaster, Goto
    <3>3. CASE Return
      BY <3>3 DEF Return, NoHandler
    <3> QED
      BY <1>5, <3>1, <3>2, <3>3
  <2> QED
    BY <2>1, StillFollows
<1>6. ASSUME NEW i, Deliver(i) \/ Spurious(i)
      PROVE  Follows'
  <2>1. handler'.at # "data"
    <3>1. Enter(i)
      BY <1>6 DEF Deliver, Spurious
    <3> QED
      BY <3>1 DEF Enter
  <2>2. UNCHANGED <<output, driverVars, keyboardVars>>
    BY <1>6 DEF Deliver, Spurious
  <2> QED
    BY <2>1, <2>2, StillFollows
<1>7. CASE InitPics \/ FillGates \/ LoadIdt
  <2>1. UNCHANGED <<handler, output, driverVars, keyboardVars>>
    BY <1>7 DEF InitPics, FillGates, LoadIdt
  <2> QED
    BY <2>1, StillFollows DEF Follows
<1>8. ASSUME NEW i \in OtherIrqs, OtherDevice(i)
      PROVE  Follows'
  <2>1. UNCHANGED <<handler, output, driverVars, keyboardVars>>
    BY <1>8 DEF OtherDevice, cpuVars
  <2> QED
    BY <2>1, StillFollows DEF Follows
<1>9. CASE UNCHANGED vars
  <2>1. UNCHANGED <<handler, output, driverVars, keyboardVars>>
    BY <1>9 DEF vars, intVars, cpuVars
  <2> QED
    BY <2>1, StillFollows DEF Follows
<1> QED
  BY <1>1, <1>2, <1>3, <1>4, <1>5, <1>6, <1>7, <1>8, <1>9 DEF Next, Processor

LEMMA FollowsMeans == TypeOK /\ Follows => TypedAsMeant
<1> SUFFICES ASSUME TypeOK, Follows, AllHandled, ~lost
             PROVE  /\ SameKeys(tempBuffer, meant.text)
                    /\ ~capsRepeated => tempBuffer = meant.text /\ capsLock = meant.caps
                    /\ "up" \notin held => lshift = ("lshift" \in held) /\ rshift = ("rshift" \in held)
  BY DEF TypedAsMeant
<1>0. PICK m : Agrees(m) /\ Reaches(queue, Pending, Goal(held, m))
  BY DEF Follows
<1>1. Driver = Goal(held, m)
  <2>1. Reaches(<<>>, Driver, Goal(held, m))
    BY <1>0 DEF AllHandled, Pending
  <2> QED
    BY <2>1, ReachedAlready
<1>2. /\ tempBuffer = m.text
      /\ On(lshift, rshift, capsLock) =
           (IF "up" \in held THEN {} ELSE held \cap Shifts) \cup (IF m.caps THEN {"caps"} ELSE {})
  BY <1>1 DEF Driver, Goal, State
<1>3. lshift \in BOOLEAN /\ rshift \in BOOLEAN /\ capsLock \in BOOLEAN /\ m.caps \in BOOLEAN
  BY <1>0 DEF TypeOK, Agrees, Meanings
<1>4. capsLock <=> m.caps
  BY <1>2 DEF On, Shifts
<1>5. ASSUME "up" \notin held
      PROVE  (lshift <=> "lshift" \in held) /\ (rshift <=> "rshift" \in held)
  BY <1>2, <1>5 DEF On, Shifts
<1>6. capsLock = m.caps
  BY <1>3, <1>4, Zenon
<1>7. ASSUME "up" \notin held
      PROVE  lshift = ("lshift" \in held) /\ rshift = ("rshift" \in held)
  <2>1. (lshift <=> "lshift" \in held) /\ (rshift <=> "rshift" \in held)
    BY <1>5, <1>7
  <2>2. lshift = ("lshift" \in held)
    <3>1. CASE lshift
      BY <2>1, <3>1, <1>3
    <3>2. CASE ~lshift
      BY <2>1, <3>2, <1>3
    <3> QED
      BY <3>1, <3>2
  <2>3. rshift = ("rshift" \in held)
    <3>1. CASE rshift
      BY <2>1, <3>1, <1>3
    <3>2. CASE ~rshift
      BY <2>1, <3>2, <1>3
    <3> QED
      BY <3>1, <3>2
  <2> QED
    BY <2>2, <2>3
<1>8. SameKeys(tempBuffer, meant.text)
  BY <1>0, <1>2 DEF Agrees
<1>9. ~capsRepeated => tempBuffer = meant.text /\ capsLock = meant.caps
  BY <1>0, <1>2, <1>6, Zenon DEF Agrees
<1> QED
  BY <1>7, <1>8, <1>9, Zenon

(* When all codes are handled, the text and the shift keys are the ones    *)
(* that were meant, whatever interrupts came in between, as long as the    *)
(* keyboard did not lose a code. Any key may be pressed, released and held *)
(* until it is repeated, but for a shift key while a grey key is down. A   *)
(* repeated caps lock changes the driver's state every time: from then on  *)
(* every key still has its character, but letters may have the wrong case  *)
(* (keyboard.c:45-83, interrupts.c:207-280).                               *)
THEOREM KeysAsMeant == Spec => []TypedAsMeant
<1>1. Init => Follows
  BY InitFollows
<1>2. TypeOK /\ Follows /\ [Next]_vars => Follows'
  BY NextFollows
<1>3. TypeOK /\ Follows => TypedAsMeant
  BY FollowsMeans
<1> QED
  BY <1>1, <1>2, <1>3, TypeCorrect, PTL DEF Spec
=============================================================================
