---------------------------- MODULE NamesProofs ----------------------------
(***************************************************************************)
(* Proofs about Names. The records of a directory are one sequence, joined *)
(* from those of its items: Begin(i) is where those of item i begin. The   *)
(* invariant says which record of which item the scan has come to, that    *)
(* longName holds the pieces of that item's name that have been read and   *)
(* nothing else, that LongFileNameIdx counts those that are still to come, *)
(* and that the items passed were printed, or do not have the name that is *)
(* searched for.                                                           *)
(***************************************************************************)
EXTENDS Names, FiniteSetTheorems, SequenceTheorems, TLAPS

(* The sequence whose i-th element is the first i elements of seqs joined. *)
Joined(seqs) ==
  LET f[i \in 1 .. Len(seqs)] == IF i = 1 THEN seqs[i] ELSE f[i - 1] \o seqs[i]
  IN f

Layouts == [i \in DOMAIN items |-> Layout(items[i])]

(* The records before those of item i. *)
Begin(i) == IF i = 1 THEN 0 ELSE Len(Joined(Layouts)[i - 1])

Pieces(i) == Chunks(items[i].long)

(* The records of item i; behind the last item is the end mark. *)
Size(i) == IF i \in DOMAIN items THEN Pieces(i) + 1 ELSE 1

Piecewise == 1 .. MaxChunks * ChunkLen + 1

(* longName with all pieces of text but the first "left". *)
Held(text, left) ==
  [c \in Piecewise |-> IF c <= Len(text) /\ (c - 1) \div ChunkLen >= left THEN text[c] ELSE NUL]

(* The scan has come to record k of item i. *)
Place(i, k) ==
  /\ at = Begin(i) + k
  /\ longName = IF i \in DOMAIN items THEN Held(items[i].long, Pieces(i) - k + 1) ELSE Cleared
  /\ k > 1 => LongFileNameIdx = Pieces(i) - k + 1

(* What became of the items before item i. *)
Passed(i) ==
  /\ op = "list" => printed = [j \in 1 .. i - 1 |-> ListedAs(items[j])]
  /\ op = "find" /\ Plain(target) => \A j \in 1 .. i - 1 : ~Named(items[j], target)

Fields ==
  /\ items \in UNION {[1 .. n -> Items] : n \in 0 .. MaxItems}
  /\ op \in {"find", "list"}
  /\ target \in IF op = "find" THEN Targets ELSE {<<>>}

Scans ==
  Readable /\ outcome = "none" =>
    \E i \in 1 .. Len(items) + 1 : \E k \in 1 .. Size(i) : Place(i, k) /\ Passed(i)

(* In a directory whose long names can be read the scan neither gives up   *)
(* nor writes outside longName (filesys.c:336-345, 443-452).               *)
NamesAreRead == Readable => outcome \notin {"gave up", "overrun"}

IInv == Fields /\ Scans /\ NamesAreRead /\ ListsNames /\ FindsByName

-----------------------------------------------------------------------------
(* Numbers, and sequences joined. *)

LEMMA Sizes ==
  /\ Base \in Nat /\ Ext \in Nat /\ Base >= 2 /\ Ext >= 1
  /\ ChunkLen \in Nat /\ ChunkLen > 0
  /\ MaxChunks \in Nat /\ MaxChunks > 0
  /\ MaxItems \in Nat
  /\ Nibble \in Nat /\ Nibble > MaxChunks
BY NamesAssumption DEF NamesAssumption

LEMMA Room ==
  \E cells \in Nat : cells = MaxChunks * ChunkLen /\ Base + Ext <= cells
<1>1. MaxChunks * ChunkLen \in Nat /\ Base + Ext <= MaxChunks * ChunkLen
  BY NamesAssumption, Sizes DEF NamesAssumption
<1> QED
  BY <1>1

(* A set of numbers that is not empty has a least one. *)
LEMMA LeastIs ==
  ASSUME NEW S \in SUBSET Nat, S # {}
  PROVE  \E x \in S : \A n \in S : x <= n
<1> DEFINE less == {pair \in Nat \X Nat : pair[1] < pair[2]}
<1>1. IsWellFoundedOn(less, Nat)
  BY NatLessThanWellFounded DEF OpToRel
<1>2. PICK x \in S : \A y \in S : ~(<<y, x>> \in less)
  <2> HIDE DEF less
  <2> QED
    BY <1>1, WFMin
<1>3. ASSUME NEW y \in S
      PROVE  x <= y
  <2>1. x \in Nat /\ y \in Nat
    OBVIOUS
  <2>2. y < x => <<y, x>> \in less
    BY <2>1
  <2> QED
    BY <1>2, <2>1, <2>2
<1> QED
  BY <1>2, <1>3

LEMMA Division ==
  ASSUME NEW c \in Nat, NEW e \in Nat, e > 0
  PROVE  \E q \in Nat, r \in 0 .. e - 1 : q = c \div e /\ r = c % e /\ q * e + r = c
<1>1. PICK q \in Int : q = c \div e
  OBVIOUS
<1>2. PICK r \in Int : r = c % e
  OBVIOUS
<1>3. c = q * e + r
  BY <1>1, <1>2
<1>4. r \in 0 .. e - 1
  BY <1>2
<1>5. q \in Nat
  BY <1>1
<1> QED
  BY <1>1, <1>2, <1>3, <1>4, <1>5

LEMMA Product ==
  ASSUME NEW a \in Nat, NEW b \in Nat, NEW c \in Nat, a <= b
  PROVE  a * c \in Nat /\ b * c \in Nat /\ a * c <= b * c
<1>1. PICK d \in Nat : b = a + d
  BY b - a \in Nat
<1>2. b * c = a * c + d * c /\ d * c \in Nat /\ a * c \in Nat
  BY <1>1
<1> QED
  BY <1>2

(* A text is no longer than its pieces, and its last character is in the   *)
(* last of them.                                                           *)
LEMMA PiecesHold ==
  ASSUME NEW len \in Nat
  PROVE  \E n \in Nat : /\ n = (len + ChunkLen - 1) \div ChunkLen
                        /\ n * ChunkLen \in Nat /\ len <= n * ChunkLen
                        /\ \A x \in 0 .. len - 1 : x \div ChunkLen < n
                        /\ n <= MaxChunks => len <= MaxChunks * ChunkLen
<1>1. len + ChunkLen - 1 \in Nat
  BY Sizes
<1>2. PICK n \in Nat, s \in 0 .. ChunkLen - 1 :
        n = (len + ChunkLen - 1) \div ChunkLen /\ n * ChunkLen + s = len + ChunkLen - 1
  BY <1>1, Division, Sizes
<1>3. PICK nc \in Nat : nc = n * ChunkLen
  BY Sizes
<1>4. len <= nc
  BY <1>2, <1>3, Sizes
<1>5. ASSUME NEW x \in 0 .. len - 1
      PROVE  x \div ChunkLen < n
  <2>1. PICK q \in Nat, r \in 0 .. ChunkLen - 1 : q = x \div ChunkLen /\ q * ChunkLen + r = x
    BY Division, Sizes
  <2>2. q * ChunkLen <= x
    <3>1. PICK qc \in Nat : qc = q * ChunkLen
      BY Sizes
    <3> QED
      BY <2>1, <3>1, Sizes
  <2>3. n <= q => nc <= q * ChunkLen
    BY <1>3, Product, Sizes
  <2>4. PICK qc \in Nat : qc = q * ChunkLen
    BY Sizes
  <2> QED
    BY <1>4, <2>1, <2>2, <2>3, <2>4
<1>6. ASSUME n <= MaxChunks
      PROVE  len <= MaxChunks * ChunkLen
  <2>1. nc <= MaxChunks * ChunkLen /\ MaxChunks * ChunkLen \in Nat
    BY <1>3, <1>6, Product, Sizes
  <2>2. PICK mc \in Nat : mc = MaxChunks * ChunkLen
    BY <2>1
  <2> QED
    BY <1>4, <2>1, <2>2
<1> QED
  BY <1>2, <1>3, <1>4, <1>5, <1>6

(* The defining equation of Joined, up to its m-th element. *)
JoinedTo(f, seqs, m) ==
  /\ DOMAIN f = 1 .. m
  /\ m > 0 => f[1] = seqs[1]
  /\ \A i \in 2 .. m : f[i] = f[i - 1] \o seqs[i]

LEMMA JoinedExists ==
  ASSUME NEW S, NEW seqs \in Seq(S)
  PROVE  \E f : JoinedTo(f, seqs, Len(seqs)) /\ f = [i \in 1 .. Len(seqs) |-> f[i]]
<1> DEFINE good(m) == \E f : JoinedTo(f, seqs, m) /\ f = [i \in 1 .. m |-> f[i]]
<1> DEFINE wrong == {m \in Nat : ~good(m)}
<1>1. wrong \in SUBSET Nat
  OBVIOUS
<1>2. ASSUME wrong # {} PROVE FALSE
  <2>1. PICK m \in wrong : \A k \in wrong : m <= k
    <3> HIDE DEF wrong
    <3> QED
      BY <1>1, <1>2, LeastIs
  <2>2. m # 0
    <3>1. JoinedTo([i \in 1 .. 0 |-> 0], seqs, 0)
      BY DEF JoinedTo
    <3>2. PICK f : f = [i \in 1 .. 0 |-> 0]
      OBVIOUS
    <3>3. f = [i \in 1 .. 0 |-> f[i]]
      BY <3>2
    <3>4. good(0)
      BY <3>1, <3>2, <3>3
    <3> QED
      BY <2>1, <3>4
  <2>3. m - 1 \in Nat /\ ~(m - 1 \in wrong)
    BY <2>1, <2>2
  <2>4. PICK f : JoinedTo(f, seqs, m - 1)
    BY <2>3
  <2> DEFINE next == IF m = 1 THEN seqs[1] ELSE f[m - 1] \o seqs[m]
  <2>5. PICK g : g = [i \in 1 .. m |-> IF i = m THEN next ELSE f[i]]
    OBVIOUS
  <2>6. g = [i \in 1 .. m |-> g[i]]
    BY <2>5
  <2>7. DOMAIN g = 1 .. m
    BY <2>5
  <2>8. g[1] = seqs[1]
    <3>1. m = 1 \/ m - 1 > 0
      BY <2>2, <2>3
    <3> QED
      BY <2>3, <2>4, <2>5, <3>1 DEF JoinedTo
  <2>9. ASSUME NEW i \in 2 .. m
        PROVE  g[i] = g[i - 1] \o seqs[i]
    <3>1. CASE i = m
      <4>1. g[i] = next /\ m # 1 /\ g[i - 1] = f[m - 1]
        BY <2>5, <3>1
      <4> QED
        BY <3>1, <4>1
    <3>2. CASE i # m
      <4>1. i \in 2 .. m - 1 /\ g[i] = f[i] /\ g[i - 1] = f[i - 1]
        BY <2>5, <3>2
      <4> QED
        BY <2>4, <4>1 DEF JoinedTo
    <3> QED
      BY <3>1, <3>2
  <2>10. JoinedTo(g, seqs, m)
    BY <2>7, <2>8, <2>9 DEF JoinedTo
  <2>11. good(m)
    BY <2>6, <2>10
  <2> QED
    BY <2>1, <2>11
<1>3. Len(seqs) \in Nat
  BY LenProperties
<1> QED
  BY <1>2, <1>3

LEMMA JoinedIs ==
  ASSUME NEW S, NEW seqs \in Seq(S)
  PROVE  JoinedTo(Joined(seqs), seqs, Len(seqs))
<1> DEFINE body(f) == [i \in 1 .. Len(seqs) |-> IF i = 1 THEN seqs[i] ELSE f[i - 1] \o seqs[i]]
<1>1. Joined(seqs) = CHOOSE f : f = body(f)
  BY DEF Joined
<1>2. PICK f : JoinedTo(f, seqs, Len(seqs)) /\ f = [i \in 1 .. Len(seqs) |-> f[i]]
  BY JoinedExists
<1>3. PICK n \in Nat : n = Len(seqs)
  BY LenProperties
<1>4. ASSUME NEW i \in 1 .. n
      PROVE  f[i] = IF i = 1 THEN seqs[i] ELSE f[i - 1] \o seqs[i]
  <2>1. CASE i = 1
    BY <1>2, <1>3, <2>1 DEF JoinedTo
  <2>2. CASE i # 1
    <3>1. i \in 2 .. n
      BY <2>2
    <3> QED
      BY <1>2, <1>3, <2>2, <3>1 DEF JoinedTo
  <2> QED
    BY <2>1, <2>2
<1>5. f = body(f)
  BY <1>2, <1>3, <1>4
<1>6. (CHOOSE g : g = body(g)) = body(CHOOSE g : g = body(g))
  <2> HIDE DEF body
  <2> QED
    BY <1>5, Zenon
<1>7. PICK g : g = Joined(seqs)
  OBVIOUS
<1>8. g = body(g)
  <2> HIDE DEF body
  <2> QED
    BY <1>1, <1>6, <1>7
<1>9. DOMAIN g = 1 .. n /\ \A i \in 1 .. n : g[i] = IF i = 1 THEN seqs[i] ELSE g[i - 1] \o seqs[i]
  BY <1>3, <1>8
<1>10. n > 0 => g[1] = seqs[1]
  <2>1. SUFFICES ASSUME n > 0 PROVE g[1] = seqs[1]
    OBVIOUS
  <2>2. PICK i \in 1 .. n : i = 1
    BY <2>1
  <2> QED
    BY <1>9, <2>2
<1>11. ASSUME NEW i \in 2 .. n
       PROVE  g[i] = g[i - 1] \o seqs[i]
  <2>1. i \in 1 .. n /\ i # 1
    OBVIOUS
  <2> QED
    BY <1>9, <2>1
<1> QED
  BY <1>3, <1>7, <1>9, <1>10, <1>11 DEF JoinedTo

LEMMA FlattenSeqIs ==
  ASSUME NEW seqs
  PROVE  FlattenSeq(seqs) = IF Len(seqs) = 0 THEN seqs ELSE Joined(seqs)[Len(seqs)]
BY Zenon DEF FlattenSeq, Joined

(* What is joined stays in place: it is the beginning of all that follows. *)
LEMMA JoinedGrows ==
  ASSUME NEW R, NEW seqs \in Seq(Seq(R)), NEW i \in 1 .. Len(seqs), NEW j \in i .. Len(seqs)
  PROVE  /\ Joined(seqs)[i] \in Seq(R) /\ Joined(seqs)[j] \in Seq(R)
         /\ Len(Joined(seqs)[i]) <= Len(Joined(seqs)[j])
         /\ \A k \in 1 .. Len(Joined(seqs)[i]) : Joined(seqs)[j][k] = Joined(seqs)[i][k]
<1>1. PICK f : f = Joined(seqs)
  OBVIOUS
<1>2. PICK n \in Nat : n = Len(seqs)
  BY LenProperties
<1>3. /\ DOMAIN f = 1 .. n
      /\ n > 0 => f[1] = seqs[1]
      /\ \A m \in 2 .. n : f[m] = f[m - 1] \o seqs[m]
  BY <1>1, <1>2, JoinedIs DEF JoinedTo
<1>4. \A m \in 1 .. n : seqs[m] \in Seq(R)
  BY <1>2, ElementOfSeq
<1>5. ASSUME NEW a \in 1 .. n, f[a] \notin Seq(R) PROVE FALSE
  <2> DEFINE wrong == {m \in 1 .. n : f[m] \notin Seq(R)}
  <2>1. wrong \in SUBSET Nat /\ a \in wrong
    <3>1. \A m \in wrong : m \in Nat
      OBVIOUS
    <3>2. a \in wrong
      BY <1>5
    <3> QED
      BY <3>1, <3>2
  <2>2. PICK m \in wrong : \A k \in wrong : m <= k
    <3> HIDE DEF wrong
    <3> QED
      BY <2>1, LeastIs
  <2>3. m # 1
    BY <1>3, <1>4, <2>2
  <2>4. m \in 2 .. n /\ m - 1 \in 1 .. n /\ ~(m - 1 \in wrong)
    BY <2>2, <2>3
  <2>5. PICK s : s = f[m - 1]
    OBVIOUS
  <2>6. PICK t : t = seqs[m]
    OBVIOUS
  <2>7. s \in Seq(R) /\ t \in Seq(R) /\ f[m] = s \o t
    BY <1>3, <1>4, <2>4, <2>5, <2>6
  <2>8. s \o t \in Seq(R)
    BY <2>7, ConcatProperties
  <2> QED
    BY <2>2, <2>7, <2>8
<1> DEFINE Within(m) == /\ Len(f[i]) <= Len(f[m])
                        /\ \A k \in 1 .. Len(f[i]) : f[m][k] = f[i][k]
<1>6. ASSUME NEW a \in i .. n, ~Within(a) PROVE FALSE
  <2> DEFINE wrong == {m \in i .. n : ~Within(m)}
  <2>1. wrong \in SUBSET Nat /\ a \in wrong
    <3>1. \A m \in wrong : m \in Nat
      OBVIOUS
    <3>2. a \in wrong
      BY <1>6
    <3> HIDE DEF wrong
    <3> QED
      BY <3>1, <3>2
  <2>2. PICK m \in wrong : \A k \in wrong : m <= k
    <3> HIDE DEF wrong
    <3> QED
      BY <2>1, LeastIs
  <2>3. PICK u : u = f[i]
    OBVIOUS
  <2>4. u \in Seq(R) /\ Len(u) \in Nat
    BY <1>2, <1>5, <2>3, LenProperties
  <2>5. m # i
    <3>1. Within(i)
      BY <2>3, <2>4
    <3> QED
      BY <2>2, <3>1
  <2>6. m \in 2 .. n /\ m - 1 \in i .. n /\ ~(m - 1 \in wrong)
    BY <1>2, <2>2, <2>5
  <2>7. PICK s : s = f[m - 1]
    OBVIOUS
  <2>8. PICK t : t = seqs[m]
    OBVIOUS
  <2>9. s \in Seq(R) /\ t \in Seq(R) /\ f[m] = s \o t
    <3>1. m \in 1 .. n /\ m - 1 \in 1 .. n
      BY <1>2, <2>6
    <3>2. s \in Seq(R)
      BY <1>5, <2>7, <3>1
    <3> QED
      BY <1>3, <1>4, <2>6, <2>7, <2>8, <3>1, <3>2
  <2>10. Within(m - 1)
    BY <2>6
  <2>11. /\ Len(u) <= Len(s)
         /\ \A k \in 1 .. Len(u) : s[k] = u[k]
    BY <2>3, <2>7, <2>10
  <2>12. PICK v : v = s \o t
    OBVIOUS
  <2>13. /\ Len(s) \in Nat /\ Len(t) \in Nat
         /\ Len(v) = Len(s) + Len(t)
         /\ \A k \in 1 .. Len(s) + Len(t) : v[k] = IF k <= Len(s) THEN s[k] ELSE t[k - Len(s)]
    BY <2>9, <2>12, ConcatProperties, LenProperties
  <2>14. Len(u) <= Len(v) /\ \A k \in 1 .. Len(u) : v[k] = u[k]
    BY <2>4, <2>11, <2>13
  <2>15. Within(m)
    BY <2>3, <2>9, <2>12, <2>14
  <2> QED
    BY <2>2, <2>15
<1>7. i \in 1 .. n /\ j \in 1 .. n /\ j \in i .. n
  BY <1>2
<1>8. Within(j)
  BY <1>6, <1>7
<1> QED
  BY <1>1, <1>5, <1>7, <1>8

-----------------------------------------------------------------------------
(* The records of a directory. *)

LEMMA FunctionIsSeq ==
  ASSUME NEW R, NEW n \in Nat, NEW f, f = [i \in 1 .. n |-> f[i]], \A i \in 1 .. n : f[i] \in R
  PROVE  f \in Seq(R) /\ Len(f) = n /\ DOMAIN f = 1 .. n
<1>1. f \in [1 .. n -> R]
  OBVIOUS
<1> QED
  BY <1>1

LEMMA ItemIs ==
  ASSUME NEW item \in Items
  PROVE  /\ item.long \in Seq(STRING) /\ Unpadded(item.long)
         /\ \A k \in DOMAIN item.long : item.long[k] # NUL
         /\ item.kind = "file" =>
              /\ item.base \in Seq(STRING) /\ Len(item.base) <= Base /\ Unpadded(item.base)
              /\ item.ext \in Seq(STRING) /\ Len(item.ext) <= Ext /\ Unpadded(item.ext)
              /\ CaseOk(item.base) /\ item.ext = <<>> => IsShort(item.base)
              /\ item.long # <<>> => ~IsShort(item.long)
BY DirectoryAssumption DEF DirectoryAssumption

(* The records that a directory of files consists of. *)
RecordsOf(item) ==
  {LongRecords(item.long)[k] : k \in 1 .. Chunks(item.long)} \cup {ShortRecord(item)}

AllRecords == (UNION {RecordsOf(item) : item \in Items}) \cup {[kind |-> "end"]}

LEMMA ChunksIs ==
  ASSUME NEW text \in Seq(STRING)
  PROVE  /\ Chunks(text) \in Nat
         /\ Chunks(text) <= MaxChunks => Len(text) <= MaxChunks * ChunkLen
         /\ \A x \in 0 .. Len(text) - 1 : x \div ChunkLen < Chunks(text)
<1>1. Len(text) \in Nat
  BY LenProperties
<1> QED
  BY <1>1, PiecesHold DEF Chunks

LEMMA LayoutIs ==
  ASSUME NEW item \in Items, item.kind = "file"
  PROVE  /\ Chunks(item.long) \in Nat
         /\ Layout(item) \in Seq(AllRecords)
         /\ Len(Layout(item)) = Chunks(item.long) + 1
         /\ \A k \in 1 .. Chunks(item.long) : Layout(item)[k] = LongRecords(item.long)[k]
         /\ Layout(item)[Chunks(item.long) + 1] = ShortRecord(item)
<1>1. PICK n \in Nat : n = Chunks(item.long)
  BY ItemIs, ChunksIs
<1>2. PICK f : f = LongRecords(item.long)
  OBVIOUS
<1>3. f = [i \in 1 .. n |-> f[i]]
  <2> DEFINE record(i) == [kind |-> "long", start |-> i = 1, n |-> n - i + 1,
                           chars |-> Chunk(item.long, n - i + 1)]
  <2>1. f = [i \in 1 .. n |-> record(i)]
    BY <1>1, <1>2, Zenon DEF LongRecords
  <2> HIDE DEF record
  <2> QED
    BY <2>1
<1>4. PICK short : short = ShortRecord(item)
  OBVIOUS
<1>5. RecordsOf(item) \subseteq AllRecords
  BY DEF AllRecords
<1>6. short \in AllRecords
  BY <1>4, <1>5 DEF RecordsOf
<1>7. \A k \in 1 .. n : f[k] \in AllRecords
  BY <1>1, <1>2, <1>5 DEF RecordsOf
<1>8. f \in Seq(AllRecords) /\ Len(f) = n
  BY <1>3, <1>7, FunctionIsSeq
<1>9. Layout(item) = f \o <<short>>
  BY <1>2, <1>4, Zenon DEF Layout
<1>10. <<short>> \in Seq(AllRecords) /\ Len(<<short>>) = 1 /\ <<short>>[1] = short
  BY <1>6
<1>11. PICK t : t = <<short>>
  OBVIOUS
<1>12. PICK s : s = f \o t
  OBVIOUS
<1>13. /\ s \in Seq(AllRecords)
       /\ Len(s) = n + 1
       /\ \A k \in 1 .. n + 1 : s[k] = IF k <= n THEN f[k] ELSE t[k - n]
  BY <1>8, <1>10, <1>11, <1>12, ConcatProperties
<1>14. \A k \in 1 .. n : s[k] = f[k]
  BY <1>13
<1>15. s[n + 1] = short
  <2>1. n + 1 \in 1 .. n + 1 /\ ~(n + 1 <= n) /\ (n + 1) - n = 1
    OBVIOUS
  <2>2. PICK k \in 1 .. n + 1 : k = n + 1 /\ ~(k <= n) /\ k - n = 1
    BY <2>1
  <2>3. s[k] = t[k - n]
    BY <1>13, <2>2
  <2> QED
    BY <1>10, <1>11, <2>2, <2>3
<1> QED
  BY <1>1, <1>2, <1>4, <1>9, <1>11, <1>12, <1>13, <1>14, <1>15

LEMMA FieldsIs ==
  ASSUME Fields
  PROVE  /\ Len(items) \in Nat /\ DOMAIN items = 1 .. Len(items)
         /\ \A i \in 1 .. Len(items) : items[i] \in Items
         /\ target \in Seq(STRING)
<1>1. PICK n \in 0 .. MaxItems : items \in [1 .. n -> Items]
  BY DEF Fields
<1>2. items \in Seq(Items) /\ Len(items) = n
  BY <1>1, Sizes
<1>3. target \in Seq(STRING)
  <2>1. <<>> \in Seq(STRING)
    BY EmptySeq
  <2> QED
    BY <2>1, DirectoryAssumption DEF Fields, DirectoryAssumption
<1> QED
  BY <1>1, <1>2, <1>3

LEMMA ReadableIs ==
  ASSUME Fields, Readable, NEW i \in 1 .. Len(items)
  PROVE  /\ items[i] \in Items /\ items[i].kind = "file"
         /\ items[i].long \in Seq(STRING)
         /\ Pieces(i) \in 0 .. MaxChunks
         /\ Len(items[i].long) <= MaxChunks * ChunkLen
         /\ \A k \in 1 .. Len(items[i].long) : items[i].long[k] # Wide /\ items[i].long[k] # NUL
<1>1. DOMAIN items = 1 .. Len(items) /\ items[i] \in Items
  BY FieldsIs
<1>2. /\ items[i].kind = "file" /\ Chunks(items[i].long) <= MaxChunks
      /\ \A k \in DOMAIN items[i].long : items[i].long[k] # Wide
  BY <1>1 DEF Readable
<1>3. PICK text : text = items[i].long
  OBVIOUS
<1>4. text \in Seq(STRING) /\ \A k \in DOMAIN text : text[k] # NUL
  BY <1>1, <1>3, ItemIs
<1>5. DOMAIN text = 1 .. Len(text)
  BY <1>4, LenProperties
<1>6. Chunks(text) \in Nat /\ (Chunks(text) <= MaxChunks => Len(text) <= MaxChunks * ChunkLen)
  BY <1>4, ChunksIs
<1>7. Chunks(text) \in 0 .. MaxChunks
  BY <1>2, <1>3, <1>6, Sizes
<1> QED
  BY <1>1, <1>2, <1>3, <1>4, <1>5, <1>6, <1>7 DEF Pieces

(* The records of each item follow those of the item before. *)
LEMMA BeginIs ==
  ASSUME Fields, Readable
  PROVE  /\ Begin(1) = 0
         /\ \A i \in 1 .. Len(items) :
              /\ Begin(i) \in Nat /\ Begin(i + 1) = Begin(i) + Pieces(i) + 1
              /\ \A k \in 1 .. Pieces(i) : Records[Begin(i) + k] = LongRecords(items[i].long)[k]
              /\ Records[Begin(i) + Pieces(i) + 1] = ShortRecord(items[i])
         /\ Begin(Len(items) + 1) \in Nat
         /\ Records[Begin(Len(items) + 1) + 1] = [kind |-> "end"]
<1>1. PICK n \in Nat : n = Len(items)
  BY FieldsIs
<1>2. DOMAIN items = 1 .. n
  BY <1>1, FieldsIs
<1>3. PICK l : l = Layouts
  OBVIOUS
<1>4. l = [i \in 1 .. n |-> l[i]] /\ \A i \in 1 .. n : l[i] = Layout(items[i])
  BY <1>2, <1>3 DEF Layouts
<1>5. \A i \in 1 .. n : /\ Pieces(i) \in Nat
                        /\ l[i] \in Seq(AllRecords)
                        /\ Len(l[i]) = Pieces(i) + 1
                        /\ \A k \in 1 .. Pieces(i) : l[i][k] = LongRecords(items[i].long)[k]
                        /\ l[i][Pieces(i) + 1] = ShortRecord(items[i])
  <2>1. ASSUME NEW i \in 1 .. n
        PROVE  items[i] \in Items /\ items[i].kind = "file"
    BY <1>1, ReadableIs
  <2>2. ASSUME NEW i \in 1 .. n
        PROVE  /\ Pieces(i) \in Nat
               /\ l[i] \in Seq(AllRecords)
               /\ Len(l[i]) = Pieces(i) + 1
               /\ \A k \in 1 .. Pieces(i) : l[i][k] = LongRecords(items[i].long)[k]
               /\ l[i][Pieces(i) + 1] = ShortRecord(items[i])
    <3>1. PICK item \in Items : item = items[i] /\ item.kind = "file"
      BY <2>1
    <3>2. l[i] = Layout(item) /\ Pieces(i) = Chunks(item.long)
      BY <1>4, <3>1 DEF Pieces
    <3> QED
      BY <3>1, <3>2, LayoutIs
  <2> QED
    BY <2>2
<1>6. l \in Seq(Seq(AllRecords)) /\ Len(l) = n
  BY <1>4, <1>5, FunctionIsSeq
<1>7. PICK j : j = Joined(l)
  OBVIOUS
<1>8. /\ DOMAIN j = 1 .. n
      /\ n > 0 => j[1] = l[1]
      /\ \A i \in 2 .. n : j[i] = j[i - 1] \o l[i]
  BY <1>6, <1>7, JoinedIs DEF JoinedTo
<1>9. \A i \in 1 .. n : j[i] \in Seq(AllRecords) /\ Len(j[i]) \in Nat
  <2>1. ASSUME NEW i \in 1 .. n PROVE j[i] \in Seq(AllRecords)
    <3>1. i \in 1 .. Len(l) /\ i \in i .. Len(l)
      BY <1>6
    <3> QED
      BY <1>6, <1>7, <3>1, JoinedGrows
  <2> QED
    BY <2>1, LenProperties
<1>10. \A i \in 1 .. n + 1 : Begin(i) = IF i = 1 THEN 0 ELSE Len(j[i - 1])
  BY <1>3, <1>7 DEF Begin
<1>11. \A i \in 1 .. n + 1 : Begin(i) \in Nat
  <2>1. ASSUME NEW i \in 1 .. n + 1 PROVE Begin(i) \in Nat
    <3>1. CASE i = 1
      BY <1>10, <3>1
    <3>2. CASE i # 1
      <4>1. i - 1 \in 1 .. n
        BY <3>2
      <4> QED
        BY <1>9, <1>10, <3>2, <4>1
    <3> QED
      BY <3>1, <3>2
  <2> QED
    BY <2>1
<1>12. PICK all : all = FlattenSeq(l)
  OBVIOUS
<1>13. all \in Seq(AllRecords) /\ Len(all) = Begin(n + 1) /\ (n > 0 => all = j[n])
  <2>1. CASE n = 0
    <3>1. all = l /\ Len(all) = 0
      BY <1>6, <1>12, <2>1, FlattenSeqIs
    <3>2. all \in Seq(AllRecords)
      <4>1. all = <<>>
        BY <1>6, <3>1, EmptySeq
      <4> QED
        BY <4>1, EmptySeq
    <3>3. Begin(n + 1) = 0
      BY <2>1, <1>10
    <3> QED
      BY <2>1, <3>1, <3>2, <3>3
  <2>2. CASE n > 0
    <3>1. all = j[n]
      BY <1>6, <1>7, <1>12, <2>2, FlattenSeqIs
    <3>2. n \in 1 .. n /\ n + 1 \in 1 .. n + 1 /\ n + 1 # 1 /\ (n + 1) - 1 = n
      BY <2>2
    <3> QED
      BY <1>9, <1>10, <3>1, <3>2
  <2> QED
    BY <2>1, <2>2
<1>14. PICK stop : stop = [kind |-> "end"]
  OBVIOUS
<1>15. PICK t : t = <<stop>>
  OBVIOUS
<1>16. t \in Seq(AllRecords) /\ Len(t) = 1 /\ t[1] = stop
  BY <1>14, <1>15 DEF AllRecords
<1>17. PICK b \in Nat : b = Begin(n + 1)
  BY <1>11
<1>18. Records = all \o t
  BY <1>3, <1>12, <1>14, <1>15, Zenon DEF Records, Layouts
<1>19. \A k \in 1 .. b + 1 : Records[k] = IF k <= b THEN all[k] ELSE t[k - b]
  BY <1>13, <1>16, <1>17, <1>18, ConcatProperties
<1>20. Records[b + 1] = stop
  <2>1. PICK k \in 1 .. b + 1 : k = b + 1 /\ ~(k <= b) /\ k - b = 1
    OBVIOUS
  <2>2. Records[k] = t[k - b]
    BY <1>19, <2>1
  <2> QED
    BY <1>16, <2>1, <2>2
<1>21. ASSUME NEW i \in 1 .. n
       PROVE  /\ Begin(i + 1) = Begin(i) + Pieces(i) + 1
              /\ \A k \in 1 .. Pieces(i) + 1 : Records[Begin(i) + k] = l[i][k]
  <2>1. PICK s : s = l[i]
    OBVIOUS
  <2>2. PICK p \in Nat : p = Pieces(i)
    BY <1>5
  <2>3. s \in Seq(AllRecords) /\ Len(s) = p + 1
    BY <1>5, <2>1, <2>2
  <2>4. PICK a \in Nat : a = Begin(i)
    BY <1>11
  <2>5. PICK w : w = j[i]
    OBVIOUS
  <2>6. w \in Seq(AllRecords) /\ Len(w) = a + p + 1 /\ \A k \in 1 .. p + 1 : w[a + k] = s[k]
    <3>1. CASE i = 1
      <4>1. w = s /\ a = 0
        BY <1>8, <1>10, <2>1, <2>4, <2>5, <3>1
      <4> QED
        BY <2>3, <4>1
    <3>2. CASE i # 1
      <4>1. i \in 2 .. n /\ i - 1 \in 1 .. n
        BY <3>2
      <4>2. PICK v : v = j[i - 1]
        OBVIOUS
      <4>3. v \in Seq(AllRecords) /\ Len(v) = a /\ w = v \o s
        <5>1. v \in Seq(AllRecords)
          BY <1>9, <4>1, <4>2
        <5>2. i \in 1 .. n + 1 /\ Begin(i) = Len(j[i - 1])
          BY <1>10, <3>2
        <5>3. w = v \o s
          BY <1>8, <2>1, <2>5, <4>1, <4>2
        <5> QED
          BY <2>4, <4>2, <5>1, <5>2, <5>3
      <4>4. /\ w \in Seq(AllRecords) /\ Len(w) = a + (p + 1)
            /\ \A k \in 1 .. a + (p + 1) : w[k] = IF k <= a THEN v[k] ELSE s[k - a]
        <5>1. Len(v) + Len(s) = a + (p + 1)
          BY <2>3, <4>3
        <5>2. /\ w \in Seq(AllRecords) /\ Len(w) = Len(v) + Len(s)
              /\ \A k \in 1 .. Len(v) + Len(s) : w[k] = IF k <= Len(v) THEN v[k] ELSE s[k - Len(v)]
          BY <2>3, <4>3, ConcatProperties
        <5> QED
          BY <4>3, <5>1, <5>2
      <4>5. ASSUME NEW k \in 1 .. p + 1 PROVE w[a + k] = s[k]
        <5>1. PICK m \in 1 .. a + (p + 1) : m = a + k /\ ~(m <= a) /\ m - a = k
          OBVIOUS
        <5> QED
          BY <4>4, <5>1
      <4> QED
        BY <4>4, <4>5
    <3> QED
      BY <3>1, <3>2
  <2>7. Begin(i + 1) = Len(w)
    <3>1. i + 1 \in 1 .. n + 1 /\ i + 1 # 1 /\ (i + 1) - 1 = i
      OBVIOUS
    <3> QED
      BY <1>10, <2>5, <3>1
  <2>8. PICK z : z = j[n]
    OBVIOUS
  <2>9. n > 0 /\ n \in i .. n
    OBVIOUS
  <2>10. Len(w) <= Len(z) /\ \A k \in 1 .. Len(w) : z[k] = w[k]
    BY <1>6, <1>7, <2>5, <2>8, <2>9, JoinedGrows
  <2>11. all = z /\ Len(z) = b
    BY <1>13, <1>17, <2>8, <2>9
  <2>12. ASSUME NEW k \in 1 .. p + 1 PROVE Records[a + k] = s[k]
    <3>1. PICK m \in Nat : m = a + k
      OBVIOUS
    <3>2. m \in 1 .. Len(w) /\ m \in 1 .. b + 1 /\ m <= b
      BY <2>6, <2>10, <2>11, <3>1
    <3>3. Records[m] = z[m] /\ z[m] = w[m]
      BY <1>19, <2>10, <2>11, <3>2
    <3>4. w[m] = s[k]
      BY <2>6, <3>1
    <3> QED
      BY <3>1, <3>3, <3>4
  <2> QED
    BY <2>1, <2>2, <2>4, <2>6, <2>7, <2>12
<1>22. Begin(1) = 0
  BY DEF Begin
<1>23. ASSUME NEW i \in 1 .. n
       PROVE  /\ Begin(i) \in Nat /\ Begin(i + 1) = Begin(i) + Pieces(i) + 1
              /\ \A k \in 1 .. Pieces(i) : Records[Begin(i) + k] = LongRecords(items[i].long)[k]
              /\ Records[Begin(i) + Pieces(i) + 1] = ShortRecord(items[i])
  <2>1. PICK p \in Nat : p = Pieces(i)
    BY <1>5
  <2>2. PICK a \in Nat : a = Begin(i)
    BY <1>11
  <2>3. \A k \in 1 .. p + 1 : Records[a + k] = l[i][k]
    BY <1>21, <2>1, <2>2
  <2>4. ASSUME NEW k \in 1 .. p
        PROVE  Records[a + k] = LongRecords(items[i].long)[k]
    <3>1. k \in 1 .. p + 1 /\ k \in 1 .. Pieces(i)
      BY <2>1
    <3>2. l[i][k] = LongRecords(items[i].long)[k]
      BY <1>5, <3>1
    <3> QED
      BY <2>3, <3>1, <3>2
  <2>5. PICK k \in 1 .. p + 1 : k = p + 1
    OBVIOUS
  <2>6. Records[a + k] = l[i][k] /\ l[i][k] = ShortRecord(items[i])
    BY <1>5, <2>1, <2>3, <2>5
  <2>7. Records[a + p + 1] = ShortRecord(items[i])
    <3>1. a + p + 1 = a + k
      BY <2>5
    <3> QED
      BY <2>6, <3>1
  <2> QED
    BY <1>21, <2>1, <2>2, <2>4, <2>7
<1> QED
  BY <1>1, <1>14, <1>17, <1>20, <1>22, <1>23

-----------------------------------------------------------------------------
(* longName, piece by piece. *)

LEMMA SameFunction ==
  ASSUME NEW D, NEW f, NEW g, f = [c \in D |-> f[c]], g = [c \in D |-> g[c]],
         \A c \in D : f[c] = g[c]
  PROVE  f = g
OBVIOUS

LEMMA HeldIs ==
  ASSUME NEW text, NEW left
  PROVE  /\ Held(text, left) = [c \in Piecewise |-> Held(text, left)[c]]
         /\ DOMAIN Held(text, left) = Piecewise
         /\ \A c \in Piecewise :
              Held(text, left)[c] = IF c <= Len(text) /\ (c - 1) \div ChunkLen >= left
                                    THEN text[c] ELSE NUL
<1> DEFINE cell(c) == IF c <= Len(text) /\ (c - 1) \div ChunkLen >= left THEN text[c] ELSE NUL
<1>1. Held(text, left) = [c \in Piecewise |-> cell(c)]
  BY Zenon DEF Held
<1>2. \A c \in Piecewise : Held(text, left)[c] = cell(c)
  <2> HIDE DEF cell
  <2> QED
    BY <1>1
<1>3. DOMAIN Held(text, left) = Piecewise /\ Held(text, left) = [c \in Piecewise |-> Held(text, left)[c]]
  <2> HIDE DEF cell
  <2> QED
    BY <1>1
<1> QED
  BY <1>2, <1>3, Zenon

LEMMA ClearedIs ==
  /\ Cleared = [c \in Piecewise |-> Cleared[c]] /\ DOMAIN Cleared = Piecewise
  /\ \A c \in Piecewise : Cleared[c] = NUL
<1> PICK e : e = NUL
  OBVIOUS
<1>1. Cleared = [c \in Piecewise |-> e]
  BY Zenon DEF Cleared, Piecewise
<1> QED
  BY <1>1

(* Of a name none of whose pieces has been read nothing is held. *)
LEMMA NothingHeld ==
  ASSUME NEW text \in Seq(STRING)
  PROVE  Held(text, Chunks(text)) = Cleared
<1>1. PICK n \in Nat : n = Chunks(text)
  BY ChunksIs
<1>2. ASSUME NEW c \in Piecewise
      PROVE  Held(text, n)[c] = Cleared[c]
  <2>1. c \in Nat /\ c >= 1
    BY Room DEF Piecewise
  <2>2. Len(text) \in Nat
    BY LenProperties
  <2>3. c <= Len(text) => (c - 1) \div ChunkLen < n
    <3>1. SUFFICES ASSUME c <= Len(text) PROVE (c - 1) \div ChunkLen < n
      OBVIOUS
    <3>2. PICK x \in 0 .. Len(text) - 1 : x = c - 1
      BY <2>1, <2>2, <3>1
    <3> QED
      BY <1>1, <3>2, ChunksIs
  <2>4. PICK q \in Nat : q = (c - 1) \div ChunkLen
    <3>1. c - 1 \in Nat
      BY <2>1
    <3> QED
      BY <3>1, Division, Sizes
  <2>5. ~(c <= Len(text) /\ (c - 1) \div ChunkLen >= n)
    BY <1>1, <2>3, <2>4
  <2> QED
    BY <2>5, HeldIs, ClearedIs
<1> QED
  BY <1>1, <1>2, HeldIs, ClearedIs, SameFunction

LEMMA ChunkIs ==
  ASSUME NEW text, NEW n, NEW j \in 1 .. ChunkLen
  PROVE  Chunk(text, n)[j] = IF (n - 1) * ChunkLen + j <= Len(text) THEN text[(n - 1) * ChunkLen + j]
                             ELSE IF (n - 1) * ChunkLen + j = Len(text) + 1 THEN NUL ELSE Wide
<1> DEFINE cell(i) == IF (n - 1) * ChunkLen + i <= Len(text) THEN text[(n - 1) * ChunkLen + i]
                      ELSE IF (n - 1) * ChunkLen + i = Len(text) + 1 THEN NUL ELSE Wide
<1>1. Chunk(text, n) = [i \in 1 .. ChunkLen |-> cell(i)]
  BY Zenon DEF Chunk
<1>2. Chunk(text, n)[j] = cell(j)
  <2> HIDE DEF cell
  <2> QED
    BY <1>1
<1> QED
  BY <1>2, Zenon

(* longName after the characters of a record have been copied to a piece. *)
Filled(buffer, piece, chars) ==
  [i \in DOMAIN buffer |->
     IF (i - 1) \div ChunkLen # piece THEN buffer[i]
     ELSE LET c == chars[((i - 1) % ChunkLen) + 1] IN IF c = Wide THEN NUL ELSE c]

LEMMA FilledIs ==
  ASSUME NEW buffer, NEW piece, NEW chars, DOMAIN buffer = Piecewise
  PROVE  /\ Filled(buffer, piece, chars) = [c \in Piecewise |-> Filled(buffer, piece, chars)[c]]
         /\ \A c \in Piecewise : Filled(buffer, piece, chars)[c] =
              IF (c - 1) \div ChunkLen # piece THEN buffer[c]
              ELSE IF chars[((c - 1) % ChunkLen) + 1] = Wide THEN NUL
              ELSE chars[((c - 1) % ChunkLen) + 1]
<1> DEFINE cell(c) == IF (c - 1) \div ChunkLen # piece THEN buffer[c]
                      ELSE IF chars[((c - 1) % ChunkLen) + 1] = Wide THEN NUL
                      ELSE chars[((c - 1) % ChunkLen) + 1]
<1>1. Filled(buffer, piece, chars) = [c \in Piecewise |-> cell(c)]
  BY Zenon DEF Filled
<1>2. \A c \in Piecewise : Filled(buffer, piece, chars)[c] = cell(c)
  <2> HIDE DEF cell
  <2> QED
    BY <1>1
<1>3. Filled(buffer, piece, chars) = [c \in Piecewise |-> Filled(buffer, piece, chars)[c]]
  <2> HIDE DEF cell
  <2> QED
    BY <1>1
<1> QED
  BY <1>2, <1>3, Zenon

(* The piece that is read joins those behind it. *)
LEMMA PieceJoins ==
  ASSUME NEW text \in Seq(STRING), NEW left \in Nat, left > 0,
         \A k \in 1 .. Len(text) : text[k] # Wide
  PROVE  Filled(Held(text, left), left - 1, Chunk(text, left)) = Held(text, left - 1)
<1>1. PICK chars : chars = Chunk(text, left)
  OBVIOUS
<1>2. PICK buffer : buffer = Held(text, left)
  OBVIOUS
<1>3. DOMAIN buffer = Piecewise
  BY <1>2, HeldIs
<1>4. PICK p \in Nat : p = left - 1
  OBVIOUS
<1>5. ASSUME NEW c \in Piecewise
      PROVE  Filled(buffer, p, chars)[c] = Held(text, p)[c]
  <2>1. c \in Nat /\ c >= 1
    BY Room DEF Piecewise
  <2>2. PICK len \in Nat : len = Len(text)
    BY LenProperties
  <2>3. c - 1 \in Nat
    BY <2>1
  <2>4. PICK q \in Nat, r \in 0 .. ChunkLen - 1 :
          q = (c - 1) \div ChunkLen /\ r = (c - 1) % ChunkLen /\ q * ChunkLen + r = c - 1
    BY <2>3, Division, Sizes
  <2>5. Filled(buffer, p, chars)[c] =
          IF q # p THEN buffer[c] ELSE IF chars[r + 1] = Wide THEN NUL ELSE chars[r + 1]
    BY <1>3, <2>4, FilledIs
  <2>6. buffer[c] = IF c <= len /\ q >= left THEN text[c] ELSE NUL
    BY <1>2, <2>2, <2>4, HeldIs
  <2>7. Held(text, p)[c] = IF c <= len /\ q >= p THEN text[c] ELSE NUL
    BY <2>2, <2>4, HeldIs
  <2>8. CASE q # p
    <3>1. q >= left <=> q >= p
      BY <1>4, <2>8
    <3> QED
      BY <2>5, <2>6, <2>7, <2>8, <3>1
  <2>9. CASE q = p
    <3>1. PICK j \in 1 .. ChunkLen : j = r + 1
      BY Sizes
    <3>2. (left - 1) * ChunkLen + j = c
      <4>1. PICK qc \in Nat : qc = q * ChunkLen
        BY Sizes
      <4>2. (left - 1) * ChunkLen = qc
        BY <1>4, <2>9, <4>1
      <4>3. qc + j = c
        <5>1. q * ChunkLen + r = c - 1
          BY <2>4
        <5>2. qc + r = c - 1
          BY <4>1, <5>1
        <5> QED
          BY <2>1, <3>1, <5>2
      <4>4. PICK w : w = (left - 1) * ChunkLen
        OBVIOUS
      <4>5. w + j = c
        BY <4>2, <4>3, <4>4
      <4> QED
        BY <4>4, <4>5
    <3>3. chars[j] = IF c <= len THEN text[c] ELSE IF c = len + 1 THEN NUL ELSE Wide
      BY <1>1, <2>2, <3>2, ChunkIs
    <3>4. CASE c <= len
      <4>1. chars[j] = text[c] /\ text[c] # Wide
        BY <2>1, <2>2, <3>3, <3>4
      <4> QED
        BY <2>5, <2>7, <2>9, <3>1, <3>4, <4>1
    <3>5. CASE ~(c <= len)
      <4>1. chars[j] = NUL \/ chars[j] = Wide
        BY <3>3, <3>5
      <4> QED
        BY <2>5, <2>7, <2>9, <3>1, <3>5, <4>1
    <3> QED
      BY <3>4, <3>5
  <2> QED
    BY <2>8, <2>9
<1> QED
  BY <1>1, <1>2, <1>3, <1>4, <1>5, HeldIs, FilledIs, SameFunction

(* When all pieces have been read longName is the name. *)
LEMMA NameHeld ==
  ASSUME NEW text \in Seq(STRING), Len(text) <= MaxChunks * ChunkLen,
         \A k \in 1 .. Len(text) : text[k] # NUL
  PROVE  /\ Held(text, 0)[1] # NUL <=> text # <<>>
         /\ Text(Held(text, 0)) = text
<1>1. PICK cells \in Nat : cells = MaxChunks * ChunkLen
  BY Room
<1>2. PICK len \in Nat : len = Len(text)
  BY LenProperties
<1>3. Piecewise = 1 .. cells + 1 /\ len <= cells
  BY <1>1, <1>2 DEF Piecewise
<1>4. PICK buffer : buffer = Held(text, 0)
  OBVIOUS
<1>5. ASSUME NEW c \in 1 .. cells + 1
      PROVE  buffer[c] = IF c <= len THEN text[c] ELSE NUL
  <2>1. c - 1 \in Nat
    OBVIOUS
  <2>2. PICK q \in Nat : q = (c - 1) \div ChunkLen
    BY <2>1, Division, Sizes
  <2>3. buffer[c] = IF c <= len /\ q >= 0 THEN text[c] ELSE NUL
    BY <1>2, <1>3, <1>4, <2>2, HeldIs
  <2> QED
    BY <2>2, <2>3
<1>6. \A c \in 1 .. cells + 1 : buffer[c] = NUL <=> c > len
  BY <1>2, <1>3, <1>5
<1>7. DOMAIN buffer = 1 .. cells + 1 /\ Len(buffer) = cells + 1
  <2>1. PICK d : d = Piecewise
    OBVIOUS
  <2>2. buffer = [c \in 1 .. cells + 1 |-> buffer[c]]
    BY <1>3, <1>4, HeldIs
  <2> QED
    BY <2>2
<1>8. buffer[1] # NUL <=> text # <<>>
  <2>1. PICK c \in 1 .. cells + 1 : c = 1
    OBVIOUS
  <2>2. buffer[c] = NUL <=> len = 0
    BY <1>6, <2>1
  <2>3. text = <<>> <=> len = 0
    BY <1>2, EmptySeq
  <2> QED
    BY <2>1, <2>2, <2>3
<1> DEFINE ends == {i \in 1 .. Len(buffer) : buffer[i] = NUL}
<1>9. ends = len + 1 .. cells + 1
  BY <1>3, <1>6, <1>7
<1>10. SelectInSeq(buffer, LAMBDA c : c = NUL) = IF ends # {} THEN Min(ends) ELSE 0
  BY Zenon DEF SelectInSeq
<1>11. SelectInSeq(buffer, LAMBDA c : c = NUL) = len + 1
  <2>1. PICK s : s = ends
    OBVIOUS
  <2>2. len + 1 \in s /\ \A n \in s : n \in Nat /\ len + 1 <= n
    BY <1>3, <1>9, <2>1
  <2>3. s # {}
    BY <2>2
  <2>4. Min(s) = len + 1
    BY <2>2, SMT DEF Min
  <2> QED
    BY <1>10, <2>1, <2>3, <2>4, Zenon
<1>12. Text(buffer) = SubSeq(buffer, 1, len)
  <2>1. PICK m : m = SelectInSeq(buffer, LAMBDA c : c = NUL)
    OBVIOUS
  <2>2. Text(buffer) = SubSeq(buffer, 1, m - 1)
    BY <2>1, Zenon DEF Text
  <2>3. m - 1 = len
    BY <1>11, <2>1
  <2> QED
    BY <2>2, <2>3
<1>13. \A c \in 1 .. len : buffer[c] = text[c] /\ text[c] \in STRING
  <2>1. \A c \in 1 .. len : text[c] \in STRING
    BY <1>2, ElementOfSeq
  <2> QED
    BY <1>3, <1>5, <2>1
<1>14. PICK s : s = SubSeq(buffer, 1, len)
  OBVIOUS
<1>15. s \in Seq(STRING) /\ Len(s) = len /\ \A c \in 1 .. len : s[c] = buffer[c]
  <2>1. \A c \in 1 .. len : buffer[c] \in STRING
    BY <1>13
  <2>2. /\ SubSeq(buffer, 1, len) \in Seq(STRING)
        /\ Len(SubSeq(buffer, 1, len)) = IF 1 <= len THEN len - 1 + 1 ELSE 0
        /\ \A i \in 1 .. len - 1 + 1 : SubSeq(buffer, 1, len)[i] = buffer[1 + i - 1]
    BY <2>1, SubSeqProperties
  <2> QED
    BY <1>14, <2>2
<1>16. s = text
  <2>1. \A c \in 1 .. Len(s) : s[c] = text[c]
    BY <1>13, <1>15
  <2> QED
    BY <1>2, <1>15, <2>1, SeqEqual
<1> QED
  BY <1>4, <1>8, <1>12, <1>14, <1>16

-----------------------------------------------------------------------------
(* Names that are compared. *)

LEMMA PaddedIs ==
  ASSUME NEW text \in Seq(STRING), NEW n \in Nat
  PROVE  /\ Padded(text, n) \in Seq(STRING \cup {Blank}) /\ Len(Padded(text, n)) = n
         /\ \A i \in 1 .. n : Padded(text, n)[i] = IF i <= Len(text) THEN text[i] ELSE Blank
<1>1. PICK p : p = Padded(text, n)
  OBVIOUS
<1>2. PICK len \in Nat : len = Len(text)
  BY LenProperties
<1>3. \A i \in 1 .. n : p[i] = IF i <= len THEN text[i] ELSE Blank
  BY <1>1, <1>2 DEF Padded
<1>4. p = [i \in 1 .. n |-> p[i]]
  BY <1>1 DEF Padded
<1>5. \A i \in 1 .. len : text[i] \in STRING
  BY <1>2, ElementOfSeq
<1>6. \A i \in 1 .. n : p[i] \in STRING \cup {Blank}
  BY <1>3, <1>5
<1> QED
  BY <1>1, <1>2, <1>3, <1>4, <1>6, FunctionIsSeq

LEMMA ShortNameIs ==
  ASSUME NEW text, ~HasExtension(text)
  PROVE  ShortName(text) = IF IsShort(text) THEN Padded(text, Base + Ext) ELSE text
BY Zenon DEF ShortName

LEMMA ShortIs ==
  ASSUME NEW text \in Seq(STRING), IsShort(text)
  PROVE  Len(text) <= Base /\ CaseOk(text) /\ Unpadded(text)
<1>1. PICK len \in Nat : len = Len(text) /\ DOMAIN text = 1 .. len
  BY LenProperties
<1>2. CASE Len(text) \in {1, 2} /\ Cardinality(Dots(text)) = Len(text)
  <2>1. IsFiniteSet(1 .. len) /\ Cardinality(1 .. len) = len
    <3>1. PICK a \in Int : a = 1
      OBVIOUS
    <3>2. IsFiniteSet(a .. len) /\ Cardinality(a .. len) = IF a > len THEN 0 ELSE len - a + 1
      BY FS_Interval
    <3> QED
      BY <3>1, <3>2
  <2>2. PICK d : d = Dots(text)
    OBVIOUS
  <2>3. d \subseteq 1 .. len
    BY <1>1, <2>2 DEF Dots
  <2>4. d = 1 .. len
    BY <1>1, <1>2, <2>1, <2>2, <2>3, FS_Subset
  <2>5. \A i \in 1 .. len : text[i] = Dot
    BY <2>2, <2>4 DEF Dots
  <2>6. CaseOk(text)
    BY <1>1, <2>2, <2>4 DEF CaseOk
  <2>7. text[len] = Dot
    BY <1>1, <1>2, <2>5
  <2>8. Dot # Blank
    BY DEF Dot, Blank
  <2> QED
    BY <1>1, <1>2, <2>6, <2>7, <2>8, Sizes DEF Unpadded
<1>3. CASE CaseOk(text) /\ Dots(text) = {} /\ Len(text) <= Base
  <2>1. \A i \in 1 .. len : text[i] \in Upper
    BY <1>1, <1>3 DEF CaseOk
  <2>2. text # <<>> => len \in 1 .. len
    BY <1>1, EmptySeq
  <2>3. Blank \notin Upper
    BY DirectoryAssumption DEF DirectoryAssumption
  <2>4. Unpadded(text)
    BY <1>1, <2>1, <2>2, <2>3 DEF Unpadded
  <2> QED
    BY <1>3, <2>4
<1> QED
  BY <1>2, <1>3 DEF IsShort

LEMMA ShortRecordIs ==
  ASSUME NEW item \in Items, item.kind = "file"
  PROVE  /\ Len(ShortRecord(item).name) = Base + Ext
         /\ \A i \in 1 .. Base + Ext : ShortRecord(item).name[i] =
              IF i <= Base THEN IF i <= Len(item.base) THEN item.base[i] ELSE Blank
              ELSE IF i - Base <= Len(item.ext) THEN item.ext[i - Base] ELSE Blank
<1>1. item.base \in Seq(STRING) /\ item.ext \in Seq(STRING)
  BY ItemIs
<1>2. PICK b : b = Padded(item.base, Base)
  OBVIOUS
<1>3. PICK e : e = Padded(item.ext, Ext)
  OBVIOUS
<1>4. PICK name : name = b \o e
  OBVIOUS
<1>5. ShortRecord(item).name = name
  BY <1>2, <1>3, <1>4 DEF ShortRecord
<1>6. /\ b \in Seq(STRING \cup {Blank}) /\ Len(b) = Base
      /\ \A i \in 1 .. Base : b[i] = IF i <= Len(item.base) THEN item.base[i] ELSE Blank
  BY <1>1, <1>2, PaddedIs, Sizes
<1>7. /\ e \in Seq(STRING \cup {Blank}) /\ Len(e) = Ext
      /\ \A i \in 1 .. Ext : e[i] = IF i <= Len(item.ext) THEN item.ext[i] ELSE Blank
  BY <1>1, <1>3, PaddedIs, Sizes
<1>8. /\ Len(name) = Base + Ext
      /\ \A i \in 1 .. Base + Ext : name[i] = IF i <= Base THEN b[i] ELSE e[i - Base]
  BY <1>4, <1>6, <1>7, ConcatProperties
<1>9. ASSUME NEW i \in 1 .. Base + Ext
      PROVE  name[i] = IF i <= Base THEN IF i <= Len(item.base) THEN item.base[i] ELSE Blank
                       ELSE IF i - Base <= Len(item.ext) THEN item.ext[i - Base] ELSE Blank
  <2>1. CASE i <= Base
    <3>1. i \in 1 .. Base
      BY <2>1, Sizes
    <3> QED
      BY <1>6, <1>8, <2>1, <3>1
  <2>2. CASE ~(i <= Base)
    <3>1. i - Base \in 1 .. Ext
      BY <2>2, Sizes
    <3>2. PICK k \in 1 .. Ext : k = i - Base
      BY <3>1
    <3> QED
      BY <1>7, <1>8, <2>2, <3>2
  <2> QED
    BY <2>1, <2>2
<1> QED
  BY <1>5, <1>8, <1>9

(* A name without an extension, padded, is the short name of the file that *)
(* has this name and no extension.                                         *)
LEMMA ShortMatches ==
  ASSUME NEW item \in Items, item.kind = "file", NEW text \in Seq(STRING), IsShort(text)
  PROVE  Padded(text, Base + Ext) = ShortRecord(item).name <=> item.ext = <<>> /\ item.base = text
<1>1. PICK p : p = Padded(text, Base + Ext)
  OBVIOUS
<1>2. PICK name : name = ShortRecord(item).name
  OBVIOUS
<1>3. PICK base \in Seq(STRING) : base = item.base
  BY ItemIs
<1>4. PICK ext \in Seq(STRING) : ext = item.ext
  BY ItemIs
<1>5. PICK l \in Nat : l = Len(text)
  BY LenProperties
<1>6. PICK b \in Nat : b = Len(base)
  BY LenProperties
<1>7. PICK e \in Nat : e = Len(ext)
  BY LenProperties
<1>8. b <= Base /\ e <= Ext
  BY <1>3, <1>4, <1>6, <1>7, ItemIs
<1>9. l <= Base
  BY <1>5, ShortIs
<1>10. /\ l > 0 => text[l] # Blank
       /\ b > 0 => base[b] # Blank
       /\ e > 0 => ext[e] # Blank
  <2>1. Unpadded(text) /\ Unpadded(base) /\ Unpadded(ext)
    BY <1>3, <1>4, ItemIs, ShortIs
  <2>2. /\ text = <<>> => l = 0
        /\ base = <<>> => b = 0
        /\ ext = <<>> => e = 0
    BY <1>5, <1>6, <1>7
  <2> QED
    BY <1>5, <1>6, <1>7, <2>1, <2>2 DEF Unpadded
<1>11. \A i \in 1 .. Base + Ext : p[i] = IF i <= l THEN text[i] ELSE Blank
  <2>1. PICK n \in Nat : n = Base + Ext
    BY Sizes
  <2>2. \A i \in 1 .. n : Padded(text, n)[i] = IF i <= Len(text) THEN text[i] ELSE Blank
    BY PaddedIs
  <2> QED
    BY <1>1, <1>5, <2>1, <2>2
<1>12. \A i \in 1 .. Base + Ext : name[i] =
         IF i <= Base THEN IF i <= b THEN base[i] ELSE Blank
         ELSE IF i - Base <= e THEN ext[i - Base] ELSE Blank
  BY <1>2, <1>3, <1>4, <1>6, <1>7, ShortRecordIs
<1>13. ASSUME p = name PROVE ext = <<>> /\ base = text
  <2>1. e = 0
    <3>1. SUFFICES ASSUME e > 0 PROVE FALSE
      OBVIOUS
    <3>2. PICK i \in 1 .. Base + Ext : i = Base + e /\ ~(i <= Base) /\ i - Base = e /\ ~(i <= l)
      BY <1>8, <1>9, <3>1, Sizes
    <3>3. p[i] = Blank /\ name[i] = ext[e]
      BY <1>11, <1>12, <3>2
    <3> QED
      BY <1>10, <1>13, <3>1, <3>3
  <2>2. ~(b > l)
    <3>1. SUFFICES ASSUME b > l PROVE FALSE
      OBVIOUS
    <3>2. b \in 1 .. Base + Ext /\ b <= Base /\ ~(b <= l)
      BY <1>8, <3>1, Sizes
    <3>3. p[b] = Blank /\ name[b] = base[b]
      BY <1>11, <1>12, <3>2
    <3> QED
      BY <1>10, <1>13, <3>2, <3>3
  <2>3. ~(l > b)
    <3>1. SUFFICES ASSUME l > b PROVE FALSE
      OBVIOUS
    <3>2. l \in 1 .. Base + Ext /\ l <= Base /\ ~(l <= b)
      BY <1>9, <3>1, Sizes
    <3>3. p[l] = text[l] /\ name[l] = Blank
      BY <1>11, <1>12, <3>2
    <3> QED
      BY <1>10, <1>13, <3>2, <3>3
  <2>4. b = l
    BY <2>2, <2>3
  <2>5. \A i \in 1 .. l : base[i] = text[i]
    <3>1. ASSUME NEW i \in 1 .. l PROVE base[i] = text[i]
      <4>1. i \in 1 .. Base + Ext /\ i <= Base /\ i <= b /\ i <= l
        BY <1>9, <2>4, Sizes
      <4>2. p[i] = text[i] /\ name[i] = base[i]
        BY <1>11, <1>12, <4>1
      <4> QED
        BY <1>13, <4>2
    <3> QED
      BY <3>1
  <2>6. base = text
    BY <1>5, <1>6, <2>4, <2>5, SeqEqual
  <2>7. ext = <<>>
    BY <1>7, <2>1, EmptySeq
  <2> QED
    BY <2>6, <2>7
<1>14. ASSUME ext = <<>>, base = text PROVE p = name
  <2>1. e = 0 /\ b = l
    BY <1>5, <1>6, <1>7, <1>14
  <2>2. ASSUME NEW i \in 1 .. Base + Ext PROVE p[i] = name[i]
    <3>1. ~(i <= Base) => ~(i - Base <= e)
      BY <2>1, Sizes
    <3>2. i <= l => i <= Base
      BY <1>9, Sizes
    <3> QED
      BY <1>11, <1>12, <1>14, <2>1, <3>1, <3>2
  <2>3. PICK n \in Nat : n = Base + Ext
    BY Sizes
  <2>4. p = [i \in 1 .. n |-> p[i]]
    BY <1>1, <2>3 DEF Padded
  <2>5. name = [i \in 1 .. n |-> name[i]]
    <3>1. PICK x : x = Padded(item.base, Base)
      OBVIOUS
    <3>2. PICK y : y = Padded(item.ext, Ext)
      OBVIOUS
    <3>3. name = x \o y
      BY <1>2, <3>1, <3>2 DEF ShortRecord
    <3>4. x \in Seq(STRING \cup {Blank}) /\ y \in Seq(STRING \cup {Blank})
      BY <1>3, <1>4, <3>1, <3>2, PaddedIs, Sizes
    <3>5. name \in Seq(STRING \cup {Blank})
      BY <3>3, <3>4, ConcatProperties
    <3>6. Len(name) = n
      BY <1>2, <2>3, ShortRecordIs
    <3> QED
      BY <3>5, <3>6
  <2> QED
    BY <2>2, <2>3, <2>4, <2>5
<1> QED
  BY <1>1, <1>2, <1>3, <1>4, <1>13, <1>14

(* At the record of a file, the comparison with the short name and with    *)
(* longName says whether the file has the name.                            *)
LEMMA MatchIs ==
  ASSUME Fields, Readable, Plain(target), NEW i \in 1 .. Len(items),
         longName = Held(items[i].long, 0)
  PROVE  Matches(ShortRecord(items[i])) <=> Named(items[i], target)
<1>1. PICK item \in Items : item = items[i] /\ item.kind = "file"
  BY ReadableIs
<1>2. PICK long \in Seq(STRING) : long = item.long
  BY <1>1, ReadableIs
<1>3. PICK name : name = ShortRecord(item).name
  OBVIOUS
<1>4. Len(long) <= MaxChunks * ChunkLen /\ \A k \in 1 .. Len(long) : long[k] # NUL
  BY <1>1, <1>2, ReadableIs
<1>5. (longName[1] # NUL <=> long # <<>>) /\ Text(longName) = long
  BY <1>1, <1>2, <1>4, NameHeld
<1>6. PICK text \in Seq(STRING) : text = target
  BY FieldsIs
<1>7. ShortName(text) = IF IsShort(text) THEN Padded(text, Base + Ext) ELSE text
  BY <1>6, ShortNameIs DEF Plain
<1>8. Len(text) # Base + Ext
  BY <1>6 DEF Plain
<1>9. Matches(ShortRecord(item)) <=>
        ShortName(text) = name \/ (long # <<>> /\ ShortName(text) = long)
  BY <1>3, <1>5, <1>6 DEF Matches
<1>10. Named(item, text) <=>
         (long = text /\ text # <<>>) \/ (item.ext = <<>> /\ item.base = text /\ CaseOk(text))
  BY <1>2 DEF Named
<1>11. CASE IsShort(text)
  <2>1. PICK s : s = Padded(text, Base + Ext)
    OBVIOUS
  <2>2. s = name <=> item.ext = <<>> /\ item.base = text
    BY <1>1, <1>3, <1>11, <2>1, ShortMatches
  <2>3. CaseOk(text)
    BY <1>11, ShortIs
  <2>4. long # <<>> => s # long
    <3>1. SUFFICES ASSUME long # <<>>, s = long PROVE FALSE
      OBVIOUS
    <3>2. PICK n \in Nat : n = Base + Ext
      BY Sizes
    <3>3. PICK l \in Nat : l = Len(text)
      BY LenProperties
    <3>4. l <= Base
      BY <1>11, <3>3, ShortIs
    <3>5. n \in 1 .. n /\ ~(n <= l)
      BY <3>2, <3>4, Sizes
    <3>6. Len(s) = n /\ s[n] = Blank
      BY <2>1, <3>2, <3>3, <3>5, PaddedIs
    <3>7. Unpadded(long)
      BY <1>1, <1>2, ItemIs
    <3> QED
      BY <3>1, <3>6, <3>7 DEF Unpadded
  <2>5. long # <<>> => long # text
    BY <1>1, <1>2, <1>11, ItemIs
  <2> QED
    BY <1>1, <1>6, <1>7, <1>9, <1>10, <1>11, <2>1, <2>2, <2>3, <2>4, <2>5
<1>12. CASE ~IsShort(text)
  <2>1. ShortName(text) = text
    BY <1>7, <1>12
  <2>2. text # name
    BY <1>1, <1>3, <1>8, ShortRecordIs
  <2>3. ~(item.ext = <<>> /\ item.base = text /\ CaseOk(text))
    BY <1>1, <1>12, ItemIs
  <2> QED
    BY <1>1, <1>6, <1>9, <1>10, <2>1, <2>2, <2>3
<1> QED
  BY <1>11, <1>12

-----------------------------------------------------------------------------
(* The invariant. *)

LEMMA LongRecordsIs ==
  ASSUME NEW text \in Seq(STRING), NEW k \in 1 .. Chunks(text)
  PROVE  /\ LongRecords(text)[k].kind = "long"
         /\ LongRecords(text)[k].start <=> k = 1
         /\ LongRecords(text)[k].n = Chunks(text) - k + 1
         /\ LongRecords(text)[k].chars = Chunk(text, Chunks(text) - k + 1)
<1> DEFINE record(i) == [kind |-> "long", start |-> i = 1, n |-> Chunks(text) - i + 1,
                         chars |-> Chunk(text, Chunks(text) - i + 1)]
<1>1. LongRecords(text) = [i \in 1 .. Chunks(text) |-> record(i)]
  BY Zenon DEF LongRecords
<1>2. LongRecords(text)[k] = record(k)
  <2> HIDE DEF record
  <2> QED
    BY <1>1
<1>3. record(k).kind = "long" /\ record(k).n = Chunks(text) - k + 1
      /\ record(k).chars = Chunk(text, Chunks(text) - k + 1)
  OBVIOUS
<1>4. record(k).start <=> k = 1
  BY Zenon
<1>5. LongRecords(text)[k].start <=> record(k).start
  <2> HIDE DEF record
  <2> QED
    BY <1>2, Zenon
<1> HIDE DEF record
<1> QED
  BY <1>2, <1>3, <1>4, <1>5

(* The record the scan has come to. *)
LEMMA RecordIs ==
  ASSUME Fields, Readable, NEW i \in 1 .. Len(items) + 1, NEW k \in 1 .. Size(i), Place(i, k)
  PROVE  \/ /\ i \in 1 .. Len(items) /\ k \in 1 .. Pieces(i)
            /\ Records[at] = LongRecords(items[i].long)[k] /\ Records[at].kind = "long"
         \/ /\ i \in 1 .. Len(items) /\ k = Pieces(i) + 1
            /\ Records[at] = ShortRecord(items[i]) /\ Records[at].kind = "file"
         \/ /\ i = Len(items) + 1 /\ k = 1
            /\ Records[at] = [kind |-> "end"] /\ Records[at].kind = "end"
<1>1. Len(items) \in Nat /\ DOMAIN items = 1 .. Len(items)
  BY FieldsIs
<1>2. at = Begin(i) + k
  BY DEF Place
<1>3. CASE i \in 1 .. Len(items)
  <2>1. PICK p \in Nat : p = Pieces(i)
    BY <1>3, ReadableIs
  <2>2. k \in 1 .. p + 1
    BY <1>1, <1>3, <2>1 DEF Size
  <2>3. PICK b \in Nat : b = Begin(i)
    BY <1>3, BeginIs
  <2>4. CASE k \in 1 .. p
    <3>1. Records[at] = LongRecords(items[i].long)[k]
      BY <1>2, <1>3, <2>1, <2>4, BeginIs
    <3>2. LongRecords(items[i].long)[k].kind = "long"
      BY <1>3, <2>1, <2>4, LongRecordsIs, ReadableIs DEF Pieces
    <3> QED
      BY <1>3, <2>1, <2>4, <3>1, <3>2
  <2>5. CASE k = p + 1
    <3>1. at = b + p + 1
      BY <1>2, <2>3, <2>5
    <3>2. Records[b + p + 1] = ShortRecord(items[i])
      BY <1>3, <2>1, <2>3, BeginIs
    <3>3. ShortRecord(items[i]).kind = "file"
      BY DEF ShortRecord
    <3> QED
      BY <1>3, <2>1, <2>5, <3>1, <3>2, <3>3
  <2> QED
    BY <2>2, <2>4, <2>5
<1>4. CASE i = Len(items) + 1
  <2>1. k = 1
    BY <1>1, <1>4 DEF Size
  <2> QED
    BY <1>2, <1>4, <2>1, BeginIs
<1> QED
  BY <1>1, <1>3, <1>4

(* The directory and the question stay as they are. *)
LEMMA Same ==
  ASSUME UNCHANGED <<items, op, target>>
  PROVE  /\ Fields => Fields'
         /\ Readable' <=> Readable
         /\ \A i : Begin(i)' = Begin(i) /\ Pieces(i)' = Pieces(i) /\ Size(i)' = Size(i)
         /\ \A i, k : Place(i, k)' <=>
              /\ at' = Begin(i) + k
              /\ longName' = IF i \in DOMAIN items THEN Held(items[i].long, Pieces(i) - k + 1)
                             ELSE Cleared
              /\ k > 1 => LongFileNameIdx' = Pieces(i) - k + 1
         /\ \A i : Passed(i)' <=>
              /\ op = "list" => printed' = [j \in 1 .. i - 1 |-> ListedAs(items[j])]
              /\ op = "find" /\ Plain(target) => \A j \in 1 .. i - 1 : ~Named(items[j], target)
<1>1. Fields => Fields'
  BY DEF Fields
<1>2. Readable' <=> Readable
  BY DEF Readable
<1>3. Layouts' = Layouts
  BY Zenon DEF Layouts
<1>4. \A i : Begin(i)' = Begin(i)
  BY <1>3, Zenon DEF Begin
<1>5. \A i : Pieces(i)' = Pieces(i) /\ Size(i)' = Size(i)
  BY Zenon DEF Pieces, Size
<1>6. \A i, k : Place(i, k)' <=>
        /\ at' = Begin(i) + k
        /\ longName' = IF i \in DOMAIN items THEN Held(items[i].long, Pieces(i) - k + 1) ELSE Cleared
        /\ k > 1 => LongFileNameIdx' = Pieces(i) - k + 1
  BY <1>4, <1>5, Zenon DEF Place
<1>7. \A i : Passed(i)' <=>
        /\ op = "list" => printed' = [j \in 1 .. i - 1 |-> ListedAs(items[j])]
        /\ op = "find" /\ Plain(target) => \A j \in 1 .. i - 1 : ~Named(items[j], target)
  BY Zenon DEF Passed
<1> QED
  BY <1>1, <1>2, <1>4, <1>5, <1>6, <1>7, Zenon

(* Where a step leaves the scan going on, it suffices to say where it is.  *)
LEMMA GoesOn ==
  ASSUME IInv, UNCHANGED <<items, op, target>>, Readable, outcome' = "none",
         NEW i \in 1 .. Len(items) + 1, NEW k \in 1 .. Size(i), Place(i, k)', Passed(i)'
  PROVE  IInv'
<1>1. Fields' /\ Len(items') = Len(items) /\ Size(i)' = Size(i)
  BY Same DEF IInv
<1>2. Scans'
  BY <1>1 DEF Scans
<1>3. NamesAreRead' /\ ListsNames' /\ FindsByName'
  BY DEF NamesAreRead, ListsNames, FindsByName
<1> QED
  BY <1>1, <1>2, <1>3 DEF IInv

LEMMA NotReadable ==
  ASSUME IInv, UNCHANGED <<items, op, target>>, ~Readable
  PROVE  IInv'
<1>1. Fields' /\ ~Readable'
  BY Same DEF IInv
<1> QED
  BY <1>1 DEF IInv, Scans, NamesAreRead, ListsNames, FindsByName

(* Behind the records of an item the next one begins, with longName empty. *)
LEMMA NextItem ==
  ASSUME Fields, Readable, UNCHANGED <<items, op, target>>, NEW i \in 1 .. Len(items),
         Place(i, Pieces(i) + 1), at' = at + 1, longName' = Cleared
  PROVE  /\ i + 1 \in 1 .. Len(items) + 1 /\ 1 \in 1 .. Size(i + 1)
         /\ Place(i + 1, 1)'
<1>1. PICK n \in Nat : n = Len(items) /\ DOMAIN items = 1 .. n
  BY FieldsIs
<1>2. PICK next \in 1 .. n + 1 : next = i + 1
  BY <1>1
<1>3. PICK one \in Nat : one = 1
  OBVIOUS
<1>4. next \in 1 .. n => Pieces(next) \in Nat
  BY <1>1, ReadableIs
<1>5. one \in 1 .. Size(next)
  BY <1>1, <1>2, <1>3, <1>4 DEF Size
<1>6. at' = Begin(next) + one
  <2>1. PICK b \in Nat : b = Begin(i)
    BY BeginIs
  <2>2. PICK p \in Nat : p = Pieces(i)
    BY ReadableIs
  <2>3. at = b + (p + 1)
    BY <2>1, <2>2 DEF Place
  <2>4. Begin(next) = b + p + 1
    BY <1>2, <2>1, <2>2, BeginIs
  <2> QED
    BY <1>3, <2>3, <2>4
<1>7. longName' = IF next \in DOMAIN items THEN Held(items[next].long, Pieces(next) - one + 1) ELSE Cleared
  <2>1. CASE next \in 1 .. n
    <3>1. PICK p \in Nat : p = Pieces(next)
      BY <1>4, <2>1
    <3>2. p - one + 1 = p
      BY <1>3
    <3>3. Held(items[next].long, p) = Cleared
      BY <1>1, <2>1, <3>1, NothingHeld, ReadableIs DEF Pieces
    <3> QED
      BY <1>1, <2>1, <3>1, <3>2, <3>3
  <2>2. CASE next \notin 1 .. n
    BY <1>1, <2>2
  <2> QED
    BY <2>1, <2>2
<1>8. Place(next, one)'
  <2>1. ~(one > 1)
    BY <1>3
  <2> QED
    BY <1>6, <1>7, <2>1, Same
<1> QED
  BY <1>1, <1>2, <1>3, <1>5, <1>8

LEMMA EndKeeps ==
  ASSUME IInv, EndOfDirectory
  PROVE  IInv'
<1>1. UNCHANGED <<items, op, target>>
  BY DEF EndOfDirectory
<1>2. SUFFICES ASSUME Readable PROVE IInv'
  BY <1>1, NotReadable
<1>3. /\ Records[at].kind = "end" /\ outcome = "none"
      /\ outcome' = IF op = "find" THEN "not found" ELSE "listed"
      /\ UNCHANGED <<printed, found>>
  BY DEF EndOfDirectory, Scanning
<1>4. Fields /\ op \in {"find", "list"}
  BY DEF IInv, Fields
<1>5. PICK i, k : i \in 1 .. Len(items) + 1 /\ k \in 1 .. Size(i) /\ Place(i, k) /\ Passed(i)
  BY <1>2, <1>3 DEF IInv, Scans
<1>6. i = Len(items) + 1
  BY <1>2, <1>3, <1>4, <1>5, RecordIs
<1>7. PICK n \in Nat : n = Len(items) /\ DOMAIN items = 1 .. n
  BY <1>4, FieldsIs
<1>8. i - 1 = n
  BY <1>6, <1>7
<1>9. Fields' /\ (Readable' <=> Readable)
  BY <1>1, <1>4, Same
<1>10. ListsNames'
  <2>1. SUFFICES ASSUME outcome' = "listed"
                 PROVE  printed' = [j \in DOMAIN items' |-> ListedAs(items'[j])]
    BY DEF ListsNames
  <2>2. op = "list"
    BY <1>3, <1>4, <2>1
  <2>3. printed = [j \in 1 .. n |-> ListedAs(items[j])]
    BY <1>5, <1>8, <2>2 DEF Passed
  <2> QED
    BY <1>1, <1>3, <1>7, <2>3
<1>11. FindsByName'
  <2>1. SUFFICES ASSUME op = "find", Plain(target)
                 PROVE  outcome' = "not found" /\ ~\E j \in DOMAIN items : Named(items[j], target)
    BY <1>1, Zenon DEF FindsByName
  <2>2. \A j \in 1 .. n : ~Named(items[j], target)
    BY <1>5, <1>8, <2>1 DEF Passed
  <2> QED
    BY <1>3, <1>7, <2>1, <2>2
<1>12. Scans' /\ NamesAreRead'
  BY <1>3, <1>4 DEF Scans, NamesAreRead
<1> QED
  BY <1>9, <1>10, <1>11, <1>12 DEF IInv

LEMMA DeletedKeeps ==
  ASSUME IInv, Deleted
  PROVE  IInv'
<1>1. UNCHANGED <<items, op, target>> /\ Records[at].kind = "deleted" /\ outcome = "none"
  BY DEF Deleted, Scanning
<1>2. SUFFICES ASSUME Readable PROVE FALSE
  BY <1>1, NotReadable
<1>3. PICK i, k : i \in 1 .. Len(items) + 1 /\ k \in 1 .. Size(i) /\ Place(i, k) /\ Passed(i)
  BY <1>1, <1>2 DEF IInv, Scans
<1>4. Fields
  BY DEF IInv
<1> QED
  BY <1>1, <1>2, <1>3, <1>4, RecordIs

LEMMA LongKeeps ==
  ASSUME IInv, LongRecord
  PROVE  IInv'
<1>1. UNCHANGED <<items, op, target, printed, found>> /\ Records[at].kind = "long" /\ outcome = "none"
  BY DEF LongRecord, Scanning
<1>2. SUFFICES ASSUME Readable PROVE IInv'
  BY <1>1, NotReadable
<1>3. Fields
  BY DEF IInv
<1>4. PICK i, k : i \in 1 .. Len(items) + 1 /\ k \in 1 .. Size(i) /\ Place(i, k) /\ Passed(i)
  BY <1>1, <1>2 DEF IInv, Scans
<1>5. /\ i \in 1 .. Len(items) /\ k \in 1 .. Pieces(i)
      /\ Records[at] = LongRecords(items[i].long)[k]
  BY <1>1, <1>2, <1>3, <1>4, RecordIs
<1>6. PICK text \in Seq(STRING) : /\ text = items[i].long
                                  /\ \A c \in 1 .. Len(text) : text[c] # Wide
  BY <1>2, <1>3, <1>5, ReadableIs
<1>7. PICK p \in 0 .. MaxChunks : p = Pieces(i) /\ p = Chunks(text)
  BY <1>2, <1>3, <1>5, <1>6, ReadableIs DEF Pieces
<1>8. k \in 1 .. p
  BY <1>5, <1>7
<1>9. PICK left \in 1 .. MaxChunks : left = p - k + 1
  BY <1>8, Sizes
<1>10. PICK r : r = Records[at]
  OBVIOUS
<1>11. r.n = left /\ r.chars = Chunk(text, left) /\ (r.start <=> k = 1)
  <2>1. LongRecords(text)[k] = r
    BY <1>5, <1>6, <1>10
  <2>2. /\ LongRecords(text)[k].start <=> k = 1
        /\ LongRecords(text)[k].n = Chunks(text) - k + 1
        /\ LongRecords(text)[k].chars = Chunk(text, Chunks(text) - k + 1)
    BY <1>7, <1>8, LongRecordsIs
  <2>3. Chunks(text) - k + 1 = left
    BY <1>7, <1>9
  <2> QED
    BY <2>1, <2>2, <2>3
<1>12. DOMAIN items = 1 .. Len(items)
  BY <1>3, FieldsIs
<1>13. longName = Held(text, left) /\ (k > 1 => LongFileNameIdx = left)
  BY <1>4, <1>5, <1>6, <1>7, <1>9, <1>12 DEF Place
<1>14. PICK number : number = r.n % Nibble
  OBVIOUS
<1>15. number = left /\ r.n < Nibble
  <2>1. left \in 0 .. Nibble - 1
    BY Sizes
  <2>2. PICK q \in Nat, s \in 0 .. Nibble - 1 : s = left % Nibble /\ q * Nibble + s = left
    BY <2>1, Division, Sizes
  <2>3. q = 0
    <3>1. SUFFICES ASSUME q > 0 PROVE FALSE
      OBVIOUS
    <3>2. PICK d \in Nat : q = d + 1
      BY <3>1, q - 1 \in Nat
    <3>3. q * Nibble = d * Nibble + Nibble /\ d * Nibble \in Nat
      BY <3>2, Sizes
    <3>4. PICK dn \in Nat : dn = d * Nibble
      BY <3>3
    <3> QED
      BY <2>1, <2>2, <3>3, <3>4, Sizes
  <2>4. s = left
    BY <2>2, <2>3, Sizes
  <2> QED
    BY <1>11, <1>14, <2>1, <2>2, <2>4, Sizes
<1>16. PICK expected : expected = IF r.start /\ r.n < Nibble THEN number ELSE LongFileNameIdx
  OBVIOUS
<1>17. number = expected
  <2>1. CASE k = 1
    BY <1>11, <1>15, <1>16, <2>1
  <2>2. CASE k # 1
    <3>1. k > 1
      BY <1>8, <2>2
    <3> QED
      BY <1>11, <1>13, <1>15, <1>16, <2>2, <3>1
  <2> QED
    BY <2>1, <2>2
<1>18. Piece(number) = left - 1 /\ left - 1 \in 0 .. MaxChunks - 1
  BY <1>15, Sizes DEF Piece
<1>19. IF number # expected
       THEN /\ outcome' = "gave up"
            /\ UNCHANGED <<at, LongFileNameIdx, longName>>
       ELSE /\ LongFileNameIdx' = number - 1
            /\ at' = at + 1
            /\ IF Piece(number) \in 0 .. MaxChunks - 1
               THEN longName' = Filled(longName, Piece(number), r.chars) /\ UNCHANGED outcome
               ELSE outcome' = "overrun" /\ UNCHANGED longName
  BY <1>10, <1>14, <1>16, Zenon DEF LongRecord, Filled
<1>20. /\ LongFileNameIdx' = left - 1 /\ at' = at + 1 /\ outcome' = "none"
       /\ longName' = Filled(longName, left - 1, r.chars)
  BY <1>1, <1>15, <1>17, <1>18, <1>19
<1>21. longName' = Held(text, left - 1)
  BY <1>6, <1>11, <1>13, <1>20, PieceJoins
<1>22. PICK next \in 1 .. Size(i) : next = k + 1
  BY <1>5, <1>7, <1>8, <1>12 DEF Size
<1>23. p - next + 1 = left - 1
  BY <1>8, <1>9, <1>22
<1>24. at' = Begin(i) + next
  <2>1. PICK b \in Nat : b = Begin(i)
    BY <1>2, <1>3, <1>5, BeginIs
  <2> QED
    BY <1>4, <1>8, <1>20, <1>22, <2>1 DEF Place
<1>25. Place(i, next)'
  <2>1. longName' = Held(items[i].long, Pieces(i) - next + 1)
    BY <1>6, <1>7, <1>21, <1>23
  <2>2. LongFileNameIdx' = Pieces(i) - next + 1
    BY <1>7, <1>20, <1>23
  <2> QED
    BY <1>1, <1>5, <1>12, <1>24, <2>1, <2>2, Same
<1>26. Passed(i)'
  BY <1>1, <1>4, Same DEF Passed
<1> QED
  BY <1>1, <1>2, <1>4, <1>20, <1>22, <1>25, <1>26, GoesOn

LEMMA FindKeeps ==
  ASSUME IInv, FindRecord
  PROVE  IInv'
<1>1. /\ UNCHANGED <<items, op, target, LongFileNameIdx, printed>>
      /\ Records[at].kind = "file" /\ outcome = "none" /\ op = "find"
  BY DEF FindRecord, Scanning
<1>2. SUFFICES ASSUME Readable PROVE IInv'
  BY <1>1, NotReadable
<1>3. Fields
  BY DEF IInv
<1>4. PICK i, k : i \in 1 .. Len(items) + 1 /\ k \in 1 .. Size(i) /\ Place(i, k) /\ Passed(i)
  BY <1>1, <1>2 DEF IInv, Scans
<1>5. i \in 1 .. Len(items) /\ k = Pieces(i) + 1 /\ Records[at] = ShortRecord(items[i])
  BY <1>1, <1>2, <1>3, <1>4, RecordIs
<1>6. PICK n \in Nat : n = Len(items) /\ DOMAIN items = 1 .. n
  BY <1>3, FieldsIs
<1>7. longName = Held(items[i].long, 0)
  <2>1. PICK p \in Nat : p = Pieces(i)
    BY <1>2, <1>3, <1>5, ReadableIs
  <2>2. p - k + 1 = 0
    BY <1>5, <2>1
  <2> QED
    BY <1>4, <1>5, <1>6, <2>1, <2>2 DEF Place
<1>8. Plain(target) => (Matches(Records[at]) <=> Named(items[i], target))
  BY <1>2, <1>3, <1>5, <1>7, MatchIs
<1>9. Plain(target) => \A j \in 1 .. i - 1 : ~Named(items[j], target)
  BY <1>1, <1>4 DEF Passed
<1>10. CASE Matches(Records[at])
  <2>1. found' = ShortRecord(items[i]).name /\ outcome' = "found"
    BY <1>5, <1>10 DEF FindRecord
  <2>2. Fields'
    BY <1>1, <1>3, Same
  <2>3. Scans' /\ NamesAreRead' /\ ListsNames'
    BY <2>1 DEF Scans, NamesAreRead, ListsNames
  <2>4. FindsByName'
    <3>1. SUFFICES ASSUME Plain(target)
                   PROVE  /\ \E j \in DOMAIN items : Named(items[j], target)
                          /\ outcome' = "found"
                          /\ \E j \in DOMAIN items :
                               /\ found' = ShortRecord(items[j]).name
                               /\ Named(items[j], target)
                               /\ \A l \in 1 .. j - 1 : ~Named(items[l], target)
      BY <1>1, Zenon DEF FindsByName
    <3>2. Named(items[i], target)
      BY <1>8, <1>10, <3>1
    <3> QED
      BY <1>5, <1>6, <1>9, <2>1, <3>1, <3>2
  <2> QED
    BY <2>2, <2>3, <2>4 DEF IInv
<1>11. CASE ~Matches(Records[at])
  <2>1. longName' = Cleared /\ at' = at + 1 /\ outcome' = "none"
    BY <1>1, <1>11 DEF FindRecord, AfterFile
  <2>2. PICK next : next = i + 1
    OBVIOUS
  <2>3. /\ next \in 1 .. Len(items) + 1 /\ 1 \in 1 .. Size(next)
        /\ Place(next, 1)'
    BY <1>1, <1>2, <1>3, <1>4, <1>5, <2>1, <2>2, NextItem
  <2>4. Passed(next)'
    <3>1. ASSUME Plain(target), NEW j \in 1 .. next - 1 PROVE ~Named(items[j], target)
      <4>1. j \in 1 .. i - 1 \/ j = i
        BY <1>5, <1>6, <2>2, <3>1
      <4> QED
        BY <1>8, <1>9, <1>11, <3>1, <4>1
    <3>2. op # "list"
      BY <1>1
    <3> QED
      BY <1>1, <3>1, <3>2, Same
  <2> QED
    BY <1>1, <1>2, <2>1, <2>3, <2>4, GoesOn
<1> QED
  BY <1>10, <1>11

LEMMA AppendIs ==
  ASSUME NEW n \in Nat, NEW f, f = [j \in 1 .. n |-> f[j]], NEW x
  PROVE  Append(f, x) = [j \in 1 .. n + 1 |-> IF j <= n THEN f[j] ELSE x]
<1> DEFINE S == {f[j] : j \in 1 .. n} \cup {x}
<1>1. f \in Seq(S) /\ Len(f) = n /\ x \in S
  <2>1. \A j \in 1 .. n : f[j] \in S
    OBVIOUS
  <2>2. x \in S
    OBVIOUS
  <2> HIDE DEF S
  <2> QED
    BY <2>1, <2>2, FunctionIsSeq
<1> HIDE DEF S
<1> QED
  BY <1>1

LEMMA ListKeeps ==
  ASSUME IInv, ListRecord
  PROVE  IInv'
<1>1. /\ UNCHANGED <<items, op, target, LongFileNameIdx, found, outcome>>
      /\ Records[at].kind = "file" /\ outcome = "none" /\ op = "list"
      /\ printed' = Append(printed, IF longName[1] = NUL THEN Records[at].name ELSE Text(longName))
      /\ longName' = Cleared /\ at' = at + 1
  BY DEF ListRecord, Scanning, AfterFile
<1>2. SUFFICES ASSUME Readable PROVE IInv'
  BY <1>1, NotReadable
<1>3. Fields
  BY DEF IInv
<1>4. PICK i, k : i \in 1 .. Len(items) + 1 /\ k \in 1 .. Size(i) /\ Place(i, k) /\ Passed(i)
  BY <1>1, <1>2 DEF IInv, Scans
<1>5. i \in 1 .. Len(items) /\ k = Pieces(i) + 1 /\ Records[at] = ShortRecord(items[i])
  BY <1>1, <1>2, <1>3, <1>4, RecordIs
<1>6. PICK n \in Nat : n = Len(items) /\ DOMAIN items = 1 .. n
  BY <1>3, FieldsIs
<1>7. longName = Held(items[i].long, 0)
  <2>1. PICK p \in Nat : p = Pieces(i)
    BY <1>2, <1>3, <1>5, ReadableIs
  <2>2. p - k + 1 = 0
    BY <1>5, <2>1
  <2> QED
    BY <1>4, <1>5, <1>6, <2>1, <2>2 DEF Place
<1>8. PICK text \in Seq(STRING) :
        /\ text = items[i].long /\ Len(text) <= MaxChunks * ChunkLen
        /\ \A c \in 1 .. Len(text) : text[c] # NUL
  BY <1>2, <1>3, <1>5, ReadableIs
<1>9. (longName[1] # NUL <=> text # <<>>) /\ Text(longName) = text
  BY <1>7, <1>8, NameHeld
<1>10. PICK name : name = ListedAs(items[i])
  OBVIOUS
<1>11. name = IF longName[1] = NUL THEN Records[at].name ELSE Text(longName)
  BY <1>5, <1>8, <1>9, <1>10, Zenon DEF ListedAs
<1>12. PICK before \in Nat : before = i - 1
  BY <1>5, <1>6
<1>13. printed = [j \in 1 .. before |-> ListedAs(items[j])]
  BY <1>1, <1>4, <1>12 DEF Passed
<1>14. printed' = [j \in 1 .. before + 1 |-> IF j <= before THEN printed[j] ELSE name]
  <2>1. printed = [j \in 1 .. before |-> printed[j]]
    BY <1>13
  <2> QED
    BY <1>1, <1>11, <2>1, AppendIs
<1>15. PICK next : next = i + 1
  OBVIOUS
<1>16. printed' = [j \in 1 .. next - 1 |-> ListedAs(items[j])]
  <2>1. next - 1 = before + 1 /\ i = before + 1
    BY <1>5, <1>6, <1>12, <1>15
  <2>2. ASSUME NEW j \in 1 .. before + 1
        PROVE  (IF j <= before THEN printed[j] ELSE name) = ListedAs(items[j])
    <3>1. CASE j <= before
      <4>1. j \in 1 .. before
        BY <3>1
      <4> QED
        BY <1>13, <3>1, <4>1
    <3>2. CASE ~(j <= before)
      <4>1. j = i
        BY <2>1, <3>2
      <4> QED
        BY <1>10, <3>2, <4>1
    <3> QED
      BY <3>1, <3>2
  <2> QED
    BY <1>14, <2>1, <2>2
<1>17. /\ next \in 1 .. Len(items) + 1 /\ 1 \in 1 .. Size(next)
       /\ Place(next, 1)'
  BY <1>1, <1>2, <1>3, <1>4, <1>5, <1>15, NextItem
<1>18. Passed(next)'
  <2>1. op # "find"
    BY <1>1
  <2> QED
    BY <1>1, <1>16, <2>1, Same
<1> QED
  BY <1>1, <1>2, <1>17, <1>18, GoesOn

LEMMA InitInv ==
  ASSUME Init
  PROVE  IInv
<1>1. Fields
  BY DEF Init, Fields
<1>2. PICK n \in Nat : n = Len(items) /\ DOMAIN items = 1 .. n
  BY <1>1, FieldsIs
<1>3. /\ at = 1 /\ longName = Cleared /\ printed = <<>>
      /\ outcome = IF Len(target) > MaxChunks * ChunkLen THEN "not found" ELSE "none"
  BY DEF Init
<1>4. NamesAreRead /\ ListsNames
  BY <1>3 DEF NamesAreRead, ListsNames
<1>5. FindsByName
  <2>1. SUFFICES ASSUME Readable, Len(target) > MaxChunks * ChunkLen, outcome = "not found",
                        NEW i \in DOMAIN items, Named(items[i], target)
                 PROVE  FALSE
    BY <1>3, Zenon DEF FindsByName
  <2>2. /\ items[i] \in Items /\ items[i].kind = "file"
        /\ Len(items[i].long) <= MaxChunks * ChunkLen
    BY <1>1, <1>2, <2>1, ReadableIs
  <2>3. PICK cells \in Nat : cells = MaxChunks * ChunkLen /\ Base + Ext <= cells
    BY Room
  <2>4. PICK len \in Nat : len = Len(target)
    BY <1>1, FieldsIs, LenProperties
  <2>5. CASE items[i].long = target
    <3>1. len <= cells
      BY <2>2, <2>3, <2>4, <2>5
    <3>2. len > cells
      BY <2>1, <2>3, <2>4
    <3> QED
      BY <3>1, <3>2
  <2>6. CASE items[i].base = target
    <3>1. len <= Base
      BY <2>2, <2>4, <2>6, ItemIs
    <3>2. len > cells
      BY <2>1, <2>3, <2>4
    <3> QED
      BY <2>3, <3>1, <3>2, Sizes
  <2> QED
    BY <2>1, <2>5, <2>6 DEF Named
<1>6. Scans
  <2>1. SUFFICES ASSUME Readable
                 PROVE  \E i \in 1 .. Len(items) + 1 : \E k \in 1 .. Size(i) : Place(i, k) /\ Passed(i)
    BY DEF Scans
  <2>2. PICK one \in Nat : one = 1
    OBVIOUS
  <2>3. Begin(one) = 0
    BY <2>2 DEF Begin
  <2>4. one \in DOMAIN items => Pieces(one) \in Nat /\ Held(items[one].long, Pieces(one)) = Cleared
    BY <1>1, <1>2, <2>1, NothingHeld, ReadableIs DEF Pieces
  <2>5. one \in 1 .. n + 1 /\ one \in 1 .. Size(one)
    BY <2>2, <2>4 DEF Size
  <2>6. Place(one, one)
    <3>1. at = Begin(one) + one /\ ~(one > 1)
      <4>1. PICK b \in Nat : b = Begin(one) /\ b = 0
        BY <2>3
      <4>2. at = 1
        BY <1>3
      <4>3. at = b + one
        BY <2>2, <4>1, <4>2
      <4>4. ~(one > 1)
        BY <2>2
      <4> QED
        BY <4>1, <4>3, <4>4
    <3>2. longName = IF one \in DOMAIN items THEN Held(items[one].long, Pieces(one) - one + 1) ELSE Cleared
      <4>1. one \in DOMAIN items => Pieces(one) - one + 1 = Pieces(one)
        BY <2>2, <2>4
      <4> QED
        BY <1>3, <2>4, <4>1
    <3> QED
      BY <3>1, <3>2 DEF Place
  <2>7. Passed(one)
    <3>1. one - 1 = 0 /\ 1 .. one - 1 = {}
      BY <2>2
    <3>2. PICK f : f = [j \in 1 .. one - 1 |-> ListedAs(items[j])]
      OBVIOUS
    <3>3. f = [j \in 1 .. 0 |-> f[j]] /\ \A j \in 1 .. 0 : f[j] \in STRING
      BY <3>1, <3>2
    <3>4. f \in Seq(STRING) /\ Len(f) = 0
      BY <3>3, FunctionIsSeq
    <3>5. f = <<>>
      BY <3>4, EmptySeq
    <3> QED
      BY <1>3, <3>1, <3>2, <3>5 DEF Passed
  <2> QED
    BY <1>2, <2>5, <2>6, <2>7
<1> QED
  BY <1>1, <1>4, <1>5, <1>6 DEF IInv

LEMMA StepInv ==
  ASSUME IInv, [Next]_vars
  PROVE  IInv'
<1>1. CASE EndOfDirectory
  BY <1>1, EndKeeps
<1>2. CASE Deleted
  BY <1>2, DeletedKeeps
<1>3. CASE LongRecord
  BY <1>3, LongKeeps
<1>4. CASE FindRecord
  BY <1>4, FindKeeps
<1>5. CASE ListRecord
  BY <1>5, ListKeeps
<1>6. CASE UNCHANGED vars
  <2>1. UNCHANGED <<items, op, target>>
    BY <1>6 DEF vars
  <2>2. SUFFICES ASSUME Readable PROVE IInv'
    BY <2>1, NotReadable
  <2>3. Fields'
    BY <2>1, Same DEF IInv
  <2>4. Scans'
    <3>1. SUFFICES ASSUME outcome' = "none" PROVE Scans'
      BY DEF Scans
    <3>2. outcome = "none"
      BY <1>6, <3>1 DEF vars
    <3>3. PICK i, k : i \in 1 .. Len(items) + 1 /\ k \in 1 .. Size(i) /\ Place(i, k) /\ Passed(i)
      BY <2>2, <3>2 DEF IInv, Scans
    <3>4. UNCHANGED <<at, longName, LongFileNameIdx, printed>>
      BY <1>6 DEF vars
    <3>5. Place(i, k)'
      BY <2>1, <3>3, <3>4, Same DEF Place
    <3>6. Passed(i)'
      BY <2>1, <3>3, <3>4, Same DEF Passed
    <3> QED
      BY <2>1, <2>2, <3>1, <3>3, <3>5, <3>6, GoesOn DEF IInv
  <2>5. NamesAreRead'
    BY <1>6 DEF vars, IInv, NamesAreRead, Readable
  <2>6. ListsNames'
    BY <1>6, Zenon DEF vars, IInv, ListsNames, Readable
  <2>7. FindsByName'
    BY <1>6, Zenon DEF vars, IInv, FindsByName, Readable
  <2> QED
    BY <2>3, <2>4, <2>5, <2>6, <2>7 DEF IInv
<1> QED
  BY <1>1, <1>2, <1>3, <1>4, <1>5, <1>6 DEF Next

(* The invariant holds: the scan is at a record of the directory, with what*)
(* has been read of a name in its place.                                   *)
THEOREM Inductive == Spec => []IInv
<1>1. Init => IInv
  BY InitInv
<1>2. IInv /\ [Next]_vars => IInv'
  BY StepInv
<1> QED
  BY <1>1, <1>2, PTL DEF Spec

(* ls prints every file of a directory once and in order, by its long name *)
(* where it has one, whatever the sizes of names, pieces and directories   *)
(* (filesys.c:428-465).                                                    *)
THEOREM NamesAreListed == Spec => []ListsNames
<1>1. IInv => ListsNames
  BY DEF IInv
<1> QED
  BY <1>1, Inductive, PTL

(* findFile returns the first file of a name and fails only where there is *)
(* none, whatever the sizes of names, pieces and directories               *)
(* (filesys.c:303-371).                                                    *)
THEOREM NamesAreFound == Spec => []FindsByName
<1>1. IInv => FindsByName
  BY DEF IInv
<1> QED
  BY <1>1, Inductive, PTL

(* No record of a directory whose names can be read has a number that is   *)
(* not expected or whose piece lies outside longName, also for a name that *)
(* getShortName gets wrong (filesys.c:336-345, 443-452).                   *)
THEOREM RecordsAreRead == Spec => []NamesAreRead
<1>1. IInv => NamesAreRead
  BY DEF IInv
<1> QED
  BY <1>1, Inductive, PTL

=============================================================================
