---------------------------- MODULE StartupProofs ----------------------------
(***************************************************************************)
(* Proofs about Startup. The first part is about BootLoader, for words and *)
(* disks of any size: what its arithmetic on pairs of words computes, and  *)
(* an inductive invariant of load_file and find_file. The second is about  *)
(* AtaPio: an inductive invariant of the protocol, for any number of       *)
(* calls, addresses and sectors, and the steps of BlockDevice that its     *)
(* steps are. The theorems come last.                                      *)
(***************************************************************************)
EXTENDS Startup, TLAPS

-----------------------------------------------------------------------------
(* The boot loader. *)

(* Division by a positive number. *)
LEMMA Division ==
  ASSUME NEW a \in Int, NEW b \in Nat, b > 0
  PROVE  \E q \in Int, r \in 0 .. b - 1 : q = a \div b /\ r = a % b /\ a = q * b + r
<1>1. PICK q \in Int : q = a \div b
  OBVIOUS
<1>2. PICK r \in Int : r = a % b
  OBVIOUS
<1>3. a = q * b + r
  BY <1>1, <1>2
<1>4. r \in 0 .. b - 1
  BY <1>2
<1> QED
  BY <1>1, <1>2, <1>3, <1>4

LEMMA SmallMultiple ==
  ASSUME NEW k \in Int, NEW b \in Nat, b > 0, -b < k * b, k * b < b
  PROVE  k = 0
<1>1. CASE k >= 1
  <2>1. PICK d \in Nat : k = d + 1
    BY <1>1
  <2>2. k * b = d * b + b /\ d * b \in Nat
    BY <2>1
  <2>3. PICK db \in Nat : db = d * b
    BY <2>2
  <2>4. PICK kb \in Int : kb = k * b
    OBVIOUS
  <2>5. kb = db + b /\ kb < b
    BY <2>2, <2>3, <2>4
  <2> QED
    BY <2>5
<1>2. CASE k <= -1
  <2>1. PICK d \in Nat : k = -d - 1
    BY <1>2
  <2>2. k * b = -(d * b) - b /\ d * b \in Nat
    BY <2>1
  <2>3. PICK db \in Nat : db = d * b
    BY <2>2
  <2>4. PICK kb \in Int : kb = k * b
    OBVIOUS
  <2>5. kb = -db - b /\ -b < kb
    BY <2>2, <2>3, <2>4
  <2> QED
    BY <2>5
<1> QED
  BY <1>1, <1>2

(* Quotient and remainder are determined by their equation. *)
LEMMA DivisionUnique ==
  ASSUME NEW a \in Int, NEW b \in Nat, b > 0, NEW q \in Int, NEW r \in 0 .. b - 1,
         a = q * b + r
  PROVE  a \div b = q /\ a % b = r
<1>1. PICK p \in Int, t \in 0 .. b - 1 : p = a \div b /\ t = a % b /\ a = p * b + t
  BY Division
<1>2. PICK k \in Int : k = q - p
  OBVIOUS
<1>3. k * b = q * b - p * b
  BY <1>2
<1>4. PICK qb \in Int : qb = q * b
  OBVIOUS
<1>5. PICK pb \in Int : pb = p * b
  OBVIOUS
<1>6. PICK kb \in Int : kb = k * b
  OBVIOUS
<1>7. kb = t - r
  BY <1>1, <1>3, <1>4, <1>5, <1>6
<1>8. -b < kb /\ kb < b
  BY <1>7
<1>9. k = 0
  BY <1>6, <1>8, SmallMultiple
<1>10. q = p /\ kb = 0
  BY <1>2, <1>6, <1>9
<1> QED
  BY <1>1, <1>7, <1>10

LEMMA NatDivision ==
  ASSUME NEW a \in Nat, NEW b \in Nat, b > 0
  PROVE  \E q \in Nat, r \in 0 .. b - 1 : q = a \div b /\ r = a % b /\ a = q * b + r
<1>1. PICK q \in Int, r \in 0 .. b - 1 : q = a \div b /\ r = a % b /\ a = q * b + r
  BY Division
<1>2. q >= 0
  <2>1. SUFFICES ASSUME q <= -1 PROVE FALSE
    OBVIOUS
  <2>2. PICK d \in Int : d = -q - 1
    OBVIOUS
  <2>3. d \in Nat /\ q = -d - 1
    BY <2>1, <2>2
  <2>4. q * b = -(d * b) - b
    BY <2>3
  <2>5. PICK db \in Nat : db = d * b
    BY <2>3
  <2> QED
    BY <1>1, <2>4, <2>5
<1> QED
  BY <1>1, <1>2

LEMMA Remains ==
  ASSUME NEW b \in Nat, b > 0, NEW r \in 0 .. b - 1
  PROVE  r % b = r /\ r \div b = 0
<1>1. r = 0 * b + r
  OBVIOUS
<1> QED
  BY <1>1, DivisionUnique

(* Two numbers that differ by a multiple of b. *)
LEMMA Congruent ==
  ASSUME NEW b \in Nat, b > 0, NEW x \in 0 .. b - 1, NEW y \in 0 .. b - 1, NEW k \in Int,
         x = y + k * b
  PROVE  x = y
<1>1. PICK kb \in Int : kb = k * b
  OBVIOUS
<1>2. -b < kb /\ kb < b
  BY <1>1
<1>3. k = 0
  BY <1>1, <1>2, SmallMultiple
<1> QED
  BY <1>3

-----------------------------------------------------------------------------
(* Pairs of words. *)

Pairs == [lo : Words, hi : Words]
Range2 == Word * Word

LEMMA WordSizes ==
  /\ Word \in Nat /\ Word >= 16 /\ Word > 0
  /\ Range2 \in Nat /\ Range2 > 0 /\ Range2 >= Word
  /\ SectorsPerCluster \in Nat /\ SectorsPerCluster > 0 /\ SectorsPerCluster < Word
<1>1. Word \in Nat /\ Word >= 16
  BY WordAssumption DEF WordAssumption
<1>2. PICK d \in Int : d = Word - 1
  BY <1>1
<1>6. d \in Nat /\ Word = d + 1
  BY <1>1, <1>2
<1>3. Word * Word = d * Word + Word /\ d * Word \in Nat
  BY <1>1, <1>6
<1>4. Word * Word \in Nat /\ Word * Word >= Word
  BY <1>1, <1>3
<1>5. SectorsPerCluster \in 1 .. Word - 1
  BY WordAssumption DEF WordAssumption
<1> QED
  BY <1>1, <1>4, <1>5 DEF Range2

LEMMA PairInRange ==
  ASSUME NEW p \in Pairs
  PROVE  Value(p) \in 0 .. Range2 - 1 /\ Value(p) = p.hi * Word + p.lo
<1>1. /\ p.hi \in Nat /\ p.lo \in Nat /\ p.hi <= Word - 1 /\ p.lo <= Word - 1
  BY WordSizes DEF Pairs, Words
<1>8. PICK d \in Int : d = Word - p.hi - 1
  BY <1>1, WordSizes
<1>2. d \in Nat /\ Word = p.hi + 1 + d
  BY <1>1, <1>8, WordSizes
<1>3. Word * Word = p.hi * Word + Word + d * Word
  BY <1>1, <1>2, WordSizes
<1>4. PICK hw \in Nat : hw = p.hi * Word
  BY <1>1, WordSizes
<1>5. PICK dw \in Nat : dw = d * Word
  BY <1>2, WordSizes
<1>6. Range2 = hw + Word + dw
  BY <1>3, <1>4, <1>5 DEF Range2
<1>7. hw + p.lo \in 0 .. Range2 - 1
  BY <1>1, <1>6, WordSizes
<1> QED
  BY <1>4, <1>7 DEF Value

LEMMA PairIs ==
  ASSUME NEW n \in 0 .. Range2 - 1
  PROVE  Pair(n) \in Pairs /\ Value(Pair(n)) = n
<1>1. PICK q \in Int, r \in 0 .. Word - 1 : q = n \div Word /\ r = n % Word /\ n = q * Word + r
  BY Division, WordSizes
<1>2. q >= 0
  <2>1. SUFFICES ASSUME q <= -1 PROVE FALSE
    BY <1>1
  <2>2. PICK d \in Nat : q = -d - 1
    BY <2>1
  <2>3. q * Word = -(d * Word) - Word
    BY <2>2, WordSizes
  <2>4. PICK dw \in Nat : dw = d * Word
    BY WordSizes
  <2>5. n = -dw - Word + r
    BY <1>1, <2>3, <2>4
  <2> QED
    BY <2>5, WordSizes
<1>3. q < Word
  <2>1. SUFFICES ASSUME q >= Word PROVE FALSE
    BY <1>1, WordSizes
  <2>2. PICK d \in Nat : q = Word + d
    BY <1>1, <2>1, WordSizes
  <2>3. q * Word = Word * Word + d * Word
    BY <2>2, WordSizes
  <2>4. PICK dw \in Nat : dw = d * Word
    BY WordSizes
  <2>5. n = Range2 + dw + r
    BY <1>1, <2>3, <2>4 DEF Range2
  <2> QED
    BY <2>5, WordSizes
<1>4. q \in 0 .. Word - 1
  BY <1>1, <1>2, <1>3, WordSizes
<1>5. q % Word = q
  BY <1>4, Remains, WordSizes
<1>6. Pair(n) = [lo |-> r, hi |-> q]
  BY <1>1, <1>5 DEF Pair
<1> QED
  BY <1>1, <1>4, <1>6 DEF Pairs, Words, Value

(* add and adc compute a sum, but for multiples of the range of a pair. *)
LEMMA PlusIs ==
  ASSUME NEW p \in Pairs, NEW q \in Pairs
  PROVE  /\ Plus(p, q) \in Pairs
         /\ \E k \in Int : Value(Plus(p, q)) = Value(p) + Value(q) + k * Range2
<1>1. p.hi \in Int /\ p.lo \in Int /\ q.hi \in Int /\ q.lo \in Int
  BY WordSizes DEF Pairs, Words
<1>2. PICK a \in Int, r \in 0 .. Word - 1 :
        a = (p.lo + q.lo) \div Word /\ r = (p.lo + q.lo) % Word /\ p.lo + q.lo = a * Word + r
  <2>1. p.lo + q.lo \in Int
    BY <1>1
  <2> QED
    BY <2>1, Division, WordSizes
<1>3. PICK b \in Int, t \in 0 .. Word - 1 :
        /\ b = (p.hi + q.hi + a) \div Word /\ t = (p.hi + q.hi + a) % Word
        /\ p.hi + q.hi + a = b * Word + t
  <2>1. p.hi + q.hi + a \in Int
    BY <1>1
  <2> QED
    BY <2>1, Division, WordSizes
<1>4. Plus(p, q) = [lo |-> r, hi |-> t]
  BY <1>2, <1>3 DEF Plus
<1>5. t = p.hi + q.hi + a - b * Word /\ r = p.lo + q.lo - a * Word
  <2>1. PICK aw \in Int : aw = a * Word
    BY WordSizes
  <2>2. PICK bw \in Int : bw = b * Word
    BY WordSizes
  <2>3. PICK u \in Int : u = p.lo + q.lo
    BY <1>1
  <2>4. u = aw + r
    BY <1>2, <2>1, <2>3
  <2>5. PICK v \in Int : v = p.hi + q.hi + a
    BY <1>1
  <2>6. v = bw + t
    BY <1>3, <2>2, <2>5
  <2> QED
    BY ONLY <1>1, <2>1, <2>2, <2>3, <2>4, <2>5, <2>6, a \in Int, b \in Int, aw \in Int,
            bw \in Int, r \in Int, t \in Int, u \in Int, v \in Int
<1>6. Value(Plus(p, q)) = t * Word + r
  BY <1>4 DEF Value
<1>7. t * Word = p.hi * Word + q.hi * Word + a * Word - b * (Word * Word)
  BY <1>1, <1>5, WordSizes
<1>8. Value(Plus(p, q)) = Value(p) + Value(q) + (-b) * Range2
  <2>1. (-b) * Range2 = -(b * (Word * Word))
    BY WordSizes DEF Range2
  <2>2. /\ p.hi * Word \in Int /\ q.hi * Word \in Int /\ a * Word \in Int
        /\ b * (Word * Word) \in Int
    BY <1>1, WordSizes
  <2> QED
    BY <1>1, <1>5, <1>6, <1>7, <2>1, <2>2 DEF Value
<1> QED
  BY <1>4, <1>8 DEF Pairs, Words

(* sub and sbb *)
LEMMA MinusTwoIs ==
  ASSUME NEW p \in Pairs
  PROVE  /\ MinusTwo(p) \in Pairs
         /\ \E k \in Int : Value(MinusTwo(p)) = Value(p) - 2 + k * Range2
<1>1. p.hi \in Int /\ p.lo \in 0 .. Word - 1
  BY WordSizes DEF Pairs, Words
<1> DEFINE borrow == IF p.lo < 2 THEN 1 ELSE 0
<1>2. borrow \in Int /\ (p.lo - 2) % Word = p.lo - 2 + borrow * Word
  <2>1. CASE p.lo < 2
    <3>1. p.lo - 2 = (-1) * Word + (p.lo - 2 + Word) /\ p.lo - 2 + Word \in 0 .. Word - 1
      BY <1>1, <2>1, WordSizes
    <3> QED
      BY <1>1, <2>1, <3>1, DivisionUnique, WordSizes
  <2>2. CASE p.lo >= 2
    <3>1. p.lo - 2 \in 0 .. Word - 1 /\ borrow = 0
      BY <1>1, <2>2, WordSizes
    <3> QED
      BY <1>1, <3>1, Remains, WordSizes
  <2> QED
    BY <1>1, <2>1, <2>2, WordSizes
<1> HIDE DEF borrow
<1>3. PICK b \in Int, t \in 0 .. Word - 1 :
        t = (p.hi - borrow) % Word /\ p.hi - borrow = b * Word + t
  <2>1. p.hi - borrow \in Int
    BY <1>1, <1>2
  <2> QED
    BY <2>1, Division, WordSizes
<1>4. (p.lo - 2) % Word \in 0 .. Word - 1
  BY <1>1, WordSizes
<1>5. MinusTwo(p) = [lo |-> (p.lo - 2) % Word, hi |-> t]
  BY <1>3 DEF MinusTwo, borrow
<1>6. t * Word = p.hi * Word - borrow * Word - b * (Word * Word)
  <2>1. t = p.hi - borrow - b * Word
    BY <1>1, <1>2, <1>3, WordSizes
  <2> QED
    BY <1>1, <1>2, <2>1, WordSizes
<1>7. Value(MinusTwo(p)) = Value(p) - 2 + (-b) * Range2
  <2>1. (-b) * Range2 = -(b * (Word * Word))
    BY WordSizes DEF Range2
  <2>2. p.hi * Word \in Int /\ borrow * Word \in Int /\ b * (Word * Word) \in Int
    BY <1>1, <1>2, WordSizes
  <2>3. Value(MinusTwo(p)) = t * Word + (p.lo - 2 + borrow * Word)
    BY <1>2, <1>5 DEF Value
  <2> QED
    BY <1>1, <1>6, <2>1, <2>2, <2>3 DEF Value
<1> QED
  BY <1>4, <1>5, <1>7 DEF Pairs, Words

(* shl and rol: the low word of a product is a multiple of the factor, so  *)
(* that the bits brought round are apart from it, and so is the high word. *)
LEMMA ProductCarry ==
  ASSUME NEW w \in Words, NEW a \in Int, NEW l \in 0 .. Word - 1,
         w * SectorsPerCluster = a * Word + l
  PROVE  /\ a \in 0 .. SectorsPerCluster - 1
         /\ l + SectorsPerCluster <= Word
         /\ \E e \in Int : l = e * SectorsPerCluster
<1>1. w \in Nat /\ w <= Word - 1
  BY WordSizes DEF Words
<1> DEFINE S == SectorsPerCluster
<1>2. S \in Nat /\ S > 0 /\ S < Word
  BY WordSizes
<1>3. PICK m \in Int : Word = m * S
  <2>1. Word % S = 0
    BY WordAssumption DEF WordAssumption
  <2>2. PICK v \in Nat : v = Word
    BY WordSizes
  <2>3. PICK q \in Int, r \in 0 .. S - 1 : q = v \div S /\ r = v % S /\ v = q * S + r
    <3> HIDE DEF S
    <3> QED
      BY <1>2, Division
  <2>4. PICK qs \in Int : qs = q * S
    BY <1>2
  <2>5. v = qs
    BY <1>2, <2>1, <2>2, <2>3, <2>4
  <2> QED
    BY <2>2, <2>4, <2>5
<1>4. w * S = a * Word + l
  OBVIOUS
<1> HIDE DEF S
<1>5. PICK g \in Int : g = Word - 1 - w
  BY <1>1, WordSizes
<1>6. g \in Nat /\ w = Word - 1 - g
  BY <1>1, <1>5, WordSizes
<1>7. PICK aw \in Int : aw = a * Word
  BY WordSizes
<1>8. PICK ws \in Nat : ws = w * S
  BY <1>1, <1>2
<1>9. ws = aw + l
  BY <1>4, <1>7, <1>8
<1>10. a >= 0
  <2>1. SUFFICES ASSUME a <= -1 PROVE FALSE
    OBVIOUS
  <2>2. PICK d \in Int : d = -a - 1
    OBVIOUS
  <2>3. d \in Nat /\ a = -d - 1
    BY <2>1, <2>2
  <2>4. a * Word = -(d * Word) - Word
    BY <2>3, WordSizes
  <2>5. PICK dw \in Nat : dw = d * Word
    BY <2>3, WordSizes
  <2> QED
    BY <1>7, <1>9, <2>4, <2>5, WordSizes
<1>11. a < S
  <2>1. SUFFICES ASSUME a >= S PROVE FALSE
    BY <1>2
  <2>2. PICK d \in Int : d = a - S
    BY <1>2
  <2>3. d \in Nat /\ a = S + d
    BY <1>2, <2>1, <2>2
  <2>4. a * Word = S * Word + d * Word
    BY <1>2, <2>3, WordSizes
  <2>5. PICK dw \in Nat : dw = d * Word
    BY <2>3, WordSizes
  <2>6. PICK sw \in Nat : sw = S * Word
    BY <1>2, WordSizes
  <2>7. PICK gs \in Nat : gs = g * S
    BY <1>2, <1>6
  <2>8. w * S = S * Word - S - g * S
    BY <1>2, <1>6, WordSizes
  <2>9. ws = sw - S - gs
    BY <1>8, <2>6, <2>7, <2>8
  <2>10. aw = sw + dw
    BY <1>7, <2>4, <2>5, <2>6
  <2> QED
    BY <1>2, <1>9, <2>9, <2>10
<1>12. PICK e \in Int : e = w - a * m
  BY <1>1
<1>13. l = e * S
  <2>1. a * Word = (a * m) * S
    BY <1>2, <1>3
  <2>2. e * S = w * S - (a * m) * S
    BY <1>1, <1>2, <1>12
  <2>3. PICK ams \in Int : ams = (a * m) * S
    BY <1>2
  <2> QED
    BY <1>7, <1>8, <1>9, <2>1, <2>2, <2>3
<1>14. e < m
  <2>1. SUFFICES ASSUME e >= m PROVE FALSE
    BY <1>3
  <2>2. PICK d \in Int : d = e - m
    OBVIOUS
  <2>3. d \in Nat /\ e = m + d
    BY <2>1, <2>2
  <2>4. e * S = m * S + d * S
    BY <1>2, <2>3
  <2>5. PICK ds \in Nat : ds = d * S
    BY <1>2, <2>3
  <2> QED
    BY <1>3, <1>13, <2>4, <2>5, WordSizes
<1>15. l + S <= Word
  <2>2. PICK d \in Int : d = m - e - 1
    OBVIOUS
  <2>3. d \in Nat /\ m = e + 1 + d
    BY <1>14, <2>2
  <2>4. m * S = e * S + S + d * S
    BY <1>2, <2>3
  <2>5. PICK ds \in Nat : ds = d * S
    BY <1>2, <2>3
  <2>6. PICK es \in Int : es = e * S
    BY <1>2
  <2> QED
    BY <1>2, <1>3, <1>13, <2>4, <2>5, <2>6, WordSizes
<1> QED
  BY <1>2, <1>10, <1>11, <1>13, <1>15 DEF S

LEMMA ScaledIs ==
  ASSUME NEW p \in Pairs
  PROVE  /\ Scaled(p) \in Pairs
         /\ \E k \in Int : Value(Scaled(p)) = SectorsPerCluster * Value(p) + k * Range2
<1> DEFINE S == SectorsPerCluster
<1>1. p.hi \in Words /\ p.lo \in Words /\ p.hi \in Int /\ p.lo \in Int
  BY WordSizes DEF Pairs, Words
<1>2. S \in Nat /\ S > 0
  BY WordSizes
<1>3. PICK a \in Int, l \in 0 .. Word - 1 :
        /\ a = (p.lo * S) \div Word /\ l = (p.lo * S) % Word /\ p.lo * S = a * Word + l
  <2>1. p.lo * S \in Int
    BY <1>1, <1>2
  <2> QED
    BY <2>1, Division, WordSizes
<1>4. PICK b \in Int, h \in 0 .. Word - 1 :
        /\ h = (p.hi * S) % Word /\ p.hi * S = b * Word + h
  <2>1. p.hi * S \in Int
    BY <1>1, <1>2
  <2> QED
    BY <2>1, Division, WordSizes
<1>5. PICK e \in Int : a \in 0 .. S - 1 /\ l = e * S
  BY <1>1, <1>3, ProductCarry
<1>6. h + S <= Word
  BY <1>1, <1>4, ProductCarry
<1>7. (l + a) % S = a
  <2>1. PICK u \in Int : u = l + a
    BY <1>5
  <2>2. u = e * S + a
    BY <1>5, <2>1
  <2> HIDE DEF S
  <2>3. u % S = a
    BY <1>2, <1>5, <2>2, DivisionUnique
  <2> QED
    BY <2>1, <2>3
<1>8. Scaled(p) = [lo |-> l, hi |-> h + a]
  BY <1>2, <1>3, <1>4, <1>5, <1>7, WordSizes DEF Scaled
<1>9. Scaled(p) \in Pairs
  <2>1. h + a \in 0 .. Word - 1
    BY <1>2, <1>5, <1>6, WordSizes
  <2> QED
    BY <1>8, <2>1 DEF Pairs, Words
<1> HIDE DEF S
<1>10. Value(Scaled(p)) = (h + a) * Word + l
  BY <1>8 DEF Value
<1>11. S * Value(p) = (p.hi * S) * Word + p.lo * S
  BY <1>1, <1>2, WordSizes DEF Value
<1>12. (h + a) * Word = h * Word + a * Word
  BY <1>2, <1>5, WordSizes
<1>13. (p.hi * S) * Word = b * (Word * Word) + h * Word
  BY <1>4, WordSizes
<1>14. (-b) * Range2 = -(b * (Word * Word))
  BY WordSizes DEF Range2
<1>15. Value(Scaled(p)) = S * Value(p) + (-b) * Range2
  <2>1. PICK hw \in Int : hw = h * Word
    BY WordSizes
  <2>2. PICK aw \in Int : aw = a * Word
    BY WordSizes
  <2>3. PICK bww \in Int : bww = b * (Word * Word)
    BY WordSizes
  <2>4. S * Value(p) = bww + hw + aw + l
    BY <1>3, <1>11, <1>13, <2>1, <2>2, <2>3
  <2>5. Value(Scaled(p)) = hw + aw + l
    BY <1>10, <1>12, <2>1, <2>2
  <2> QED
    BY <1>14, <2>3, <2>4, <2>5
<1> QED
  BY <1>9, <1>15 DEF S

-----------------------------------------------------------------------------
(* Where a cluster and its entry are found. *)

Last == FatSectors * EntriesPerSector

LEMMA Portions ==
  /\ EntriesPerSector \in Nat /\ EntriesPerSector > 0 /\ 4 * EntriesPerSector <= Word
  /\ Word \div 2 \in Nat /\ 2 * (Word \div 2) <= Word /\ Word <= 2 * (Word \div 2) + 1
<1>1. PICK f \in Nat : f = Word \div 4 /\ 4 * f <= Word
  BY WordSizes
<1>2. EntriesPerSector \in 1 .. f
  BY <1>1, WordAssumption DEF WordAssumption
<1>3. PICK h \in Nat : h = Word \div 2 /\ 2 * h <= Word /\ Word <= 2 * h + 1
  BY WordSizes
<1>4. /\ EntriesPerSector \in Nat /\ EntriesPerSector > 0 /\ 4 * EntriesPerSector <= Word
  BY <1>1, <1>2, WordSizes
<1>5. Word \div 2 \in Nat
  BY <1>3
<1>6. 2 * (Word \div 2) <= Word /\ Word <= 2 * (Word \div 2) + 1
  BY <1>3
<1> QED
  BY <1>4, <1>5, <1>6

LEMMA TableSizes ==
  /\ Last \in Nat /\ Clusters = 0 .. Last - 1
  /\ OtherEOC \in Nat /\ OtherEOC >= Last /\ OtherEOC < Range2
  /\ \A c \in Clusters : c \in 0 .. Range2 - 1
<1>1. FatSectors \in Nat
  BY WordAssumption DEF WordAssumption
<1>2. EntriesPerSector \in Nat
  BY Portions
<1>3. PICK fd \in Nat : fd = FatSectors * EntriesPerSector
  BY <1>1, <1>2
<1>4. Last \in Nat /\ Clusters = 0 .. Last - 1
  BY <1>3 DEF Last, Clusters
<1>5. PICK h \in Nat : h = Word \div 16 /\ 16 * h <= Word /\ h >= 1
  BY WordSizes
<1>6. PICK x \in Int : x = Word - h - 1
  BY <1>5, WordSizes
<1>7. x \in Nat /\ Word = h + x + 1
  BY <1>5, <1>6, WordSizes
<1>8. Word * Word = h * Word + x * Word + Word
  BY <1>5, <1>7, WordSizes
<1>9. PICK xw \in Nat : xw = x * Word
  BY <1>7, WordSizes
<1>10. PICK g \in Int : g = h - 1
  BY <1>5
<1>11. g \in Nat /\ h = g + 1
  BY <1>5, <1>10
<1>12. h * Word = g * Word + Word
  BY <1>11, WordSizes
<1>13. PICK gw \in Nat : gw = g * Word
  BY <1>11, WordSizes
<1>14. PICK hw \in Nat : hw = h * Word
  BY <1>5, WordSizes
<1>15. hw = gw + Word /\ Range2 = hw + xw + Word
  BY <1>8, <1>9, <1>12, <1>13, <1>14 DEF Range2
<1>16. PICK end \in Nat : end = EOC /\ end = hw - 1
  BY <1>5, <1>14, <1>15, WordSizes DEF EOC
<1>17. end >= Last
  <2>1. end \notin Clusters
    BY <1>16, WordAssumption DEF WordAssumption
  <2> QED
    BY <1>4, <1>16, <2>1
<1>18. PICK other \in Nat : other = OtherEOC /\ other = hw - 8
  BY <1>15, <1>16, WordSizes DEF OtherEOC
<1>19. other >= Last
  <2>1. other \notin Clusters
    BY <1>18, WordAssumption DEF WordAssumption
  <2> QED
    BY <1>4, <1>18, <2>1
<1> QED
  BY <1>4, <1>15, <1>16, <1>17, <1>18, <1>19, WordSizes

LEMMA LbaIs ==
  ASSUME NEW c \in Clusters
  PROVE  Value(LbaOf(Pair(c))) = ClusterLba(c) /\ ClusterLba(c) \in Nat
<1> DEFINE S == SectorsPerCluster
<1>1. c \in 0 .. Range2 - 1 /\ c \in Int
  BY TableSizes, WordSizes
<1>2. S \in Nat /\ Range2 \in Nat /\ Range2 > 0
  BY WordSizes
<1>3. ClusterBase \in 0 .. Range2 - 1 /\ ClusterLba(c) \in 0 .. Range2 - 1
  BY WordAssumption DEF WordAssumption, Range2
<1>4. Pair(c) \in Pairs /\ Value(Pair(c)) = c
  BY <1>1, PairIs
<1>5. Pair(ClusterBase) \in Pairs /\ Value(Pair(ClusterBase)) = ClusterBase
  BY <1>3, PairIs
<1>6. PICK i \in Int : /\ MinusTwo(Pair(c)) \in Pairs
                       /\ Value(MinusTwo(Pair(c))) = c - 2 + i * Range2
  BY <1>4, MinusTwoIs
<1> DEFINE minus == MinusTwo(Pair(c))
<1> HIDE DEF minus
<1>7. minus \in Pairs /\ Value(minus) = c - 2 + i * Range2
  BY <1>6 DEF minus
<1>8. PICK j \in Int : /\ Scaled(minus) \in Pairs
                       /\ Value(Scaled(minus)) = S * Value(minus) + j * Range2
  BY <1>7, ScaledIs
<1> DEFINE scaled == Scaled(minus)
<1> HIDE DEF scaled
<1>9. scaled \in Pairs /\ Value(scaled) = S * Value(minus) + j * Range2
  BY <1>8 DEF scaled
<1>10. PICK k \in Int : /\ Plus(scaled, Pair(ClusterBase)) \in Pairs
                        /\ Value(Plus(scaled, Pair(ClusterBase)))
                             = Value(scaled) + ClusterBase + k * Range2
  BY <1>5, <1>9, PlusIs
<1> DEFINE lba == LbaOf(Pair(c))
<1>11. lba \in Pairs /\ Value(lba) = Value(scaled) + ClusterBase + k * Range2
  BY <1>10 DEF LbaOf, minus, scaled
<1> HIDE DEF lba, S
<1>12. PICK n \in Int : n = S * i + j + k
  BY <1>2
<1>13. Value(lba) = ClusterLba(c) + n * Range2
  <2>1. S * Value(minus) = (c - 2) * S + (S * i) * Range2
    BY <1>1, <1>2, <1>7
  <2>2. n * Range2 = (S * i) * Range2 + j * Range2 + k * Range2
    BY <1>2, <1>12
  <2>3. ClusterLba(c) = ClusterBase + (c - 2) * S
    BY DEF ClusterLba, S
  <2>4. PICK x \in Int : x = (c - 2) * S
    BY <1>1, <1>2
  <2>5. PICK y \in Int : y = (S * i) * Range2
    BY <1>2
  <2>6. PICK z \in Int : z = j * Range2
    BY <1>2
  <2>7. PICK t \in Int : t = k * Range2
    BY <1>2
  <2>8. Value(lba) = x + y + z + ClusterBase + t
    BY <1>3, <1>9, <1>11, <2>1, <2>4, <2>5, <2>6, <2>7
  <2> QED
    BY <1>3, <2>2, <2>3, <2>4, <2>5, <2>6, <2>7, <2>8
<1>14. Value(lba) \in 0 .. Range2 - 1
  BY <1>11, PairInRange
<1>15. Value(lba) = ClusterLba(c)
  <2> DEFINE x == Value(lba)
  <2> DEFINE y == ClusterLba(c)
  <2>1. x \in 0 .. Range2 - 1 /\ y \in 0 .. Range2 - 1 /\ x = y + n * Range2
    BY <1>3, <1>13, <1>14
  <2> HIDE DEF x, y
  <2>2. x = y
    BY <1>2, <2>1, Congruent
  <2> QED
    BY <2>2 DEF x, y
<1> QED
  BY <1>3, <1>15 DEF lba

(* No two clusters are read from the same sector. *)
LEMMA LbaInjective ==
  ASSUME NEW c \in Clusters, NEW d \in Clusters, ClusterLba(c) = ClusterLba(d)
  PROVE  c = d
<1>1. c \in Int /\ d \in Int
  BY TableSizes
<1>2. ClusterBase \in Int
  BY WordAssumption, WordSizes DEF WordAssumption
<1> DEFINE S == SectorsPerCluster
<1>3. S \in Nat /\ S > 0
  BY WordSizes
<1>4. ClusterBase + (c - 2) * S = ClusterBase + (d - 2) * S
  BY DEF ClusterLba
<1> HIDE DEF S
<1>5. PICK k \in Int : k = c - d
  BY <1>1
<1>6. k * S = (c - 2) * S - (d - 2) * S
  BY <1>1, <1>3, <1>5
<1>7. PICK x \in Int : x = (c - 2) * S
  BY <1>1, <1>3
<1>8. PICK y \in Int : y = (d - 2) * S
  BY <1>1, <1>3
<1>9. k * S = 0
  BY <1>2, <1>4, <1>6, <1>7, <1>8
<1>10. k = 0
  BY <1>3, <1>9, SmallMultiple
<1> QED
  BY <1>1, <1>5, <1>10

(* div32: the two words are divided one after the other. The sum of the    *)
(* two remainders is small, so that the comparison with sign is right.     *)
LEMMA Div32Is ==
  ASSUME NEW p \in Pairs
  PROVE  \E q \in Nat, i \in Int, r \in 0 .. EntriesPerSector - 1 :
           /\ Value(p) = q * EntriesPerSector + r
           /\ r = Div32(p, EntriesPerSector).remainder
           /\ Div32(p, EntriesPerSector).quotient \in Pairs
           /\ Value(Div32(p, EntriesPerSector).quotient) = q + i * Range2
<1> DEFINE d == EntriesPerSector
<1>1. p.hi \in Nat /\ p.lo \in Nat
  BY WordSizes DEF Pairs, Words
<1>2. d \in Nat /\ d > 0 /\ 4 * d <= Word
  BY Portions
<1> HIDE DEF d
<1>3. PICK q1 \in Nat, r1 \in 0 .. d - 1 :
        q1 = p.hi \div d /\ r1 = p.hi % d /\ p.hi = q1 * d + r1
  BY <1>1, <1>2, NatDivision
<1>4. PICK q2 \in Nat, r2 \in 0 .. d - 1 :
        q2 = p.lo \div d /\ r2 = p.lo % d /\ p.lo = q2 * d + r2
  BY <1>1, <1>2, NatDivision
<1>5. PICK q3 \in Nat, r3 \in 0 .. d - 1 :
        q3 = (r1 * Word) \div d /\ r3 = (r1 * Word) % d /\ r1 * Word = q3 * d + r3
  <2>1. r1 * Word \in Nat
    <3>1. r1 \in Nat
      BY <1>2
    <3> QED
      BY <3>1, WordSizes
  <2> QED
    BY <1>2, <2>1, NatDivision
<1>6. PICK sum \in Nat : sum = r2 + r3 /\ sum <= 2 * d - 2
  BY <1>2, <1>4, <1>5
<1>7. Signed(sum) = sum
  BY <1>2, <1>6, Portions, WordSizes DEF Signed
<1> DEFINE over == IF sum >= d THEN 1 ELSE 0
<1>8. PICK o \in {0, 1} : o = over
  OBVIOUS
<1>9. PICK r \in 0 .. d - 1 : r = IF sum >= d THEN sum - d ELSE sum
  BY <1>2, <1>6
<1>10. sum = o * d + r
  BY <1>2, <1>6, <1>8, <1>9
<1>11. PICK lower \in Nat : lower = q2 + q3 + o
  BY <1>8
<1>12. PICK a \in Int, l \in 0 .. Word - 1 :
         a = lower \div Word /\ l = lower % Word /\ lower = a * Word + l
  BY Division, WordSizes
<1>13. PICK b \in Int, t \in 0 .. Word - 1 :
         t = (q1 + a) % Word /\ q1 + a = b * Word + t
  <2>1. q1 + a \in Int
    OBVIOUS
  <2> QED
    BY <2>1, Division, WordSizes
<1>14. /\ Div32(p, d).quotient = [lo |-> l, hi |-> t]
       /\ Div32(p, d).remainder = r
  <2>1. p.hi % d = r1 /\ p.lo % d = r2 /\ (r1 * Word) % d = r3
    BY ONLY <1>3, <1>4, <1>5
  <2>2. p.hi \div d = q1 /\ p.lo \div d = q2 /\ (r1 * Word) \div d = q3
    BY ONLY <1>3, <1>4, <1>5
  <2>3. r2 + r3 = sum /\ q2 + q3 + o = lower
    BY <1>6, <1>11
  <2>4. lower % Word = l /\ (q1 + lower \div Word) % Word = t
    BY ONLY <1>12, <1>13
  <2>5. (IF Signed(sum) >= d THEN 1 ELSE 0) = o /\ (IF Signed(sum) >= d THEN sum - d ELSE sum) = r
    BY <1>7, <1>8, <1>9
  <2> QED
    BY ONLY <2>1, <2>2, <2>3, <2>4, <2>5, Zenon DEF Div32
<1>15. PICK q \in Nat : q = q1 * Word + lower
  BY WordSizes
<1>16. Value(p) = q * d + r
  <2>1. q * d = (q1 * d) * Word + q2 * d + q3 * d + o * d
    BY <1>2, <1>8, <1>11, <1>15, WordSizes
  <2>2. p.hi * Word = (q1 * d) * Word + r1 * Word
    BY <1>2, <1>3, WordSizes
  <2>3. PICK qdw \in Nat : qdw = (q1 * d) * Word
    BY <1>2, WordSizes
  <2>4. PICK qd2 \in Nat : qd2 = q2 * d
    BY <1>2
  <2>5. PICK qd3 \in Nat : qd3 = q3 * d
    BY <1>2
  <2>6. PICK od \in Nat : od = o * d
    BY <1>2, <1>8
  <2>7. p.hi * Word = qdw + qd3 + r3
    BY <1>2, <1>5, <2>2, <2>3, <2>5
  <2>8. p.lo = qd2 + r2
    BY <1>4, <2>4
  <2>9. q * d = qdw + qd2 + qd3 + od
    BY <2>1, <2>3, <2>4, <2>5, <2>6
  <2>10. r2 + r3 = od + r
    BY <1>6, <1>10, <2>6
  <2>11. Value(p) = qdw + qd3 + r3 + qd2 + r2
    BY <1>2, <1>4, <1>5, <2>7, <2>8 DEF Value
  <2> QED
    BY ONLY <2>9, <2>10, <2>11, qdw \in Nat, qd2 \in Nat, qd3 \in Nat, od \in Nat, r \in Int,
            r2 \in Int, r3 \in Int
<1>17. Div32(p, d).quotient \in Pairs
  BY <1>14 DEF Pairs, Words
<1>18. Value(Div32(p, d).quotient) = t * Word + l
  BY <1>14 DEF Value
<1>19. Value(Div32(p, d).quotient) = q + (-b) * Range2
  <2>1. t = q1 + a - b * Word
    <3>1. PICK bw \in Int : bw = b * Word
      BY WordSizes
    <3>2. PICK u \in Int : u = q1 + a
      OBVIOUS
    <3>3. u = bw + t
      BY <1>13, <3>1, <3>2
    <3> QED
      BY <3>1, <3>2, <3>3, WordSizes
  <2>2. t * Word = q1 * Word + a * Word - b * (Word * Word)
    BY <2>1, WordSizes
  <2>3. (-b) * Range2 = -(b * (Word * Word))
    BY WordSizes DEF Range2
  <2>4. PICK qw \in Nat : qw = q1 * Word
    BY WordSizes
  <2>5. PICK aw \in Int : aw = a * Word
    BY WordSizes
  <2>6. PICK bww \in Int : bww = b * (Word * Word)
    BY WordSizes
  <2>7. t * Word = qw + aw - bww
    BY <2>2, <2>4, <2>5, <2>6
  <2>8. q = qw + lower /\ lower = aw + l
    BY <1>12, <1>15, <2>4, <2>5
  <2>9. (-b) * Range2 = -bww
    BY <2>3, <2>6
  <2> HIDE DEF Range2
  <2>10. PICK bR \in Int : bR = (-b) * Range2
    BY WordSizes
  <2>11. PICK n \in Int : n = t * Word
    BY WordSizes
  <2>12. n + l = q + bR
    BY <2>7, <2>8, <2>9, <2>10, <2>11
  <2> QED
    BY <1>18, <2>10, <2>11, <2>12
<1> QED
  BY <1>9, <1>14, <1>15, <1>16, <1>17, <1>19 DEF d

(* The entry that is looked at: the cluster's own, and none of the table   *)
(* for a number behind it, although the sum may have wrapped round.        *)
LEMMA EntryIs ==
  ASSUME NEW c \in 0 .. Range2 - 1, cluster = Pair(c)
  PROVE  /\ c \in Clusters => Entry = c
         /\ c >= Last => Entry \notin Clusters
<1> DEFINE d == EntriesPerSector
<1> DEFINE R == Range2
<1>1. /\ c \in Nat /\ c < R /\ d \in Nat /\ d > 0 /\ R \in Nat /\ R > 0
      /\ FatSectors \in Nat /\ FatBase \in 0 .. R - 1 /\ FatBase + FatSectors < R
  BY WordSizes, Portions, WordAssumption DEF WordAssumption, Range2
<1>2. cluster \in Pairs /\ Value(cluster) = c
  BY PairIs
<1> DEFINE at == Div32(cluster, d)
<1> DEFINE base == Pair(FatBase)
<1>3. PICK q \in Nat, i \in Int, r \in 0 .. d - 1 :
        /\ c = q * d + r
        /\ r = at.remainder
        /\ at.quotient \in Pairs
        /\ Value(at.quotient) = q + i * R
  BY <1>2, Div32Is
<1>4. base \in Pairs /\ Value(base) = FatBase
  BY <1>1, PairIs
<1> DEFINE sum == Plus(at.quotient, base)
<1>5. PICK k \in Int : sum \in Pairs /\ Value(sum) = Value(at.quotient) + Value(base) + k * R
  <2> HIDE DEF at, base
  <2> QED
    BY <1>3, <1>4, PlusIs
<1>6. Entry = (Value(sum) - FatBase) * d + r
  BY <1>3 DEF Entry
<1>7. Value(sum) \in 0 .. R - 1 /\ Value(at.quotient) \in 0 .. R - 1
  <2> HIDE DEF at, base
  <2> DEFINE quotient == at.quotient
  <2> HIDE DEF sum, quotient
  <2>1. quotient \in Pairs /\ sum \in Pairs
    BY <1>3, <1>5 DEF quotient
  <2>2. Value(quotient) \in 0 .. R - 1 /\ Value(sum) \in 0 .. R - 1
    BY <2>1, PairInRange
  <2> QED
    BY <2>2 DEF quotient
<1> DEFINE v == Value(sum)
<1> DEFINE w == Value(at.quotient)
<1>8. v \in 0 .. R - 1 /\ w \in 0 .. R - 1 /\ w = q + i * R /\ v = w + FatBase + k * R
  BY <1>3, <1>4, <1>5, <1>7
<1>9. Entry = (v - FatBase) * d + r
  BY <1>6
<1> HIDE DEF at, base, sum, v, w, d, R
<1>10. PICK g \in Int : g = d - 1
  BY <1>1
<1>11. g \in Nat /\ d = g + 1
  BY <1>1, <1>10
<1>12. q * d = q * g + q
  BY <1>11
<1>13. PICK qg \in Nat : qg = q * g
  BY <1>11
<1>14. q <= c
  BY <1>1, <1>3, <1>12, <1>13
<1>15. w = q
  <2>1. q \in 0 .. R - 1
    BY <1>1, <1>14
  <2> QED
    BY <1>1, <1>8, <2>1, Congruent
<1>16. v = q + FatBase + k * R
  BY <1>8, <1>15
<1>17. PICK kr \in Int : kr = k * R
  BY <1>1
<1>18. PICK qd \in Nat : qd = q * d
  BY <1>1
<1>19. c = qd + r
  BY <1>3, <1>18
<1>20. CASE v = q + FatBase
  <2>1. v - FatBase = q
    BY <1>1, <1>20
  <2>2. Entry = c
    BY <1>9, <1>18, <1>19, <2>1
  <2>3. c >= Last => c \notin Clusters
    BY TableSizes
  <2> QED
    BY <2>2, <2>3
<1>21. c \in Clusters => v = q + FatBase
  <2>1. SUFFICES ASSUME c \in Clusters PROVE v = q + FatBase
    OBVIOUS
  <2>2. c < FatSectors * d
    BY <2>1, TableSizes DEF Last, d
  <2>3. q < FatSectors
    <3>1. SUFFICES ASSUME q >= FatSectors PROVE FALSE
      BY <1>1
    <3>2. PICK x \in Int : x = q - FatSectors
      BY <1>1
    <3>3. x \in Nat /\ q = FatSectors + x
      BY <1>1, <3>1, <3>2
    <3>4. q * d = FatSectors * d + x * d
      BY <1>1, <3>3
    <3>5. PICK fd \in Nat : fd = FatSectors * d
      BY <1>1
    <3>6. PICK xd \in Nat : xd = x * d
      BY <1>1, <3>3
    <3> QED
      BY <1>1, <1>18, <1>19, <2>2, <3>4, <3>5, <3>6
  <2>4. PICK y \in 0 .. R - 1 : y = q + FatBase
    BY <1>1, <2>3
  <2>5. v = y + k * R
    BY <1>16, <2>4
  <2>6. v = y
    BY <1>1, <1>8, <2>5, Congruent
  <2> QED
    BY <2>4, <2>6
<1>22. CASE v # q + FatBase /\ c >= Last
  <2>1. kr # 0 /\ v = q + FatBase + kr
    BY <1>1, <1>8, <1>16, <1>17, <1>22
  <2>2. k <= -1
    <3>1. SUFFICES ASSUME k >= 0 PROVE FALSE
      OBVIOUS
    <3>2. k # 0
      BY <1>1, <1>17, <2>1
    <3>3. PICK x \in Int : x = k - 1
      OBVIOUS
    <3>4. x \in Nat /\ k = x + 1
      BY <3>1, <3>2, <3>3
    <3>5. k * R = x * R + R
      BY <1>1, <3>4
    <3>6. PICK xr \in Nat : xr = x * R
      BY <1>1, <3>4
    <3> QED
      BY <1>1, <1>8, <1>17, <2>1, <3>5, <3>6
  <2>3. kr <= -R
    <3>3. PICK x \in Int : x = -k - 1
      OBVIOUS
    <3>4. x \in Nat /\ k = -x - 1
      BY <2>2, <3>3
    <3>5. k * R = -(x * R) - R
      BY <1>1, <3>4
    <3>6. PICK xr \in Nat : xr = x * R
      BY <1>1, <3>4
    <3> QED
      BY <1>1, <1>17, <3>5, <3>6
  <2>4. PICK y \in Int : y = -(v - FatBase) - 1
    BY <1>1, <1>8
  <2>5. y \in Nat /\ v - FatBase = -y - 1
    BY <1>1, <1>8, <1>14, <2>1, <2>3, <2>4
  <2>6. (v - FatBase) * d = -(y * d) - d
    BY <1>1, <2>5
  <2>7. PICK yd \in Nat : yd = y * d
    BY <1>1, <2>5
  <2>8. Entry = -yd - d + r
    BY <1>9, <2>6, <2>7
  <2>9. Entry < 0 /\ Entry \in Int
    BY <1>1, <2>8
  <2> QED
    BY <1>21, <1>22, <2>9, TableSizes
<1> QED
  BY <1>20, <1>21, <1>22

-----------------------------------------------------------------------------
(* The inductive invariant. *)

(* The sectors in memory are those of clusters from c on that are linked   *)
(* by the table.                                                           *)
Linked(c) ==
  /\ memory # <<>> => memory[1] = ClusterLba(c)
  /\ \A i \in 1 .. Len(memory) - 1 :
       \E x \in Clusters :
         /\ memory[i] = ClusterLba(x)
         /\ disk.fat[x] # EOC /\ memory[i + 1] = ClusterLba(disk.fat[x])

(* The last sector is that of x. *)
EndsAt(x) == memory # <<>> /\ memory[Len(memory)] = ClusterLba(x)

(* What load_file has loaded of the kernel when it is at each of its       *)
(* steps. Behind the mark of the end that it does not know, it reads an    *)
(* entry outside the table.                                                *)
Behind(c) ==
  \/ memory = <<>> /\ cluster = Pair(c)
  \/ \E x \in Clusters : EndsAt(x) /\ disk.fat[x] # EOC /\ cluster = Pair(disk.fat[x])

Reading(c) ==
  \/ cluster = Pair(OtherEOC)
  \/ Linked(c) /\ \E x \in Clusters : EndsAt(x) /\ cluster = Pair(x)

Ended(c) == Linked(c) /\ \E x \in Clusters : EndsAt(x) /\ disk.fat[x] = EOC

KernelPart ==
  pass = "kernel" =>
    \E c \in Clusters :
      /\ KernelAt(disk, c)
      /\ bootPc = "load" => Linked(c) /\ Behind(c)
      /\ bootPc = "fat" => Reading(c)
      /\ bootPc \in {"a20", "kernel"} => Ended(c)

(* What it has loaded of the root directory, and what find_file has seen.  *)
RootSectors ==
  /\ Len(memory) <= Len(disk.root)
  /\ \A i \in 1 .. Len(memory) : memory[i] = ClusterLba(disk.root[i])

NotYet == \A j \in 0 .. record - 1 : RootRecord(disk, j).name \notin {"kernel", "end"}

RootPart ==
  pass = "root" =>
    /\ bootPc \in {"load", "fat", "find"} => RootSectors
    /\ bootPc \in {"start", "header", "load", "fat"} => record = 0
    /\ bootPc = "load" => Len(memory) < Len(disk.root)
                          /\ cluster = Pair(disk.root[Len(memory) + 1])
    /\ bootPc = "fat" => memory # <<>> /\ cluster = Pair(disk.root[Len(memory)])
    /\ bootPc = "find" => Len(memory) = Len(disk.root) /\ NotYet

Phases ==
  /\ bootPc \in {"start", "header", "find"} => pass = "root"
  /\ bootPc \in {"a20", "kernel"} => pass = "kernel"
  /\ bootPc = "kernel" => a20

BootIInv == BootTypeOK /\ Phases /\ RootPart /\ KernelPart

(* What is known of the disk. *)
Table(d) == d.fat \in [Clusters -> Clusters \cup {EOC, OtherEOC}]

RootChain(d) ==
  /\ Len(d.root) \in Nat /\ Len(d.root) >= 1
  /\ d.root[1] = 2
  /\ \A i \in 1 .. Len(d.root) :
       /\ d.root[i] \in Clusters
       /\ i < Len(d.root) => d.fat[d.root[i]] = d.root[i + 1]
       /\ i = Len(d.root) => d.fat[d.root[i]] = EOC

RootNames(d) ==
  \A i \in 1 .. Len(d.root), j \in 1 .. RecordsPerCluster :
    d.dir[d.root[i]][j].name = "kernel" => d.dir[d.root[i]][j].cluster \in Clusters

LEMMA DiskIs ==
  ASSUME NEW d \in Disks
  PROVE  Table(d) /\ RootChain(d) /\ RootNames(d)
<1>1. /\ Table(d)
      /\ d.root \in Seq(Clusters \cap DOMAIN d.dir)
      /\ d.root # <<>> /\ d.root[1] = 2
      /\ \A i \in 1 .. Len(d.root) :
           d.fat[d.root[i]] = IF i = Len(d.root) THEN EOC ELSE d.root[i + 1]
      /\ \A c \in DOMAIN d.dir, i \in 1 .. RecordsPerCluster :
           d.dir[c][i].name = "kernel" => d.dir[c][i].cluster \in Clusters
  BY BootDiskAssumption DEF BootDiskAssumption, Table
<1>2. \A i \in 1 .. Len(d.root) : d.root[i] \in Clusters /\ d.root[i] \in DOMAIN d.dir
  BY <1>1
<1>3. Len(d.root) \in Nat /\ Len(d.root) >= 1
  BY <1>1
<1>4. RootChain(d)
  BY <1>1, <1>2, <1>3 DEF RootChain
<1>5. RootNames(d)
  BY <1>1, <1>2 DEF RootNames
<1> QED
  BY <1>1, <1>4, <1>5

LEMMA BootInitIInv == BootInit => BootIInv
<1>1. SUFFICES ASSUME BootInit PROVE BootIInv
  OBVIOUS
<1> USE <1>1 DEF BootInit
<1>2. Pair(2) \in Pairs
  <2>1. PICK two \in 0 .. Range2 - 1 : two = 2
    BY WordSizes
  <2>2. Pair(two) \in Pairs
    BY PairIs
  <2> QED
    BY <2>1, <2>2
<1>3. memory \in Seq(Nat) /\ Len(memory) = 0 /\ Len(memory) <= Slots
  BY WordAssumption DEF WordAssumption
<1>4. BootTypeOK
  BY <1>2, <1>3 DEF BootTypeOK, Pairs
<1>5. Phases
  BY DEF Phases
<1>6. RootPart
  BY DEF RootPart
<1>7. KernelPart
  BY DEF KernelPart
<1> QED
  BY <1>4, <1>5, <1>6, <1>7 DEF BootIInv

(* Each of the numbers that a register pair gets. *)
LEMMA PairTypes ==
  /\ Pair(2) \in Pairs
  /\ \A n \in Clusters \cup {OtherEOC} : Pair(n) \in Pairs
  /\ \A p \in Pairs : Value(LbaOf(p)) \in Nat
<1>1. Pair(2) \in Pairs
  <2>1. PICK two \in 0 .. Range2 - 1 : two = 2
    BY WordSizes
  <2>2. Pair(two) \in Pairs
    BY PairIs
  <2> QED
    BY <2>1, <2>2
<1>2. ASSUME NEW n \in Clusters \cup {OtherEOC}
      PROVE  Pair(n) \in Pairs
  <2>1. n \in 0 .. Range2 - 1
    BY TableSizes, WordSizes
  <2> QED
    BY <2>1, PairIs
<1>3. ASSUME NEW p \in Pairs
      PROVE  Value(LbaOf(p)) \in Nat
  <2>1. Scaled(MinusTwo(p)) \in Pairs
    BY MinusTwoIs, ScaledIs
  <2>2. Pair(ClusterBase) \in Pairs
    <3>1. ClusterBase \in 0 .. Range2 - 1
      BY WordAssumption DEF WordAssumption, Range2
    <3> QED
      BY <3>1, PairIs
  <2>3. LbaOf(p) \in Pairs
    BY <2>1, <2>2, PlusIs DEF LbaOf
  <2> QED
    BY <2>3, PairInRange, WordSizes
<1> QED
  BY <1>1, <1>2, <1>3

(* What was found in the directory stays true. *)
LEMMA KernelStays ==
  ASSUME NEW c \in Clusters, KernelAt(disk, c), disk' = disk
  PROVE  KernelAt(disk, c)'
OBVIOUS

LEMMA KernelKnown ==
  ASSUME KernelPart, disk' = disk, pass = "kernel"
  PROVE  \E c \in Clusters : KernelAt(disk, c)'
<1>1. PICK c \in Clusters : KernelAt(disk, c)
  BY DEF KernelPart
<1>2. KernelAt(disk, c)'
  BY <1>1, KernelStays
<1> QED
  BY <1>2

LEMMA ReadHeaderStep ==
  ASSUME BootIInv, ReadHeader
  PROVE  BootIInv'
<1> USE BootIInv, ReadHeader DEF ReadHeader, LoadFile, machine, BootIInv
<1>1. disk \in Disks /\ record = 0 /\ Slots \in Nat
  BY WordAssumption DEF BootTypeOK, Phases, RootPart, WordAssumption
<1>2. memory' = <<>> /\ bootPc' = "load" /\ pass' = "root" /\ cluster' = Pair(2)
      /\ disk' = disk /\ record' = record
  OBVIOUS
<1>3. BootTypeOK'
  BY <1>1, <1>2, PairTypes DEF BootTypeOK, Pairs
<1>4. Phases'
  BY <1>2 DEF Phases
<1>5. RootPart'
  <2>1. RootChain(disk)
    BY <1>1, DiskIs
  <2>2. Len(memory') = 0
    BY <1>2
  <2>3. RootSectors'
    BY <1>2, <2>1, <2>2 DEF RootSectors, RootChain
  <2>4. Len(memory') < Len(disk'.root) /\ cluster' = Pair(disk'.root[Len(memory') + 1])
    BY <1>2, <2>1, <2>2 DEF RootChain
  <2> QED
    BY <1>1, <1>2, <2>3, <2>4 DEF RootPart
<1>6. KernelPart'
  BY <1>2 DEF KernelPart
<1> QED
  BY <1>3, <1>4, <1>5, <1>6

LEMMA LoadClusterStep ==
  ASSUME BootIInv, LoadCluster
  PROVE  BootIInv'
<1> USE BootIInv, LoadCluster DEF LoadCluster, machine, BootIInv
<1>1. /\ disk \in Disks /\ cluster \in Pairs /\ memory \in Seq(Nat) /\ Len(memory) \in Nat
      /\ Len(memory) <= Slots /\ Slots \in Nat /\ bootPc = "load"
  BY WordAssumption DEF BootTypeOK, WordAssumption, Pairs
<1>2. pass' = pass /\ cluster' = cluster /\ record' = record /\ disk' = disk
  OBVIOUS
<1> DEFINE sector == Value(LbaOf(cluster))
<1>3. sector \in Nat
  BY <1>1, PairTypes
<1> HIDE DEF sector
<1>4. CASE Len(memory) < Slots
  <2>1. memory' = Append(memory, sector) /\ bootPc' = "fat"
    BY <1>4 DEF sector
  <2>2. /\ memory' \in Seq(Nat) /\ Len(memory') = Len(memory) + 1 /\ memory' # <<>>
        /\ memory'[Len(memory) + 1] = sector
        /\ \A i \in 1 .. Len(memory) : memory'[i] = memory[i]
    BY <1>1, <1>3, <2>1
  <2>3. BootTypeOK'
    BY <1>1, <1>2, <1>4, <2>1, <2>2 DEF BootTypeOK
  <2>4. Phases'
    BY <1>2, <2>1 DEF Phases
  <2>5. RootPart'
    <3>1. SUFFICES ASSUME pass = "root" PROVE RootPart'
      BY <1>2 DEF RootPart
    <3>2. /\ RootSectors /\ record = 0 /\ Len(memory) < Len(disk.root)
          /\ cluster = Pair(disk.root[Len(memory) + 1])
      BY <1>1, <3>1 DEF RootPart
    <3>3. RootChain(disk)
      BY <1>1, DiskIs
    <3>4. PICK c \in Clusters : c = disk.root[Len(memory) + 1]
      BY <1>1, <3>2, <3>3 DEF RootChain
    <3>5. sector = ClusterLba(c)
      BY <3>2, <3>4, LbaIs DEF sector
    <3>6. RootSectors'
      <4>1. Len(memory') <= Len(disk.root)
        BY <1>1, <2>2, <3>2, <3>3 DEF RootChain
      <4>2. ASSUME NEW i \in 1 .. Len(memory')
            PROVE  memory'[i] = ClusterLba(disk.root[i])
        <5>1. CASE i = Len(memory) + 1
          BY <2>2, <3>4, <3>5, <5>1
        <5>2. CASE i \in 1 .. Len(memory)
          BY <2>2, <3>2, <5>2 DEF RootSectors
        <5> QED
          BY <1>1, <2>2, <5>1, <5>2
      <4> QED
        BY <1>2, <4>1, <4>2 DEF RootSectors
    <3> QED
      BY <1>1, <1>2, <2>1, <2>2, <3>2, <3>6 DEF RootPart
  <2>6. KernelPart'
    <3>1. SUFFICES ASSUME pass = "kernel" PROVE KernelPart'
      BY <1>2 DEF KernelPart
    <3>2. PICK c \in Clusters : KernelAt(disk, c) /\ Linked(c) /\ Behind(c)
      BY <1>1, <3>1 DEF KernelPart
    <3>3. Table(disk)
      BY <1>1, DiskIs
    <3>4. Reading(c)'
      <4>1. CASE memory = <<>> /\ cluster = Pair(c)
        <5>1. sector = ClusterLba(c) /\ Len(memory) = 0
          BY <4>1, LbaIs DEF sector
        <5> QED
          BY <1>2, <2>2, <4>1, <5>1 DEF Reading, Linked, EndsAt
      <4>2. CASE cluster = Pair(OtherEOC)
        BY <1>2, <4>2 DEF Reading
      <4>3. CASE /\ cluster # Pair(OtherEOC)
                 /\ \E x \in Clusters : /\ EndsAt(x) /\ disk.fat[x] # EOC
                                        /\ cluster = Pair(disk.fat[x])
        <5>1. PICK x \in Clusters : /\ EndsAt(x) /\ disk.fat[x] # EOC
                                    /\ cluster = Pair(disk.fat[x])
          BY <4>3
        <5>2. PICK y \in Clusters : y = disk.fat[x]
          BY <3>3, <4>3, <5>1 DEF Table
        <5>3. sector = ClusterLba(y)
          BY <5>1, <5>2, LbaIs DEF sector
        <5>4. Len(memory) >= 1 /\ memory'[1] = memory[1]
          BY <1>1, <2>2, <5>1 DEF EndsAt
        <5>5. Linked(c)'
          <6>1. memory'[1] = ClusterLba(c)
            BY <3>2, <5>1, <5>4 DEF Linked, EndsAt
          <6>2. ASSUME NEW i \in 1 .. Len(memory')  - 1
                PROVE  \E z \in Clusters :
                         /\ memory'[i] = ClusterLba(z)
                         /\ disk.fat[z] # EOC /\ memory'[i + 1] = ClusterLba(disk.fat[z])
            <7>1. CASE i < Len(memory)
              <8>1. i \in 1 .. Len(memory) - 1 /\ i + 1 \in 1 .. Len(memory)
                BY <1>1, <7>1
              <8>2. memory'[i] = memory[i] /\ memory'[i + 1] = memory[i + 1]
                BY <1>1, <2>2, <8>1
              <8> QED
                BY <3>2, <8>1, <8>2 DEF Linked
            <7>2. CASE i = Len(memory)
              BY <1>1, <2>2, <5>1, <5>2, <5>3, <5>4, <7>2 DEF EndsAt
            <7> QED
              BY <1>1, <2>2, <7>1, <7>2
          <6> QED
            BY <1>2, <6>1, <6>2 DEF Linked
        <5>6. EndsAt(y)'
          BY <2>2, <5>3 DEF EndsAt
        <5>7. cluster' = Pair(y)
          BY <1>2, <5>1, <5>2
        <5> QED
          BY <5>5, <5>6, <5>7 DEF Reading
      <4> QED
        BY <3>2, <4>1, <4>2, <4>3 DEF Behind
    <3>5. KernelAt(disk, c)'
      BY <1>2, <3>2, KernelStays
    <3> QED
      BY <2>1, <3>4, <3>5 DEF KernelPart
  <2> QED
    BY <2>3, <2>4, <2>5, <2>6
<1>5. CASE ~(Len(memory) < Slots)
  <2>1. memory' = memory /\ bootPc' = "wild"
    BY <1>5
  <2>2. BootTypeOK'
    BY <1>2, <2>1 DEF BootTypeOK
  <2>3. Phases' /\ RootPart'
    BY <2>1 DEF Phases, RootPart
  <2>4. KernelPart'
    <3>1. bootPc' \notin {"load", "fat", "a20", "kernel"}
      BY <2>1
    <3> QED
      BY ONLY <1>2, <3>1, KernelPart, KernelKnown DEF KernelPart
  <2> QED
    BY <2>2, <2>3, <2>4
<1> QED
  BY <1>4, <1>5

LEMMA LoadNextStep ==
  ASSUME BootIInv, LoadNext
  PROVE  BootIInv'
<1> USE BootIInv, LoadNext DEF LoadNext, machine, BootIInv
<1>1. /\ disk \in Disks /\ cluster \in Pairs /\ memory \in Seq(Nat) /\ Len(memory) \in Nat
      /\ bootPc = "fat" /\ pass \in {"root", "kernel"} /\ Entry \in Clusters
  BY DEF BootTypeOK, Pairs
<1>2. pass' = pass /\ memory' = memory /\ record' = record /\ disk' = disk /\ a20' = a20
  OBVIOUS
<1>3. Table(disk)
  BY <1>1, DiskIs
<1> DEFINE next == disk.fat[Entry]
<1>4. next \in Clusters \cup {EOC, OtherEOC}
  BY <1>1, <1>3 DEF Table
<1>5. CASE next = EOC
  <2>1. bootPc' = (IF pass = "root" THEN "find" ELSE "a20") /\ cluster' = cluster
    BY <1>5
  <2>2. BootTypeOK'
    BY <1>2, <2>1 DEF BootTypeOK
  <2>3. Phases'
    BY <1>1, <1>2, <2>1 DEF Phases
  <2>4. RootPart'
    <3>1. SUFFICES ASSUME pass = "root" PROVE RootPart'
      BY <1>2 DEF RootPart
    <3>2. RootSectors /\ record = 0 /\ memory # <<>> /\ cluster = Pair(disk.root[Len(memory)])
      BY <1>1, <3>1 DEF RootPart
    <3>3. RootChain(disk)
      BY <1>1, DiskIs
    <3>4. Len(memory) \in 1 .. Len(disk.root)
      BY <1>1, <3>2, <3>3 DEF RootSectors, RootChain
    <3>5. PICK c \in Clusters : c = disk.root[Len(memory)]
      BY <3>3, <3>4 DEF RootChain
    <3>6. Entry = c
      BY <3>2, <3>5, EntryIs, TableSizes
    <3>7. Len(memory) = Len(disk.root)
      <4>1. SUFFICES ASSUME Len(memory) < Len(disk.root) PROVE FALSE
        BY <3>3, <3>4 DEF RootChain
      <4>2. disk.root[Len(memory) + 1] = EOC /\ Len(memory) + 1 \in 1 .. Len(disk.root)
        BY <1>1, <1>5, <3>3, <3>4, <3>5, <3>6, <4>1 DEF RootChain
      <4>3. EOC \in Clusters
        BY <3>3, <4>2 DEF RootChain
      <4> QED
        BY <4>3, WordAssumption DEF WordAssumption
    <3>8. RootSectors'
      BY <1>2, <3>2 DEF RootSectors
    <3>9. NotYet'
      BY <1>2, <3>2 DEF NotYet
    <3> QED
      BY <1>2, <2>1, <3>1, <3>7, <3>8, <3>9 DEF RootPart
  <2>5. KernelPart'
    <3>1. SUFFICES ASSUME pass = "kernel" PROVE KernelPart'
      BY <1>2 DEF KernelPart
    <3>2. PICK c \in Clusters : KernelAt(disk, c) /\ Reading(c)
      BY <1>1, <3>1 DEF KernelPart
    <3>3. cluster # Pair(OtherEOC)
      BY <1>1, EntryIs, TableSizes, WordSizes
    <3>4. PICK x \in Clusters : Linked(c) /\ EndsAt(x) /\ cluster = Pair(x)
      BY <3>2, <3>3 DEF Reading
    <3>5. Entry = x
      BY <3>4, EntryIs, TableSizes
    <3>6. Ended(c)'
      BY <1>2, <1>5, <3>4, <3>5 DEF Ended, Linked, EndsAt
    <3>7. KernelAt(disk, c)'
      BY <1>2, <3>2, KernelStays
    <3> QED
      BY <2>1, <3>1, <3>6, <3>7 DEF KernelPart
  <2> QED
    BY <2>2, <2>3, <2>4, <2>5
<1>6. CASE next # EOC
  <2>1. bootPc' = "load" /\ cluster' = Pair(next)
    BY <1>6
  <2>2. BootTypeOK'
    <3>1. Pair(next) \in Pairs
      BY <1>4, <1>6, PairTypes
    <3> QED
      BY <1>2, <2>1, <3>1 DEF BootTypeOK, Pairs
  <2>3. Phases'
    BY <1>1, <1>2, <2>1 DEF Phases
  <2>4. RootPart'
    <3>1. SUFFICES ASSUME pass = "root" PROVE RootPart'
      BY <1>2 DEF RootPart
    <3>2. RootSectors /\ record = 0 /\ memory # <<>> /\ cluster = Pair(disk.root[Len(memory)])
      BY <1>1, <3>1 DEF RootPart
    <3>3. RootChain(disk)
      BY <1>1, DiskIs
    <3>4. Len(memory) \in 1 .. Len(disk.root)
      BY <1>1, <3>2, <3>3 DEF RootSectors, RootChain
    <3>5. PICK c \in Clusters : c = disk.root[Len(memory)]
      BY <3>3, <3>4 DEF RootChain
    <3>6. Entry = c
      BY <3>2, <3>5, EntryIs, TableSizes
    <3>7. Len(memory) < Len(disk.root) /\ next = disk.root[Len(memory) + 1]
      BY <1>6, <3>3, <3>4, <3>5, <3>6 DEF RootChain
    <3>8. RootSectors'
      BY <1>2, <3>2 DEF RootSectors
    <3> QED
      BY <1>2, <2>1, <3>2, <3>7, <3>8 DEF RootPart
  <2>5. KernelPart'
    <3>1. SUFFICES ASSUME pass = "kernel" PROVE KernelPart'
      BY <1>2 DEF KernelPart
    <3>2. PICK c \in Clusters : KernelAt(disk, c) /\ Reading(c)
      BY <1>1, <3>1 DEF KernelPart
    <3>3. cluster # Pair(OtherEOC)
      BY <1>1, EntryIs, TableSizes, WordSizes
    <3>4. PICK x \in Clusters : Linked(c) /\ EndsAt(x) /\ cluster = Pair(x)
      BY <3>2, <3>3 DEF Reading
    <3>5. Entry = x
      BY <3>4, EntryIs, TableSizes
    <3>6. Linked(c)' /\ Behind(c)'
      BY <1>2, <1>6, <2>1, <3>4, <3>5 DEF Behind, Linked, EndsAt
    <3>7. KernelAt(disk, c)'
      BY <1>2, <3>2, KernelStays
    <3> QED
      BY <2>1, <3>1, <3>6, <3>7 DEF KernelPart
  <2> QED
    BY <2>2, <2>3, <2>4, <2>5
<1> QED
  BY <1>5, <1>6

(* The record that find_file looks at, where load_file has put it. *)
LEMMA RecordIs ==
  ASSUME BootIInv, bootPc = "find", InRoot
  PROVE  /\ record \in 0 .. Len(disk.root) * RecordsPerCluster - 1
         /\ Record = RootRecord(disk, record)
         /\ Record.name = "kernel" => Record.cluster \in Clusters
<1>1. /\ disk \in Disks /\ pass = "root" /\ record \in Nat
      /\ RecordsPerCluster \in Nat /\ RecordsPerCluster > 0
  BY WordAssumption DEF BootIInv, BootTypeOK, Phases, WordAssumption
<1>2. RootSectors /\ Len(memory) = Len(disk.root)
  BY <1>1 DEF BootIInv, RootPart
<1>3. RootChain(disk) /\ RootNames(disk)
  BY <1>1, DiskIs
<1>4. Len(disk.root) \in Nat
  BY <1>3 DEF RootChain
<1>5. record < Len(disk.root) * RecordsPerCluster
  BY <1>2 DEF InRoot
<1>6. PICK len \in Nat : len = Len(disk.root)
  BY <1>4
<1>7. PICK q \in Nat, r \in 0 .. RecordsPerCluster - 1 :
        /\ q = record \div RecordsPerCluster /\ r = record % RecordsPerCluster
        /\ record = q * RecordsPerCluster + r
  BY <1>1, NatDivision
<1>8. q < len
  <2>1. SUFFICES ASSUME q >= len PROVE FALSE
    OBVIOUS
  <2>2. PICK x \in Int : x = q - len
    OBVIOUS
  <2>3. x \in Nat /\ q = len + x
    BY <2>1, <2>2
  <2>4. q * RecordsPerCluster = len * RecordsPerCluster + x * RecordsPerCluster
    BY <1>1, <2>3
  <2>5. PICK xr \in Nat : xr = x * RecordsPerCluster
    BY <1>1, <2>3
  <2>6. PICK lr \in Nat : lr = len * RecordsPerCluster
    BY <1>1
  <2>7. record < lr
    BY <1>5, <1>6, <2>6
  <2>8. PICK qr \in Int : qr = q * RecordsPerCluster
    BY <1>1
  <2>9. record = qr + r
    BY <1>7, <2>8
  <2>10. qr = lr + xr
    BY <2>4, <2>5, <2>6, <2>8
  <2> QED
    BY <1>1, <2>7, <2>9, <2>10
<1>9. PICK i \in 1 .. len : i = q + 1
  BY <1>8
<1>10. PICK j \in 1 .. RecordsPerCluster : j = r + 1
  BY <1>1
<1>11. PICK c \in Clusters : c = disk.root[i] /\ memory[i] = ClusterLba(c)
  BY <1>2, <1>3, <1>6 DEF RootChain, RootSectors
<1>12. Loaded = c
  BY <1>7, <1>9, <1>11, LbaInjective DEF Loaded
<1>13. Record = disk.dir[c][j]
  BY <1>7, <1>10, <1>12 DEF Record
<1>14. RootRecord(disk, record) = disk.dir[c][j]
  BY <1>7, <1>9, <1>10, <1>11 DEF RootRecord
<1>15. Record.name = "kernel" => Record.cluster \in Clusters
  BY <1>3, <1>6, <1>11, <1>13 DEF RootNames
<1>16. record \in 0 .. Len(disk.root) * RecordsPerCluster - 1
  <2>1. PICK n \in Nat : n = Len(disk.root) * RecordsPerCluster
    BY <1>1, <1>4
  <2> QED
    BY <1>1, <1>5, <2>1
<1> QED
  BY <1>13, <1>14, <1>15, <1>16

LEMMA FindRecordStep ==
  ASSUME BootIInv, FindRecord
  PROVE  BootIInv'
<1>1. /\ bootPc = "find" /\ InRoot /\ disk' = disk /\ a20' = a20
      /\ UNCHANGED <<machine, tries>>
  BY DEF FindRecord, machine
<1>2. /\ BootTypeOK /\ pass = "root" /\ record \in Nat /\ disk \in Disks
      /\ RootSectors /\ Len(memory) = Len(disk.root) /\ NotYet
  BY <1>1 DEF BootIInv, Phases, RootPart, BootTypeOK
<1>3. /\ record \in 0 .. Len(disk.root) * RecordsPerCluster - 1
      /\ Record = RootRecord(disk, record)
      /\ Record.name = "kernel" => Record.cluster \in Clusters
  BY <1>1, RecordIs
<1>4. \/ /\ Record.name = "end"
         /\ bootPc' = "halt" /\ UNCHANGED <<pass, cluster, memory, record>>
      \/ /\ Record.name = "kernel"
         /\ LoadFile("kernel", Pair(Record.cluster)) /\ UNCHANGED record
      \/ /\ Record.name \notin {"kernel", "end"}
         /\ record' = record + 1 /\ UNCHANGED <<bootPc, pass, cluster, memory>>
  BY DEF FindRecord
<1>5. CASE bootPc' = "halt" /\ UNCHANGED <<pass, cluster, memory, record>>
  <2>1. BootTypeOK'
    BY <1>1, <1>2, <1>5 DEF BootTypeOK, machine
  <2> QED
    BY <1>2, <1>5, <2>1 DEF BootIInv, Phases, RootPart, KernelPart
<1>6. CASE /\ Record.name = "kernel"
           /\ LoadFile("kernel", Pair(Record.cluster)) /\ UNCHANGED record
  <2>1. PICK c \in Clusters : c = Record.cluster
    BY <1>3, <1>6
  <2>2. pass' = "kernel" /\ cluster' = Pair(c) /\ memory' = <<>> /\ bootPc' = "load"
    BY <1>6, <2>1 DEF LoadFile
  <2>3. BootTypeOK'
    <3>1. Pair(c) \in Pairs
      BY PairTypes
    <3>2. Len(<<>>) <= Slots
      BY WordAssumption DEF WordAssumption
    <3> QED
      BY <1>1, <1>2, <1>6, <2>2, <3>1, <3>2 DEF BootTypeOK, machine, Pairs
  <2>4. KernelAt(disk, c)
    BY <1>2, <1>3, <1>6, <2>1 DEF KernelAt, NotYet
  <2>5. KernelAt(disk, c)'
    BY <1>1, <2>4, KernelStays
  <2>6. (Linked(c) /\ Behind(c))'
    BY <2>2 DEF Linked, Behind
  <2>7. KernelPart'
    BY <2>2, <2>5, <2>6 DEF KernelPart
  <2> QED
    BY <2>2, <2>3, <2>7 DEF BootIInv, Phases, RootPart
<1>7. CASE /\ Record.name \notin {"kernel", "end"}
           /\ record' = record + 1 /\ UNCHANGED <<bootPc, pass, cluster, memory>>
  <2>1. BootTypeOK'
    BY <1>1, <1>2, <1>7 DEF BootTypeOK, machine
  <2>2. RootSectors'
    BY <1>1, <1>2, <1>7 DEF RootSectors
  <2>3. NotYet'
    <3>1. ASSUME NEW j \in 0 .. record' - 1
          PROVE  RootRecord(disk, j).name \notin {"kernel", "end"}
      <4>1. j = record \/ j \in 0 .. record - 1
        BY <1>2, <1>7
      <4> QED
        BY <1>2, <1>3, <1>7, <4>1 DEF NotYet
    <3> QED
      BY <1>1, <3>1 DEF NotYet
  <2> QED
    BY <1>1, <1>2, <1>7, <2>1, <2>2, <2>3 DEF BootIInv, Phases, RootPart, KernelPart
<1> QED
  BY <1>4, <1>5, <1>6, <1>7

(* Every other step leaves what was loaded as it is. *)
LEMMA OtherSteps ==
  ASSUME BootIInv,
         \/ CheckPartition \/ ReadHeaderFails \/ LoadOutside \/ LoadFails \/ FindOutside
         \/ EnterKernel \/ EnableA20 \/ GiveUpA20
  PROVE  BootIInv'
<1>1. /\ pass' = pass /\ cluster' = cluster /\ memory' = memory /\ record' = record
      /\ disk' = disk /\ bootable' = bootable /\ shadow' = shadow
  BY DEF CheckPartition, ReadHeaderFails, LoadOutside, LoadFails, FindOutside, EnterKernel,
         EnableA20, GiveUpA20, machine
<1>2. \/ bootPc = "start" /\ bootPc' \in {"header", "halt"} /\ UNCHANGED <<a20, tries>>
      \/ bootPc' \in {"halt", "wild"} /\ UNCHANGED <<a20, tries>>
      \/ bootPc = "a20" /\ bootPc' = "kernel" /\ a20 /\ UNCHANGED <<a20, tries>>
      \/ /\ bootPc = "a20" /\ bootPc' = "a20" /\ a20' \in {a20, TRUE}
         /\ tries < 2 /\ tries' = tries + 1
  BY DEF CheckPartition, ReadHeaderFails, LoadOutside, LoadFails, FindOutside, EnterKernel,
         EnableA20, GiveUpA20, machine, A20Test
<1>3. BootTypeOK'
  <2>1. tries' \in 0 .. 2
    <3>1. tries \in 0 .. 2
      BY DEF BootIInv, BootTypeOK
    <3>2. tries' = tries \/ (tries < 2 /\ tries' = tries + 1)
      BY <1>2
    <3> QED
      BY ONLY <3>1, <3>2
  <2>2. a20' \in BOOLEAN
    BY <1>2 DEF BootIInv, BootTypeOK
  <2>3. bootPc' \in {"header", "a20", "kernel", "halt", "wild"}
    BY <1>2
  <2> QED
    BY <1>1, <2>1, <2>2, <2>3 DEF BootIInv, BootTypeOK
<1>4. Phases'
  <2>1. bootPc' = "header" => pass = "root"
    BY <1>2 DEF BootIInv, Phases
  <2>2. bootPc' \in {"a20", "kernel"} => pass = "kernel"
    BY <1>2 DEF BootIInv, Phases
  <2>3. bootPc' = "kernel" => a20'
    BY <1>2
  <2>4. bootPc' \notin {"start", "find"}
    BY <1>2
  <2> QED
    BY <1>1, <2>1, <2>2, <2>3, <2>4 DEF Phases
<1>5. RootPart'
  <2>1. SUFFICES ASSUME pass = "root" PROVE RootPart'
    BY <1>1 DEF RootPart
  <2>2. bootPc' \notin {"start", "load", "fat", "find"}
    BY <1>2
  <2>3. bootPc' = "header" => bootPc = "start"
    BY <1>2
  <2> QED
    BY <1>1, <2>1, <2>2, <2>3 DEF BootIInv, RootPart
<1>6. KernelPart'
  <2>1. SUFFICES ASSUME pass = "kernel" PROVE KernelPart'
    BY <1>1 DEF KernelPart
  <2>2. bootPc' \notin {"load", "fat"} /\ (bootPc' \in {"a20", "kernel"} => bootPc = "a20")
    BY <1>2
  <2>3. PICK c \in Clusters : /\ KernelAt(disk, c)
                              /\ bootPc = "a20" => Ended(c)
    BY <2>1 DEF BootIInv, KernelPart
  <2>4. KernelAt(disk, c)'
    BY <1>1, <2>3, KernelStays
  <2>5. bootPc = "a20" => Ended(c)'
    BY <1>1, <2>3 DEF Ended, Linked, EndsAt
  <2> QED
    BY <2>2, <2>4, <2>5 DEF KernelPart
<1> QED
  BY <1>3, <1>4, <1>5, <1>6 DEF BootIInv

LEMMA BootNextIInv == BootIInv /\ [BootNext]_bootVars => BootIInv'
<1>1. SUFFICES ASSUME BootIInv, [BootNext]_bootVars PROVE BootIInv'
  OBVIOUS
<1>2. CASE UNCHANGED bootVars
  <2>1. /\ pass' = pass /\ cluster' = cluster /\ memory' = memory /\ record' = record
        /\ disk' = disk /\ bootPc' = bootPc
    BY <1>2 DEF bootVars
  <2>2. BootTypeOK' /\ Phases'
    BY <1>1, <1>2 DEF bootVars, BootIInv, BootTypeOK, Phases
  <2>3. RootPart'
    BY <1>1, <2>1 DEF BootIInv, RootPart, RootSectors, NotYet
  <2>4. KernelPart'
    <3>1. SUFFICES ASSUME pass = "kernel" PROVE KernelPart'
      BY <2>1 DEF KernelPart
    <3>2. PICK c \in Clusters :
            /\ KernelAt(disk, c)
            /\ bootPc = "load" => Linked(c) /\ Behind(c)
            /\ bootPc = "fat" => Reading(c)
            /\ bootPc \in {"a20", "kernel"} => Ended(c)
      BY <1>1, <3>1 DEF BootIInv, KernelPart
    <3>3. KernelAt(disk, c)'
      BY <2>1, <3>2, KernelStays
    <3>4. Linked(c)' = Linked(c) /\ Behind(c)' = Behind(c)
      BY <2>1 DEF Linked, Behind, EndsAt
    <3>5. Reading(c)' = Reading(c) /\ Ended(c)' = Ended(c)
      BY <2>1 DEF Reading, Ended, Linked, EndsAt
    <3> QED
      BY <2>1, <3>2, <3>3, <3>4, <3>5 DEF KernelPart
  <2> QED
    BY <2>2, <2>3, <2>4 DEF BootIInv
<1> QED
  BY <1>1, <1>2, ReadHeaderStep, LoadClusterStep, LoadNextStep, FindRecordStep, OtherSteps
     DEF BootNext

(* What is in memory when the kernel is entered. *)
LEMMA KernelIsWhole == BootIInv => KernelWhole
<1>1. SUFFICES ASSUME BootIInv, bootPc = "kernel" PROVE KernelWhole
  BY DEF KernelWhole
<1>2. a20 /\ pass = "kernel" /\ memory \in Seq(Nat)
  BY <1>1 DEF BootIInv, Phases, BootTypeOK
<1>3. PICK c \in Clusters : KernelAt(disk, c) /\ Ended(c)
  BY <1>1, <1>2 DEF BootIInv, KernelPart
<1>4. PICK last \in Clusters : Linked(c) /\ EndsAt(last) /\ disk.fat[last] = EOC
  BY <1>3 DEF Ended
<1>5. memory # <<>> /\ memory[1] = ClusterLba(c)
  BY <1>4 DEF Linked, EndsAt
<1>6. ASSUME NEW i \in 1 .. Len(memory)
      PROVE  \E x \in Clusters :
               /\ memory[i] = ClusterLba(x)
               /\ IF i = Len(memory) THEN disk.fat[x] = EOC
                  ELSE disk.fat[x] # EOC /\ memory[i + 1] = ClusterLba(disk.fat[x])
  <2>1. CASE i = Len(memory)
    BY <1>4, <2>1 DEF EndsAt
  <2>2. CASE i # Len(memory)
    <3>1. i \in 1 .. Len(memory) - 1
      BY <1>2, <2>2
    <3> QED
      BY <1>4, <2>2, <3>1 DEF Linked
  <2> QED
    BY <2>1, <2>2
<1>7. IsChainFrom(disk, c, memory)
  BY <1>5, <1>6 DEF IsChainFrom
<1> QED
  BY <1>2, <1>3, <1>7 DEF KernelWhole

-----------------------------------------------------------------------------
(* The drive. *)

Commands == [lba : Int, n : Int]

DeviceOK ==
  device \in [bits : SUBSET Bits, next : Int, left : Int, pending : Commands]

InIdentify == ataPc \in {"boot", "first", "busy", "spin", "verdict"}
InRead == ataPc \in {"issue", "poll"}

(* Where the kernel is in its calls. *)
Control ==
  /\ InIdentify \/ InRead \/ ataPc = "idle"
  /\ calls \in Nat
  /\ InIdentify => calls = 0 /\ ~mounted /\ ~troubled /\ request.n = 0
  /\ InRead <=> answer = "none"
  /\ InRead /\ mounted => request.n > 0
  /\ InRead /\ ~mounted => request.n = IF calls = 0 THEN 1 ELSE 0
  /\ ataPc = "issue" => s = 0

(* What is connected shows in the status. Where it is no ATA drive, the    *)
(* way to the data of identify is closed.                                  *)
Connected ==
  /\ kind \in {"none", "floating"} => device.pending = NoCommand
  /\ kind = "none" => device.bits = {} /\ ataPc \notin {"busy", "spin", "verdict"}
  /\ kind = "floating" =>
       /\ device.bits = Bits
       /\ ataPc \in {"boot", "first", "busy"}
       /\ ataPc = "busy" => status = Bits
  /\ kind = "atapi" => "DRQ" \notin device.bits /\ ataPc # "verdict"
  /\ MountedOnDrive

(* The drive at the command of identify. *)
Identifying ==
  kind \in {"ata", "atapi"} =>
    /\ ataPc = "boot" => device.bits = {"RDY"} /\ device.pending = NoCommand
    /\ ataPc \in {"first", "busy", "spin", "verdict"} =>
         \/ device.bits = {"RDY"} /\ device.pending.n = 1
         \/ /\ device.pending = NoCommand
            /\ device.bits \in {{"BSY"}, {"RDY", "DRQ"}} /\ device.left = 1
         \/ device.pending = NoCommand /\ device.bits = {"RDY", "ERR"}
    /\ ataPc \in {"busy", "spin", "verdict"} /\ status \cap {"DRQ", "ERR"} # {} =>
         status = device.bits
    /\ ataPc = "spin" /\ kind = "atapi" => "ERR" \notin status
    /\ ataPc = "verdict" => status \cap {"DRQ", "ERR"} # {}

(* The drive at a read: it has not noticed the command yet, or it is at    *)
(* the sector the kernel waits for, or it has failed, or it is done.       *)
Unnoticed ==
  /\ slow /\ s = 0
  /\ device.bits = {"RDY"}
  /\ device.pending = [lba |-> request.lba % Reach, n |-> request.n]

InStep ==
  /\ device.pending = NoCommand
  /\ device.bits \in {{"BSY"}, {"RDY", "DRQ"}}
  /\ device.next = (request.lba % Reach) + s
  /\ device.left = request.n - s /\ s < request.n

Failed ==
  device.pending = NoCommand /\ device.bits = {"RDY", "ERR"} /\ s < request.n

Done == device.pending = NoCommand /\ device.bits = {"RDY"} /\ s = request.n

Quiet ==
  /\ device.pending = NoCommand
  /\ device.bits \in {{"RDY"}, {"RDY", "ERR"}}
  /\ slow => device.bits = {"RDY"}

Following ==
  Trusted =>
    /\ (ataPc = "idle" /\ mounted) \/ (ataPc = "issue" /\ request.n > 0) => Quiet
    /\ ataPc = "poll" /\ request.n > 0 => Unnoticed \/ InStep \/ Failed \/ Done

AtaIInv == AtaTypeOK /\ DeviceOK /\ Control /\ Connected /\ Identifying /\ Following

-----------------------------------------------------------------------------
LEMMA AtaInitIInv == AtaInit => AtaIInv
<1> SUFFICES ASSUME AtaInit
             PROVE  AtaIInv
  OBVIOUS
<1>1. MaxSectors \in Nat \ {0} /\ Reach \in Nat \ {0}
  BY AtaAssumption DEF AtaAssumption
<1>2. device.bits \in SUBSET Bits /\ DeviceOK
  <2> DEFINE bits == CASE kind = "none" -> {} [] kind = "floating" -> Bits [] OTHER -> {"RDY"}
  <2>1. bits \in SUBSET Bits
    BY DEF Bits
  <2> HIDE DEF bits
  <2>2. device = [bits |-> bits, next |-> 0, left |-> 0, pending |-> NoCommand]
    BY DEF AtaInit, bits
  <2> QED
    BY <2>1, <2>2 DEF DeviceOK, Commands, NoCommand, Old
<1>3. /\ kind = "none" => device.bits = {}
      /\ kind = "floating" => device.bits = Bits
      /\ kind \in {"ata", "atapi"} => device.bits = {"RDY"}
      /\ device.pending = NoCommand
  BY DEF AtaInit
<1>4. /\ slow \in BOOLEAN /\ mounted = FALSE /\ troubled = FALSE
      /\ ataPc = "boot" /\ status = Bits /\ request = [n |-> 0, lba |-> 0]
      /\ s = 0 /\ answer = "ok" /\ calls = 0
      /\ kind \in {"ata", "atapi", "none", "floating"}
      /\ buffer \in [0 .. MaxSectors - 1 -> Int]
  BY <1>1 DEF AtaInit, Old
<1>5. AtaTypeOK
  <2>1. request \in [n : 0 .. MaxSectors, lba : Nat] /\ s \in 0 .. request.n
    BY <1>1, <1>4
  <2>2. device.next \in Int /\ device.left \in Int
    BY <1>2 DEF DeviceOK
  <2>3. mounted \in BOOLEAN /\ troubled \in BOOLEAN
    BY <1>4
  <2>4. status \in SUBSET Bits /\ answer \in {"none", "ok", "failed"}
    BY <1>4
  <2> QED
    BY <1>2, <1>4, <2>1, <2>2, <2>3, <2>4 DEF AtaTypeOK
<1>6. Control
  BY <1>4 DEF Control, InIdentify, InRead
<1>7. Connected
  BY <1>3, <1>4 DEF Connected, MountedOnDrive
<1>8. Identifying /\ Following
  BY <1>3, <1>4 DEF Identifying, Following
<1> QED
  BY <1>2, <1>5, <1>6, <1>7, <1>8 DEF AtaIInv

(* What a command does to the drive. *)
LEMMA CommandTypes ==
  ASSUME DeviceOK, NEW lba \in Int, NEW n \in Int, Command(lba, n)
  PROVE  DeviceOK'
<1>1. Accepted(lba, n) \in [bits : SUBSET Bits, next : Int, left : Int, pending : Commands]
  BY DEF Accepted, Bits, Commands, NoCommand, Old
<1>2. [device EXCEPT !.pending = [lba |-> lba, n |-> n]]
        \in [bits : SUBSET Bits, next : Int, left : Int, pending : Commands]
  BY DEF DeviceOK, Commands
<1> QED
  BY <1>1, <1>2 DEF Command, DeviceOK

LEMMA TransferredIs ==
  ASSUME DeviceOK
  PROVE  /\ Transferred = [bits |-> IF device.left = 1 THEN {"RDY"} ELSE {"BSY"},
                           next |-> device.next + 1,
                           left |-> device.left - 1,
                           pending |-> device.pending]
         /\ Transferred \in [bits : SUBSET Bits, next : Int, left : Int, pending : Commands]
<1> DEFINE bits == IF device.left = 1 THEN {"RDY"} ELSE {"BSY"}
<1>1. bits \in SUBSET Bits
  BY DEF Bits
<1> HIDE DEF bits
<1>2. device = [bits |-> device.bits, next |-> device.next, left |-> device.left,
               pending |-> device.pending]
  BY DEF DeviceOK
<1>3. device.next \in Int /\ device.left \in Int /\ device.pending \in Commands
  BY DEF DeviceOK
<1>4. Transferred = [bits |-> bits, next |-> device.next + 1, left |-> device.left - 1,
                    pending |-> device.pending]
  <2> DEFINE first == [device EXCEPT !.bits = bits]
             second == [first EXCEPT !.next = device.next + 1]
             third == [second EXCEPT !.left = device.left - 1]
  <2>1. first = [bits |-> bits, next |-> device.next, left |-> device.left,
                 pending |-> device.pending]
    BY <1>2
  <2> HIDE DEF first
  <2>2. second = [bits |-> bits, next |-> device.next + 1, left |-> device.left,
                  pending |-> device.pending]
    BY <2>1
  <2> HIDE DEF second
  <2>3. third = [bits |-> bits, next |-> device.next + 1, left |-> device.left - 1,
                 pending |-> device.pending]
    BY <2>2
  <2> HIDE DEF third
  <2>4. Transferred = third
    BY DEF Transferred, first, second, third, bits
  <2> QED
    BY <2>3, <2>4
<1>5. Transferred \in [bits : SUBSET Bits, next : Int, left : Int, pending : Commands]
  BY <1>1, <1>3, <1>4
<1> QED
  BY <1>4, <1>5 DEF bits

LEMMA AskTypes ==
  ASSUME AtaTypeOK, NEW n \in 0 .. MaxSectors, NEW lba \in Nat, Ask(n, lba)
  PROVE  /\ request' = [n |-> n, lba |-> lba] /\ s' = 0 /\ answer' = "none" /\ ataPc' = "issue"
         /\ buffer' = [i \in 0 .. MaxSectors - 1 |-> Old]
         /\ request' \in [n : 0 .. MaxSectors, lba : Nat]
         /\ s' \in 0 .. request'.n
         /\ buffer' \in [0 .. MaxSectors - 1 -> Int]
<1>1. buffer' = [i \in 0 .. MaxSectors - 1 |-> Old]
  BY DEF Ask, AtaTypeOK
<1>2. n \in Nat
  BY AtaAssumption DEF AtaAssumption
<1> QED
  BY <1>1, <1>2 DEF Ask, Old
-----------------------------------------------------------------------------
(* The types, step by step. *)

LEMMA AtaTypesStep ==
  ASSUME AtaTypeOK, DeviceOK, Control, [AtaNext]_ataVars
  PROVE  AtaTypeOK' /\ DeviceOK'
<1> USE AtaAssumption DEF AtaAssumption
<1>0. /\ MaxSectors \in Nat \ {0} /\ 1 \in 0 .. MaxSectors /\ Reach \in Nat \ {0}
      /\ request.n \in Int /\ request.lba \in Nat /\ request.lba % Reach \in Int
      /\ s \in Nat /\ s <= request.n
  <2>1. request.lba \in Nat /\ Reach \in Nat \ {0}
    BY DEF AtaTypeOK
  <2> QED
    BY <2>1 DEF AtaTypeOK
<1>a. ASSUME DeviceOK' PROVE device'.bits \in SUBSET Bits /\ device'.next \in Int /\ device'.left \in Int
  BY <1>a DEF DeviceOK
<1>1. CASE Drive
  <2>1. DeviceOK'
    <3>1. CASE Notice
      <4>1. device.pending.lba \in Int /\ device.pending.n \in Int
        BY DEF DeviceOK, Commands
      <4> QED
        BY <3>1, <4>1 DEF Notice, Accepted, DeviceOK, Bits, Commands, NoCommand, Old
    <3>2. CASE SectorReady
      BY <3>2 DEF SectorReady, DeviceOK, Bits
    <3>3. CASE CommandFails
      <4>1. device = [bits |-> device.bits, next |-> device.next, left |-> device.left,
                      pending |-> device.pending]
            /\ device.next \in Int /\ device.pending \in Commands
        BY DEF DeviceOK
      <4>2. device' = [bits |-> {"RDY", "ERR"}, next |-> device.next, left |-> 0,
                       pending |-> device.pending]
        BY <3>3, <4>1 DEF CommandFails
      <4> QED
        BY <4>1, <4>2 DEF DeviceOK, Bits
    <3> QED
      BY <1>1, <3>1, <3>2, <3>3 DEF Drive
  <2> QED
    BY <1>1, <1>a, <2>1 DEF Drive, AtaTypeOK, readVars
<1>2. CASE IssueIdentify
  <2>1. DeviceOK'
    BY <1>2, CommandTypes DEF IssueIdentify, IdData
  <2> QED
    BY <1>2, <1>a, <2>1 DEF IssueIdentify, AtaTypeOK, readVars
<1>3. CASE FirstStatus \/ PollBusy
  <2>1. status' \in SUBSET Bits
    BY <1>3 DEF FirstStatus, PollBusy, AtaTypeOK
  <2> QED
    BY <1>3, <2>1 DEF FirstStatus, PollBusy, AtaTypeOK, DeviceOK, driveVars, readVars
<1>4. CASE CheckSignature \/ NotIdentified
  BY <1>4 DEF CheckSignature, NotIdentified, AtaTypeOK, DeviceOK, driveVars, readVars
<1>5. CASE Spin
  BY <1>5 DEF Spin, ataVars, AtaTypeOK, DeviceOK, driveVars, readVars
<1>6. CASE EndSpin
  <2>1. status' \in SUBSET Bits
    BY <1>6 DEF EndSpin, AtaTypeOK
  <2> QED
    BY <1>6, <2>1 DEF EndSpin, AtaTypeOK, DeviceOK, driveVars, readVars
<1>7. CASE Identified
  <2>1. DeviceOK'
    BY <1>7, TransferredIs DEF Identified, DeviceOK
  <2>2. Ask(1, 1) /\ UNCHANGED <<kind, slow, status, mounted, calls, troubled>>
    BY <1>7 DEF Identified
  <2>3. /\ request' \in [n : 0 .. MaxSectors, lba : Nat] /\ s' \in 0 .. request'.n
        /\ buffer' \in [0 .. MaxSectors - 1 -> Int] /\ answer' = "none"
    BY <1>0, <2>2, AskTypes
  <2> QED
    BY <1>a, <2>1, <2>2, <2>3 DEF AtaTypeOK
<1>8. ASSUME NEW n \in 0 .. MaxSectors, NEW lba \in Lbas, Call(n, lba)
      PROVE  AtaTypeOK' /\ DeviceOK'
  <2>1. lba \in Nat /\ Ask(n, lba) /\ UNCHANGED <<device, kind, slow, status, mounted, troubled>>
    BY <1>8 DEF Call, driveVars
  <2>2. /\ request' \in [n : 0 .. MaxSectors, lba : Nat] /\ s' \in 0 .. request'.n
        /\ buffer' \in [0 .. MaxSectors - 1 -> Int] /\ answer' = "none"
    BY <2>1, AskTypes
  <2> QED
    BY <2>1, <2>2 DEF AtaTypeOK, DeviceOK
<1>9. CASE Issue
  <2>1. (IF request.n = 0 THEN 256 ELSE request.n) \in Int
    BY <1>0
  <2>2. DeviceOK'
    BY <1>0, <1>9, <2>1, CommandTypes DEF Issue
  <2> QED
    BY <1>9, <1>a, <2>2 DEF Issue, AtaTypeOK, readVars
<1>10. CASE ReadData
  <2>1. DeviceOK'
    BY <1>10, TransferredIs DEF ReadData, DeviceOK
  <2>2. /\ s < request.n /\ s' = s + 1 /\ request' = request
        /\ buffer' = [buffer EXCEPT ![s] = device.next] /\ device.next \in Int
        /\ UNCHANGED <<kind, slow, answer, status, mounted, troubled>>
    BY <1>10 DEF ReadData, AtaTypeOK
  <2>3. s' \in 0 .. request'.n
    BY <1>0, <2>2
  <2>4. buffer' \in [0 .. MaxSectors - 1 -> Int]
    BY <2>2 DEF AtaTypeOK
  <2> QED
    BY <1>a, <2>1, <2>2, <2>3, <2>4 DEF AtaTypeOK
<1>11. CASE ReadFails
  BY <1>11 DEF ReadFails, AtaTypeOK, DeviceOK, driveVars
<1>12. CASE ReadReturns
  <2>1. mounted' \in BOOLEAN
    BY <1>12 DEF ReadReturns, AtaTypeOK
  <2> QED
    BY <1>12, <2>1 DEF ReadReturns, AtaTypeOK, DeviceOK, driveVars
<1>13. CASE UNCHANGED ataVars
  BY <1>13 DEF ataVars, AtaTypeOK, DeviceOK, driveVars, readVars
<1> QED
  BY <1>1, <1>2, <1>3, <1>4, <1>5, <1>6, <1>7, <1>8, <1>9, <1>10, <1>11, <1>12,
     <1>13 DEF AtaNext, Kernel, Identify, ReadSector
-----------------------------------------------------------------------------
(* The calls. *)

LEMMA ControlStep ==
  ASSUME AtaTypeOK, Control, Connected, [AtaNext]_ataVars
  PROVE  Control'
<1> USE DEF InIdentify, InRead
<1>0. request.n \in Int /\ s \in Int /\ s <= request.n /\ calls \in Nat
  BY AtaAssumption DEF AtaAssumption, AtaTypeOK, Control
<1>1. CASE Drive
  BY <1>1 DEF Drive, readVars, Control
<1>2. CASE IssueIdentify \/ FirstStatus \/ PollBusy \/ CheckSignature \/ EndSpin \/ NotIdentified
  BY <1>2
     DEF IssueIdentify, FirstStatus, PollBusy, CheckSignature, EndSpin, NotIdentified,
         readVars, Control
<1>3. CASE Identified
  BY <1>3 DEF Identified, Ask, Control
<1>4. ASSUME NEW n \in 0 .. MaxSectors, NEW lba \in Lbas, Call(n, lba)
      PROVE  Control'
  <2>1. n \in Nat
    BY AtaAssumption DEF AtaAssumption
  <2>2. calls' = calls + 1 /\ request'.n = n /\ (n = 0 <=> ~mounted) /\ mounted' = mounted
    BY <1>4 DEF Call, Ask
  <2> QED
    BY <1>0, <1>4, <2>1, <2>2 DEF Call, Ask, Control
<1>5. CASE Issue
  BY <1>5 DEF Issue, readVars, Control
<1>6. CASE ReadData
  BY <1>0, <1>6 DEF ReadData, Control
<1>7. CASE ReadFails
  BY <1>7 DEF ReadFails, Control
<1>8. CASE ReadReturns
  BY <1>8 DEF ReadReturns, Control
<1>9. CASE Spin \/ UNCHANGED ataVars
  BY <1>9 DEF Spin, ataVars, readVars, Control
<1> QED
  BY <1>1, <1>2, <1>3, <1>4, <1>5, <1>6, <1>7, <1>8, <1>9
     DEF AtaNext, Kernel, Identify, ReadSector

(* A command never shows data, and where no drive is connected nothing.    *)
LEMMA CommandShows ==
  ASSUME DeviceOK, NEW lba, NEW n, Command(lba, n)
  PROVE  /\ kind \in {"none", "floating"} => device' = device
         /\ "DRQ" \notin device.bits => "DRQ" \notin device'.bits
<1>1. "DRQ" \notin Accepted(lba, n).bits
  BY DEF Accepted
<1>2. [device EXCEPT !.pending = [lba |-> lba, n |-> n]].bits = device.bits
  BY DEF DeviceOK
<1> QED
  BY <1>1, <1>2 DEF Command

LEMMA ConnectedStep ==
  ASSUME AtaTypeOK, DeviceOK, Control, Connected, Identifying, [AtaNext]_ataVars
  PROVE  Connected'
<1> USE DEF InIdentify, InRead
<1>0. kind \in {"ata", "atapi", "none", "floating"} /\ kind' = kind
  BY DEF AtaNext, Drive, Kernel, Identify, ReadSector, IssueIdentify, FirstStatus, PollBusy,
         CheckSignature, Spin, EndSpin, NotIdentified, Identified, Call, Issue, ReadData,
         ReadFails, ReadReturns, driveVars, ataVars, AtaTypeOK
<1>1. CASE Drive
  <2>1. CASE Notice
    <3>1. device'.bits = {"BSY"} /\ kind \notin {"none", "floating"}
      <4>1. device.pending # NoCommand
        BY <2>1 DEF Notice
      <4> QED
        BY <2>1, <4>1 DEF Notice, Accepted, Connected
    <3> QED
      BY <1>1, <3>1 DEF Drive, Connected, MountedOnDrive, readVars
  <2>2. CASE SectorReady
    BY <1>1, <2>2 DEF Drive, SectorReady, Connected, MountedOnDrive, readVars
  <2>3. CASE CommandFails
    <3>1. device'.bits = {"RDY", "ERR"} /\ device.bits = {"BSY"}
      BY <2>3 DEF CommandFails, DeviceOK
    <3>2. kind \notin {"none", "floating"}
      BY <3>1 DEF Connected, Bits
    <3> QED
      BY <1>1, <3>1, <3>2 DEF Drive, Connected, MountedOnDrive, readVars
  <2> QED
    BY <1>1, <2>1, <2>2, <2>3 DEF Drive
<1>2. CASE IssueIdentify
  <2>1. Command(IdData, 1) /\ ataPc = "boot" /\ ataPc' = "first"
        /\ UNCHANGED <<readVars, mounted>>
    BY <1>2 DEF IssueIdentify
  <2>2. /\ kind \in {"none", "floating"} => device' = device
        /\ "DRQ" \notin device.bits => "DRQ" \notin device'.bits
    BY <2>1, CommandShows
  <2> QED
    BY <1>0, <2>1, <2>2 DEF Connected, MountedOnDrive, readVars
<1>3. CASE FirstStatus
  <2>1. Bits # {}
    BY DEF Bits
  <2>2. /\ ataPc = "first" /\ ataPc' = IF device.bits = {} THEN "idle" ELSE "busy"
        /\ status' = device.bits /\ UNCHANGED <<device, request, mounted>>
    BY <1>3 DEF FirstStatus, driveVars, readVars
  <2> QED
    BY <1>0, <2>1, <2>2 DEF Connected, MountedOnDrive
<1>4. CASE PollBusy
  BY <1>0, <1>4 DEF PollBusy, Connected, MountedOnDrive, driveVars, readVars
<1>5. CASE CheckSignature
  <2>1. kind # "floating" /\ kind # "none"
    BY <1>5 DEF CheckSignature, Connected, Bits
  <2> QED
    BY <1>0, <1>5, <2>1 DEF CheckSignature, Connected, MountedOnDrive, driveVars, readVars
<1>6. CASE EndSpin
  <2>1. kind \notin {"none", "floating", "atapi"}
    BY <1>6 DEF EndSpin, Connected, Identifying
  <2> QED
    BY <1>0, <1>6, <2>1 DEF EndSpin, Connected, MountedOnDrive, driveVars, readVars
<1>7. CASE NotIdentified
  BY <1>0, <1>7 DEF NotIdentified, Connected, MountedOnDrive, driveVars, readVars
<1>8. CASE Identified
  BY <1>0, <1>8 DEF Identified, Connected, MountedOnDrive, Control
<1>9. ASSUME NEW n \in 0 .. MaxSectors, NEW lba \in Lbas, Call(n, lba)
      PROVE  Connected'
  BY <1>0, <1>9 DEF Call, Ask, Connected, MountedOnDrive, driveVars
<1>10. CASE Issue
  <2>1. PICK lba, n : Command(lba, n)
    BY <1>10 DEF Issue
  <2>2. /\ kind \in {"none", "floating"} => device' = device
        /\ "DRQ" \notin device.bits => "DRQ" \notin device'.bits
    BY <2>1, CommandShows
  <2>3. ataPc = "issue" /\ ataPc' = "poll" /\ UNCHANGED <<request, mounted>>
    BY <1>10 DEF Issue, readVars
  <2> QED
    BY <1>0, <2>2, <2>3 DEF Connected, MountedOnDrive
<1>11. CASE ReadData
  <2>1. request.n # 0
    BY <1>11, AtaAssumption DEF AtaAssumption, ReadData, AtaTypeOK
  <2>2. kind = "ata"
    BY <2>1 DEF Connected, MountedOnDrive
  <2> QED
    BY <1>0, <1>11, <2>2 DEF ReadData, Connected, MountedOnDrive
<1>12. CASE ReadFails
  BY <1>0, <1>12 DEF ReadFails, Connected, MountedOnDrive, driveVars
<1>13. CASE ReadReturns
  <2>1. /\ ataPc = "poll" /\ ataPc' = "idle" /\ UNCHANGED <<device, request, status>>
        /\ mounted' => mounted \/ calls = 0
    BY <1>13 DEF ReadReturns, driveVars
  <2>2. mounted \/ calls = 0 => mounted \/ request.n = 1
    BY <2>1 DEF Control
  <2>3. mounted \/ request.n # 0 => kind = "ata"
    BY DEF Connected, MountedOnDrive
  <2>4. mounted' \/ request'.n # 0 => kind' = "ata"
    BY <1>0, <2>1, <2>2, <2>3
  <2> QED
    BY <1>0, <2>1, <2>4 DEF Connected, MountedOnDrive
<1>14. CASE Spin \/ UNCHANGED ataVars
  BY <1>0, <1>14 DEF Spin, ataVars, driveVars, readVars, Connected, MountedOnDrive
<1> QED
  BY <1>1, <1>2, <1>3, <1>4, <1>5, <1>6, <1>7, <1>8, <1>9, <1>10, <1>11, <1>12, <1>13,
     <1>14 DEF AtaNext, Kernel, Identify, ReadSector

-----------------------------------------------------------------------------
(* The drive at identify. *)

LEMMA IdentifyingStep ==
  ASSUME AtaTypeOK, DeviceOK, Control, Connected, Identifying, [AtaNext]_ataVars
  PROVE  Identifying'
<1> USE DEF InIdentify, InRead
<1>0. kind' = kind
  BY DEF AtaNext, Drive, Kernel, Identify, ReadSector, IssueIdentify, FirstStatus, PollBusy,
         CheckSignature, Spin, EndSpin, NotIdentified, Identified, Call, Issue, ReadData,
         ReadFails, ReadReturns, driveVars, ataVars
<1>1. CASE Drive
  <2>1. ataPc' = ataPc /\ status' = status
    BY <1>1 DEF Drive
  <2>2. CASE Notice
    <3>1. /\ device'.bits = {"BSY"} /\ device'.pending = NoCommand
          /\ device'.left = device.pending.n /\ device.pending # NoCommand
      BY <2>2 DEF Notice, Accepted
    <3> QED
      BY <1>0, <2>1, <3>1 DEF Identifying
  <2>3. CASE SectorReady
    <3>1. /\ device.bits = {"BSY"} /\ device'.bits = {"RDY", "DRQ"}
          /\ device'.pending = device.pending /\ device'.left = device.left
      BY <2>3 DEF SectorReady, DeviceOK
    <3> QED
      BY <1>0, <2>1, <3>1 DEF Identifying
  <2>4. CASE CommandFails
    <3>1. /\ device.bits = {"BSY"} /\ device'.bits = {"RDY", "ERR"}
          /\ device'.pending = device.pending
      BY <2>4 DEF CommandFails, DeviceOK
    <3> QED
      BY <1>0, <2>1, <3>1 DEF Identifying
  <2> QED
    BY <1>1, <2>2, <2>3, <2>4 DEF Drive
<1>2. CASE IssueIdentify
  <2>1. Command(IdData, 1) /\ ataPc = "boot" /\ ataPc' = "first" /\ status' = status
    BY <1>2 DEF IssueIdentify
  <2>2. CASE kind \in {"ata", "atapi"}
    <3>1. ~Engaged /\ device.bits = {"RDY"}
      BY <2>1, <2>2 DEF Identifying, Engaged
    <3>2. CASE slow
      <4>1. device' = [device EXCEPT !.pending = [lba |-> IdData, n |-> 1]]
        BY <2>1, <2>2, <3>1, <3>2 DEF Command
      <4>2. device'.bits = {"RDY"} /\ device'.pending.n = 1
        BY <3>1, <4>1 DEF DeviceOK
      <4> QED
        BY <1>0, <2>1, <4>2 DEF Identifying
    <3>3. CASE ~slow
      <4>1. device' = Accepted(IdData, 1)
        BY <2>1, <2>2, <3>1, <3>3 DEF Command
      <4>2. device'.bits = {"BSY"} /\ device'.pending = NoCommand /\ device'.left = 1
        BY <4>1 DEF Accepted
      <4> QED
        BY <1>0, <2>1, <4>2 DEF Identifying
    <3> QED
      BY <3>2, <3>3
  <2>3. CASE kind \notin {"ata", "atapi"}
    BY <1>0, <2>3 DEF Identifying
  <2> QED
    BY <2>2, <2>3
<1>3. CASE FirstStatus \/ PollBusy
  BY <1>0, <1>3 DEF FirstStatus, PollBusy, Identifying, driveVars
<1>4. CASE CheckSignature
  BY <1>0, <1>4 DEF CheckSignature, Signature, Identifying, driveVars
<1>5. CASE EndSpin
  BY <1>0, <1>5 DEF EndSpin, Identifying, driveVars
<1>6. CASE \/ NotIdentified \/ Identified \/ ReadSector
           \/ \E n \in 0 .. MaxSectors, lba \in Lbas : Call(n, lba)
  <2>1. ataPc' \in {"idle", "issue", "poll"}
    BY <1>6
       DEF NotIdentified, Identified, Ask, ReadSector, Issue, ReadData, ReadFails,
           ReadReturns, Call
  <2> QED
    BY <2>1 DEF Identifying
<1>7. CASE Spin \/ UNCHANGED ataVars
  BY <1>0, <1>7 DEF Spin, ataVars, driveVars, Identifying
<1> QED
  BY <1>1, <1>2, <1>3, <1>4, <1>5, <1>6, <1>7 DEF AtaNext, Kernel, Identify
-----------------------------------------------------------------------------
(* The drive at a read. *)

LEMMA FollowingStep ==
  ASSUME AtaTypeOK, DeviceOK, Control, Connected, Identifying, Following, [AtaNext]_ataVars
  PROVE  Following'
<1> USE DEF InIdentify, InRead
<1>0. /\ Trusted' => Trusted
      /\ UNCHANGED <<kind, slow>>
  BY DEF AtaNext, Drive, Kernel, Identify, ReadSector, IssueIdentify, FirstStatus, PollBusy,
         CheckSignature, Spin, EndSpin, NotIdentified, Identified, Call, Issue, ReadData,
         ReadFails, ReadReturns, driveVars, ataVars, AtaTypeOK, Trusted
<1>1. /\ request.n \in Nat /\ s \in Nat /\ s <= request.n
      /\ request.lba % Reach \in Nat
  <2>1. request.lba \in Nat /\ Reach \in Nat \ {0}
    BY AtaAssumption DEF AtaAssumption, AtaTypeOK
  <2> QED
    BY <2>1, AtaAssumption DEF AtaAssumption, AtaTypeOK
<1>2. CASE Drive
  <2> SUFFICES ASSUME Trusted'
               PROVE  Following'
    BY DEF Following
  <2>1. UNCHANGED <<ataPc, request, s, mounted>> /\ Trusted
    BY <1>0, <1>2 DEF Drive, readVars
  <2>2. (ataPc = "idle" /\ mounted) \/ (ataPc = "issue" /\ request.n > 0) => FALSE
    <3>1. Quiet => ~Notice /\ ~SectorReady /\ ~CommandFails
      BY DEF Quiet, Notice, SectorReady, CommandFails
    <3> QED
      BY <1>2, <2>1, <3>1 DEF Drive, Following
  <2>3. CASE ataPc = "poll" /\ request.n > 0
    <3>1. CASE Unnoticed
      <4>1. device.bits = {"RDY"} /\ s = 0
            /\ device.pending.lba = request.lba % Reach /\ device.pending.n = request.n
        BY <3>1 DEF Unnoticed
      <4>2. Notice
        BY <1>2, <4>1 DEF Drive, SectorReady, CommandFails
      <4>3. InStep'
        BY <1>1, <2>1, <2>3, <4>1, <4>2 DEF Notice, Accepted, InStep
      <4> QED
        BY <2>1, <2>3, <4>3 DEF Following
    <3>2. CASE InStep
      <4>1. device.bits = {"BSY"} /\ (SectorReady \/ CommandFails)
        BY <1>2, <3>2 DEF Drive, Notice, SectorReady, CommandFails, InStep
      <4>2. CASE SectorReady
        <5>1. /\ device'.bits = {"RDY", "DRQ"} /\ device'.next = device.next
              /\ device'.left = device.left /\ device'.pending = device.pending
          BY <4>2 DEF SectorReady, DeviceOK
        <5>2. InStep'
          BY <2>1, <3>2, <5>1 DEF InStep
        <5> QED
          BY <2>1, <2>3, <5>2 DEF Following
      <4>3. CASE CommandFails
        <5>1. device'.bits = {"RDY", "ERR"} /\ device'.pending = device.pending
          BY <4>3 DEF CommandFails, DeviceOK
        <5>2. Failed'
          BY <2>1, <3>2, <5>1 DEF InStep, Failed
        <5> QED
          BY <2>1, <2>3, <5>2 DEF Following
      <4> QED
        BY <4>1, <4>2, <4>3
    <3>3. ~Failed /\ ~Done
      BY <1>2 DEF Drive, Notice, SectorReady, CommandFails, Failed, Done
    <3> QED
      BY <2>1, <2>3, <3>1, <3>2, <3>3 DEF Following
  <2> QED
    BY <2>1, <2>2, <2>3 DEF Following
<1>3. CASE Identify
  <2>1. CASE Identified
    <3>1. /\ status \cap {"DRQ", "ERR"} # {} /\ "ERR" \notin status /\ ataPc = "verdict"
          /\ kind \in {"ata", "atapi"}
      BY <2>1 DEF Identified, Identifying, Connected, AtaTypeOK
    <3>2. device.bits = status
      BY <3>1 DEF Identifying
    <3>3. device.pending = NoCommand /\ device.left = 1
      BY <3>1, <3>2 DEF Identifying
    <3>4. device'.bits = {"RDY"} /\ device'.pending = NoCommand
      BY <2>1, <3>3, TransferredIs DEF Identified
    <3>5. Quiet'
      BY <3>4 DEF Quiet
    <3>6. ataPc' = "issue"
      BY <2>1 DEF Identified, Ask
    <3> QED
      BY <3>5, <3>6 DEF Following
  <2>2. CASE IssueIdentify \/ FirstStatus \/ PollBusy \/ CheckSignature \/ Spin \/ EndSpin \/ NotIdentified
    <3>1. ataPc' \notin {"issue", "poll"} /\ ~mounted'
      BY <2>2
         DEF IssueIdentify, FirstStatus, PollBusy, CheckSignature, Spin, EndSpin,
             NotIdentified, ataVars, Control
    <3> QED
      BY <3>1 DEF Following
  <2> QED
    BY <1>3, <2>1, <2>2 DEF Identify
<1>4. ASSUME NEW n \in 0 .. MaxSectors, NEW lba \in Lbas, Call(n, lba)
      PROVE  Following'
  <2>1. /\ ataPc = "idle" /\ ataPc' = "issue" /\ request'.n = n /\ (n = 0 <=> ~mounted)
        /\ device' = device
    BY <1>4 DEF Call, Ask, driveVars
  <2>2. n > 0 => mounted
    BY <2>1
  <2>3. Quiet => Quiet'
    BY <1>0, <2>1 DEF Quiet
  <2> QED
    BY <1>0, <2>1, <2>2, <2>3 DEF Following
<1>5. CASE Issue
  <2> SUFFICES ASSUME Trusted, request.n > 0
               PROVE  (Unnoticed \/ InStep)'
    BY <1>0, <1>5 DEF Following, Issue, readVars
  <2>1. Quiet /\ s = 0
    BY <1>5 DEF Following, Issue, Control
  <2>2. ~Engaged
    BY <2>1 DEF Quiet, Engaged
  <2>3. kind = "ata"
    BY DEF Connected, MountedOnDrive
  <2>4. Command(request.lba % Reach, request.n) /\ UNCHANGED <<request, s>>
    BY <1>5 DEF Issue, readVars
  <2>5. CASE slow
    <3>1. device' = [device EXCEPT !.pending = [lba |-> request.lba % Reach, n |-> request.n]]
      BY <2>2, <2>3, <2>4, <2>5 DEF Command
    <3>2. Unnoticed'
      BY <1>0, <2>1, <2>4, <2>5, <3>1 DEF Unnoticed, Quiet, DeviceOK
    <3> QED
      BY <3>2
  <2>6. CASE ~slow
    <3>1. device' = Accepted(request.lba % Reach, request.n)
      BY <2>2, <2>3, <2>4, <2>6 DEF Command
    <3>2. InStep'
      BY <1>1, <2>1, <2>4, <3>1 DEF InStep, Accepted
    <3> QED
      BY <3>2
  <2> QED
    BY <2>5, <2>6
<1>6. CASE ReadData
  <2> SUFFICES ASSUME Trusted
               PROVE  (InStep \/ Done)'
    BY <1>0, <1>6 DEF Following, ReadData
  <2>1. InStep /\ device.bits = {"RDY", "DRQ"}
    BY <1>1, <1>6 DEF Following, ReadData, Ready, Unnoticed, InStep, Failed, Done
  <2>2. /\ device'.bits = (IF device.left = 1 THEN {"RDY"} ELSE {"BSY"})
        /\ device'.next = device.next + 1 /\ device'.left = device.left - 1
        /\ device'.pending = device.pending
        /\ s' = s + 1 /\ request' = request
    BY <1>6, TransferredIs DEF ReadData
  <2>3. CASE device.left = 1
    <3>1. Done'
      BY <1>1, <2>1, <2>2, <2>3 DEF InStep, Done
    <3> QED
      BY <3>1
  <2>4. CASE device.left # 1
    <3>1. InStep'
      BY <1>1, <2>1, <2>2, <2>4 DEF InStep
    <3> QED
      BY <3>1
  <2> QED
    BY <2>3, <2>4
<1>7. CASE ReadFails
  <2> SUFFICES ASSUME Trusted'
               PROVE  Quiet'
    BY <1>7 DEF Following, ReadFails
  <2>1. ~slow /\ Trusted
    BY <1>0, <1>7 DEF ReadFails, Trusted
  <2>2. Failed /\ device' = device
    BY <1>1, <1>7, <2>1 DEF Following, ReadFails, driveVars, Unnoticed, InStep, Failed, Done
  <2> QED
    BY <1>0, <2>1, <2>2 DEF Failed, Quiet
<1>8. CASE ReadReturns
  <2> SUFFICES ASSUME Trusted, mounted'
               PROVE  Quiet'
    BY <1>0, <1>8 DEF Following, ReadReturns
  <2>1. ataPc = "poll" /\ s = request.n /\ device' = device /\ (mounted \/ calls = 0)
    BY <1>8 DEF ReadReturns, driveVars
  <2>2. request.n > 0
    BY <2>1 DEF Control
  <2>3. Done
    BY <1>1, <2>1, <2>2 DEF Following, Unnoticed, InStep, Failed
  <2> QED
    BY <1>0, <2>1, <2>3 DEF Done, Quiet
<1>9. CASE UNCHANGED ataVars
  BY <1>9
     DEF ataVars, driveVars, readVars, Following, Trusted, Quiet, Unnoticed, InStep, Failed, Done
<1> QED
  BY <1>2, <1>3, <1>4, <1>5, <1>6, <1>7, <1>8, <1>9 DEF AtaNext, Kernel, ReadSector

LEMMA AtaNextIInv == AtaIInv /\ [AtaNext]_ataVars => AtaIInv'
BY AtaTypesStep, ControlStep, ConnectedStep, IdentifyingStep, FollowingStep DEF AtaIInv
-----------------------------------------------------------------------------
(* The steps of BlockDevice that the protocol's steps are. *)

Promise == <<request, buffer, s, answer, Trusted>>

LEMMA DeviceInit == AtaInit => Device!Init
<1> SUFFICES ASSUME AtaInit
             PROVE  Device!Init
  OBVIOUS
<1>1. buffer \in [DOMAIN buffer -> {Old}]
  BY DEF AtaInit
<1>2. Trusted = TRUE
  BY DEF AtaInit, Trusted
<1> QED
  BY <1>1, <1>2 DEF AtaInit, Device!Init

LEMMA AskIsRead ==
  ASSUME AtaTypeOK, answer # "none", NEW n \in 0 .. MaxSectors, NEW lba \in Nat,
         Ask(n, lba), UNCHANGED Trusted
  PROVE  Device!Read
<1>1. n \in 0 .. Reach
  BY AtaAssumption DEF AtaAssumption
<1>2. request' \in [n : 0 .. Reach, lba : Nat]
  BY <1>1 DEF Ask
<1> QED
  BY <1>2 DEF Ask, Device!Read, Device!Pending

LEMMA DeviceStep ==
  ASSUME AtaIInv, [AtaNext]_ataVars
  PROVE  [Device!Next]_Promise
<1> USE DEF InIdentify, InRead
<1>0. AtaTypeOK /\ DeviceOK /\ Control /\ Connected /\ Identifying /\ Following
  BY DEF AtaIInv
<1>1. ASSUME UNCHANGED <<request, buffer, s, answer, slow, troubled>>
      PROVE  UNCHANGED Promise
  BY <1>1 DEF Promise, Trusted
<1>2. CASE \/ Drive \/ IssueIdentify \/ FirstStatus \/ PollBusy \/ CheckSignature \/ Spin
           \/ EndSpin \/ NotIdentified \/ Issue \/ UNCHANGED ataVars
  <2>1. UNCHANGED <<request, buffer, s, answer, slow, troubled>>
    BY <1>2
       DEF Drive, IssueIdentify, FirstStatus, PollBusy, CheckSignature, Spin, EndSpin,
           NotIdentified, Issue, ataVars, readVars, driveVars
  <2> QED
    BY <1>1, <2>1
<1>3. CASE Identified
  <2>1. Ask(1, 1) /\ answer # "none"
    BY <1>0, <1>3 DEF Identified, Control
  <2>2. UNCHANGED Trusted
    BY <1>3 DEF Identified, Trusted
  <2>3. 1 \in 0 .. MaxSectors
    BY AtaAssumption DEF AtaAssumption
  <2> QED
    BY <1>0, <2>1, <2>2, <2>3, AskIsRead DEF Device!Next
<1>4. ASSUME NEW n \in 0 .. MaxSectors, NEW lba \in Lbas, Call(n, lba)
      PROVE  Device!Next
  <2>1. Ask(n, lba) /\ answer # "none" /\ lba \in Nat
    BY <1>0, <1>4, AtaAssumption DEF AtaAssumption, Call, Control
  <2>2. UNCHANGED Trusted
    BY <1>4 DEF Call, driveVars, Trusted
  <2> QED
    BY <1>0, <2>1, <2>2, AskIsRead DEF Device!Next
<1>5. CASE ReadData
  <2>1. /\ answer = "none" /\ s < request.n /\ s' = s + 1
        /\ buffer' = [buffer EXCEPT ![s] = device.next]
        /\ UNCHANGED <<request, answer, slow, troubled>>
    BY <1>0, <1>5 DEF ReadData, Control
  <2>2. UNCHANGED Trusted
    BY <2>1 DEF Trusted
  <2>3. s \in DOMAIN buffer /\ s \in Int
    BY <1>0, <2>1, AtaAssumption DEF AtaAssumption, AtaTypeOK
  <2>4. DOMAIN buffer' = DOMAIN buffer /\ buffer'[s] = device.next
        /\ \A i \in DOMAIN buffer \ {s} : buffer'[i] = buffer[i]
    BY <2>1, <2>3
  <2>5. device.next \in IF Trusted THEN {(request.lba % Reach) + s} ELSE Int
    <3>1. CASE Trusted
      <4>1. InStep
        <5>1. request.n \in Int
          BY <1>0, AtaAssumption DEF AtaAssumption, AtaTypeOK
        <5>2. request.n > 0 /\ s < request.n
          BY <1>0, <1>5, <5>1, AtaAssumption DEF AtaAssumption, ReadData, AtaTypeOK
        <5> QED
          BY <1>0, <1>5, <3>1, <5>1, <5>2, <2>3
             DEF Following, ReadData, Ready, Unnoticed, Failed, Done
      <4> QED
        BY <3>1, <4>1 DEF InStep
    <3>2. CASE ~Trusted
      BY <1>0, <3>2 DEF AtaTypeOK
    <3> QED
      BY <3>1, <3>2
  <2> QED
    BY <2>1, <2>2, <2>4, <2>5 DEF Device!Next, Device!Arrive, Device!Pending
<1>6. CASE ReadFails
  <2>1. /\ answer = "none" /\ s < request.n /\ answer' = "failed"
        /\ troubled' = TRUE /\ UNCHANGED <<request, buffer, s, slow>>
    BY <1>0, <1>6 DEF ReadFails, Control, driveVars
  <2>2. Trusted' \in {Trusted, FALSE}
    <3>1. slow \in BOOLEAN
      BY <1>0 DEF AtaTypeOK
    <3>2. Trusted' = ~slow
      BY <2>1 DEF Trusted
    <3> QED
      BY <3>1, <3>2 DEF Trusted
  <2> QED
    BY <2>1, <2>2 DEF Device!Next, Device!Fail, Device!Pending
<1>7. CASE ReadReturns
  <2>1. /\ answer = "none" /\ s = request.n /\ answer' = "ok"
        /\ UNCHANGED <<request, buffer, s, slow, troubled>>
    BY <1>0, <1>7 DEF ReadReturns, Control, driveVars
  <2>2. UNCHANGED Trusted
    BY <2>1 DEF Trusted
  <2> QED
    BY <2>1, <2>2 DEF Device!Next, Device!Succeed, Device!Pending
<1> QED
  BY <1>2, <1>3, <1>4, <1>5, <1>6, <1>7 DEF AtaNext, Kernel, Identify, ReadSector

-----------------------------------------------------------------------------
(* Each step of the machine is one of the boot loader or one of the        *)
(* kernel's, and leaves the other's state alone.                           *)
LEMMA AtaPart == [Next]_vars => [AtaNext]_ataVars
BY DEF Next, Boot, InKernel, vars

LEMMA AtaInvariance == Spec => []AtaIInv
<1>1. Init => AtaIInv
  BY AtaInitIInv DEF Init
<1> QED
  BY <1>1, AtaPart, AtaNextIInv, PTL DEF Spec

LEMMA BootPart == [Next]_vars => [BootNext]_bootVars
BY DEF Next, Boot, InKernel, vars

LEMMA BootInvariance == Spec => []BootIInv
<1>1. Init => BootIInv
  BY BootInitIInv DEF Init
<1> QED
  BY <1>1, BootPart, BootNextIInv, PTL DEF Spec

(* Registers, memory and the state of the kernel have their types.         *)
THEOREM TypeCorrect == Spec => []StartupTypeOK
<1>1. AtaIInv /\ BootIInv => StartupTypeOK
  BY DEF AtaIInv, BootIInv, StartupTypeOK
<1> QED
  BY <1>1, AtaInvariance, BootInvariance, PTL

(* Whatever the size of a word, of the table and of the clusters, the      *)
(* kernel is entered with line A20 enabled and with all of KERNEL.SYS in   *)
(* memory, in the order of its chain (find_file.s:10-52, load_file.s:13-90,*)
(* div_32.s:14-36).                                                        *)
THEOREM KernelComplete == Spec => []KernelWhole
BY BootInvariance, KernelIsWhole, PTL

(* The kernel takes only an ATA drive for one, and asks no other for       *)
(* sectors, however early or late a drive shows its status                 *)
(* (filesys.c:32-75, 197-199).                                             *)
THEOREM OnlyDrivesMounted == Spec => []MountedOnDrive
<1>1. AtaIInv => MountedOnDrive
  BY DEF AtaIInv, Connected
<1> QED
  BY <1>1, AtaInvariance, PTL

(* readSector delivers the sectors that were asked for, one after the      *)
(* other, and answers true only when all of them have arrived, however     *)
(* slow the drive is and whichever sector fails (filesys.c:77-116).        *)
THEOREM DriveKeepsPromise == Spec => ImplementsBlockDevice
<1>1. Init => Device!Init
  BY DeviceInit DEF Init
<1>2. AtaIInv /\ [Next]_vars => [Device!Next]_Promise
  BY AtaPart, DeviceStep
<1>3. AtaIInv /\ [Next]_vars => [Device!Next]_(Device!vars)
  BY <1>2 DEF Promise, Device!vars
<1> QED
  BY <1>1, <1>3, AtaInvariance, PTL DEF Spec, ImplementsBlockDevice, Device!Spec

-----------------------------------------------------------------------------
(* Steps of the boot loader. *)

RootRecords == Slots * RecordsPerCluster

(* The steps from the first cluster of the kernel on, those of a cluster   *)
(* being two.                                                              *)
KernelSteps == 2 * Slots + 5

(* The steps that remain for find_file, and for the kernel after it.       *)
FindSteps == KernelSteps + RootRecords + 1

(* How many steps the boot loader may still take.                          *)
BootStepsLeft ==
  IF bootPc \in {"halt", "wild", "kernel"} THEN 0
  ELSE IF bootPc = "a20" THEN 3 - tries
  ELSE IF bootPc = "load" THEN 2 * (Slots - Len(memory)) + 5 + (IF pass = "root" THEN FindSteps ELSE 0)
  ELSE IF bootPc = "fat" THEN 2 * (Slots - Len(memory)) + 6 + (IF pass = "root" THEN FindSteps ELSE 0)
  ELSE IF bootPc = "find" THEN FindSteps - record
  ELSE IF bootPc = "header" THEN FindSteps + KernelSteps + 1
  ELSE FindSteps + KernelSteps + 2

BootStepsBounded ==
  /\ BootStepsLeft \in 0 .. FindSteps + KernelSteps + 2
  /\ BootStepsLeft = 0 <=> bootPc \in {"halt", "wild", "kernel"}

BootStepsCounted ==
  [][IF Boot THEN BootStepsLeft' < BootStepsLeft ELSE BootStepsLeft' = BootStepsLeft]_vars

(* find_file never gets further than what load_file may have loaded.       *)
RecordLoaded == record <= RootRecords

LEMMA BootSizes ==
  /\ Slots \in Nat /\ Slots > 0 /\ RecordsPerCluster \in Nat /\ RecordsPerCluster > 0
  /\ RootRecords \in Nat /\ RootRecords > 0
<1>1. Slots \in Nat /\ Slots > 0 /\ RecordsPerCluster \in Nat /\ RecordsPerCluster > 0
  BY WordAssumption DEF WordAssumption
<1>2. PICK n \in Nat : Slots = n + 1
  <2>1. Slots - 1 \in Nat /\ Slots = (Slots - 1) + 1
    BY <1>1
  <2> QED
    BY <2>1
<1>3. RootRecords = n * RecordsPerCluster + RecordsPerCluster /\ n * RecordsPerCluster \in Nat
  BY <1>1, <1>2 DEF RootRecords
<1> QED
  BY <1>1, <1>3

LEMMA BootCounters ==
  ASSUME BootTypeOK
  PROVE  /\ Len(memory) \in Nat /\ Len(memory) <= Slots
         /\ record \in Nat /\ tries \in 0 .. 2
         /\ pass \in {"root", "kernel"}
         /\ bootPc \in {"start", "header", "load", "fat", "find", "a20", "kernel", "halt", "wild"}
BY DEF BootTypeOK

LEMMA BelowAll ==
  ASSUME BootTypeOK, InRoot
  PROVE  record + 1 <= RootRecords
<1>1. PICK len \in Nat : len = Len(memory) /\ len <= Slots
  BY BootCounters
<1>2. PICK d \in Nat : Slots = len + d
  <2>1. Slots - len \in Nat /\ Slots = len + (Slots - len)
    BY <1>1, BootSizes
  <2> QED
    BY <2>1
<1>3. RootRecords = len * RecordsPerCluster + d * RecordsPerCluster
  BY <1>2, BootSizes DEF RootRecords
<1>4. len * RecordsPerCluster \in Nat /\ d * RecordsPerCluster \in Nat
  BY BootSizes
<1>5. record < len * RecordsPerCluster
  BY <1>1 DEF InRoot
<1>6. PICK all \in Nat : all = RootRecords
  BY BootSizes
<1>7. PICK loaded \in Nat : loaded = len * RecordsPerCluster
  BY <1>4
<1>8. PICK free \in Nat : free = d * RecordsPerCluster
  BY <1>4
<1>9. all = loaded + free /\ record < loaded
  BY <1>3, <1>5, <1>6, <1>7, <1>8
<1> QED
  BY <1>6, <1>9, BootCounters

LEMMA RecordStays ==
  ASSUME BootIInv, RecordLoaded, [BootNext]_bootVars
  PROVE  RecordLoaded'
<1>1. CASE FindRecord
  <2>1. record' \in {record, record + 1}
    BY <1>1, Zenon DEF FindRecord, LoadFile
  <2>2. record + 1 <= RootRecords
    BY <1>1, BelowAll DEF FindRecord, BootIInv
  <2>3. RootRecords' = RootRecords
    BY DEF RootRecords
  <2> QED
    BY <2>1, <2>2, <2>3 DEF RecordLoaded
<1>2. CASE ~FindRecord
  <2>1. UNCHANGED record
    BY <1>2 DEF BootNext, bootVars, CheckPartition, ReadHeader, ReadHeaderFails, LoadCluster,
                LoadNext, LoadOutside, LoadFails, FindOutside, EnterKernel, EnableA20, GiveUpA20
  <2> QED
    BY <2>1 DEF RecordLoaded, RootRecords
<1> QED
  BY <1>1, <1>2

LEMMA BootStepsAre == ASSUME BootTypeOK, RecordLoaded PROVE BootStepsBounded
<1>1. PICK slots \in Nat : slots = Slots /\ slots > 0
  BY BootSizes
<1>2. PICK all \in Nat : all = RootRecords
  BY BootSizes
<1>3. PICK len \in 0 .. slots : len = Len(memory)
  BY <1>1, BootCounters
<1>4. PICK rec \in 0 .. all : rec = record
  BY <1>2, BootCounters DEF RecordLoaded
<1>5. KernelSteps = 2 * slots + 5 /\ FindSteps = 2 * slots + all + 6
  BY <1>1, <1>2 DEF KernelSteps, FindSteps
<1>6. CASE bootPc \in {"halt", "wild", "kernel"}
  BY <1>5, <1>6 DEF BootStepsBounded, BootStepsLeft
<1>7. CASE bootPc \notin {"halt", "wild", "kernel"}
  <2>1. \E k \in 1 .. 4 * slots + all + 13 : BootStepsLeft = k
    <3>1. CASE bootPc = "a20"
      <4>1. BootStepsLeft = 3 - tries
        BY <3>1 DEF BootStepsLeft
      <4>2. 3 - tries \in 1 .. 4 * slots + all + 13
        BY BootCounters
      <4> QED
        BY <4>1, <4>2
    <3>2. CASE bootPc \in {"load", "fat"}
      <4>1. BootStepsLeft \in {2 * (slots - len) + 5, 2 * (slots - len) + 6,
                               2 * (slots - len) + 5 + (2 * slots + all + 6),
                               2 * (slots - len) + 6 + (2 * slots + all + 6)}
        BY <1>1, <1>3, <1>5, <3>2 DEF BootStepsLeft
      <4>2. /\ 2 * (slots - len) + 5 \in 1 .. 4 * slots + all + 13
            /\ 2 * (slots - len) + 6 \in 1 .. 4 * slots + all + 13
            /\ 2 * (slots - len) + 5 + (2 * slots + all + 6) \in 1 .. 4 * slots + all + 13
            /\ 2 * (slots - len) + 6 + (2 * slots + all + 6) \in 1 .. 4 * slots + all + 13
        OBVIOUS
      <4> QED
        BY <4>1, <4>2
    <3>3. CASE bootPc = "find"
      <4>1. BootStepsLeft = 2 * slots + all + 6 - rec
        BY <1>4, <1>5, <3>3 DEF BootStepsLeft
      <4>2. 2 * slots + all + 6 - rec \in 1 .. 4 * slots + all + 13
        OBVIOUS
      <4> QED
        BY <4>1, <4>2
    <3>4. CASE bootPc \in {"header", "start"}
      <4>1. BootStepsLeft \in {4 * slots + all + 12, 4 * slots + all + 13}
        BY <1>5, <3>4 DEF BootStepsLeft
      <4> QED
        BY <4>1
    <3> QED
      BY <1>7, <3>1, <3>2, <3>3, <3>4, BootCounters
  <2>2. BootStepsLeft \in 0 .. FindSteps + KernelSteps + 2 /\ BootStepsLeft # 0
    BY <1>5, <2>1
  <2> QED
    BY <1>7, <2>2 DEF BootStepsBounded
<1> QED
  BY <1>6, <1>7

LEMMA BootSteps ==
  ASSUME BootIInv, RecordLoaded, BootNext
  PROVE  BootStepsLeft' < BootStepsLeft
<1>1. PICK slots \in Nat : slots = Slots /\ slots > 0
  BY BootSizes
<1>2. PICK all \in Nat : all = RootRecords /\ RootRecords' = all
  BY BootSizes DEF RootRecords
<1>3. PICK len \in 0 .. slots : len = Len(memory)
  BY <1>1, BootCounters DEF BootIInv
<1>4. PICK rec \in 0 .. all : rec = record
  BY <1>2, BootCounters DEF RecordLoaded, BootIInv
<1>5. /\ KernelSteps = 2 * slots + 5 /\ FindSteps = 2 * slots + all + 6
      /\ KernelSteps' = 2 * slots + 5 /\ FindSteps' = 2 * slots + all + 6
  BY <1>1, <1>2 DEF KernelSteps, FindSteps
<1>6. pass \in {"root", "kernel"} /\ tries \in 0 .. 2
  BY BootCounters DEF BootIInv
<1> USE <1>1, <1>2, <1>3, <1>4, <1>5, <1>6
<1>7. BootStepsLeft > 0 \/ bootPc \in {"halt", "wild", "kernel"}
  BY BootStepsAre DEF BootIInv, BootStepsBounded
<1>8. CASE bootPc' \in {"halt", "wild", "kernel"} /\ bootPc \notin {"halt", "wild", "kernel"}
  BY <1>7, <1>8 DEF BootStepsLeft
<1>9. CASE CheckPartition /\ bootPc' = "header"
  BY <1>9 DEF CheckPartition, BootStepsLeft
<1>10. CASE ReadHeader
  <2>1. bootPc = "header" /\ bootPc' = "load" /\ Len(memory') = 0
    BY <1>10 DEF ReadHeader, LoadFile
  <2>2. BootStepsLeft' \in {2 * slots + 5, 2 * slots + 5 + (2 * slots + all + 6)}
    BY <2>1 DEF BootStepsLeft
  <2>3. BootStepsLeft = 4 * slots + all + 12
    BY <2>1 DEF BootStepsLeft
  <2> QED
    BY <2>2, <2>3
<1>11. CASE LoadCluster /\ bootPc' = "fat"
  <2>1. bootPc = "load" /\ pass' = pass /\ Len(memory') = len + 1 /\ len < slots
    BY <1>11 DEF LoadCluster, BootIInv, BootTypeOK
  <2> QED
    BY <1>11, <2>1 DEF BootStepsLeft
<1>12. CASE LoadNext
  <2>1. bootPc = "fat" /\ UNCHANGED <<pass, memory, record, tries>>
    BY <1>12 DEF LoadNext
  <2>2. bootPc' = "load" \/ bootPc' = IF pass = "root" THEN "find" ELSE "a20"
    BY <1>12, Zenon DEF LoadNext
  <2>3. pass = "root" => record = 0
    BY <2>1 DEF BootIInv, RootPart
  <2>4. CASE bootPc' = "load"
    BY <2>1, <2>4 DEF BootStepsLeft
  <2>5. CASE bootPc' = "find" /\ pass = "root"
    BY <2>1, <2>5 DEF BootStepsLeft
  <2>6. CASE bootPc' = "a20" /\ pass = "kernel"
    BY <2>1, <2>6 DEF BootStepsLeft
  <2> QED
    BY <2>2, <2>4, <2>5, <2>6
<1>13. CASE FindRecord
  <2>1. bootPc = "find" /\ InRoot
    BY <1>13 DEF FindRecord
  <2>2. \/ bootPc' = "halt"
        \/ bootPc' = "load" /\ pass' = "kernel" /\ memory' = <<>>
        \/ bootPc' = bootPc /\ record' = record + 1
    BY <1>13, Zenon DEF FindRecord, LoadFile
  <2>3. CASE bootPc' = "load" /\ pass' = "kernel" /\ memory' = <<>>
    <3>1. Len(memory') = 0
      BY <2>3
    <3>2. BootStepsLeft' = 2 * slots + 5
      BY <2>3, <3>1 DEF BootStepsLeft
    <3>3. BootStepsLeft = 2 * slots + all + 6 - rec
      BY <2>1 DEF BootStepsLeft
    <3> QED
      BY <3>2, <3>3
  <2>4. CASE bootPc' = bootPc /\ record' = record + 1
    BY <2>1, <2>4 DEF BootStepsLeft
  <2> QED
    BY <1>8, <2>1, <2>2, <2>3, <2>4
<1>14. CASE EnableA20
  BY <1>14 DEF EnableA20, BootStepsLeft
<1>15. bootPc \notin {"halt", "wild", "kernel"}
  BY DEF BootNext, CheckPartition, ReadHeader, ReadHeaderFails, LoadCluster, LoadNext, LoadOutside,
         LoadFails, FindRecord, FindOutside, EnterKernel, EnableA20, GiveUpA20
<1>16. CASE bootPc' \notin {"halt", "wild", "kernel"}
  BY <1>9, <1>10, <1>11, <1>12, <1>13, <1>14, <1>16
     DEF BootNext, CheckPartition, ReadHeaderFails, LoadCluster, LoadOutside, LoadFails, FindOutside,
         EnterKernel, GiveUpA20
<1> QED
  BY <1>8, <1>15, <1>16

(* The boot loader comes to its end, also when the kernel's chain runs in  *)
(* a circle or the root directory has no end mark: it halts, runs wild or  *)
(* enters the kernel after two steps for each cluster that there is room   *)
(* for, once for the root directory and once for the kernel, one for each  *)
(* record, and a few more (load_file.s:13-90, find_file.s:10-52).          *)
THEOREM BootIsBounded == Spec => []BootStepsBounded /\ BootStepsCounted
<1> DEFINE Inv == BootIInv /\ RecordLoaded
<1>1. Init => RecordLoaded
  BY BootSizes DEF Init, BootInit, RecordLoaded
<1>2. Inv /\ [Next]_vars => RecordLoaded'
  BY BootPart, RecordStays
<1>3. Inv => BootStepsBounded
  BY BootStepsAre DEF BootIInv
<1>4. Inv /\ [Next]_vars =>
        [IF Boot THEN BootStepsLeft' < BootStepsLeft ELSE BootStepsLeft' = BootStepsLeft]_vars
  <2> SUFFICES ASSUME Inv, Next
               PROVE  IF Boot THEN BootStepsLeft' < BootStepsLeft ELSE BootStepsLeft' = BootStepsLeft
    OBVIOUS
  <2>1. CASE Boot
    BY <2>1, BootSteps DEF Boot
  <2>2. CASE ~Boot
    <3>1. UNCHANGED <<bootPc, pass, memory, record, tries>>
      BY <2>2 DEF Next, InKernel, bootVars
    <3> QED
      BY <2>2, <3>1 DEF BootStepsLeft, FindSteps, KernelSteps, RootRecords
  <2> QED
    BY <2>1, <2>2
<1> QED
  BY <1>1, <1>2, <1>3, <1>4, BootInvariance, PTL DEF Spec, BootStepsCounted

-----------------------------------------------------------------------------
(* Steps of a read. *)

(* What the drive has to do before it can send the next sector.            *)
Unseen == IF device.pending # NoCommand THEN 2 ELSE 0
Fetching == IF device.bits = {"BSY"} THEN 1 ELSE 0

(* How many steps drive and kernel may still take while a read is under    *)
(* way.                                                                    *)
ReadStepsLeft == IF ataPc = "poll" THEN 1 + 2 * (request.n - s) + Unseen + Fetching ELSE 0

ReadStepsBounded ==
  /\ ReadStepsLeft \in 0 .. 2 * MaxSectors + 4
  /\ ReadStepsLeft = 0 <=> ataPc # "poll"

ReadStepsCounted == [][ataPc = "poll" => ReadStepsLeft' < ReadStepsLeft]_ataVars

(* The polling loop is not left alone: the read is over, or the status     *)
(* ends the loop, or the drive has something to do.                        *)
PollAnswered ==
  Trusted /\ ataPc = "poll" =>
    s = request.n \/ Ready \/ device.pending # NoCommand \/ device.bits = {"BSY"}

LEMMA ReadCounters ==
  ASSUME AtaTypeOK
  PROVE  /\ MaxSectors \in Nat /\ request.n \in 0 .. MaxSectors /\ s \in 0 .. request.n
         /\ Unseen \in {0, 2} /\ Fetching \in {0, 1}
BY AtaAssumption DEF AtaAssumption, AtaTypeOK, Unseen, Fetching

LEMMA ReadStepsAre == ASSUME AtaTypeOK PROVE ReadStepsBounded
<1>1. PICK max \in Nat : max = MaxSectors
  BY ReadCounters
<1>2. PICK n \in 0 .. max : n = request.n
  BY <1>1, ReadCounters
<1>3. PICK m \in 0 .. n : m = s
  BY <1>2, ReadCounters
<1>4. PICK u \in 0 .. 2 : u = Unseen
  BY ReadCounters
<1>5. PICK f \in 0 .. 1 : f = Fetching
  BY ReadCounters
<1>6. 1 + 2 * (n - m) + u + f \in 1 .. 2 * max + 4
  OBVIOUS
<1>7. CASE ataPc = "poll"
  <2>1. ReadStepsLeft = 1 + 2 * (n - m) + u + f
    BY <1>2, <1>3, <1>4, <1>5, <1>7 DEF ReadStepsLeft
  <2> QED
    BY <1>1, <1>6, <1>7, <2>1 DEF ReadStepsBounded
<1>8. CASE ataPc # "poll"
  BY <1>1, <1>8 DEF ReadStepsBounded, ReadStepsLeft
<1> QED
  BY <1>7, <1>8

LEMMA ReadSteps ==
  ASSUME AtaIInv, AtaNext, ataPc = "poll"
  PROVE  ReadStepsLeft' < ReadStepsLeft
<1>1. AtaTypeOK /\ device \in [bits : SUBSET Bits, next : Int, left : Int, pending : Commands]
  BY DEF AtaIInv, DeviceOK
<1>2. PICK n \in Nat : n = request.n
  BY <1>1, ReadCounters
<1>3. PICK m \in 0 .. n : m = s
  BY <1>1, <1>2, ReadCounters
<1>4. PICK u \in 0 .. 2 : u = Unseen
  BY <1>1, ReadCounters
<1>5. PICK f \in 0 .. 1 : f = Fetching
  BY <1>1, ReadCounters
<1>6. ReadStepsLeft = 1 + 2 * (n - m) + u + f
  BY <1>2, <1>3, <1>4, <1>5 DEF ReadStepsLeft
<1>7. CASE Drive
  <2>1. UNCHANGED <<ataPc, request, s>>
    BY <1>7 DEF Drive, readVars
  <2>2. CASE Notice
    <3>1. device.pending # NoCommand /\ device'.pending = NoCommand
      BY <2>2 DEF Notice, Accepted
    <3>2. u = 2 /\ Unseen' = 0 /\ Fetching' \in {0, 1}
      BY <1>4, <3>1 DEF Unseen, Fetching, NoCommand
    <3>3. ReadStepsLeft' \in {1 + 2 * (n - m), 2 + 2 * (n - m)}
      BY <1>2, <1>3, <2>1, <3>2 DEF ReadStepsLeft
    <3> QED
      BY <1>6, <3>2, <3>3
  <2>3. CASE SectorReady \/ CommandFails
    <3>1. device.bits = {"BSY"} /\ device'.pending = device.pending /\ device'.bits # {"BSY"}
      BY <1>1, <2>3 DEF SectorReady, CommandFails
    <3>2. f = 1 /\ Fetching' = 0
      BY <1>5, <3>1 DEF Fetching
    <3>3. Unseen' = u
      BY <1>4, <3>1 DEF Unseen, NoCommand
    <3>4. ReadStepsLeft' = 1 + 2 * (n - m) + u
      BY <1>2, <1>3, <2>1, <3>2, <3>3 DEF ReadStepsLeft
    <3> QED
      BY <1>6, <3>2, <3>4
  <2> QED
    BY <1>7, <2>2, <2>3 DEF Drive
<1>8. CASE ReadData
  <2>1. /\ ataPc' = "poll" /\ request' = request /\ s' = s + 1 /\ m < n
        /\ device'.pending = device.pending
    BY <1>1, <1>2, <1>3, <1>8 DEF ReadData, Transferred
  <2>2. Unseen' = u
    BY <1>4, <2>1 DEF Unseen, NoCommand
  <2>3. PICK g \in 0 .. 1 : g = Fetching'
    BY DEF Fetching
  <2>4. ReadStepsLeft' = 1 + 2 * (n - (m + 1)) + u + g
    BY <1>2, <1>3, <2>1, <2>2, <2>3 DEF ReadStepsLeft
  <2> QED
    BY <1>6, <2>1, <2>4
<1>9. CASE ReadFails \/ ReadReturns
  BY <1>6, <1>9 DEF ReadFails, ReadReturns, ReadStepsLeft
<1> QED
  BY <1>7, <1>8, <1>9 DEF AtaNext, Kernel, Identify, ReadSector, IssueIdentify, FirstStatus, PollBusy,
     CheckSignature, Spin, EndSpin, NotIdentified, Identified, Issue, Call

LEMMA ReadAnswers == ASSUME AtaIInv PROVE PollAnswered
<1>1. SUFFICES ASSUME Trusted, ataPc = "poll", s # request.n
               PROVE  Ready \/ device.pending # NoCommand \/ device.bits = {"BSY"}
  BY DEF PollAnswered
<1>2. request.n > 0
  BY <1>1, ReadCounters DEF AtaIInv
<1>3. Unnoticed \/ InStep \/ Failed
  BY <1>1, <1>2 DEF AtaIInv, Following, Done
<1>4. CASE Unnoticed
  BY <1>2, <1>4 DEF Unnoticed, NoCommand
<1>5. CASE InStep \/ Failed
  BY <1>5 DEF InStep, Failed, Ready
<1> QED
  BY <1>3, <1>4, <1>5

(* A read takes no more than two steps of the drive and the kernel for     *)
(* each sector, and four more, although readSector polls without a limit;  *)
(* and as long as the drive can be trusted, one of the two has a step to   *)
(* take, so that the kernel never polls a drive that waits for the kernel  *)
(* (filesys.c:93-113).                                                     *)
THEOREM ReadIsBounded == Spec => [](ReadStepsBounded /\ PollAnswered) /\ ReadStepsCounted
<1>1. AtaIInv => ReadStepsBounded /\ PollAnswered
  BY ReadStepsAre, ReadAnswers DEF AtaIInv
<1>2. AtaIInv /\ [Next]_vars => [ataPc = "poll" => ReadStepsLeft' < ReadStepsLeft]_ataVars
  BY AtaPart, ReadSteps
<1> QED
  BY <1>1, <1>2, AtaInvariance, PTL DEF Spec, ReadStepsCounted
=============================================================================
