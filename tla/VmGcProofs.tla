------------------------------- MODULE VmGcProofs ------------------------------
(* Proofs about the memory of a VM: however buffers are cut, freed, grown and  *)
(* given out again, nothing a program holds overlaps and no byte is lost.      *)
(* HeapInv says what a heap is between two calls, as a property of the record  *)
(* the operators of VmGc pass on; each of them is shown to keep it.  GcInv     *)
(* adds the strings and what the program holds, and every step keeps it.       *)
EXTENDS VmGc, Sums

-----------------------------------------------------------------------------
(* Multiples of the alignment.                                                 *)

Aligned(n) == \E k \in Nat \ {0} : n = k * Align
Top == MaxSmall \div Align

LEMMA Constants ==
    /\ {Align, MaxSmall, BlockSize, MaxTotal, StringSize, MinArray} \subseteq Nat \ {0}
    /\ MaxSmall % Align = 0 /\ BlockSize % Align = 0 /\ StringSize <= BlockSize
    /\ Sizes \subseteq Nat /\ GrowLimit \in Nat
BY Layout

LEMMA Division == \A n \in Int, d \in Nat \ {0} :
    n \div d \in Int /\ d * (n \div d) <= n /\ n < d * (n \div d) + d
OBVIOUS

LEMMA Quotient == \A k \in Int, d \in Nat \ {0} : (k * d) \div d = k /\ (k * d) % d = 0
OBVIOUS

LEMMA Exact == \A n \in Int, d \in Nat \ {0} : n % d = 0 => n = (n \div d) * d
OBVIOUS

LEMMA TimesLess == \A a, b \in Int, d \in Nat \ {0} : a * d <= b * d <=> a <= b
OBVIOUS

LEMMA TimesDistinct == \A a, b \in Int, d \in Nat \ {0} : a * d = b * d => a = b
OBVIOUS

LEMMA TimesMinus == \A a, b, d \in Int : a * d - b * d = (a - b) * d
OBVIOUS

LEMMA TimesPositive == \A a, b \in Nat \ {0} : a * b \in Nat \ {0} /\ a <= a * b /\ b <= a * b
OBVIOUS

LEMMA AlignedNat ==
    ASSUME NEW n, Aligned(n)
    PROVE  /\ n \in Nat \ {0} /\ n % Align = 0 /\ n \div Align \in Nat \ {0}
           /\ n = (n \div Align) * Align
           /\ n <= MaxSmall => n \div Align \in 1 .. Top
<1>1. PICK k \in Nat \ {0} : n = k * Align
  BY DEF Aligned
<1>2. Align \in Nat \ {0} /\ MaxSmall \in Nat \ {0} /\ MaxSmall % Align = 0
  BY Constants
<1>3. n \in Nat \ {0}
  BY <1>1, <1>2, TimesPositive
<1>3a. k \in Int /\ \A j \in Int : (j * Align) \div Align = j /\ (j * Align) % Align = 0
  BY <1>2, Quotient
<1>3b. n % Align = 0 /\ n \div Align = k
  BY <1>1, <1>3a
<1>4. MaxSmall = Top * Align /\ Top \in Int
  BY <1>2, Exact, Division DEF Top
<1>5. n <= MaxSmall => k <= Top
  BY <1>1, <1>2, <1>4, TimesLess
<1>6. QED
  BY <1>1, <1>3, <1>3b, <1>4, <1>5

LEMMA AlignedList ==
    ASSUME NEW n \in 1 .. Top
    PROVE  Aligned(n * Align) /\ n * Align <= MaxSmall /\ (n * Align) \div Align = n
<1>1. Align \in Nat \ {0} /\ MaxSmall \in Nat \ {0} /\ MaxSmall % Align = 0
  BY Constants
<1>2. MaxSmall = Top * Align /\ Top \in Int
  BY <1>1, Exact, Division DEF Top
<1>3. n * Align <= MaxSmall
  BY <1>1, <1>2, TimesLess
<1>4. QED
  BY <1>1, <1>3, Quotient DEF Aligned

(* gc_malloc rounds a size up to a multiple of the alignment.                 *)
LEMMA AlignedUp ==
    ASSUME NEW n \in Nat \ {0}
    PROVE  Aligned(Align8(n)) /\ n <= Align8(n)
<1>1. Align \in Nat \ {0}
  BY Constants
<1>2. PICK q \in Int : q = (n + Align - 1) \div Align /\ Align * q <= n + Align - 1 /\ n + Align - 1 < Align * q + Align
  BY <1>1, Division
<1>3. Align8(n) = q * Align /\ Align * q = q * Align /\ q * Align \in Int
  BY <1>1, <1>2 DEF Align8
<1>4. n <= q * Align
  BY <1>1, <1>2, <1>3
<1>5. q >= 1
  <2>1. 0 * Align < q * Align
    BY <1>1, <1>3, <1>4
  <2>2. QED
    BY <1>1, <1>2, <2>1, TimesLess
<1>6. QED
  BY <1>2, <1>3, <1>4, <1>5 DEF Aligned

LEMMA AlignedMinus ==
    ASSUME NEW m, NEW n, Aligned(m), Aligned(n), n < m
    PROVE  Aligned(m - n)
<1>1. PICK j, k \in Nat \ {0} : m = j * Align /\ n = k * Align
  BY DEF Aligned
<1>2. Align \in Nat \ {0}
  BY Constants
<1>3. m - n = (j - k) * Align
  BY <1>1, <1>2, TimesMinus
<1>4. k < j
  BY <1>1, <1>2, TimesLess
<1>5. QED
  BY <1>3, <1>4 DEF Aligned

LEMMA AlignedBlock == Aligned(BlockSize)
<1>0. Align \in Nat \ {0} /\ BlockSize \in Nat \ {0} /\ BlockSize % Align = 0
  BY Constants
<1>1. Align \in Nat \ {0} /\ BlockSize \in Nat \ {0} /\ BlockSize = (BlockSize \div Align) * Align
  BY <1>0, Exact
<1>2. BlockSize \div Align \in Int
  BY <1>1, Division
<1>3. 0 * Align < (BlockSize \div Align) * Align
  BY <1>1
<1>4. BlockSize \div Align >= 1
  BY <1>1, <1>2, <1>3, TimesLess
<1>5. QED
  BY <1>1, <1>2, <1>4 DEF Aligned
-----------------------------------------------------------------------------
(* Lists whose entries are distinct.                                           *)

IsSeq(q) == \E F : q \in Seq(F)
Once(q) == \A i, j \in 1 .. Len(q) : q[i] = q[j] => i = j

LEMMA SetOf == \A q : IsSeq(q) =>
    /\ Len(q) \in Nat /\ DOMAIN q = 1 .. Len(q)
    /\ ToSet(q) = {q[i] : i \in 1 .. Len(q)}
BY DEF IsSeq, ToSet

LEMMA NoEntries == IsSeq(<< >>) /\ Once(<< >>) /\ ToSet(<< >>) = {}
BY DEF IsSeq, Once, ToSet

(* Lists of free buffers name a buffer once, and stay so when one is taken,   *)
(* put in or replaced.                                                        *)
LEMMA FrontOnce ==
    ASSUME NEW q, IsSeq(q), Once(q), q # << >>
    PROVE  /\ IsSeq(Front(q)) /\ Once(Front(q)) /\ ToSet(Front(q)) = ToSet(q) \ {Last(q)}
           /\ Last(q) \in ToSet(q)
<1>1. PICK F : q \in Seq(F)
  BY DEF IsSeq
<1>2. PICK n \in Nat : n = Len(q) /\ n >= 1
  BY <1>1
<1>3. PICK p : p = Front(q)
  OBVIOUS
<1>4. p = SubSeq(q, 1, n - 1)
  BY <1>2, <1>3 DEF Front
<1>5. p = [i \in 1 .. (n - 1) |-> q[i]] /\ p \in Seq(F) /\ Len(p) = n - 1
  <2>1. p = [i \in 1 .. (n - 1) |-> q[i]]
    BY <1>1, <1>2, <1>4
  <2>2. n - 1 \in Nat /\ \A i \in 1 .. (n - 1) : q[i] \in F
    BY <1>1, <1>2
  <2>3. QED
    BY <2>1, <2>2
<1>6. IsSeq(p)
  BY <1>5 DEF IsSeq
<1>7. \A i \in 1 .. (n - 1) : p[i] = q[i] /\ i \in 1 .. n /\ i # n
  BY <1>5
<1>8. Last(q) = q[n] /\ n \in 1 .. n
  BY <1>2 DEF Last
<1>9. Once(p)
  BY <1>2, <1>5, <1>7 DEF Once
<1>10. ToSet(q) = {q[i] : i \in 1 .. n} /\ ToSet(p) = {p[i] : i \in 1 .. (n - 1)}
  BY <1>2, <1>5, <1>6, SetOf
<1>11. \A i \in 1 .. n : q[i] # q[n] => i \in 1 .. (n - 1)
  BY <1>2
<1>12. ASSUME NEW x PROVE x \in ToSet(p) <=> x \in ToSet(q) /\ x # Last(q)
  <2>1. ASSUME x \in ToSet(p) PROVE x \in ToSet(q) /\ x # Last(q)
    <3>1. PICK i \in 1 .. (n - 1) : x = q[i]
      BY <1>7, <1>10, <2>1
    <3>2. QED
      BY <1>2, <1>7, <1>8, <1>10, <3>1 DEF Once
  <2>2. ASSUME x \in ToSet(q), x # Last(q) PROVE x \in ToSet(p)
    <3>1. PICK i \in 1 .. n : x = q[i]
      BY <1>10, <2>2
    <3>2. QED
      BY <1>7, <1>8, <1>10, <1>11, <2>2, <3>1
  <2>3. QED
    BY <2>1, <2>2
<1>13. Last(q) \in ToSet(q)
  BY <1>8, <1>10
<1>14. QED
  BY <1>3, <1>6, <1>9, <1>12, <1>13

LEMMA AppendOnce ==
    ASSUME NEW q, IsSeq(q), Once(q), NEW x, x \notin ToSet(q)
    PROVE  IsSeq(Append(q, x)) /\ Once(Append(q, x)) /\ ToSet(Append(q, x)) = ToSet(q) \cup {x}
<1>1. PICK F : q \in Seq(F)
  BY DEF IsSeq
<1>2. q \in Seq(F \cup {x})
  BY <1>1
<1>3. PICK n \in Nat : n = Len(q)
  BY <1>1
<1>4. PICK p : p = Append(q, x)
  OBVIOUS
<1>5. /\ p \in Seq(F \cup {x}) /\ Len(p) = n + 1 /\ p[n + 1] = x
      /\ \A i \in 1 .. n : p[i] = q[i]
  BY <1>2, <1>3, <1>4
<1>6. IsSeq(p)
  BY <1>5 DEF IsSeq
<1>7. ToSet(q) = {q[i] : i \in 1 .. n} /\ ToSet(p) = {p[i] : i \in 1 .. (n + 1)}
  BY <1>3, <1>5, <1>6, SetOf
<1>8. \A i \in 1 .. (n + 1) : i \in 1 .. n \/ i = n + 1
  OBVIOUS
<1>9. Once(p)
  BY <1>3, <1>5, <1>7, <1>8 DEF Once
<1>10. \A y : y \in ToSet(p) <=> y \in ToSet(q) \/ y = x
  <2>1. ASSUME NEW y \in ToSet(p) PROVE y \in ToSet(q) \/ y = x
    BY <1>5, <1>7, <1>8
  <2>2. ASSUME NEW y \in ToSet(q) PROVE y \in ToSet(p)
    <3>1. PICK i \in 1 .. n : y = q[i]
      BY <1>7
    <3>2. i \in 1 .. (n + 1)
      OBVIOUS
    <3>3. QED
      BY <1>5, <1>7, <3>1, <3>2
  <2>3. x \in ToSet(p)
    BY <1>5, <1>7
  <2>4. QED
    BY <2>1, <2>2, <2>3
<1>11. QED
  BY <1>4, <1>6, <1>9, <1>10

LEMMA RemoveOnce ==
    ASSUME NEW q, IsSeq(q), Once(q), NEW i \in 1 .. Len(q)
    PROVE  /\ IsSeq(RemoveAt(q, i)) /\ Once(RemoveAt(q, i)) /\ ToSet(RemoveAt(q, i)) = ToSet(q) \ {q[i]}
           /\ \A j \in 1 .. Len(RemoveAt(q, i)) : RemoveAt(q, i)[j] \in ToSet(q)
<1>1. PICK F : q \in Seq(F)
  BY DEF IsSeq
<1>2. PICK n \in Nat : n = Len(q) /\ i \in 1 .. n
  BY <1>1
<1>3. PICK p : p = RemoveAt(q, i)
  OBVIOUS
<1>4. PICK a, b : a = SubSeq(q, 1, i - 1) /\ b = SubSeq(q, i + 1, n) /\ p = a \o b
  BY <1>2, <1>3 DEF RemoveAt
<1>5. a \in Seq(F) /\ Len(a) = i - 1 /\ \A j \in 1 .. (i - 1) : a[j] = q[j]
  BY <1>1, <1>2, <1>4
<1>6. b \in Seq(F) /\ Len(b) = n - i /\ \A j \in 1 .. (n - i) : b[j] = q[i + j]
  BY <1>1, <1>2, <1>4
<1>7. p \in Seq(F) /\ Len(p) = n - 1 /\ \A j \in 1 .. (n - 1) : p[j] = IF j < i THEN q[j] ELSE q[j + 1]
  <2>1. p \in Seq(F)
    BY <1>4, <1>5, <1>6
  <2>2. Len(p) = Len(a) + Len(b)
    BY <1>4, <1>5, <1>6
  <2>3. Len(p) = n - 1
    BY <1>2, <1>5, <1>6, <2>2
  <2>4. \A j \in 1 .. Len(a) : p[j] = a[j]
    BY <1>4, <1>5, <1>6
  <2>5. \A j \in 1 .. Len(b) : p[Len(a) + j] = b[j]
    BY <1>4, <1>5, <1>6
  <2>6. ASSUME NEW j \in 1 .. (n - 1) PROVE p[j] = IF j < i THEN q[j] ELSE q[j + 1]
    <3>1. CASE j < i
      <4>1. j \in 1 .. Len(a) /\ j \in 1 .. (i - 1)
        BY <1>2, <1>5, <3>1
      <4>2. QED
        BY <1>5, <2>4, <3>1, <4>1
    <3>2. CASE ~ (j < i)
      <4>1. PICK k \in 1 .. (n - i) : k = j - (i - 1)
        <5>1. j - (i - 1) \in 1 .. (n - i)
          BY <1>2, <3>2
        <5>2. QED
          BY <5>1
      <4>2. k \in 1 .. Len(b) /\ Len(a) + k = j /\ i + k = j + 1
        BY <1>2, <1>5, <1>6, <4>1
      <4>3. p[j] = b[k] /\ b[k] = q[i + k]
        BY <1>6, <2>5, <4>1, <4>2
      <4>4. QED
        BY <3>2, <4>2, <4>3
    <3>3. QED
      BY <3>1, <3>2
  <2>7. QED
    BY <2>1, <2>3, <2>6
<1>8. IsSeq(p)
  BY <1>7 DEF IsSeq
<1>9. ToSet(q) = {q[j] : j \in 1 .. n} /\ ToSet(p) = {p[j] : j \in 1 .. (n - 1)}
  BY <1>2, <1>7, <1>8, SetOf
<1>10. Once(p)
  <2> SUFFICES ASSUME NEW j \in 1 .. (n - 1), NEW k \in 1 .. (n - 1), p[j] = p[k]
               PROVE  j = k
    BY <1>7 DEF Once
  <2>1. PICK j2, k2 \in 1 .. n : /\ j2 = (IF j < i THEN j ELSE j + 1) /\ k2 = (IF k < i THEN k ELSE k + 1)
    <3>1. (IF j < i THEN j ELSE j + 1) \in 1 .. n /\ (IF k < i THEN k ELSE k + 1) \in 1 .. n
      BY <1>2
    <3>2. QED
      BY <3>1
  <2>2. q[j2] = q[k2]
    BY <1>7, <2>1
  <2>3. j2 = k2
    BY <1>2, <2>2 DEF Once
  <2>4. QED
    BY <1>2, <2>1, <2>3
<1>11. ASSUME NEW x PROVE x \in ToSet(p) <=> x \in ToSet(q) /\ x # q[i]
  <2>1. ASSUME x \in ToSet(p) PROVE x \in ToSet(q) /\ x # q[i]
    <3>1. PICK j \in 1 .. (n - 1) : x = IF j < i THEN q[j] ELSE q[j + 1]
      BY <1>7, <1>9, <2>1
    <3>2. PICK k \in 1 .. n : k # i /\ x = q[k]
      <4>1. CASE j < i
        <5>1. j \in 1 .. n /\ j # i
          BY <1>2, <4>1
        <5>2. QED
          BY <3>1, <4>1, <5>1
      <4>2. CASE ~ (j < i)
        <5>1. j + 1 \in 1 .. n /\ j + 1 # i
          BY <1>2, <4>2
        <5>2. QED
          BY <3>1, <4>2, <5>1
      <4>3. QED
        BY <4>1, <4>2
    <3>3. QED
      BY <1>2, <1>9, <3>2 DEF Once
  <2>2. ASSUME x \in ToSet(q), x # q[i] PROVE x \in ToSet(p)
    <3>1. PICK k \in 1 .. n : x = q[k] /\ k # i
      BY <1>9, <2>2
    <3>2. CASE k < i
      <4>1. k \in 1 .. (n - 1)
        BY <1>2, <3>2
      <4>2. QED
        BY <1>7, <1>9, <3>1, <3>2, <4>1
    <3>3. CASE k > i
      <4>1. PICK j \in 1 .. (n - 1) : j = k - 1
        BY <1>2, <3>3
      <4>2. ~ (j < i) /\ k = j + 1
        BY <1>2, <3>3, <4>1
      <4>3. QED
        BY <1>7, <1>9, <3>1, <4>1, <4>2
    <3>4. QED
      BY <1>2, <3>1, <3>2, <3>3
  <2>3. QED
    BY <2>1, <2>2
<1>12. \A j \in 1 .. Len(p) : p[j] \in ToSet(q)
  <2>1. \A j \in 1 .. Len(p) : p[j] \in ToSet(p)
    BY <1>7, <1>9
  <2>2. QED
    BY <1>11, <2>1
<1>13. QED
  BY <1>3, <1>8, <1>10, <1>11, <1>12

Put(f, i, x) == [f EXCEPT ![i] = x]

LEMMA ReplaceOnce ==
    ASSUME NEW q, IsSeq(q), Once(q), NEW i \in 1 .. Len(q), NEW x, x \notin ToSet(q),
           NEW p, p = Put(q, i, x)
    PROVE  IsSeq(p) /\ Once(p) /\ ToSet(p) = (ToSet(q) \ {q[i]}) \cup {x}
<1>1. PICK F : q \in Seq(F)
  BY DEF IsSeq
<1>2. q \in Seq(F \cup {x})
  BY <1>1
<1>3. PICK n \in Nat : n = Len(q) /\ i \in 1 .. n
  BY <1>1
<1>5. p \in Seq(F \cup {x}) /\ Len(p) = n /\ \A j \in 1 .. n : p[j] = IF j = i THEN x ELSE q[j]
  BY <1>2, <1>3 DEF Put
<1>6. IsSeq(p)
  BY <1>5 DEF IsSeq
<1>7. ToSet(q) = {q[j] : j \in 1 .. n} /\ ToSet(p) = {p[j] : j \in 1 .. n}
  BY <1>3, <1>5, <1>6, SetOf
<1>8. Once(p)
  BY <1>3, <1>5, <1>7 DEF Once
<1>9. \A y : y \in ToSet(p) <=> (y \in ToSet(q) /\ y # q[i]) \/ y = x
  <2>1. ASSUME NEW y \in ToSet(p), y # x PROVE y \in ToSet(q) /\ y # q[i]
    <3>1. PICK j \in 1 .. n : j # i /\ y = q[j]
      BY <1>5, <1>7, <2>1
    <3>2. QED
      BY <1>3, <1>7, <3>1 DEF Once
  <2>2. ASSUME NEW y \in ToSet(q), y # q[i] PROVE y \in ToSet(p)
    BY <1>5, <1>7, <2>2
  <2>3. x \in ToSet(p)
    BY <1>3, <1>5, <1>7
  <2>4. QED
    BY <2>1, <2>2, <2>3
<1>10. QED
  BY <1>6, <1>8, <1>9

-----------------------------------------------------------------------------
(* Blocks divided into buffers.                                                *)

Apart(b, c) ==
    \/ b.at[1] # c.at[1]
    \/ b.at[2] + b.size <= c.at[2]
    \/ c.at[2] + c.size <= b.at[2]

Covers(b, n, i) == b.at[1] = n /\ b.at[2] <= i /\ i < b.at[2] + b.size

Inside(b, bs) ==
    /\ b.at = <<b.at[1], b.at[2]>> /\ b.at[1] \in 1 .. Len(bs) /\ b.at[2] \in Nat
    /\ bs[b.at[1]].size \in Nat /\ b.at[2] + b.size <= bs[b.at[1]].size

Piece(b, bs) == Inside(b, bs) /\ Aligned(b.size) /\ ~ bs[b.at[1]].strings

(* The live buffers l and the free ones f divide the blocks of the heap.       *)
Separate(l, f) ==
    /\ \A b, c \in l : b # c => Apart(b, c)
    /\ \A b \in l, c \in f : Apart(b, c)
    /\ \A b, c \in f : b # c => Apart(b, c)

Full(l, f, bs) ==
    \A n \in 1 .. Len(bs) : ~ bs[n].strings =>
        \A i \in 0 .. (bs[n].size - 1) : \E b \in l \cup f : Covers(b, n, i)

Divided(l, f, bs) ==
    /\ \A b \in l \cup f : Piece(b, bs)
    /\ Separate(l, f) /\ Full(l, f, bs)

LEMMA PieceFacts ==
    ASSUME NEW b, NEW bs, Piece(b, bs)
    PROVE  b.size \in Nat \ {0} /\ b.at[2] \in Nat /\ ~ Apart(b, b)
BY AlignedNat DEF Piece, Inside, Apart

LEMMA ApartFlip == \A b, c : Apart(b, c) <=> Apart(c, b)
BY DEF Apart

(* Part of a free buffer becomes live; what is left, if anything, is free.     *)
LEMMA TakePart ==
    ASSUME NEW l, NEW f, NEW bs, Divided(l, f, bs), NEW c \in f, NEW b, NEW r,
           b.at = c.at, Aligned(b.size), b.size < c.size,
           r.at = Plus(c.at, b.size), r.size = c.size - b.size
    PROVE  Divided(l \cup {b}, (f \ {c}) \cup {r}, bs) /\ b \notin l /\ r \notin f
<1>1. Piece(c, bs) /\ c.size \in Nat \ {0} /\ c.at[2] \in Nat
  BY PieceFacts DEF Divided
<1>2. b.size \in Nat \ {0}
  BY AlignedNat
<1>3. Aligned(r.size)
  BY <1>1, AlignedMinus DEF Piece
<1>4. r.size \in Nat \ {0}
  BY <1>3, AlignedNat
<1>5. r.at[1] = c.at[1] /\ r.at[2] = c.at[2] + b.size /\ r.at = <<r.at[1], r.at[2]>>
  BY DEF Plus
<1>6. Piece(b, bs) /\ Piece(r, bs)
  BY <1>1, <1>2, <1>3, <1>4, <1>5 DEF Piece, Inside
<1>7. \A x \in l \cup f : x # c => Apart(x, c) /\ x.at[2] \in Nat /\ x.size \in Nat \ {0}
  BY ApartFlip, PieceFacts DEF Divided, Separate
<1>8. \A x : x.at[2] \in Nat /\ x.size \in Nat \ {0} /\ Apart(x, c) => Apart(x, b) /\ Apart(x, r)
  BY <1>1, <1>2, <1>4, <1>5 DEF Apart
<1>9. Apart(b, r) /\ ~ Apart(b, c) /\ ~ Apart(r, c)
  BY <1>1, <1>2, <1>4, <1>5 DEF Apart
<1>10. c \notin l
  BY <1>1, PieceFacts DEF Divided, Separate
<1>11. b \notin l /\ r \notin f
  <2>1. b \notin l
    BY <1>9, <1>10 DEF Divided, Separate
  <2>2. r # c
    BY <1>1, <1>2
  <2>3. r \notin f
    BY <1>9, <2>2 DEF Divided, Separate
  <2>4. QED
    BY <2>1, <2>3
<1>12. Separate(l \cup {b}, (f \ {c}) \cup {r})
  <2>1. \A x \in l \cup (f \ {c}) : Apart(x, b) /\ Apart(x, r) /\ Apart(b, x) /\ Apart(r, x)
    BY <1>7, <1>8, <1>10, ApartFlip
  <2>2. QED
    BY <1>9, <2>1, ApartFlip DEF Divided, Separate
<1>13. Full(l \cup {b}, (f \ {c}) \cup {r}, bs)
  <2> SUFFICES ASSUME NEW n \in 1 .. Len(bs), ~ bs[n].strings, NEW i \in 0 .. (bs[n].size - 1)
               PROVE  \E x \in (l \cup {b}) \cup ((f \ {c}) \cup {r}) : Covers(x, n, i)
    BY DEF Full
  <2>1. PICK x \in l \cup f : Covers(x, n, i)
    BY DEF Divided, Full
  <2>2. CASE x # c
    BY <2>1, <2>2
  <2>3. CASE x = c
    <3>1. i \in Int
      OBVIOUS
    <3>2. Covers(b, n, i) \/ Covers(r, n, i)
      BY <1>1, <1>2, <1>4, <1>5, <2>1, <2>3, <3>1 DEF Covers
    <3>3. QED
      BY <3>2
  <2>4. QED
    BY <2>2, <2>3
<1>14. QED
  BY <1>6, <1>11, <1>12, <1>13 DEF Divided

(* A free buffer is given out as a whole.                                     *)
LEMMA TakeWhole ==
    ASSUME NEW l, NEW f, NEW bs, Divided(l, f, bs), NEW c \in f, NEW b,
           b.at = c.at, b.size = c.size
    PROVE  Divided(l \cup {b}, f \ {c}, bs) /\ b \notin l
<1>1. Piece(b, bs) /\ Piece(c, bs)
  BY DEF Divided, Piece, Inside
<1>2. \A x : Apart(x, c) <=> Apart(x, b)
  BY DEF Apart
<1>3. ~ Apart(c, c) /\ ~ Apart(b, c)
  BY <1>1, <1>2, PieceFacts, ApartFlip
<1>4. b \notin l
  BY <1>3 DEF Divided, Separate
<1>5. Separate(l \cup {b}, f \ {c})
  BY <1>2, ApartFlip DEF Divided, Separate
<1>6. \A n, i : Covers(c, n, i) <=> Covers(b, n, i)
  BY DEF Covers
<1>7. Full(l \cup {b}, f \ {c}, bs)
  <2> SUFFICES ASSUME NEW n \in 1 .. Len(bs), ~ bs[n].strings, NEW i \in 0 .. (bs[n].size - 1)
               PROVE  \E x \in (l \cup {b}) \cup (f \ {c}) : Covers(x, n, i)
    BY DEF Full
  <2>1. PICK x \in l \cup f : Covers(x, n, i)
    BY DEF Divided, Full
  <2>2. QED
    BY <1>6, <2>1
<1>8. QED
  BY <1>1, <1>4, <1>5, <1>7 DEF Divided

(* A live buffer becomes free.                                                 *)
LEMMA GiveBack ==
    ASSUME NEW l, NEW f, NEW bs, Divided(l, f, bs), NEW b \in l, NEW c,
           c.at = b.at, c.size = b.size
    PROVE  Divided(l \ {b}, f \cup {c}, bs) /\ c \notin f
<1>1. Piece(b, bs) /\ Piece(c, bs)
  BY DEF Divided, Piece, Inside
<1>2. \A x : Apart(x, c) <=> Apart(x, b)
  BY DEF Apart
<1>3. ~ Apart(b, b) /\ ~ Apart(b, c)
  BY <1>1, <1>2, PieceFacts
<1>4. c \notin f
  BY <1>3 DEF Divided, Separate
<1>5. Separate(l \ {b}, f \cup {c})
  BY <1>2, ApartFlip DEF Divided, Separate
<1>6. \A n, i : Covers(c, n, i) <=> Covers(b, n, i)
  BY DEF Covers
<1>7. Full(l \ {b}, f \cup {c}, bs)
  <2> SUFFICES ASSUME NEW n \in 1 .. Len(bs), ~ bs[n].strings, NEW i \in 0 .. (bs[n].size - 1)
               PROVE  \E x \in (l \ {b}) \cup (f \cup {c}) : Covers(x, n, i)
    BY DEF Full
  <2>1. PICK x \in l \cup f : Covers(x, n, i)
    BY DEF Divided, Full
  <2>2. QED
    BY <1>6, <2>1
<1>8. QED
  BY <1>1, <1>4, <1>5, <1>7 DEF Divided

(* Blocks that malloc gave.                                                    *)
BlocksSound(bs) == IsSeq(bs) /\ \A n \in 1 .. Len(bs) : bs[n].size \in Nat

LEMMA MoreBlocks ==
    ASSUME NEW bs, BlocksSound(bs), NEW x, x.size \in Nat
    PROVE  /\ BlocksSound(Append(bs, x)) /\ Len(bs) \in Nat /\ Len(Append(bs, x)) = Len(bs) + 1
           /\ Append(bs, x)[Len(bs) + 1] = x
           /\ \A n \in 1 .. Len(bs) : Append(bs, x)[n] = bs[n]
<1>1. PICK F : bs \in Seq(F)
  BY DEF BlocksSound, IsSeq
<1>2. bs \in Seq(F \cup {x})
  BY <1>1
<1>3. PICK k \in Nat : k = Len(bs)
  BY <1>1
<1>4. PICK p : p = Append(bs, x)
  OBVIOUS
<1>5. p \in Seq(F \cup {x}) /\ Len(p) = k + 1 /\ p[k + 1] = x /\ \A n \in 1 .. k : p[n] = bs[n]
  BY <1>2, <1>3, <1>4
<1>6. IsSeq(p)
  BY <1>5 DEF IsSeq
<1>7. \A n \in 1 .. (k + 1) : n \in 1 .. k \/ n = k + 1
  OBVIOUS
<1>8. \A n \in 1 .. (k + 1) : p[n].size \in Nat
  BY <1>3, <1>5, <1>7 DEF BlocksSound
<1>9. QED
  BY <1>3, <1>4, <1>5, <1>6, <1>8 DEF BlocksSound

(* The blocks with one more, and what was inside them.                         *)
More(bs, x, p) ==
    /\ Len(bs) \in Nat /\ Len(p) = Len(bs) + 1 /\ p[Len(bs) + 1] = x
    /\ \A n \in 1 .. Len(bs) : p[n] = bs[n]

LEMMA MoreOf ==
    ASSUME NEW bs, BlocksSound(bs), NEW x, x.size \in Nat
    PROVE  More(bs, x, Append(bs, x))
BY MoreBlocks DEF More

LEMMA InsideMore ==
    ASSUME NEW bs, NEW x, NEW p, More(bs, x, p)
    PROVE  \A b : Inside(b, bs) => Inside(b, p) /\ p[b.at[1]] = bs[b.at[1]]
<1>1. PICK k \in Nat : k = Len(bs) /\ Len(p) = k + 1 /\ \A n \in 1 .. k : p[n] = bs[n]
  BY DEF More
<1>2. ASSUME NEW b, Inside(b, bs) PROVE Inside(b, p) /\ p[b.at[1]] = bs[b.at[1]]
  <2>1. b.at[1] \in 1 .. k /\ b.at[1] \in 1 .. (k + 1)
    BY <1>1, <1>2 DEF Inside
  <2>2. p[b.at[1]] = bs[b.at[1]]
    BY <1>1, <2>1
  <2>3. QED
    BY <1>1, <1>2, <2>1, <2>2 DEF Inside
<1>3. QED
  BY <1>2

(* A new block of strings leaves the heap as it is.                            *)
LEMMA NewStrings ==
    ASSUME NEW l, NEW f, NEW bs, BlocksSound(bs), Divided(l, f, bs), NEW x, x.size \in Nat, x.strings
    PROVE  Divided(l, f, Append(bs, x))
<1>0a. PICK p : p = Append(bs, x) /\ More(bs, x, p)
  BY MoreOf
<1>0b. More(bs, x, p)
  BY <1>0a
<1>1. PICK k \in Nat : p = Append(bs, x) /\ k = Len(bs) /\ Len(p) = k + 1 /\ p[k + 1] = x /\ \A n \in 1 .. k : p[n] = bs[n]
  BY <1>0a DEF More
<1>2. ASSUME NEW b \in l \cup f PROVE Piece(b, p)
  <2>1. Piece(b, bs)
    BY DEF Divided
  <2>1a. Inside(b, bs)
    BY <2>1 DEF Piece
  <2>2. Inside(b, p) /\ p[b.at[1]] = bs[b.at[1]]
    BY <1>0b, <2>1a, InsideMore
  <2>3. QED
    BY <2>1, <2>2 DEF Piece
<1>3. Full(l, f, p)
  <2>1. \A n \in 1 .. (k + 1) : n \in 1 .. k \/ n = k + 1
    OBVIOUS
  <2>2. QED
    BY <1>1, <2>1 DEF Divided, Full
<1>4. QED
  BY <1>1, <1>2, <1>3 DEF Divided

(* A new block is divided into one live buffer and what is left.               *)
Start(bs) == <<Len(bs) + 1, 0>>

(* A new block is one live buffer.                                            *)
LEMMA NewWhole ==
    ASSUME NEW l, NEW f, NEW bs, BlocksSound(bs), Divided(l, f, bs), NEW x, ~ x.strings,
           NEW b, b.at = Start(bs), Aligned(b.size), b.size = x.size
    PROVE  Divided(l \cup {b}, f, Append(bs, x)) /\ b \notin l
<1>0. x.size \in Nat /\ x.size # 0
  BY AlignedNat
<1>0a. PICK p : p = Append(bs, x) /\ More(bs, x, p)
  BY <1>0, MoreOf
<1>0b. More(bs, x, p)
  BY <1>0a
<1>1. PICK k \in Nat : p = Append(bs, x) /\ k = Len(bs) /\ Len(p) = k + 1 /\ p[k + 1] = x /\ \A n \in 1 .. k : p[n] = bs[n]
  BY <1>0a DEF More
<1>2. b.at[1] = k + 1 /\ b.at[2] = 0 /\ b.at = <<b.at[1], b.at[2]>>
  BY <1>1 DEF Start
<1>3. Piece(b, p)
  BY <1>0, <1>1, <1>2 DEF Piece, Inside
<1>4. ASSUME NEW y \in l \cup f PROVE Piece(y, p)
  <2>1. Piece(y, bs)
    BY DEF Divided
  <2>1a. Inside(y, bs)
    BY <2>1 DEF Piece
  <2>2. Inside(y, p) /\ p[y.at[1]] = bs[y.at[1]]
    BY <1>0b, <2>1a, InsideMore
  <2>3. QED
    BY <2>1, <2>2 DEF Piece
<1>5. \A y \in l \cup f : y.at[1] # k + 1 /\ Apart(y, b) /\ Apart(b, y)
  BY <1>1, <1>2 DEF Divided, Piece, Inside, Apart
<1>6. b \notin l
  BY <1>2, <1>5
<1>7. Separate(l \cup {b}, f)
  BY <1>5 DEF Divided, Separate
<1>8. Full(l \cup {b}, f, p)
  <2> SUFFICES ASSUME NEW n \in 1 .. (k + 1), ~ p[n].strings, NEW i \in 0 .. (p[n].size - 1)
               PROVE  \E y \in (l \cup {b}) \cup f : Covers(y, n, i)
    BY <1>1 DEF Full
  <2>1. CASE n \in 1 .. k
    BY <1>1, <2>1 DEF Divided, Full
  <2>2. CASE n = k + 1
    <3>1. Covers(b, n, i)
      BY <1>0, <1>1, <1>2, <2>2 DEF Covers
    <3>2. QED
      BY <3>1
  <2>3. QED
    BY <2>1, <2>2
<1>9. QED
  BY <1>1, <1>3, <1>4, <1>6, <1>7, <1>8 DEF Divided

(* Or a live buffer and a free one.                                           *)
LEMMA NewPart ==
    ASSUME NEW l, NEW f, NEW bs, BlocksSound(bs), Divided(l, f, bs), NEW x, ~ x.strings, Aligned(x.size),
           NEW b, b.at = Start(bs), Aligned(b.size), b.size < x.size,
           NEW r, r.at = Plus(b.at, b.size), r.size = x.size - b.size
    PROVE  Divided(l \cup {b}, f \cup {r}, Append(bs, x)) /\ b \notin l /\ r \notin f
<1>1. PICK w : w = [at |-> b.at, size |-> x.size]
  OBVIOUS
<1>2. Divided(l \cup {w}, f, Append(bs, x)) /\ w \notin l
  BY <1>1, NewWhole
<1>3. x.size \in Nat \ {0}
  BY AlignedNat
<1>4. \A y \in l \cup f : y # w
  <2>1. Len(bs) \in Nat
    BY <1>3, MoreBlocks
  <2>2. \A y \in l \cup f : y.at[1] \in 1 .. Len(bs)
    BY DEF Divided, Piece, Inside
  <2>3. w.at[1] = Len(bs) + 1
    BY <1>1 DEF Start
  <2>4. QED
    BY <2>1, <2>2, <2>3
<1>5. (l \cup {w}) \ {w} = l /\ (f \cup {w}) \ {w} = f
  BY <1>4
<1>6. Divided(l, f \cup {w}, Append(bs, x))
  <2>0. PICK l2 : l2 = l \cup {w}
    OBVIOUS
  <2>1. l2 = l \cup {w} /\ w \in l2
    BY <2>0
  <2>2. Divided(l2 \ {w}, f \cup {w}, Append(bs, x))
    BY <1>2, <2>1, GiveBack
  <2>3. QED
    BY <1>5, <2>1, <2>2
<1>7. w \in f \cup {w} /\ b.at = w.at /\ b.size < w.size /\ r.at = Plus(w.at, b.size) /\ r.size = w.size - b.size
  BY <1>1
<1>8. Divided(l \cup {b}, ((f \cup {w}) \ {w}) \cup {r}, Append(bs, x)) /\ b \notin l /\ r \notin f \cup {w}
  BY <1>6, <1>7, TakePart
<1>9. QED
  BY <1>5, <1>8

-----------------------------------------------------------------------------
(* The lists of free buffers.                                                  *)

Buf(a, n) == [at |-> a, size |-> n]

(* A list of addresses per small size, and one of the big buffers.             *)
Lists(s, q) ==
    /\ s = [n \in 1 .. Top |-> s[n]]
    /\ \A n \in 1 .. Top : IsSeq(s[n]) /\ Once(s[n])
    /\ IsSeq(q) /\ Once(q)
    /\ \A c \in ToSet(q) : c = Buf(c.at, c.size) /\ c.size \in Nat /\ c.size > MaxSmall

SmallOf(s, n) == {Buf(a, n * Align) : a \in ToSet(s[n])}
FreeIn(s, q) == (UNION {SmallOf(s, n) : n \in DOMAIN s}) \cup ToSet(q)

(* The free buffers are what the lists hold.                                  *)
LEMMA FreeOfLists == \A h : FreeOf(h) = FreeIn(h.small, h.big)
BY DEF FreeOf, FreeIn, SmallOf, Buf

(* The size of a free buffer tells the list it is in.                          *)
LEMMA InLists ==
    ASSUME NEW s, NEW q, Lists(s, q)
    PROVE  /\ \A c : c \in FreeIn(s, q) <=>
                \/ c \in ToSet(q)
                \/ \E n \in 1 .. Top : \E a \in ToSet(s[n]) : c = Buf(a, n * Align)
           /\ \A n \in 1 .. Top : \A a : Buf(a, n * Align) \in FreeIn(s, q) <=> a \in ToSet(s[n])
           /\ \A c \in ToSet(q) : \A n \in 1 .. Top : \A a : c # Buf(a, n * Align)
<1>1. DOMAIN s = 1 .. Top
  BY DEF Lists
<1>2. \A c : c \in FreeIn(s, q) <=>
                \/ c \in ToSet(q)
                \/ \E n \in 1 .. Top : \E a \in ToSet(s[n]) : c = Buf(a, n * Align)
  <2>1. \A c : c \in FreeIn(s, q) <=> c \in ToSet(q) \/ \E n \in 1 .. Top : c \in SmallOf(s, n)
    BY <1>1 DEF FreeIn
  <2>2. \A c, n : c \in SmallOf(s, n) <=> \E a \in ToSet(s[n]) : c = Buf(a, n * Align)
    BY DEF SmallOf
  <2>3. QED
    BY <2>1, <2>2
<1>3. \A c \in ToSet(q) : \A n \in 1 .. Top : \A a : c # Buf(a, n * Align)
  <2> SUFFICES ASSUME NEW c \in ToSet(q), NEW n \in 1 .. Top, NEW a, c = Buf(a, n * Align)
               PROVE  FALSE
    OBVIOUS
  <2>1. c.size > MaxSmall /\ c.size = n * Align
    BY DEF Lists, Buf
  <2>2. n * Align <= MaxSmall /\ n * Align \in Nat /\ MaxSmall \in Nat
    BY AlignedList, AlignedNat, Constants
  <2>3. QED
    BY <2>1, <2>2
<1>4. ASSUME NEW n \in 1 .. Top, NEW a, Buf(a, n * Align) \in FreeIn(s, q)
      PROVE  a \in ToSet(s[n])
  <2>1. PICK m \in 1 .. Top : \E e \in ToSet(s[m]) : Buf(a, n * Align) = Buf(e, m * Align)
    BY <1>2, <1>3, <1>4
  <2>2. a \in ToSet(s[m]) /\ n * Align = m * Align
    BY <2>1 DEF Buf
  <2>3. n \in Int /\ m \in Int /\ Align \in Nat \ {0}
    BY Constants
  <2>4. n = m
    BY <2>2, <2>3, TimesDistinct
  <2>5. QED
    BY <2>1, <2>2, <2>4
<1>5. QED
  BY <1>2, <1>3, <1>4

(* A change of one list of small buffers.                                      *)
LEMMA SmallChange ==
    ASSUME NEW s, NEW q, Lists(s, q), NEW n \in 1 .. Top, NEW l, IsSeq(l), Once(l),
           NEW t, t = Put(s, n, l)
    PROVE  /\ Lists(t, q)
           /\ \A c : c \in FreeIn(t, q) <=>
                \/ \E a \in ToSet(l) : c = Buf(a, n * Align)
                \/ c \in FreeIn(s, q) /\ \A a : c # Buf(a, n * Align)
<1>2. t = [m \in 1 .. Top |-> IF m = n THEN l ELSE s[m]]
  BY DEF Lists, Put
<1>3. \A m \in 1 .. Top : t[m] = IF m = n THEN l ELSE s[m]
  BY <1>2
<1>4. Lists(t, q)
  <2>1. t = [m \in 1 .. Top |-> t[m]]
    BY <1>2
  <2>2. QED
    BY <1>3, <2>1 DEF Lists
<1>5. ASSUME NEW c PROVE c \in FreeIn(t, q) <=>
                    \/ \E a \in ToSet(l) : c = Buf(a, n * Align)
                    \/ c \in FreeIn(s, q) /\ \A a : c # Buf(a, n * Align)
  <2>1. c \in FreeIn(t, q) <=>
                \/ c \in ToSet(q)
                \/ \E m \in 1 .. Top : \E a \in ToSet(t[m]) : c = Buf(a, m * Align)
    BY <1>4, InLists
  <2>2. c \in FreeIn(s, q) <=>
                \/ c \in ToSet(q)
                \/ \E m \in 1 .. Top : \E a \in ToSet(s[m]) : c = Buf(a, m * Align)
    BY InLists
  <2>3. c \in ToSet(q) => \A a : c # Buf(a, n * Align)
    BY InLists
  <2>4. \A m \in 1 .. Top : m # n => \A a, e : Buf(a, m * Align) # Buf(e, n * Align)
    <3>1. n \in Int /\ Align \in Nat \ {0} /\ \A m \in 1 .. Top : m \in Int
      BY Constants
    <3>2. \A m \in 1 .. Top : m # n => m * Align # n * Align
      BY <3>1, TimesDistinct
    <3>3. QED
      BY <3>2 DEF Buf
  <2>5. CASE \E a : c = Buf(a, n * Align)
    <3>1. c \notin ToSet(q) /\ \A m \in 1 .. Top : m # n => \A a : c # Buf(a, m * Align)
      BY <2>3, <2>4, <2>5
    <3>2. QED
      BY <1>3, <2>1, <2>5, <3>1
  <2>6. CASE \A a : c # Buf(a, n * Align)
    <3>1. (\E m \in 1 .. Top : \E a \in ToSet(t[m]) : c = Buf(a, m * Align)) <=>
          (\E m \in 1 .. Top : \E a \in ToSet(s[m]) : c = Buf(a, m * Align))
      BY <1>3, <2>6
    <3>2. QED
      BY <2>1, <2>2, <2>6, <3>1
  <2>7. QED
    BY <2>5, <2>6
<1>6. QED
  BY <1>4, <1>5

LEMMA PopSmall ==
    ASSUME NEW s, NEW q, Lists(s, q), NEW n \in 1 .. Top, s[n] # << >>,
           NEW t, t = Put(s, n, Front(s[n])), NEW w, w = Buf(Last(s[n]), n * Align)
    PROVE  Lists(t, q) /\ w \in FreeIn(s, q) /\ FreeIn(t, q) = FreeIn(s, q) \ {w}
<1>1. IsSeq(s[n]) /\ Once(s[n])
  BY DEF Lists
<1>2. PICK l : l = Front(s[n]) /\ IsSeq(l) /\ Once(l) /\ ToSet(l) = ToSet(s[n]) \ {Last(s[n])} /\ Last(s[n]) \in ToSet(s[n])
  BY <1>1, FrontOnce
<1>3. t = Put(s, n, l)
  BY <1>2
<1>4. Lists(t, q) /\ \A c : c \in FreeIn(t, q) <=>
                    \/ \E a \in ToSet(l) : c = Buf(a, n * Align)
                    \/ c \in FreeIn(s, q) /\ \A a : c # Buf(a, n * Align)
  BY <1>2, <1>3, SmallChange
<1>5. w = Buf(Last(s[n]), n * Align)
  OBVIOUS
<1>6. w \in FreeIn(s, q)
  BY <1>2, <1>5, InLists
<1>7. \A a, e : Buf(a, n * Align) = Buf(e, n * Align) => a = e
  BY DEF Buf
<1>8. ASSUME NEW d PROVE d \in FreeIn(t, q) <=> d \in FreeIn(s, q) /\ d # w
  <2>1. CASE \E a : d = Buf(a, n * Align)
    <3>1. PICK a : d = Buf(a, n * Align)
      BY <2>1
    <3>2. d \in FreeIn(s, q) <=> a \in ToSet(s[n])
      BY <3>1, InLists
    <3>3. d \in FreeIn(t, q) <=> a \in ToSet(l)
      BY <1>4, <1>7, <3>1
    <3>4. d = w <=> a = Last(s[n])
      BY <1>5, <1>7, <3>1
    <3>5. QED
      BY <1>2, <3>2, <3>3, <3>4
  <2>2. CASE \A a : d # Buf(a, n * Align)
    BY <1>4, <1>5, <2>2
  <2>3. QED
    BY <2>1, <2>2
<1>9. FreeIn(t, q) = FreeIn(s, q) \ {w}
  BY <1>8
<1>10. QED
  BY <1>2, <1>3, <1>4, <1>5, <1>6, <1>9

LEMMA PutSmall ==
    ASSUME NEW s, NEW q, Lists(s, q), NEW n \in 1 .. Top, NEW a, NEW w, w = Buf(a, n * Align), w \notin FreeIn(s, q),
           NEW t, t = Put(s, n, Append(s[n], a))
    PROVE  Lists(t, q) /\ FreeIn(t, q) = FreeIn(s, q) \cup {w}
<1>0. Buf(a, n * Align) \notin FreeIn(s, q)
  OBVIOUS
<1>1. IsSeq(s[n]) /\ Once(s[n]) /\ a \notin ToSet(s[n])
  BY <1>0, InLists DEF Lists
<1>2. PICK l : l = Append(s[n], a) /\ IsSeq(l) /\ Once(l) /\ ToSet(l) = ToSet(s[n]) \cup {a}
  BY <1>1, AppendOnce
<1>3. t = Put(s, n, l)
  BY <1>2
<1>4. Lists(t, q) /\ \A c : c \in FreeIn(t, q) <=>
                    \/ \E e \in ToSet(l) : c = Buf(e, n * Align)
                    \/ c \in FreeIn(s, q) /\ \A e : c # Buf(e, n * Align)
  BY <1>2, <1>3, SmallChange
<1>7. \A d, e : Buf(d, n * Align) = Buf(e, n * Align) => d = e
  BY DEF Buf
<1>8. ASSUME NEW d PROVE d \in FreeIn(t, q) <=> d \in FreeIn(s, q) \/ d = Buf(a, n * Align)
  <2>1. CASE \E e : d = Buf(e, n * Align)
    <3>1. PICK e : d = Buf(e, n * Align)
      BY <2>1
    <3>2. d \in FreeIn(s, q) <=> e \in ToSet(s[n])
      BY <3>1, InLists
    <3>3. d \in FreeIn(t, q) <=> e \in ToSet(l)
      BY <1>4, <1>7, <3>1
    <3>5. QED
      BY <1>2, <1>7, <3>1, <3>2, <3>3
  <2>2. CASE \A e : d # Buf(e, n * Align)
    BY <1>4, <2>2
  <2>3. QED
    BY <2>1, <2>2
<1>9. FreeIn(t, q) = FreeIn(s, q) \cup {Buf(a, n * Align)}
  BY <1>8
<1>10. QED
  BY <1>2, <1>3, <1>4, <1>9

(* Big buffers.                                                                *)
IsBig(c) == c = Buf(c.at, c.size) /\ c.size \in Nat /\ c.size > MaxSmall

LEMMA BigChange ==
    ASSUME NEW s, NEW q, Lists(s, q), NEW l, IsSeq(l), Once(l), \A c \in ToSet(l) : IsBig(c)
    PROVE  Lists(s, l) /\ \A c : c \in FreeIn(s, l) <=> c \in ToSet(l) \/ c \in FreeIn(s, q) \ ToSet(q)
<1>1. Lists(s, l)
  BY DEF Lists, IsBig
<1>2. ASSUME NEW c PROVE c \in FreeIn(s, l) <=> c \in ToSet(l) \/ c \in FreeIn(s, q) \ ToSet(q)
  <2>1. c \in FreeIn(s, l) <=>
                \/ c \in ToSet(l)
                \/ \E n \in 1 .. Top : \E a \in ToSet(s[n]) : c = Buf(a, n * Align)
    BY <1>1, InLists
  <2>2. c \in FreeIn(s, q) <=>
                \/ c \in ToSet(q)
                \/ \E n \in 1 .. Top : \E a \in ToSet(s[n]) : c = Buf(a, n * Align)
    BY InLists
  <2>3. c \in ToSet(q) => ~ \E n \in 1 .. Top : \E a \in ToSet(s[n]) : c = Buf(a, n * Align)
    BY InLists
  <2>4. QED
    BY <2>1, <2>2, <2>3
<1>3. QED
  BY <1>1, <1>2

LEMMA BigIn == \A s, q : ToSet(q) \subseteq FreeIn(s, q)
BY DEF FreeIn

LEMMA DropBig ==
    ASSUME NEW s, NEW q, Lists(s, q), NEW i \in 1 .. Len(q)
    PROVE  /\ q[i] \in FreeIn(s, q) /\ IsBig(q[i])
           /\ Lists(s, RemoveAt(q, i)) /\ FreeIn(s, RemoveAt(q, i)) = FreeIn(s, q) \ {q[i]}
<1>1. IsSeq(q) /\ Once(q) /\ q[i] \in ToSet(q) /\ \A c \in ToSet(q) : IsBig(c)
  BY SetOf DEF Lists, IsBig
<1>2. PICK l : l = RemoveAt(q, i) /\ IsSeq(l) /\ Once(l) /\ ToSet(l) = ToSet(q) \ {q[i]}
  BY <1>1, RemoveOnce
<1>2a. \A c \in ToSet(l) : IsBig(c)
  BY <1>1, <1>2
<1>2b. IsSeq(l) /\ Once(l)
  BY <1>2
<1>3. Lists(s, l) /\ \A c : c \in FreeIn(s, l) <=> c \in ToSet(l) \/ c \in FreeIn(s, q) \ ToSet(q)
  BY <1>2a, <1>2b, BigChange
<1>4. FreeIn(s, l) = FreeIn(s, q) \ {q[i]}
  BY <1>1, <1>2, <1>3, BigIn
<1>5. QED
  BY <1>1, <1>2, <1>3, <1>4, BigIn

LEMMA CutBig ==
    ASSUME NEW s, NEW q, Lists(s, q), NEW i \in 1 .. Len(q), NEW x, IsBig(x), x \notin FreeIn(s, q),
           NEW p, p = Put(q, i, x)
    PROVE  Lists(s, p) /\ FreeIn(s, p) = (FreeIn(s, q) \ {q[i]}) \cup {x}
<1>1. IsSeq(q) /\ Once(q) /\ q[i] \in ToSet(q) /\ \A c \in ToSet(q) : IsBig(c)
  BY SetOf DEF Lists, IsBig
<1>1a. x \notin ToSet(q)
  BY BigIn
<1>1b. PICK l : l = Put(q, i, x)
  OBVIOUS
<1>2. IsSeq(l) /\ Once(l) /\ ToSet(l) = (ToSet(q) \ {q[i]}) \cup {x}
  BY <1>1, <1>1a, <1>1b, ReplaceOnce
<1>2a. \A c \in ToSet(l) : IsBig(c)
  BY <1>1, <1>2
<1>2b. IsSeq(l) /\ Once(l)
  BY <1>2
<1>3. Lists(s, l) /\ \A c : c \in FreeIn(s, l) <=> c \in ToSet(l) \/ c \in FreeIn(s, q) \ ToSet(q)
  BY <1>2a, <1>2b, BigChange
<1>4. FreeIn(s, l) = (FreeIn(s, q) \ {q[i]}) \cup {x}
  BY <1>1, <1>2, <1>3, BigIn
<1>5. QED
  BY <1>1b, <1>3, <1>4

Added(q, x) == Append(q, x)

LEMMA PutBig ==
    ASSUME NEW s, NEW q, Lists(s, q), NEW x, IsBig(x), x \notin FreeIn(s, q),
           NEW p, p = Added(q, x)
    PROVE  Lists(s, p) /\ FreeIn(s, p) = FreeIn(s, q) \cup {x}
<1>1. IsSeq(q) /\ Once(q) /\ \A c \in ToSet(q) : IsBig(c)
  BY SetOf DEF Lists, IsBig
<1>1a. x \notin ToSet(q)
  BY BigIn
<1>2. PICK l : l = Added(q, x) /\ IsSeq(l) /\ Once(l) /\ ToSet(l) = ToSet(q) \cup {x}
  BY <1>1, <1>1a, AppendOnce DEF Added
<1>2a. \A c \in ToSet(l) : IsBig(c)
  BY <1>1, <1>2
<1>2b. IsSeq(l) /\ Once(l)
  BY <1>2
<1>3. Lists(s, l) /\ \A c : c \in FreeIn(s, l) <=> c \in ToSet(l) \/ c \in FreeIn(s, q) \ ToSet(q)
  BY <1>2a, <1>2b, BigChange
<1>4. FreeIn(s, l) = FreeIn(s, q) \cup {x}
  BY <1>1, <1>2, <1>3, BigIn
<1>5. QED
  BY <1>2, <1>3, <1>4

-----------------------------------------------------------------------------
(* Sums of sizes.                                                              *)

LEMMA SumSizesType ==
    ASSUME NEW S, IsFiniteSet(S), \A b \in S : b.size \in Int
    PROVE  SumSizes(S) \in Int
<1>1. PICK f : f = [b \in S |-> b.size]
  OBVIOUS
<1>2. SumSizes(S) = SumFunctionOnSet(f, S)
  BY <1>1 DEF SumSizes, SumFunction
<1>3. QED
  BY <1>1, <1>2, SumType

(* The sizes in use grow by the new one.                                      *)
LEMMA SumSizesAdd ==
    ASSUME NEW S, IsFiniteSet(S), \A b \in S : b.size \in Int, NEW x, x \notin S, x.size \in Int
    PROVE  SumSizes(S \cup {x}) = SumSizes(S) + x.size
<1>1a. PICK T : T = S \cup {x}
  OBVIOUS
<1>1. T = S \cup {x} /\ IsFiniteSet(T) /\ x \in T /\ T \ {x} = S
  <2>1. IsFiniteSet(T)
    BY <1>1a, FS_AddElement
  <2>2. QED
    BY <1>1a, <2>1
<1>2. PICK f : f = [b \in T |-> b.size]
  OBVIOUS
<1>3. SumSizes(T) = SumFunctionOnSet(f, T) /\ \A b \in T : f[b] = b.size /\ f[b] \in Int
  BY <1>1, <1>2 DEF SumSizes, SumFunction
<1>4. SumFunctionOnSet(f, T) = f[x] + SumFunctionOnSet(f, S)
  BY <1>1, <1>3, SumRemove
<1>5. PICK g : g = [b \in S |-> b.size]
  OBVIOUS
<1>6. SumSizes(S) = SumFunctionOnSet(g, S) /\ \A b \in S : g[b] = b.size
  BY <1>5 DEF SumSizes, SumFunction
<1>7. SumFunctionOnSet(f, S) = SumFunctionOnSet(g, S)
  BY <1>1, <1>3, <1>6, SumAgree
<1>8. SumSizes(S) \in Int
  BY SumSizesType
<1>9. QED
  BY <1>1, <1>3, <1>4, <1>6, <1>7, <1>8

SumBlocks(bs) == SumFunction([n \in DOMAIN bs |-> bs[n].size])

LEMMA SumBlocksAppend ==
    ASSUME NEW bs, BlocksSound(bs), NEW x, x.size \in Nat
    PROVE  SumBlocks(bs) \in Int /\ SumBlocks(Append(bs, x)) = SumBlocks(bs) + x.size
<1>1. PICK k \in Nat : k = Len(bs) /\ DOMAIN bs = 1 .. k
  BY SetOf DEF BlocksSound
<1>2. PICK p : p = Append(bs, x) /\ More(bs, x, p) /\ BlocksSound(p)
  BY MoreOf, MoreBlocks
<1>3. Len(p) = k + 1 /\ DOMAIN p = 1 .. (k + 1) /\ p[k + 1] = x /\ \A n \in 1 .. k : p[n] = bs[n]
  BY <1>1, <1>2, SetOf DEF BlocksSound, More
<1>4. PICK f : f = [n \in 1 .. (k + 1) |-> p[n].size]
  OBVIOUS
<1>5. PICK g : g = [n \in 1 .. k |-> bs[n].size]
  OBVIOUS
<1>6. SumBlocks(p) = SumFunctionOnSet(f, 1 .. (k + 1)) /\ SumBlocks(bs) = SumFunctionOnSet(g, 1 .. k)
  BY <1>1, <1>3, <1>4, <1>5 DEF SumBlocks, SumFunction
<1>7. \A n \in 1 .. (k + 1) : f[n] \in Int
  BY <1>2, <1>3, <1>4 DEF BlocksSound
<1>8a. PICK U : U = 1 .. (k + 1)
  OBVIOUS
<1>8. IsFiniteSet(U) /\ IsFiniteSet(1 .. k) /\ k + 1 \in U /\ U \ {k + 1} = 1 .. k
  <2>1. IsFiniteSet(1 .. (k + 1)) /\ IsFiniteSet(1 .. k)
    BY FS_Interval
  <2>2. QED
    BY <1>8a, <2>1
<1>9. SumFunctionOnSet(f, 1 .. (k + 1)) = f[k + 1] + SumFunctionOnSet(f, 1 .. k)
  <2>1. \A n \in U : f[n] \in Int
    BY <1>7, <1>8a
  <2>2. SumFunctionOnSet(f, U) = f[k + 1] + SumFunctionOnSet(f, U \ {k + 1})
    BY <1>8, <2>1, SumRemove
  <2>3. QED
    BY <1>8, <1>8a, <2>2
<1>10. \A n \in 1 .. k : f[n] = g[n] /\ g[n] \in Int
  BY <1>1, <1>3, <1>4, <1>5 DEF BlocksSound
<1>11. SumFunctionOnSet(f, 1 .. k) = SumFunctionOnSet(g, 1 .. k) /\ SumFunctionOnSet(g, 1 .. k) \in Int
  BY <1>8, <1>10, SumAgree, SumType
<1>12. f[k + 1] = x.size
  BY <1>3, <1>4
<1>13. SumBlocks(p) = SumBlocks(bs) + x.size /\ SumBlocks(bs) \in Int
  BY <1>6, <1>9, <1>11, <1>12
<1>14. QED
  BY <1>2, <1>13

-----------------------------------------------------------------------------
(* The heap.                                                                   *)

HeapOf(bs, l, s, q, u, t) == [blocks |-> bs, live |-> l, small |-> s, big |-> q, used |-> u, total |-> t]
IsHeap(h) == h = HeapOf(h.blocks, h.live, h.small, h.big, h.used, h.total)
Buffer(b) == b = [at |-> b.at, size |-> b.size, obj |-> b.obj]

HeapInv(h) ==
    /\ IsHeap(h) /\ h.used \in Int
    /\ IsFiniteSet(h.live) /\ \A b \in h.live : Buffer(b)
    /\ Lists(h.small, h.big)
    /\ Divided(h.live, FreeIn(h.small, h.big), h.blocks)
    /\ BlocksSound(h.blocks)
    /\ h.total = SumBlocks(h.blocks) /\ h.total <= MaxTotal

(* What no operation of the heap changes: the blocks there are, and what       *)
(* _used_size counts besides the buffers of the heap.                          *)
Longer(bs, p) ==
    /\ Len(bs) \in Nat /\ Len(p) \in Nat /\ Len(bs) <= Len(p)
    /\ \A n \in 1 .. Len(bs) : p[n] = bs[n]
Kept(h, r) ==
    /\ Longer(h.blocks, r.blocks)
    /\ r.used - SumSizes(r.live) = h.used - SumSizes(h.live)

LEMMA LongerSame == \A bs : BlocksSound(bs) => Longer(bs, bs)
BY SetOf DEF BlocksSound, Longer

(* Nothing is lost over two changes either.                                   *)
LEMMA KeptTwice ==
    ASSUME NEW h, NEW m, NEW r, Kept(h, m), Kept(m, r)
    PROVE  Kept(h, r)
<1>1. PICK i \in Nat, j \in Nat, k \in Nat :
        i = Len(h.blocks) /\ j = Len(m.blocks) /\ k = Len(r.blocks) /\ i <= j /\ j <= k
  BY DEF Kept, Longer
<1>2. \A n \in 1 .. i : n \in 1 .. j
  BY <1>1
<1>3. QED
  BY <1>1, <1>2 DEF Kept, Longer

LEMMA HeapSizes ==
    ASSUME NEW h, HeapInv(h)
    PROVE  /\ \A b \in h.live : b.size \in Int /\ Aligned(b.size) /\ b.size \in Nat \ {0}
           /\ SumSizes(h.live) \in Int
<1>1. \A b \in h.live : Aligned(b.size) /\ b.size \in Nat \ {0} /\ b.size \in Int
  BY AlignedNat DEF HeapInv, Divided, Piece
<1>2. QED
  BY <1>1, SumSizesType DEF HeapInv

(* No two live buffers start at the same address.                              *)
LEMMA OneStarts ==
    ASSUME NEW h, HeapInv(h), NEW b \in h.live, NEW c \in h.live, b.at = c.at
    PROVE  b = c
<1>1. b.size \in Nat \ {0} /\ c.size \in Nat \ {0} /\ b.at[2] \in Nat
  BY PieceFacts DEF HeapInv, Divided
<1>2. ~ Apart(b, c)
  BY <1>1 DEF Apart
<1>3. QED
  BY <1>2 DEF HeapInv, Divided, Separate

(* One buffer more.                                                            *)
LEMMA HeapMore ==
    ASSUME NEW h, HeapInv(h), NEW b, Buffer(b), Aligned(b.size), b \notin h.live,
           NEW s, NEW q, Lists(s, q), NEW bs, BlocksSound(bs), Longer(h.blocks, bs),
           Divided(h.live \cup {b}, FreeIn(s, q), bs),
           SumBlocks(bs) <= MaxTotal,
           NEW r, IsHeap(r), r.blocks = bs, r.live = h.live \cup {b}, r.small = s, r.big = q,
           r.used = h.used + b.size, r.total = SumBlocks(bs)
    PROVE  HeapInv(r) /\ Kept(h, r) /\ r.live = h.live \cup {b}
<1>1. /\ r.blocks = bs /\ r.live = h.live \cup {b} /\ r.small = s /\ r.big = q
      /\ r.used = h.used + b.size /\ r.total = SumBlocks(bs)
  OBVIOUS
<1>2. b.size \in Int /\ h.used \in Int
  BY AlignedNat DEF HeapInv
<1>3. IsFiniteSet(h.live) /\ IsFiniteSet(h.live \cup {b})
  BY FS_AddElement DEF HeapInv
<1>4. SumSizes(h.live \cup {b}) = SumSizes(h.live) + b.size /\ SumSizes(h.live) \in Int
  BY <1>2, <1>3, HeapSizes, SumSizesAdd
<1>5. Kept(h, r)
  <2>1. (h.used + b.size) - (SumSizes(h.live) + b.size) = h.used - SumSizes(h.live)
    BY <1>2, <1>4
  <2>2. QED
    BY <1>1, <1>4, <2>1 DEF Kept
<1>6. IsHeap(r)
  OBVIOUS
<1>7. \A c \in r.live : Buffer(c)
  BY <1>1 DEF HeapInv
<1>8. HeapInv(r)
  BY <1>1, <1>2, <1>3, <1>6, <1>7 DEF HeapInv
<1>9. QED
  BY <1>1, <1>5, <1>8

(* One buffer less.                                                            *)
LEMMA HeapLess ==
    ASSUME NEW h, HeapInv(h), NEW b \in h.live,
           NEW s, NEW q, Lists(s, q),
           Divided(h.live \ {b}, FreeIn(s, q), h.blocks),
           NEW r, IsHeap(r), r.blocks = h.blocks, r.live = h.live \ {b}, r.small = s, r.big = q,
           r.used = h.used - b.size, r.total = h.total
    PROVE  HeapInv(r) /\ Kept(h, r) /\ r.live = h.live \ {b}
<1>1. /\ r.blocks = h.blocks /\ r.live = h.live \ {b} /\ r.small = s /\ r.big = q
      /\ r.used = h.used - b.size /\ r.total = h.total
  OBVIOUS
<1>2. b.size \in Int /\ h.used \in Int /\ SumSizes(h.live) \in Int
  BY HeapSizes DEF HeapInv
<1>3. IsFiniteSet(h.live) /\ IsFiniteSet(h.live \ {b})
  BY FS_RemoveElement DEF HeapInv
<1>4. SumSizes(h.live) = SumSizes(h.live \ {b}) + b.size /\ SumSizes(h.live \ {b}) \in Int
  <2>1. PICK S : S = h.live \ {b} /\ S \cup {b} = h.live /\ b \notin S
    OBVIOUS
  <2>2. \A c \in S : c.size \in Int
    BY <2>1, HeapSizes
  <2>3. SumSizes(S \cup {b}) = SumSizes(S) + b.size /\ SumSizes(S) \in Int
    BY <1>2, <1>3, <2>1, <2>2, SumSizesAdd, SumSizesType
  <2>4. QED
    BY <2>1, <2>3
<1>5. Kept(h, r)
  <2>1. (h.used - b.size) - SumSizes(h.live \ {b}) = h.used - SumSizes(h.live)
    BY <1>2, <1>4
  <2>2. QED
    BY <1>1, <2>1, LongerSame DEF Kept, HeapInv
<1>6. IsHeap(r)
  OBVIOUS
<1>7. \A c \in r.live : Buffer(c)
  BY <1>1 DEF HeapInv
<1>7a. h.used - b.size \in Int
  BY <1>2
<1>8. HeapInv(r)
  BY <1>1, <1>3, <1>6, <1>7, <1>7a DEF HeapInv
<1>9. QED
  BY <1>1, <1>5, <1>8

-----------------------------------------------------------------------------
(* What the operations do with the heap.                                       *)

LEMMA HeapFields ==
    \A bs, l, s, q, u, t :
        LET h == HeapOf(bs, l, s, q, u, t)
        IN  /\ IsHeap(h)
            /\ h.blocks = bs /\ h.live = l /\ h.small = s /\ h.big = q /\ h.used = u /\ h.total = t
BY DEF HeapOf, IsHeap

(* One field of the heap at a time.                                            *)
SetBlocks(h, x) == [h EXCEPT !.blocks = x]
SetLive(h, x) == [h EXCEPT !.live = x]
SetSmall(h, x) == [h EXCEPT !.small = x]
SetBig(h, x) == [h EXCEPT !.big = x]
SetUsed(h, x) == [h EXCEPT !.used = x]
SetTotal(h, x) == [h EXCEPT !.total = x]

LEMMA HeapPut == \A bs, l, s, q, u, t, x :
    /\ SetBlocks(HeapOf(bs, l, s, q, u, t), x) = HeapOf(x, l, s, q, u, t)
    /\ SetLive(HeapOf(bs, l, s, q, u, t), x) = HeapOf(bs, x, s, q, u, t)
    /\ SetSmall(HeapOf(bs, l, s, q, u, t), x) = HeapOf(bs, l, x, q, u, t)
    /\ SetBig(HeapOf(bs, l, s, q, u, t), x) = HeapOf(bs, l, s, x, u, t)
    /\ SetUsed(HeapOf(bs, l, s, q, u, t), x) = HeapOf(bs, l, s, q, x, t)
    /\ SetTotal(HeapOf(bs, l, s, q, u, t), x) = HeapOf(bs, l, s, q, u, x)
BY DEF HeapOf, SetBlocks, SetLive, SetSmall, SetBig, SetUsed, SetTotal

LEMMA HeapSets ==
    ASSUME NEW h, IsHeap(h)
    PROVE  /\ \A x, y : SetUsed(SetLive(h, x), y) = HeapOf(h.blocks, x, h.small, h.big, y, h.total)
           /\ \A x, y : SetTotal(SetBlocks(h, x), y) = HeapOf(x, h.live, h.small, h.big, h.used, y)
           /\ \A x, y : SetSmall(SetBig(h, x), y) = HeapOf(h.blocks, h.live, y, x, h.used, h.total)
<1>1. PICK bs, l, s, q, u, t : h = HeapOf(bs, l, s, q, u, t)
  BY DEF IsHeap
<1>2. h.blocks = bs /\ h.live = l /\ h.small = s /\ h.big = q /\ h.used = u /\ h.total = t
  BY <1>1, HeapFields
<1>3. QED
  BY <1>1, <1>2, HeapPut

LEMMA HeapExcept ==
    ASSUME NEW h, IsHeap(h)
    PROVE  /\ \A x : [h EXCEPT !.small = x] = HeapOf(h.blocks, h.live, x, h.big, h.used, h.total)
           /\ \A x : [h EXCEPT !.big = x] = HeapOf(h.blocks, h.live, h.small, x, h.used, h.total)
           /\ \A x, y : [h EXCEPT !.live = x, !.used = y] = HeapOf(h.blocks, x, h.small, h.big, y, h.total)
           /\ \A x, y : [h EXCEPT !.blocks = x, !.total = y] = HeapOf(x, h.live, h.small, h.big, h.used, y)
           /\ \A x, y : [h EXCEPT !.big = x, !.small = y] = HeapOf(h.blocks, h.live, y, x, h.used, h.total)
<1>1. PICK bs, l, s, q, u, t : h = HeapOf(bs, l, s, q, u, t)
  BY DEF IsHeap
<1>2. h.blocks = bs /\ h.live = l /\ h.small = s /\ h.big = q /\ h.used = u /\ h.total = t
  BY <1>1, HeapFields
<1>3. \A x : [h EXCEPT !.small = x] = HeapOf(h.blocks, h.live, x, h.big, h.used, h.total)
  <2>1. \A x : SetSmall(h, x) = HeapOf(h.blocks, h.live, x, h.big, h.used, h.total)
    BY <1>1, <1>2, HeapPut
  <2>2. QED
    BY <2>1 DEF SetSmall
<1>4. \A x : [h EXCEPT !.big = x] = HeapOf(h.blocks, h.live, h.small, x, h.used, h.total)
  <2>1. \A x : SetBig(h, x) = HeapOf(h.blocks, h.live, h.small, x, h.used, h.total)
    BY <1>1, <1>2, HeapPut
  <2>2. QED
    BY <2>1 DEF SetBig
<1>5. \A x, y : [h EXCEPT !.live = x, !.used = y] = HeapOf(h.blocks, x, h.small, h.big, y, h.total)
  <2>1. \A x, y : SetUsed(SetLive(h, x), y) = HeapOf(h.blocks, x, h.small, h.big, y, h.total)
    BY <1>1, <1>2, HeapPut
  <2>2. \A x, y : [h EXCEPT !.live = x, !.used = y] = SetUsed(SetLive(h, x), y)
    BY DEF SetLive, SetUsed
  <2>3. QED
    BY <2>1, <2>2, Zenon
<1>6. \A x, y : [h EXCEPT !.blocks = x, !.total = y] = HeapOf(x, h.live, h.small, h.big, h.used, y)
  <2>1. \A x, y : SetTotal(SetBlocks(h, x), y) = HeapOf(x, h.live, h.small, h.big, h.used, y)
    BY <1>1, <1>2, HeapPut
  <2>2. \A x, y : [h EXCEPT !.blocks = x, !.total = y] = SetTotal(SetBlocks(h, x), y)
    BY DEF SetBlocks, SetTotal
  <2>3. QED
    BY <2>1, <2>2, Zenon
<1>7. \A x, y : [h EXCEPT !.big = x, !.small = y] = HeapOf(h.blocks, h.live, y, x, h.used, h.total)
  <2>1. \A x, y : SetSmall(SetBig(h, x), y) = HeapOf(h.blocks, h.live, y, x, h.used, h.total)
    BY <1>1, <1>2, HeapPut
  <2>2. \A x, y : [h EXCEPT !.big = x, !.small = y] = SetSmall(SetBig(h, x), y)
    BY DEF SetBig, SetSmall
  <2>3. QED
    BY <2>1, <2>2, Zenon
<1>8. QED
  BY <1>3, <1>4, <1>5, <1>6, <1>7

(* The free buffers with one more.                                             *)
EmptyMore(g, r, x) ==
    \E s, q : /\ r = HeapOf(g.blocks, g.live, s, q, g.used, g.total)
              /\ Lists(s, q) /\ FreeIn(s, q) = FreeIn(g.small, g.big) \cup {x}

LEMMA InsertEmpty ==
    ASSUME NEW g, IsHeap(g), Lists(g.small, g.big), NEW at, NEW size, Aligned(size),
           Buf(at, size) \notin FreeIn(g.small, g.big)
    PROVE  EmptyMore(g, InsertEmptyBuffer(g, at, size), Buf(at, size))
<1>1. size \in Nat \ {0} /\ size % Align = 0 /\ MaxSmall \in Nat
  BY AlignedNat, Constants
<1>2. CASE size > MaxSmall
  <2>1. InsertEmptyBuffer(g, at, size) = [g EXCEPT !.big = Append(g.big, Buf(at, size))]
    BY <1>1, <1>2 DEF InsertEmptyBuffer, Buf
  <2>2. IsBig(Buf(at, size))
    BY <1>1, <1>2 DEF IsBig, Buf
  <2>2a. PICK x : x = Buf(at, size)
    OBVIOUS
  <2>2b. PICK q : q = Added(g.big, x)
    OBVIOUS
  <2>2c. IsBig(x) /\ x \notin FreeIn(g.small, g.big)
    BY <2>2, <2>2a
  <2>3. Lists(g.small, q) /\ FreeIn(g.small, q) = FreeIn(g.small, g.big) \cup {x}
    BY <2>2b, <2>2c, PutBig
  <2>4. InsertEmptyBuffer(g, at, size) = HeapOf(g.blocks, g.live, g.small, q, g.used, g.total)
    BY <2>1, <2>2a, <2>2b, HeapExcept DEF Added
  <2>5. QED
    BY <2>2a, <2>3, <2>4 DEF EmptyMore
<1>3. CASE size <= MaxSmall
  <2>1. PICK n \in 1 .. Top : n = size \div Align /\ size = n * Align
    BY <1>3, AlignedNat
  <2>1a. PICK x : x = Buf(at, size) /\ x = Buf(at, n * Align)
    BY <2>1
  <2>1b. PICK s : s = Put(g.small, n, Append(g.small[n], at))
    OBVIOUS
  <2>2. Lists(s, g.big) /\ FreeIn(s, g.big) = FreeIn(g.small, g.big) \cup {x}
    BY <2>1a, <2>1b, PutSmall
  <2>3. InsertEmptyBuffer(g, at, size) = [g EXCEPT !.small[n] = Append(@, at)]
    BY <1>1, <1>3, <2>1 DEF InsertEmptyBuffer
  <2>4. [g EXCEPT !.small[n] = Append(@, at)] = [g EXCEPT !.small = Put(g.small, n, Append(g.small[n], at))]
    BY DEF Put, IsHeap, HeapOf
  <2>5. InsertEmptyBuffer(g, at, size) = HeapOf(g.blocks, g.live, s, g.big, g.used, g.total)
    BY <2>1b, <2>3, <2>4, HeapExcept
  <2>6. QED
    BY <2>1a, <2>2, <2>5 DEF EmptyMore
<1>4. QED
  BY <1>1, <1>2, <1>3

New(at, size, obj) == [at |-> at, size |-> size, obj |-> obj]

LEMMA NewFields == \A at, size, obj :
    /\ Buffer(New(at, size, obj))
    /\ New(at, size, obj).at = at /\ New(at, size, obj).size = size /\ New(at, size, obj).obj = obj
BY DEF Buffer, New

LEMMA InsertMalloced ==
    ASSUME NEW g, IsHeap(g), NEW at, NEW size, NEW obj
    PROVE  InsertMallocedBuffer(g, at, size, obj) =
             HeapOf(g.blocks, g.live \cup {New(at, size, obj)}, g.small, g.big, g.used + size, g.total)
BY HeapExcept DEF InsertMallocedBuffer, New

LEMMA MallocedFields ==
    ASSUME NEW g, IsHeap(g), NEW at, NEW size, NEW obj, NEW r, r = InsertMallocedBuffer(g, at, size, obj)
    PROVE  /\ IsHeap(r) /\ r.blocks = g.blocks /\ r.live = g.live \cup {New(at, size, obj)}
           /\ r.small = g.small /\ r.big = g.big /\ r.used = g.used + size /\ r.total = g.total
<1>1. PICK u, l : u = g.used + size /\ l = g.live \cup {New(at, size, obj)}
  OBVIOUS
<1>2. r = HeapOf(g.blocks, l, g.small, g.big, u, g.total)
  BY <1>1, InsertMalloced
<1>3. /\ IsHeap(r) /\ r.blocks = g.blocks /\ r.live = l
      /\ r.small = g.small /\ r.big = g.big /\ r.used = u /\ r.total = g.total
  BY <1>2 DEF HeapOf, IsHeap
<1>4. QED
  BY <1>1, <1>3

(* What gc_malloc returns: the heap has the new buffer.                        *)
Malloced(h, at, r, size, obj) ==
    /\ HeapInv(r) /\ Kept(h, r) /\ at # Null
    /\ New(at, size, obj) \notin h.live
    /\ r.live = h.live \cup {New(at, size, obj)}

(* A live buffer lies in a block of the heap.                                 *)
LEMMA LiveAt ==
    ASSUME NEW h, HeapInv(h), NEW b \in h.live
    PROVE  /\ b.at # Null /\ b.at = <<b.at[1], b.at[2]>> /\ b.at[1] \in 1 .. Len(h.blocks) /\ b.at[2] \in Nat
           /\ b.size \in Nat \ {0} /\ Aligned(b.size) /\ ~ h.blocks[b.at[1]].strings
           /\ h.blocks[b.at[1]].size \in Nat /\ b.at[2] + b.size <= h.blocks[b.at[1]].size
<1>1. Piece(b, h.blocks) /\ b.size \in Nat \ {0}
  BY PieceFacts DEF HeapInv, Divided
<1>2. Len(h.blocks) \in Nat
  BY SetOf DEF HeapInv, BlocksSound
<1>3. b.at = <<b.at[1], b.at[2]>> /\ b.at[1] \in 1 .. Len(h.blocks)
  BY <1>1 DEF Piece, Inside
<1>4. b.at # Null
  BY <1>2, <1>3 DEF Null
<1>5. QED
  BY <1>1, <1>3, <1>4 DEF Piece, Inside

(* From a list of small buffers.                                               *)
LEMMA FromSmallSound ==
    ASSUME NEW h, HeapInv(h), NEW size, Aligned(size), size <= MaxSmall,
           h.small[size \div Align] # << >>, NEW obj
    PROVE  Malloced(h, FromSmall(h, size, obj).at, FromSmall(h, size, obj).h, size, obj)
<1>1. PICK n \in 1 .. Top : n = size \div Align /\ size = n * Align
  BY AlignedNat
<1>2. IsHeap(h) /\ Lists(h.small, h.big) /\ Divided(h.live, FreeIn(h.small, h.big), h.blocks)
  BY DEF HeapInv
<1>3. PICK a : a = Last(h.small[n])
  OBVIOUS
<1>3a. PICK w : w = Buf(a, size)
  OBVIOUS
<1>3b. w = Buf(Last(h.small[n]), n * Align) /\ h.small[n] # << >>
  BY <1>1, <1>3, <1>3a
<1>3c. PICK s : s = Put(h.small, n, Front(h.small[n]))
  OBVIOUS
<1>4. Lists(s, h.big) /\ w \in FreeIn(h.small, h.big) /\ FreeIn(s, h.big) = FreeIn(h.small, h.big) \ {w}
  BY <1>2, <1>3b, <1>3c, PopSmall
<1>5. PICK b : b = New(a, size, obj) /\ Buffer(b) /\ b.at = a /\ b.size = size
  BY NewFields
<1>6. w.at = a /\ w.size = size
  BY <1>3a DEF Buf
<1>7. Divided(h.live \cup {b}, FreeIn(s, h.big), h.blocks) /\ b \notin h.live
  BY <1>2, <1>4, <1>5, <1>6, TakeWhole
<1>8. PICK g : g = HeapOf(h.blocks, h.live, s, h.big, h.used, h.total)
  OBVIOUS
<1>8a. /\ IsHeap(g) /\ g.blocks = h.blocks /\ g.live = h.live /\ g.small = s /\ g.big = h.big
       /\ g.used = h.used /\ g.total = h.total
  BY <1>8, HeapFields
<1>8b. PICK r : r = InsertMallocedBuffer(g, a, size, obj)
  OBVIOUS
<1>8c. /\ IsHeap(r) /\ r.blocks = h.blocks /\ r.live = h.live \cup {b} /\ r.small = s /\ r.big = h.big
       /\ r.used = h.used + b.size /\ r.total = h.total
  BY <1>5, <1>8a, <1>8b, MallocedFields
<1>9. HeapInv(r) /\ Kept(h, r) /\ r.live = h.live \cup {b}
  <2>1. BlocksSound(h.blocks) /\ Longer(h.blocks, h.blocks) /\ h.total = SumBlocks(h.blocks) /\ SumBlocks(h.blocks) <= MaxTotal
    BY LongerSame DEF HeapInv
  <2>2. Buffer(b) /\ Aligned(b.size) /\ b \notin h.live /\ Lists(s, h.big)
    BY <1>4, <1>5, <1>7
  <2>3. QED
    BY <1>7, <1>8c, <2>1, <2>2, HeapMore
<1>10. FromSmall(h, size, obj).at = a /\ FromSmall(h, size, obj).h = r
  <2>2. [h EXCEPT !.small[n] = Front(@)] = [h EXCEPT !.small = Put(h.small, n, Front(h.small[n]))]
    BY <1>2 DEF Put, IsHeap, HeapOf
  <2>3. [h EXCEPT !.small[n] = Front(@)] = g
    BY <1>2, <1>3c, <1>8, <2>2, HeapExcept
  <2>4. FromSmall(h, size, obj) = [at |-> a, h |-> InsertMallocedBuffer(g, a, size, obj)]
    BY <1>1, <1>3, <2>3 DEF FromSmall
  <2>6. QED
    BY <1>8b, <2>4
<1>11. a # Null
  BY <1>5, <1>9, LiveAt
<1>12. QED
  BY <1>5, <1>7, <1>9, <1>10, <1>11 DEF Malloced

(* Once the free buffers are divided, the new one is registered.               *)
LEMMA Registered ==
    ASSUME NEW h, HeapInv(h), NEW g, IsHeap(g), g.blocks = h.blocks, g.live = h.live, g.used = h.used,
           g.total = h.total, Lists(g.small, g.big), NEW at, NEW size, Aligned(size), NEW obj,
           NEW b, b = New(at, size, obj), b \notin h.live,
           Divided(h.live \cup {b}, FreeIn(g.small, g.big), h.blocks),
           NEW r, r = InsertMallocedBuffer(g, at, size, obj)
    PROVE  Malloced(h, at, r, size, obj)
<1>1. Buffer(b) /\ b.at = at /\ b.size = size
  BY NewFields
<1>2. /\ IsHeap(r) /\ r.blocks = h.blocks /\ r.live = h.live \cup {b} /\ r.small = g.small /\ r.big = g.big
      /\ r.used = h.used + b.size /\ r.total = h.total
  BY <1>1, MallocedFields
<1>3. BlocksSound(h.blocks) /\ Longer(h.blocks, h.blocks) /\ h.total = SumBlocks(h.blocks) /\ SumBlocks(h.blocks) <= MaxTotal
  BY LongerSame DEF HeapInv
<1>4. HeapInv(r) /\ Kept(h, r) /\ r.live = h.live \cup {b}
  BY <1>1, <1>2, <1>3, HeapMore
<1>5. at # Null
  BY <1>1, <1>4, LiveAt
<1>6. QED
  BY <1>4, <1>5 DEF Malloced

LEMMA HeapIs == \A g, bs, l, s, q, u, t : g = HeapOf(bs, l, s, q, u, t) =>
    /\ IsHeap(g) /\ g.blocks = bs /\ g.live = l /\ g.small = s /\ g.big = q /\ g.used = u /\ g.total = t
BY DEF HeapOf, IsHeap

(* From a big buffer, whose rest stays free.                                   *)
Cut(h, i, x) ==
    IF x.size <= MaxSmall
    THEN [h EXCEPT !.big = RemoveAt(@, i), !.small[x.size \div Align] = Append(@, x.at)]
    ELSE [h EXCEPT !.big[i] = x]

Rest(c, size) == Buf(Plus(c.at, size), c.size - size)
CutDone(h, g, b) ==
    /\ IsHeap(g) /\ g.blocks = h.blocks /\ g.live = h.live /\ g.used = h.used /\ g.total = h.total
    /\ Lists(g.small, g.big) /\ b \notin h.live
    /\ Divided(h.live \cup {b}, FreeIn(g.small, g.big), h.blocks)

(* A part of a big buffer is cut off; the rest stays or becomes a small one.  *)
LEMMA CutSound ==
    ASSUME NEW h, HeapInv(h), NEW i \in 1 .. Len(h.big), NEW size, Aligned(size), size < h.big[i].size, NEW obj
    PROVE  CutDone(h, Cut(h, i, Rest(h.big[i], size)), New(h.big[i].at, size, obj))
<1>0a. PICK c : c = h.big[i] /\ size < c.size
  OBVIOUS
<1>0b. PICK x : x = Rest(c, size)
  OBVIOUS
<1>0c. PICK g : g = Cut(h, i, x)
  OBVIOUS
<1>0d. PICK b : b = New(c.at, size, obj)
  OBVIOUS
<1>1. IsHeap(h) /\ Lists(h.small, h.big) /\ Divided(h.live, FreeIn(h.small, h.big), h.blocks)
  BY DEF HeapInv
<1>2. PICK q : q = RemoveAt(h.big, i)
  OBVIOUS
<1>3. /\ c \in FreeIn(h.small, h.big) /\ IsBig(c) /\ Lists(h.small, q)
      /\ FreeIn(h.small, q) = FreeIn(h.small, h.big) \ {c}
  BY <1>0a, <1>1, <1>2, DropBig
<1>4. b.at = c.at /\ b.size = size
  BY <1>0d, NewFields
<1>5. x.at = Plus(c.at, b.size) /\ x.size = c.size - b.size /\ x = Buf(x.at, x.size)
  BY <1>0b, <1>4 DEF Buf, Rest
<1>6. /\ Divided(h.live \cup {b}, (FreeIn(h.small, h.big) \ {c}) \cup {x}, h.blocks)
      /\ b \notin h.live /\ x \notin FreeIn(h.small, h.big)
  BY <1>0a, <1>1, <1>3, <1>4, <1>5, TakePart
<1>7. Aligned(x.size) /\ x.size \in Nat /\ MaxSmall \in Nat
  BY <1>6, AlignedNat, Constants DEF Divided, Piece
<1>8. CASE x.size <= MaxSmall
  <2>1. PICK n \in 1 .. Top : n = x.size \div Align /\ x.size = n * Align
    BY <1>7, <1>8, AlignedNat
  <2>2. x = Buf(x.at, n * Align) /\ x \notin FreeIn(h.small, q)
    BY <1>3, <1>5, <1>6, <2>1
  <2>3. PICK s : s = Put(h.small, n, Append(h.small[n], x.at))
    OBVIOUS
  <2>4. Lists(s, q) /\ FreeIn(s, q) = FreeIn(h.small, q) \cup {x}
    BY <1>3, <2>2, <2>3, PutSmall
  <2>5. SetSmall(SetBig(h, q), s) = HeapOf(h.blocks, h.live, s, q, h.used, h.total)
    BY <1>1, HeapSets
  <2>6. g = HeapOf(h.blocks, h.live, s, q, h.used, h.total)
    <3>1. g = [h EXCEPT !.big = RemoveAt(@, i), !.small[n] = Append(@, x.at)]
      BY <1>0c, <1>8, <2>1 DEF Cut
    <3>2. [h EXCEPT !.big = RemoveAt(@, i), !.small[n] = Append(@, x.at)] = SetSmall(SetBig(h, q), s)
      BY <1>1, <1>2, <2>3 DEF Put, SetSmall, SetBig, IsHeap, HeapOf
    <3>3. QED
      BY <2>5, <3>1, <3>2, Zenon
  <2>7. IsHeap(g) /\ g.blocks = h.blocks /\ g.live = h.live /\ g.used = h.used /\ g.total = h.total /\ g.small = s /\ g.big = q
    BY <2>6, HeapIs
  <2>8. CutDone(h, g, b)
    BY <1>3, <1>6, <2>4, <2>7 DEF CutDone
  <2>9. QED
    BY <1>0a, <1>0b, <1>0c, <1>0d, <2>8
<1>9. CASE ~ (x.size <= MaxSmall)
  <2>1. IsBig(x)
    BY <1>5, <1>7, <1>9 DEF IsBig
  <2>2. PICK p : p = Put(h.big, i, x)
    OBVIOUS
  <2>3. Lists(h.small, p) /\ FreeIn(h.small, p) = (FreeIn(h.small, h.big) \ {c}) \cup {x}
    BY <1>0a, <1>1, <1>6, <2>1, <2>2, CutBig
  <2>4. [h EXCEPT !.big[i] = x] = [h EXCEPT !.big = p]
    BY <1>1, <2>2 DEF Put, IsHeap, HeapOf
  <2>5. g = HeapOf(h.blocks, h.live, h.small, p, h.used, h.total)
    <3>1. g = [h EXCEPT !.big = p]
      BY <1>0c, <1>9, <2>4 DEF Cut
    <3>2. QED
      BY <1>1, <3>1, HeapExcept
  <2>6. IsHeap(g) /\ g.blocks = h.blocks /\ g.live = h.live /\ g.used = h.used /\ g.total = h.total /\ g.small = h.small /\ g.big = p
    BY <2>5, HeapIs
  <2>7. CutDone(h, g, b)
    BY <1>6, <2>3, <2>6 DEF CutDone
  <2>8. QED
    BY <1>0a, <1>0b, <1>0c, <1>0d, <2>7
<1>10. QED
  BY <1>8, <1>9

(* A buffer comes out of the list of big ones.                                *)
LEMMA FromBigSound ==
    ASSUME NEW h, HeapInv(h), NEW i \in 1 .. Len(h.big), NEW size, Aligned(size), size <= h.big[i].size, NEW obj
    PROVE  Malloced(h, FromBig(h, i, size, obj).at, FromBig(h, i, size, obj).h, size, obj)
<1>1. IsHeap(h) /\ Lists(h.small, h.big) /\ Divided(h.live, FreeIn(h.small, h.big), h.blocks)
  BY DEF HeapInv
<1>2. PICK c : c = h.big[i]
  OBVIOUS
<1>3. PICK q : q = RemoveAt(h.big, i)
  OBVIOUS
<1>4. /\ c \in FreeIn(h.small, h.big) /\ IsBig(c) /\ Lists(h.small, q)
      /\ FreeIn(h.small, q) = FreeIn(h.small, h.big) \ {c}
  BY <1>1, <1>2, <1>3, DropBig
<1>5. c.size \in Nat /\ size \in Nat \ {0} /\ size <= c.size /\ MaxSmall \in Nat
  BY <1>2, <1>4, AlignedNat, Constants DEF IsBig
<1>6. PICK b : b = New(c.at, size, obj)
  OBVIOUS
<1>7. PICK x : x = Rest(c, size)
  OBVIOUS
<1>8. x.size = c.size - size /\ x.at = Plus(c.at, size) /\ x = [at |-> Plus(c.at, size), size |-> c.size - size]
  BY <1>7 DEF Buf, Rest
<1>9. CASE size = c.size
  <2>1. PICK g : g = HeapOf(h.blocks, h.live, h.small, q, h.used, h.total)
    OBVIOUS
  <2>2. IsHeap(g) /\ g.blocks = h.blocks /\ g.live = h.live /\ g.used = h.used /\ g.total = h.total /\ g.small = h.small /\ g.big = q
    BY <2>1, HeapIs
  <2>3. b.at = c.at /\ b.size = c.size
    BY <1>6, <1>9, NewFields
  <2>4. Divided(h.live \cup {b}, FreeIn(h.small, q), h.blocks) /\ b \notin h.live
    <3>1. Divided(h.live \cup {b}, FreeIn(h.small, h.big) \ {c}, h.blocks) /\ b \notin h.live
      BY <1>1, <1>4, <2>3, TakeWhole
    <3>2. QED
      BY <1>4, <3>1
  <2>5. PICK r : r = InsertMallocedBuffer(g, c.at, size, obj)
    OBVIOUS
  <2>6. Malloced(h, c.at, r, size, obj)
    BY <1>4, <1>6, <2>2, <2>4, <2>5, Registered
  <2>7. [h EXCEPT !.big = RemoveAt(@, i)] = g
    BY <1>1, <1>3, <2>1, HeapExcept
  <2>8. x.size = 0
    BY <1>5, <1>8, <1>9
  <2>9. FromBig(h, i, size, obj) = [at |-> c.at, h |-> r]
    BY <1>2, <1>8, <2>5, <2>7, <2>8 DEF FromBig
  <2>10. QED
    BY <2>6, <2>9
<1>10. CASE size < c.size
  <2>1. PICK g : g = Cut(h, i, x)
    OBVIOUS
  <2>2. /\ IsHeap(g) /\ g.blocks = h.blocks /\ g.live = h.live /\ g.used = h.used /\ g.total = h.total
        /\ Lists(g.small, g.big) /\ b \notin h.live
        /\ Divided(h.live \cup {b}, FreeIn(g.small, g.big), h.blocks)
    <3>1. CutDone(h, Cut(h, i, Rest(h.big[i], size)), New(h.big[i].at, size, obj))
      BY <1>2, <1>10, CutSound
    <3>2. CutDone(h, g, b)
      BY <1>2, <1>6, <1>7, <2>1, <3>1
    <3>3. QED
      BY <3>2 DEF CutDone
  <2>3. PICK r : r = InsertMallocedBuffer(g, c.at, size, obj)
    OBVIOUS
  <2>4. Malloced(h, c.at, r, size, obj)
    BY <1>6, <2>2, <2>3, Registered
  <2>5. x.size \in Nat \ {0}
    BY <1>5, <1>8, <1>10
  <2>6. x.size \in 1 .. MaxSmall <=> x.size <= MaxSmall
    BY <1>5, <2>5
  <2>7. FromBig(h, i, size, obj) = [at |-> c.at, h |-> r]
    BY <1>2, <1>8, <2>1, <2>3, <2>5, <2>6 DEF FromBig, Cut
  <2>8. QED
    BY <2>4, <2>7
<1>11. QED
  BY <1>5, <1>9, <1>10

(* From a new block, whose rest is free.                                       *)
LEMMA FromNewBlockSound ==
    ASSUME NEW h, HeapInv(h), NEW size, Aligned(size), NEW obj
    PROVE  LET m == FromNewBlock(h, size, obj)
           IN  (m.at = Null /\ m.h = h) \/ Malloced(h, m.at, m.h, size, obj)
<1>1. IsHeap(h) /\ Lists(h.small, h.big) /\ Divided(h.live, FreeIn(h.small, h.big), h.blocks) /\ BlocksSound(h.blocks)
  BY DEF HeapInv
<1>2. PICK most : most = IF size > BlockSize THEN size ELSE BlockSize
  OBVIOUS
<1>3. Aligned(most) /\ most \in Nat \ {0} /\ size \in Nat \ {0} /\ size <= most
  BY <1>2, AlignedBlock, AlignedNat, Constants
<1>4. PICK at : at = Start(h.blocks)
  OBVIOUS
<1>5. PICK x : x = [size |-> most, strings |-> FALSE]
  OBVIOUS
<1>6. x.size = most /\ x.size \in Nat /\ ~ x.strings
  BY <1>3, <1>5
<1>7. PICK bs : bs = Append(h.blocks, x)
  OBVIOUS
<1>8. BlocksSound(bs) /\ Longer(h.blocks, bs) /\ SumBlocks(bs) = most + h.total /\ h.total \in Int
  <2>1. BlocksSound(bs) /\ More(h.blocks, x, bs)
    BY <1>1, <1>6, <1>7, MoreBlocks, MoreOf
  <2>2. Longer(h.blocks, bs)
    BY <2>1 DEF More, Longer
  <2>3. SumBlocks(bs) = SumBlocks(h.blocks) + most /\ SumBlocks(h.blocks) \in Int
    BY <1>1, <1>6, <1>7, SumBlocksAppend
  <2>4. h.total = SumBlocks(h.blocks)
    BY DEF HeapInv
  <2>5. QED
    BY <1>3, <2>1, <2>2, <2>3, <2>4
<1>9. PICK g : g = [h EXCEPT !.blocks = Append(@, [size |-> most, strings |-> FALSE]), !.total = @ + most]
  OBVIOUS
<1>10. /\ IsHeap(g) /\ g.blocks = bs /\ g.live = h.live /\ g.small = h.small /\ g.big = h.big
       /\ g.used = h.used /\ g.total = SumBlocks(bs)
  <2>0. PICK t : t = SumBlocks(bs)
    OBVIOUS
  <2>1. t = h.total + most
    BY <1>3, <1>8, <2>0
  <2>2. g = SetTotal(SetBlocks(h, bs), t)
    BY <1>1, <1>5, <1>7, <1>9, <2>1 DEF SetTotal, SetBlocks, IsHeap, HeapOf
  <2>3. g = HeapOf(bs, h.live, h.small, h.big, h.used, t)
    BY <1>1, <2>2, HeapSets
  <2>4. IsHeap(g) /\ g.blocks = bs /\ g.live = h.live /\ g.small = h.small /\ g.big = h.big /\ g.used = h.used /\ g.total = t
    BY <2>3, HeapIs
  <2>5. QED
    BY <2>0, <2>4
<1>11. PICK k : k = InsertMallocedBuffer(g, at, size, obj)
  OBVIOUS
<1>12. PICK b : b = New(at, size, obj)
  OBVIOUS
<1>13. Buffer(b) /\ b.at = at /\ b.size = size
  BY <1>12, NewFields
<1>14. /\ IsHeap(k) /\ k.blocks = bs /\ k.live = h.live \cup {b} /\ k.small = h.small /\ k.big = h.big
       /\ k.used = h.used + size /\ k.total = SumBlocks(bs)
  BY <1>10, <1>11, <1>12, MallocedFields
<1>15. PICK r : r = InsertEmptyBuffer(k, Plus(at, size), most - size)
  OBVIOUS
<1>16. ASSUME most + h.total <= MaxTotal PROVE Malloced(h, at, r, size, obj)
  <2>0. SumBlocks(bs) <= MaxTotal
    BY <1>8, <1>16
  <2>1. CASE size = most
    <3>1. r = k
      <4>1. most - size = 0 /\ MaxSmall \in Nat
        BY <1>3, <2>1, Constants
      <4>2. r = InsertEmptyBuffer(k, Plus(at, size), 0)
        BY <1>15, <4>1
      <4>3. QED
        BY <4>1, <4>2 DEF InsertEmptyBuffer
    <3>2. Divided(h.live \cup {b}, FreeIn(h.small, h.big), bs) /\ b \notin h.live
      BY <1>1, <1>4, <1>6, <1>7, <1>13, <2>1, NewWhole
    <3>3. HeapInv(k) /\ Kept(h, k) /\ k.live = h.live \cup {b}
      BY <1>1, <1>8, <1>13, <1>14, <2>0, <3>2, HeapMore
    <3>4. at # Null
      BY <1>13, <3>3, LiveAt
    <3>5. QED
      BY <1>12, <3>1, <3>2, <3>3, <3>4 DEF Malloced
  <2>2. CASE size < most
    <3>1. PICK w : w = Buf(Plus(at, size), most - size)
      OBVIOUS
    <3>2. w.at = Plus(b.at, b.size) /\ w.size = x.size - b.size
      BY <1>6, <1>13, <3>1 DEF Buf
    <3>3. Divided(h.live \cup {b}, FreeIn(h.small, h.big) \cup {w}, bs) /\ b \notin h.live /\ w \notin FreeIn(h.small, h.big)
      <4>1. Aligned(x.size) /\ Aligned(b.size) /\ b.size < x.size /\ b.at = Start(h.blocks)
        BY <1>3, <1>4, <1>6, <1>13, <2>2
      <4>2. /\ Divided(h.live \cup {b}, FreeIn(h.small, h.big) \cup {w}, Append(h.blocks, x))
            /\ b \notin h.live /\ w \notin FreeIn(h.small, h.big)
        BY <1>1, <1>6, <3>2, <4>1, NewPart
      <4>3. QED
        BY <1>7, <4>2
    <3>4. Aligned(most - size)
      BY <1>3, <2>2, AlignedMinus
    <3>5. EmptyMore(k, r, w)
      BY <1>1, <1>14, <1>15, <3>1, <3>3, <3>4, InsertEmpty
    <3>6. PICK s, q : /\ r = HeapOf(k.blocks, k.live, s, q, k.used, k.total)
                      /\ Lists(s, q) /\ FreeIn(s, q) = FreeIn(k.small, k.big) \cup {w}
      BY <3>5 DEF EmptyMore
    <3>7. /\ IsHeap(r) /\ r.blocks = k.blocks /\ r.live = k.live /\ r.small = s /\ r.big = q
          /\ r.used = k.used /\ r.total = k.total
      BY <3>6, HeapIs
    <3>8. /\ IsHeap(r) /\ r.blocks = bs /\ r.live = h.live \cup {b} /\ r.small = s /\ r.big = q
          /\ r.used = h.used + b.size /\ r.total = SumBlocks(bs)
      BY <1>13, <1>14, <3>7
    <3>9. Divided(h.live \cup {b}, FreeIn(s, q), bs) /\ Lists(s, q)
      BY <1>14, <3>3, <3>6
    <3>10. HeapInv(r) /\ Kept(h, r) /\ r.live = h.live \cup {b}
      BY <1>8, <1>13, <2>0, <3>3, <3>8, <3>9, HeapMore
    <3>11. at # Null
      BY <1>13, <3>10, LiveAt
    <3>12. QED
      BY <1>12, <3>3, <3>10, <3>11 DEF Malloced
  <2>3. QED
    BY <1>3, <2>1, <2>2
<1>17. CASE most + h.total > MaxTotal
  <2>1. FromNewBlock(h, size, obj) = [at |-> Null, h |-> h]
    BY <1>2, <1>17 DEF FromNewBlock
  <2>2. QED
    BY <2>1
<1>18. CASE ~ (most + h.total > MaxTotal)
  <2>1. FromNewBlock(h, size, obj) = [at |-> at, h |-> r]
    BY <1>2, <1>4, <1>9, <1>11, <1>15, <1>18 DEF FromNewBlock, Start
  <2>2. most + h.total <= MaxTotal
    BY <1>3, <1>8, <1>18, Constants
  <2>3. QED
    BY <1>16, <2>1, <2>2
<1>19. QED
  BY <1>17, <1>18

(* The first big buffer that fits.                                             *)
LEMMA FirstFit ==
    ASSUME NEW n \in Nat, NEW B \in SUBSET (1 .. n), B # {}
    PROVE  Min(B) \in B
<1>3. PICK D : D = {n + 1 - i : i \in B}
  OBVIOUS
<1>4. D \in SUBSET (1 .. n) /\ D # {}
  <2>1. \A i \in B : n + 1 - i \in 1 .. n
    OBVIOUS
  <2>2. QED
    BY <1>3, <2>1
<1>5. PICK d \in D : \A e \in D : e <= d
  BY <1>4, Greatest
<1>6. PICK b \in B : d = n + 1 - b
  BY <1>3
<1>7. \A j \in B : b <= j
  <2> TAKE j \in B
  <2>1. n + 1 - j <= n + 1 - b
    BY <1>3, <1>5, <1>6
  <2>2. QED
    BY <2>1
<1>8. \E i \in B : \A j \in B : i =< j
  BY <1>6, <1>7
<1>9. QED
  BY <1>8 DEF Min

(* gc_malloc gives a buffer that lay free, or nothing and changes nothing.     *)
LEMMA MallocSound ==
    ASSUME NEW h, HeapInv(h), NEW asked \in Nat, NEW obj
    PROVE  LET m == GcMalloc(h, asked, obj)
           IN  \/ m.at = Null /\ m.h = h
               \/ asked # 0 /\ Malloced(h, m.at, m.h, Align8(asked), obj)
<1>1. CASE asked = 0
  BY <1>1 DEF GcMalloc
<1>2. CASE asked # 0
  <2>1. PICK size : size = Align8(asked)
    OBVIOUS
  <2>2. Aligned(size) /\ size \in Nat \ {0} /\ MaxSmall \in Nat
    BY <1>2, <2>1, AlignedUp, AlignedNat, Constants
  <2>3. PICK n \in Nat : n = Len(h.big) /\ DOMAIN h.big = 1 .. n
    BY SetOf DEF HeapInv, Lists
  <2>4. PICK fits : fits = {i \in DOMAIN h.big : size <= h.big[i].size}
    OBVIOUS
  <2>5. CASE size <= MaxSmall /\ h.small[size \div Align] # << >>
    <3>1. GcMalloc(h, asked, obj) = FromSmall(h, size, obj)
      BY <1>2, <2>1, <2>5 DEF GcMalloc
    <3>2. QED
      BY <1>2, <2>1, <2>2, <2>5, <3>1, FromSmallSound
  <2>6. CASE ~ (size <= MaxSmall /\ h.small[size \div Align] # << >>) /\ fits # {}
    <3>1. PICK i : i = Min(fits)
      OBVIOUS
    <3>2. i \in 1 .. n /\ size <= h.big[i].size
      <4>1. fits \in SUBSET (1 .. n)
        BY <2>3, <2>4
      <4>2. i \in fits
        BY <2>6, <3>1, <4>1, FirstFit
      <4>3. QED
        BY <2>3, <2>4, <4>2
    <3>3. GcMalloc(h, asked, obj) = FromBig(h, i, size, obj)
      BY <1>2, <2>1, <2>4, <2>6, <3>1 DEF GcMalloc
    <3>4. Malloced(h, FromBig(h, i, size, obj).at, FromBig(h, i, size, obj).h, size, obj)
      BY <2>2, <2>3, <3>2, FromBigSound
    <3>5. QED
      BY <1>2, <2>1, <3>3, <3>4
  <2>7. CASE ~ (size <= MaxSmall /\ h.small[size \div Align] # << >>) /\ fits = {}
    <3>1. GcMalloc(h, asked, obj) = FromNewBlock(h, size, obj)
      BY <1>2, <2>1, <2>4, <2>7 DEF GcMalloc
    <3>2. QED
      BY <1>2, <2>1, <2>2, <3>1, FromNewBlockSound
  <2>8. QED
    BY <2>5, <2>6, <2>7
<1>3. QED
  BY <1>1, <1>2

(* gc_free frees the buffer that starts at the address, if there is one.       *)
LEMMA FreeSound ==
    ASSUME NEW h, HeapInv(h), NEW at, NEW r, r = GcFree(h, at)
    PROVE  /\ HeapInv(r) /\ Kept(h, r) /\ r.blocks = h.blocks
           /\ r.live = {b \in h.live : b.at # at}
<1>1. CASE ~ \E b \in h.live : b.at = at
  <2>1. r = h
    BY <1>1 DEF GcFree
  <2>2. Kept(h, h)
    BY LongerSame DEF Kept, HeapInv
  <2>3. h.live = {b \in h.live : b.at # at}
    BY <1>1
  <2>4. QED
    BY <2>1, <2>2, <2>3
<1>2. CASE \E b \in h.live : b.at = at
  <2>1. PICK b : b = CHOOSE c \in h.live : c.at = at
    OBVIOUS
  <2>2. b \in h.live /\ b.at = at
    BY <1>2, <2>1
  <2>3. IsHeap(h) /\ Lists(h.small, h.big) /\ Divided(h.live, FreeIn(h.small, h.big), h.blocks) /\ BlocksSound(h.blocks)
    BY DEF HeapInv
  <2>4. PICK x : x = Buf(at, b.size)
    OBVIOUS
  <2>5. x.at = b.at /\ x.size = b.size
    BY <2>2, <2>4 DEF Buf
  <2>6. /\ Divided(h.live \ {b}, FreeIn(h.small, h.big) \cup {x}, h.blocks)
        /\ x \notin FreeIn(h.small, h.big)
    BY <2>2, <2>3, <2>5, GiveBack
  <2>7. Aligned(b.size)
    BY <2>2, LiveAt
  <2>8. PICK u, l : u = h.used - b.size /\ l = h.live \ {b}
    OBVIOUS
  <2>9. PICK g : g = SetUsed(SetLive(h, l), u)
    OBVIOUS
  <2>10. /\ IsHeap(g) /\ g.blocks = h.blocks /\ g.live = l /\ g.small = h.small /\ g.big = h.big
         /\ g.used = u /\ g.total = h.total
    <3>1. g = HeapOf(h.blocks, l, h.small, h.big, u, h.total)
      BY <2>3, <2>9, HeapSets
    <3>2. QED
      BY <3>1, HeapIs
  <2>11. r = InsertEmptyBuffer(g, at, b.size)
    <3>1. [h EXCEPT !.live = @ \ {b}, !.used = @ - b.size] = g
      BY <2>3, <2>8, <2>9 DEF SetUsed, SetLive, IsHeap, HeapOf
    <3>2. QED
      BY <1>2, <2>1, <3>1 DEF GcFree
  <2>12. EmptyMore(g, r, x)
    BY <2>3, <2>4, <2>6, <2>7, <2>10, <2>11, InsertEmpty
  <2>13. PICK s, q : /\ r = HeapOf(g.blocks, g.live, s, q, g.used, g.total)
                     /\ Lists(s, q) /\ FreeIn(s, q) = FreeIn(g.small, g.big) \cup {x}
    BY <2>12 DEF EmptyMore
  <2>14. /\ IsHeap(r) /\ r.blocks = g.blocks /\ r.live = g.live /\ r.small = s /\ r.big = q
         /\ r.used = g.used /\ r.total = g.total
    BY <2>13 DEF HeapOf, IsHeap
  <2>15. /\ IsHeap(r) /\ r.blocks = h.blocks /\ r.live = h.live \ {b} /\ r.small = s /\ r.big = q
         /\ r.used = h.used - b.size /\ r.total = h.total
    BY <2>8, <2>10, <2>14
  <2>16. Divided(h.live \ {b}, FreeIn(s, q), h.blocks) /\ Lists(s, q)
    BY <2>6, <2>10, <2>13
  <2>17. HeapInv(r) /\ Kept(h, r)
    BY <2>2, <2>15, <2>16, HeapLess
  <2>18. h.live \ {b} = {c \in h.live : c.at # at}
    BY <2>2, OneStarts
  <2>19. QED
    BY <2>15, <2>17, <2>18
<1>3. QED
  BY <1>1, <1>2

(* Of the elements of a vector only the first starts a buffer.                 *)
Frees(F, h, at, count, size) ==
    F = [i \in 0 .. count |-> IF i = 0 THEN h ELSE GcFree(F[i - 1], Plus(at, (i - 1) * size))]

LEMMA FreeArraySound ==
    ASSUME NEW h, HeapInv(h), NEW b \in h.live, NEW count \in Nat \ {0}, NEW size \in Nat \ {0},
           size * count <= b.size
    PROVE  GcFreeArray(h, b.at, count, size) = GcFree(h, b.at)
<1>1. PICK r : r = GcFree(h, b.at)
  OBVIOUS
<1>2. HeapInv(r) /\ r.live = {c \in h.live : c.at # b.at}
  BY <1>1, FreeSound
<1>3. b.at = <<b.at[1], b.at[2]>> /\ b.at[2] \in Nat /\ b.size \in Nat \ {0}
  BY LiveAt
<1>4. Plus(b.at, 0 * size) = b.at
  BY <1>3 DEF Plus
<1>5. ASSUME NEW i \in 1 .. (count - 1) PROVE GcFree(r, Plus(b.at, i * size)) = r
  <2>1. i * size \in Nat /\ i * size < b.size
    <3>1. i \in Int /\ count \in Int /\ i + 1 <= count
      OBVIOUS
    <3>2. (i + 1) * size <= count * size
      BY <3>1, TimesLess
    <3>3. (i + 1) * size = i * size + size /\ count * size = size * count /\ i * size \in Nat
      OBVIOUS
    <3>4. size * count \in Nat
      OBVIOUS
    <3>5. i * size + size <= b.size
      BY <1>3, <3>2, <3>3, <3>4
    <3>6. QED
      BY <1>3, <3>3, <3>5
  <2>2. ASSUME NEW c \in r.live, c.at = Plus(b.at, i * size) PROVE FALSE
    <3>1. c \in h.live /\ c # b
      BY <1>2
    <3>2. c.at[1] = b.at[1] /\ c.at[2] = b.at[2] + i * size /\ c.size \in Nat \ {0}
      BY <2>2, <3>1, LiveAt DEF Plus
    <3>3. Apart(b, c)
      BY <3>1 DEF HeapInv, Divided, Separate
    <3>4. QED
      BY <1>3, <2>1, <3>2, <3>3 DEF Apart
  <2>3. QED
    BY <2>2 DEF GcFree
<1>6. PICK F : F = [i \in 0 .. count |-> IF i = 0 THEN h ELSE r]
  OBVIOUS
<1>7. Frees(F, h, b.at, count, size)
  <2>1. ASSUME NEW i \in 0 .. count
        PROVE  (IF i = 0 THEN h ELSE GcFree(F[i - 1], Plus(b.at, (i - 1) * size))) = IF i = 0 THEN h ELSE r
    <3>1. CASE i = 0
      BY <3>1
    <3>2. CASE i = 1
      <4>1. i - 1 = 0 /\ F[i - 1] = h
        BY <1>6, <3>2
      <4>2. Plus(b.at, (i - 1) * size) = b.at
        BY <1>4, <4>1
      <4>3. QED
        BY <1>1, <3>2, <4>1, <4>2
    <3>3. CASE i # 0 /\ i # 1
      <4>1. i - 1 \in 1 .. (count - 1) /\ i - 1 \in 0 .. count /\ i - 1 # 0
        BY <3>3
      <4>2. F[i - 1] = r
        BY <1>6, <4>1
      <4>3. GcFree(r, Plus(b.at, (i - 1) * size)) = r
        BY <1>5, <4>1
      <4>4. QED
        BY <3>3, <4>2, <4>3
    <3>4. QED
      BY <3>1, <3>2, <3>3
  <2>2. QED
    BY <1>6, <2>1 DEF Frees
<1>8. PICK G : Frees(G, h, b.at, count, size) /\ GcFreeArray(h, b.at, count, size) = G[count]
  <2>1. PICK E : E = CHOOSE C : Frees(C, h, b.at, count, size)
    OBVIOUS
  <2>2. Frees(E, h, b.at, count, size)
    BY <1>7, <2>1
  <2>3. GcFreeArray(h, b.at, count, size) = E[count]
    BY <2>1 DEF GcFreeArray, Frees
  <2>4. QED
    BY <2>2, <2>3
<1>9. /\ G[0] = h
      /\ \A i \in 1 .. count : G[i] = GcFree(G[i - 1], Plus(b.at, (i - 1) * size))
  BY <1>8 DEF Frees
<1>10. G[1] = r
  <2>1. 1 \in 1 .. count /\ 1 - 1 = 0
    OBVIOUS
  <2>2. G[1] = GcFree(G[0], Plus(b.at, 0 * size))
    BY <1>9, <2>1
  <2>3. QED
    BY <1>1, <1>4, <1>9, <2>2
<1>11. PICK B : B = {i \in 1 .. count : \A j \in 1 .. i : G[j] = r}
  OBVIOUS
<1>12. B \in SUBSET (1 .. count) /\ 1 \in B
  BY <1>10, <1>11
<1>13. PICK m \in B : \A j \in B : j <= m
  BY <1>12, Greatest
<1>14. m = count
  <2>1. SUFFICES ASSUME m # count PROVE FALSE
    OBVIOUS
  <2>2. m \in 1 .. (count - 1) /\ m + 1 \in 1 .. count /\ (m + 1) - 1 = m /\ G[m] = r
    BY <1>11, <2>1
  <2>3. G[m + 1] = r
    BY <1>5, <1>9, <2>2
  <2>4. \A j \in 1 .. (m + 1) : j \in 1 .. m \/ j = m + 1
    BY <2>2
  <2>5. m + 1 \in B
    BY <1>11, <2>2, <2>3, <2>4
  <2>6. QED
    BY <1>13, <2>2, <2>5
<1>15. QED
  BY <1>1, <1>8, <1>11, <1>14

-----------------------------------------------------------------------------
(* What the program is given.                                                  *)

(* gc_malloc_vector gives a buffer for all the elements, or none.             *)
LEMMA VectorSound ==
    ASSUME NEW h, HeapInv(h), NEW count \in Nat, NEW size \in Nat
    PROVE  LET m == GcMallocVector(h, count, size)
           IN  \/ m.at = Null /\ m.h = h
               \/ /\ count # 0 /\ size # 0 /\ Malloced(h, m.at, m.h, Align8(count * size), FALSE)
                  /\ size * count <= Align8(count * size)
<1>1. CASE count = 0
  BY <1>1 DEF GcMallocVector
<1>2. CASE count # 0
  <2>1. PICK asked \in Nat : asked = count * size
    OBVIOUS
  <2>2. PICK m : m = GcMalloc(h, asked, FALSE)
    OBVIOUS
  <2>3. GcMallocVector(h, count, size) = m
    BY <1>2, <2>1, <2>2 DEF GcMallocVector
  <2>4. \/ m.at = Null /\ m.h = h
        \/ asked # 0 /\ Malloced(h, m.at, m.h, Align8(asked), FALSE)
    BY <2>2, MallocSound
  <2>5. ASSUME asked # 0 PROVE size # 0 /\ size * count <= Align8(asked)
    <3>1. size # 0
      BY <2>1, <2>5
    <3>2. asked <= Align8(asked) /\ size * count = asked
      BY <2>1, <2>5, AlignedUp
    <3>3. QED
      BY <3>1, <3>2
  <2>6. QED
    BY <1>2, <2>1, <2>3, <2>4, <2>5
<1>3. QED
  BY <1>1, <1>2

(* Nothing else starts at the address of a new buffer.                         *)
LEMMA NewAddress ==
    ASSUME NEW h, NEW at, NEW r, NEW size, NEW obj, Malloced(h, at, r, size, obj)
    PROVE  \A b \in h.live : b.at # at
<1> SUFFICES ASSUME NEW b \in h.live, b.at = at PROVE FALSE
  OBVIOUS
<1>1. PICK n : n = New(at, size, obj) /\ n.at = at /\ n \notin h.live /\ n \in r.live /\ b \in r.live /\ HeapInv(r)
  BY NewFields DEF Malloced
<1>2. b = n
  BY <1>1, OneStarts
<1>3. QED
  BY <1>1, <1>2

(* The new buffer takes the place of an old one.                               *)
Moved(h, from, at, r, size) ==
    /\ HeapInv(r) /\ Kept(h, r) /\ at # Null
    /\ \A b \in h.live : b.at # at
    /\ r.live = {b \in h.live : b.at # from} \cup {New(at, size, FALSE)}

LEMMA FreeIs ==
    ASSUME NEW h, HeapInv(h), NEW at
    PROVE  /\ HeapInv(GcFree(h, at)) /\ Kept(h, GcFree(h, at))
           /\ GcFree(h, at).live = {b \in h.live : b.at # at}
<1>1. PICK r : r = GcFree(h, at)
  OBVIOUS
<1>2. HeapInv(r) /\ Kept(h, r) /\ r.live = {b \in h.live : b.at # at}
  BY <1>1, FreeSound
<1>3. QED
  BY <1>1, <1>2

(* gc_malloc, then gc_free of the old buffer.                                 *)
LEMMA MoveSound ==
    ASSUME NEW h, NEW at, NEW m, NEW size, Malloced(h, at, m, size, FALSE),
           NEW from, at # from
    PROVE  Moved(h, from, at, GcFree(m, from), size)
<1>1. HeapInv(m) /\ Kept(h, m) /\ at # Null /\ m.live = h.live \cup {New(at, size, FALSE)}
  BY DEF Malloced
<1>2. \A c \in h.live : c.at # at
  BY NewAddress
<1>3. /\ HeapInv(GcFree(m, from)) /\ Kept(m, GcFree(m, from))
      /\ GcFree(m, from).live = {c \in m.live : c.at # from}
  <2>1. HeapInv(m)
    BY <1>1
  <2>2. HeapInv(GcFree(m, from))
    BY <2>1, FreeIs
  <2>3. Kept(m, GcFree(m, from))
    BY <2>1, FreeIs
  <2>4. GcFree(m, from).live = {c \in m.live : c.at # from}
    BY <2>1, FreeIs
  <2>5. QED
    BY <2>2, <2>3, <2>4
<1>4. PICK r : r = GcFree(m, from)
  OBVIOUS
<1>5. HeapInv(r) /\ Kept(m, r) /\ r.live = {c \in m.live : c.at # from}
  BY <1>3, <1>4
<1>6. Kept(h, r)
  BY <1>1, <1>5, KeptTwice
<1>7. New(at, size, FALSE).at = at
  BY NewFields
<1>8. r.live = {c \in h.live : c.at # from} \cup {New(at, size, FALSE)}
  BY <1>1, <1>5, <1>7
<1>9. Moved(h, from, at, r, size)
  BY <1>1, <1>2, <1>5, <1>6, <1>8 DEF Moved
<1>10. QED
  BY <1>4, <1>9

(* What GcMalloc returns has two fields.                                        *)
LEMMA TwoFields ==
    ASSUME NEW at, NEW h, NEW m, m = [at |-> at, h |-> h], NEW g
    PROVE  [m EXCEPT !.h = g].h = g /\ [m EXCEPT !.h = g].at = m.at
OBVIOUS

LEMMA MallocFields ==
    ASSUME NEW h, HeapInv(h), NEW asked \in Nat, asked # 0, NEW obj
    PROVE  \E at, g : GcMalloc(h, asked, obj) = [at |-> at, h |-> g]
<1>1. asked > 0
  OBVIOUS
<1> DEFINE size == Align8(asked)
           one  == size <= MaxSmall /\ h.small[size \div Align] # <<>>
           fits == {i \in DOMAIN h.big : size <= h.big[i].size}
<1>2. CASE one
  <2>1. GcMalloc(h, asked, obj) = FromSmall(h, size, obj)
    BY <1>1, <1>2, Zenon DEF GcMalloc
  <2>2. QED
    BY <2>1, Zenon DEF FromSmall
<1>3. CASE ~ one /\ fits # {}
  <2>1. GcMalloc(h, asked, obj) = FromBig(h, Min(fits), size, obj)
    BY <1>1, <1>3, Zenon DEF GcMalloc
  <2>2. QED
    BY <2>1, Zenon DEF FromBig
<1>4. CASE ~ one /\ ~ (fits # {})
  <2>1. GcMalloc(h, asked, obj) = FromNewBlock(h, size, obj)
    BY <1>1, <1>4, Zenon DEF GcMalloc
  <2>2. QED
    BY <2>1, Zenon DEF FromNewBlock
<1>5. QED
  BY <1>2, <1>3, <1>4

(* gc_realloc frees, keeps, refuses or moves.                                 *)
LEMMA ReallocSound ==
    ASSUME NEW h, HeapInv(h), NEW b \in h.live, NEW old \in Nat, NEW new \in Nat, NEW r, r = GcRealloc(h, b.at, old, new)
    PROVE  \/ new = 0 /\ r.h = GcFree(h, b.at)
           \/ new # 0 /\ new <= old /\ r.at = b.at /\ r.h = h
           \/ new > old /\ r.at = Null /\ r.h = h
           \/ new > old /\ Moved(h, b.at, r.at, r.h, Align8(new)) /\ new <= Align8(new)
<1>1. b.at # Null
  BY LiveAt
<1>2. PICK m : m = GcMalloc(h, new, FALSE)
  OBVIOUS
<1>3. CASE new = 0
  <2>1. r = [at |-> Null, h |-> GcFree(h, b.at)]
    BY <1>3 DEF GcRealloc
  <2>2. QED
    BY <1>3, <2>1
<1>4. CASE new # 0 /\ new <= old
  <2>1. r = [at |-> b.at, h |-> h]
    <3>1. new > 0 /\ ~ (new > old) /\ b.at # Null /\ new # 0
      BY <1>1, <1>4
    <3>2. QED
      BY <1>4, <3>1, Zenon DEF GcRealloc
  <2>2. QED
    BY <1>4, <2>1
<1>5. CASE new > old
  <2>1. r = IF m.at = Null THEN m ELSE [m EXCEPT !.h = GcFree(@, b.at)]
    <3>1. new > 0 /\ ~ (new <= old) /\ b.at # Null /\ new # 0
      BY <1>1, <1>5
    <3>2. QED
      BY <1>2, <1>5, <3>1, Zenon DEF GcRealloc
  <2>2. \/ m.at = Null /\ m.h = h
        \/ Malloced(h, m.at, m.h, Align8(new), FALSE)
    BY <1>2, MallocSound
  <2>3. CASE m.at = Null /\ m.h = h
    BY <1>5, <2>1, <2>3
  <2>4. CASE Malloced(h, m.at, m.h, Align8(new), FALSE)
    <3>1. m.at # Null
      BY <2>4 DEF Malloced
    <3>2. r.at = m.at /\ r.h = GcFree(m.h, b.at)
      <4>1. \E at, g : GcMalloc(h, new, FALSE) = [at |-> at, h |-> g]
        <5>1. new # 0
          BY <1>5
        <5>2. QED
          BY <5>1, MallocFields, Zenon
      <4>2. PICK at, g : m = [at |-> at, h |-> g]
        BY <1>2, <4>1, Zenon
      <4>3. r = [m EXCEPT !.h = GcFree(@, b.at)]
        BY <2>1, <3>1, Zenon
      <4>4. QED
        BY <4>2, <4>3
    <3>3. Moved(h, b.at, m.at, r.h, Align8(new))
      <4>1. m.at # b.at
        BY <2>4, NewAddress
      <4>2. PICK x, y : x = m.at /\ y = m.h
        OBVIOUS
      <4>3. Malloced(h, x, y, Align8(new), FALSE) /\ x # b.at
        BY <2>4, <4>1, <4>2
      <4>4. Moved(h, b.at, x, GcFree(y, b.at), Align8(new))
        BY <4>3, MoveSound
      <4>5. QED
        BY <3>2, <4>2, <4>4
    <3>4. new <= Align8(new)
      BY <1>5, AlignedUp
    <3>5. QED
      BY <1>5, <3>2, <3>3, <3>4
  <2>5. QED
    BY <2>2, <2>3, <2>4
<1>6. QED
  BY <1>3, <1>4, <1>5

(* gc_grow_vector refuses, or moves the vector to a larger buffer.            *)
LEMMA GrowSound ==
    ASSUME NEW h, HeapInv(h), NEW b \in h.live, NEW count \in Nat \ {0}, NEW size \in Nat \ {0},
           size * count <= b.size, NEW g, g = GcGrowVector(h, b.at, count, count, size)
    PROVE  \/ g.at = Null /\ g.h = h
           \/ /\ g.count \in Nat \ {0} /\ Moved(h, b.at, g.at, g.h, Align8(g.count * size))
              /\ size * g.count <= Align8(g.count * size)
<1>1. PICK more : more = Larger(count)
  OBVIOUS
<1>2. more \in Nat
  BY <1>1, Constants DEF Larger
<1>3. PICK m : m = GcMallocVector(h, more, size)
  OBVIOUS
<1>4. count + 1 > count /\ ~ (count + 1 <= count) /\ count > 0
  OBVIOUS
<1>5. CASE count >= GrowLimit \/ m.at = Null
  <2>1. g = [at |-> Null, h |-> h, count |-> count]
    BY <1>1, <1>3, <1>4, <1>5 DEF GcGrowVector
  <2>2. QED
    BY <2>1
<1>6. CASE ~ (count >= GrowLimit \/ m.at = Null)
  <2>1. g = [at |-> m.at, h |-> GcFreeArray(m.h, b.at, count, size), count |-> more]
    BY <1>1, <1>3, <1>4, <1>6 DEF GcGrowVector
  <2>2. /\ more # 0 /\ Malloced(h, m.at, m.h, Align8(more * size), FALSE)
        /\ size * more <= Align8(more * size)
    <3>1. size \in Nat /\ m.at # Null
      BY <1>6
    <3>2. PICK v : v = GcMallocVector(h, more, size)
      OBVIOUS
    <3>3. \/ v.at = Null /\ v.h = h
          \/ /\ more # 0 /\ size # 0 /\ Malloced(h, v.at, v.h, Align8(more * size), FALSE)
             /\ size * more <= Align8(more * size)
      <4>1. LET c == GcMallocVector(h, more, size)
            IN  \/ c.at = Null /\ c.h = h
                \/ /\ more # 0 /\ size # 0 /\ Malloced(h, c.at, c.h, Align8(more * size), FALSE)
                   /\ size * more <= Align8(more * size)
        BY <1>2, <3>1, VectorSound
      <4>2. QED
        BY <3>2, <4>1
    <3>4. v = m
      BY <1>3, <3>2
    <3>5. QED
      BY <3>1, <3>3, <3>4
  <2>3. HeapInv(m.h) /\ b \in m.h.live
    BY <2>2 DEF Malloced
  <2>4. GcFreeArray(m.h, b.at, count, size) = GcFree(m.h, b.at)
    BY <2>3, FreeArraySound
  <2>5. g.at = m.at /\ g.h = GcFree(m.h, b.at) /\ g.count = more
    BY <2>1, <2>4
  <2>6. Moved(h, b.at, m.at, g.h, Align8(more * size))
    <3>1. m.at # b.at
      BY <2>2, NewAddress
    <3>2. PICK x, y, z : x = m.at /\ y = m.h /\ z = Align8(more * size)
      OBVIOUS
    <3>3. Malloced(h, x, y, z, FALSE) /\ x # b.at
      BY <2>2, <3>1, <3>2
    <3>4. Moved(h, b.at, x, GcFree(y, b.at), z)
      BY <3>3, MoveSound
    <3>5. QED
      BY <2>5, <3>2, <3>4
  <2>7. QED
    BY <1>2, <2>2, <2>5, <2>6
<1>7. QED
  BY <1>5, <1>6

-----------------------------------------------------------------------------
(* The strings and what the program holds.                                     *)

Room == Align8(StringSize)
Str(a) == [at |-> a, size |-> Room]
\* The strings at the addresses D that lie in string blocks.
InBlocks(bs, D) == {a \in D : bs[a[1]].strings}

\* Strings lie inside their blocks; those of the string blocks share no byte
\* with one another or with the room for the next one, and any other one is a
\* live object of the heap.
StringsSound(bs, lv, rm, D) ==
    /\ rm.size \in Nat /\ (rm.size > 0 => Inside(rm, bs) /\ bs[rm.at[1]].strings)
    /\ IsFiniteSet(D)
    /\ \A a \in D : Inside(Str(a), bs)
    /\ \A a \in D : bs[a[1]].strings => \A c \in D : bs[c[1]].strings /\ a # c => Apart(Str(a), Str(c))
    /\ \A a \in D : bs[a[1]].strings /\ rm.size > 0 => Apart(Str(a), rm)
    /\ \A a \in D : bs[a[1]].strings \/ New(a, Room, TRUE) \in lv

\* What the program holds is the start of a live buffer of its own.
HeldSound(lv, hd) ==
    /\ \A b \in hd : /\ b.size \in Nat \ {0} /\ b.count \in Nat \ {0}
                     /\ \E l \in lv : l.at = b.at /\ l.obj = FALSE /\ b.size * b.count <= l.size
    /\ \A b, c \in hd : b.at = c.at => b = c

NamesSound(D, pl, kp) ==
    /\ \A x \in DOMAIN pl : pl[x] \in D
    /\ \A k \in kp : k.at \in D

\* The inductive invariant.
GcInv ==
    /\ HeapInv(Heap)
    /\ StringsSound(blocks, live, room, DOMAIN texts)
    /\ HeldSound(live, held)
    /\ NamesSound(DOMAIN texts, pool, kept)
    /\ used = SumSizes(live) + SumSizes(PooledStrings)

(* The room of a string holds it, and a block holds the room.                 *)
LEMMA RoomSize == Room \in Nat \ {0} /\ StringSize <= Room /\ StringSize \in Nat \ {0} /\ Aligned(Room) /\ Room <= BlockSize
<1>1. Aligned(Room) /\ StringSize <= Room /\ StringSize \in Nat \ {0}
  BY Constants, AlignedUp DEF Room
<1>2. Room \in Nat \ {0} /\ Room = (Room \div Align) * Align /\ Room \div Align \in Nat
  BY <1>1, AlignedNat
<1>3. Room <= BlockSize
  <2>1. StringSize + Align - 1 < BlockSize + Align
    BY Constants
  <2>2. BlockSize = (BlockSize \div Align) * Align /\ BlockSize \div Align \in Nat \ {0}
    BY AlignedBlock, AlignedNat
  <2>3. PICK j \in Int, k \in Nat : j = (StringSize + Align - 1) \div Align /\ k = BlockSize \div Align
    BY <2>2, Constants, Division
  <2>4. Align * j <= StringSize + Align - 1
    BY <2>3, Constants, Division
  <2>5. Room = j * Align
    BY <2>3 DEF Room, Align8
  <2>6. j * Align < (k + 1) * Align
    <3>1. (k + 1) * Align = k * Align + Align /\ j * Align = Align * j
      BY <2>3, Constants
    <3>2. k * Align = BlockSize
      BY <2>2, <2>3
    <3>3. j * Align \in Int /\ BlockSize \in Int /\ StringSize \in Int /\ Align \in Int
      BY <2>3, Constants
    <3>4. QED
      BY <2>1, <2>4, <3>1, <3>2, <3>3
  <2>7. j < k + 1
    <3>1. SUFFICES ASSUME k + 1 <= j PROVE FALSE
      BY <2>3
    <3>2. (k + 1) * Align <= j * Align
      BY <2>3, <3>1, Constants, TimesLess
    <3>3. (k + 1) * Align \in Int /\ j * Align \in Int
      BY <2>3, Constants
    <3>4. QED
      BY <2>6, <3>2, <3>3
  <2>8. j * Align <= k * Align
    BY <2>3, <2>7, Constants, TimesLess
  <2>9. QED
    BY <2>2, <2>3, <2>5, <2>8
<1>4. QED
  BY <1>1, <1>2, <1>3

LEMMA StrFields == \A a : Str(a).at = a /\ Str(a).size = Room
BY DEF Str

(* More blocks and other buffers leave the strings as they are.                *)
LEMMA StringsKept ==
    ASSUME NEW bs, NEW lv, NEW rm, NEW D, StringsSound(bs, lv, rm, D),
           NEW p, Longer(bs, p), NEW lw, \A a : New(a, Room, TRUE) \in lv => New(a, Room, TRUE) \in lw
    PROVE  StringsSound(p, lw, rm, D) /\ InBlocks(p, D) = InBlocks(bs, D)
<1>1. \A b : Inside(b, bs) => Inside(b, p) /\ p[b.at[1]] = bs[b.at[1]]
  BY DEF Longer, Inside
<1>2. \A a \in D : Inside(Str(a), p) /\ p[a[1]] = bs[a[1]]
  BY <1>1, StrFields DEF StringsSound
<1>3. rm.size > 0 => Inside(rm, p) /\ p[rm.at[1]].strings
  BY <1>1 DEF StringsSound
<1>4. QED
  BY <1>2, <1>3 DEF StringsSound, InBlocks

(* A string of its own.                                                        *)
LEMMA StringsObject ==
    ASSUME NEW bs, NEW lv, NEW rm, NEW D, StringsSound(bs, lv, rm, D), NEW at, Inside(Str(at), bs), ~ bs[at[1]].strings,
           New(at, Room, TRUE) \in lv
    PROVE  StringsSound(bs, lv, rm, D \cup {at}) /\ InBlocks(bs, D \cup {at}) = InBlocks(bs, D)
<1>1. IsFiniteSet(D \cup {at})
  BY FS_AddElement DEF StringsSound
<1>2. QED
  BY <1>1 DEF StringsSound, InBlocks

(* A string that takes the room of the last string block.                      *)
LEMMA StringsRoom ==
    ASSUME NEW bs, NEW lv, NEW rm, NEW D, StringsSound(bs, lv, rm, D), Room <= rm.size,
           NEW rn, rn.at = Plus(rm.at, Room), rn.size = rm.size - Room
    PROVE  /\ StringsSound(bs, lv, rn, D \cup {rm.at}) /\ rm.at \notin D
           /\ InBlocks(bs, D \cup {rm.at}) = InBlocks(bs, D) \cup {rm.at}
<1>1. Room \in Nat \ {0}
  BY RoomSize
<1>2. rm.size \in Nat /\ rm.size > 0 /\ Inside(rm, bs) /\ bs[rm.at[1]].strings
  BY <1>1 DEF StringsSound
<1>3. /\ rm.at = <<rm.at[1], rm.at[2]>> /\ rm.at[1] \in 1 .. Len(bs) /\ rm.at[2] \in Nat
      /\ bs[rm.at[1]].size \in Nat /\ rm.at[2] + rm.size <= bs[rm.at[1]].size
  BY <1>2 DEF Inside
<1>4. PICK at : at = rm.at
  OBVIOUS
<1>5. Inside(Str(at), bs)
  BY <1>1, <1>2, <1>3, <1>4, StrFields DEF Inside
<1>6. rn.size \in Nat /\ rn.at[1] = rm.at[1] /\ rn.at[2] = rm.at[2] + Room /\ rn.at = <<rn.at[1], rn.at[2]>>
  BY <1>1, <1>2 DEF Plus
<1>7. Inside(rn, bs) /\ bs[rn.at[1]].strings
  BY <1>1, <1>2, <1>3, <1>6 DEF Inside
<1>8. ASSUME NEW a \in D, bs[a[1]].strings
      PROVE  Apart(Str(a), Str(at)) /\ Apart(Str(a), rn) /\ a # at
  <2>1. Apart(Str(a), rm) /\ Inside(Str(a), bs)
    BY <1>2, <1>8 DEF StringsSound
  <2>2. a[2] \in Nat /\ a[1] \in Int
    BY <2>1, StrFields DEF Inside
  <2>3. a[1] # at[1] \/ a[2] + Room <= at[2] \/ rm.at[2] + rm.size <= a[2]
    BY <1>4, <2>1, StrFields DEF Apart
  <2>4. a[1] # at[1] \/ a[2] + Room <= at[2] \/ at[2] + Room <= a[2]
    BY <1>1, <1>2, <1>3, <1>4, <2>2, <2>3
  <2>5. a[1] # rn.at[1] \/ a[2] + Room <= rn.at[2] \/ rn.at[2] + rn.size <= a[2]
    BY <1>1, <1>2, <1>3, <1>4, <1>6, <2>2, <2>3
  <2>6. a # at
    BY <1>1, <1>3, <1>4, <2>4
  <2>7. QED
    BY <2>4, <2>5, <2>6, StrFields DEF Apart
<1>9. Apart(Str(at), rn)
  BY <1>1, <1>3, <1>4, <1>6, StrFields DEF Apart
<1>10. \A a \in D : bs[a[1]].strings => Apart(Str(at), Str(a))
  BY <1>8, ApartFlip
<1>11. IsFiniteSet(D \cup {at})
  BY FS_AddElement DEF StringsSound
<1>12. at \notin D /\ bs[at[1]].strings
  BY <1>2, <1>4, <1>8
<1>13. StringsSound(bs, lv, rn, D \cup {at})
  BY <1>5, <1>6, <1>7, <1>8, <1>9, <1>10, <1>11, <1>12 DEF StringsSound
<1>14. InBlocks(bs, D \cup {at}) = InBlocks(bs, D) \cup {at}
  BY <1>12 DEF InBlocks
<1>15. QED
  BY <1>4, <1>12, <1>13, <1>14

(* A string that takes the start of a new string block; what is left of the    *)
(* block is the room of the next string.                                       *)
LEMMA StringsBlock ==
    ASSUME NEW bs, NEW lv, NEW rm, NEW D, StringsSound(bs, lv, rm, D),
           NEW x, x.size = BlockSize, x.strings,
           NEW p, More(bs, x, p), NEW at, at = Start(bs),
           NEW rn, IF Room < BlockSize THEN rn.at = Plus(at, Room) /\ rn.size = BlockSize - Room
                   ELSE rn = rm /\ rm.size < Room
    PROVE  /\ StringsSound(p, lv, rn, D \cup {at}) /\ at \notin D
           /\ InBlocks(p, D \cup {at}) = InBlocks(bs, D) \cup {at}
<1>1. Room \in Nat \ {0} /\ Room <= BlockSize /\ BlockSize \in Nat \ {0}
  BY RoomSize, Constants
<1>2. PICK n \in Nat : n = Len(bs) + 1 /\ n > 0
  BY DEF More
<1>3. at[1] = n /\ at[2] = 0 /\ at = <<at[1], at[2]>> /\ p[n] = x
  BY <1>2 DEF More, Start
<1>4. \A b : Inside(b, bs) => Inside(b, p) /\ p[b.at[1]] = bs[b.at[1]] /\ b.at[1] # n
  <2>1. \A b : Inside(b, bs) => b.at[1] # n
    BY <1>2 DEF Inside, More
  <2>2. QED
    BY <2>1, InsideMore
<1>5. \A a \in D : Inside(Str(a), p) /\ p[a[1]] = bs[a[1]] /\ a[1] # n
  BY <1>4, StrFields DEF StringsSound
<1>6. Inside(Str(at), p)
  <2>1. at[1] \in 1 .. Len(p) /\ at[2] \in Nat
    BY <1>2, <1>3 DEF More
  <2>2. p[at[1]].size = BlockSize
    BY <1>3
  <2>3. QED
    BY <1>1, <1>3, <2>1, <2>2, StrFields DEF Inside
<1>7. at \notin D /\ p[at[1]].strings
  BY <1>3, <1>5
<1>8. \A a \in D : Apart(Str(a), Str(at)) /\ Apart(Str(at), Str(a))
  BY <1>3, <1>5, StrFields DEF Apart
<1>9. /\ rn.size \in Nat /\ (rn.size > 0 => Inside(rn, p) /\ p[rn.at[1]].strings)
      /\ rn.size > 0 => Apart(Str(at), rn)
      /\ \A a \in D : bs[a[1]].strings /\ rn.size > 0 => Apart(Str(a), rn)
  <2>1. CASE Room < BlockSize
    <3>1. rn.at = Plus(at, Room) /\ rn.size = BlockSize - Room
      BY <2>1
    <3>2. rn.at[1] = n /\ rn.at[2] = Room /\ rn.at = <<rn.at[1], rn.at[2]>> /\ rn.size \in Nat
      BY <1>1, <1>3, <2>1, <3>1 DEF Plus
    <3>3. rn.at[1] \in 1 .. Len(p) /\ rn.at[2] \in Nat /\ p[rn.at[1]].size = BlockSize /\ p[rn.at[1]].strings
      BY <1>1, <1>2, <1>3, <3>2 DEF More
    <3>4. rn.at[2] + rn.size <= BlockSize
      BY <1>1, <3>1, <3>2
    <3>5. Inside(rn, p) /\ p[rn.at[1]].strings
      BY <1>1, <3>2, <3>3, <3>4 DEF Inside
    <3>6. Apart(Str(at), rn)
      BY <1>1, <1>3, <3>2, StrFields DEF Apart
    <3>7. \A a \in D : Apart(Str(a), rn)
      BY <1>5, <3>2, StrFields DEF Apart
    <3>8. QED
      BY <3>2, <3>5, <3>6, <3>7
  <2>2. CASE ~ (Room < BlockSize)
    <3>1. rn = rm /\ rm.size < Room
      BY <2>2
    <3>2. rm.size \in Nat /\ (rm.size > 0 => Inside(rm, bs) /\ bs[rm.at[1]].strings)
      BY DEF StringsSound
    <3>3. rm.size > 0 => Inside(rm, p) /\ p[rm.at[1]].strings /\ rm.at[1] # n
      BY <1>4, <3>2
    <3>4. \A a \in D : bs[a[1]].strings /\ rm.size > 0 => Apart(Str(a), rm)
      BY DEF StringsSound
    <3>5. rm.size > 0 => Apart(Str(at), rm)
      BY <1>3, <3>3, StrFields DEF Apart
    <3>6. QED
      BY <3>1, <3>2, <3>3, <3>4, <3>5
  <2>3. QED
    BY <2>1, <2>2
<1>10. IsFiniteSet(D \cup {at})
  BY FS_AddElement DEF StringsSound
<1> HIDE DEF Apart, Inside
<1>11. StringsSound(p, lv, rn, D \cup {at})
  <2>1. \A a \in D : bs[a[1]].strings => \A c \in D : bs[c[1]].strings /\ a # c => Apart(Str(a), Str(c))
    BY DEF StringsSound
  <2>2. \A a \in D : bs[a[1]].strings \/ New(a, Room, TRUE) \in lv
    BY DEF StringsSound
  <2>3. QED
    BY <1>5, <1>6, <1>7, <1>8, <1>9, <1>10, <2>1, <2>2 DEF StringsSound
<1>12. InBlocks(p, D \cup {at}) = InBlocks(bs, D) \cup {at}
  BY <1>5, <1>7 DEF InBlocks
<1>13. QED
  BY <1>7, <1>11, <1>12

(* What the pooled strings take.                                               *)
Bytes(S) == SumSizes({Str(a) : a \in S})
(* One more pooled string.                                                    *)
LEMMA BytesAdd ==
    ASSUME NEW S, IsFiniteSet(S)
    PROVE  Bytes(S) \in Int /\ \A x : x \notin S => Bytes(S \cup {x}) = Bytes(S) + Room
<1>1. PICK B : B = {Str(a) : a \in S}
  OBVIOUS
<1>2. IsFiniteSet(B)
  <2>1. PICK f : f = [a \in S |-> Str(a)]
    OBVIOUS
  <2>2. f \in [S -> B]
    BY <1>1, <2>1
  <2>3. \A b \in B : \E a \in S : f[a] = b
    BY <1>1, <2>1
  <2>4. f \in Surjection(S, B)
    BY <2>2, <2>3 DEF Surjection
  <2>5. QED
    BY <2>4, FS_Surjection
<1>3. \A b \in B : b.size \in Int
  BY <1>1, StrFields, RoomSize
<1>4. SumSizes(B) \in Int
  BY <1>2, <1>3, SumSizesType
<1>5. ASSUME NEW x, x \notin S PROVE Bytes(S \cup {x}) = Bytes(S) + Room
  <2>1. Str(x) \notin B /\ Str(x).size = Room /\ Room \in Int
    BY <1>1, <1>5, StrFields, RoomSize
  <2>2. SumSizes(B \cup {Str(x)}) = SumSizes(B) + Room
    BY <1>2, <1>3, <2>1, SumSizesAdd
  <2>3. {Str(a) : a \in S \cup {x}} = B \cup {Str(x)}
    BY <1>1
  <2>4. QED
    BY <1>1, <2>2, <2>3 DEF Bytes
<1>6. QED
  BY <1>1, <1>4, <1>5 DEF Bytes

LEMMA PooledBytes == SumSizes(PooledStrings) = Bytes(InBlocks(blocks, DOMAIN texts))
BY DEF PooledStrings, Bytes, InBlocks, Str, Room

-----------------------------------------------------------------------------
(* The program's buffers.                                                      *)

LEMMA HeldStay ==
    ASSUME NEW lv, NEW hd, HeldSound(lv, hd), NEW lw, lv \subseteq lw
    PROVE  HeldSound(lw, hd)
BY DEF HeldSound

LEMMA HeldDrop ==
    ASSUME NEW lv, NEW hd, HeldSound(lv, hd), NEW b \in hd
    PROVE  HeldSound({l \in lv : l.at # b.at}, hd \ {b})
BY DEF HeldSound

(* A new buffer is given to the program.                                      *)
LEMMA HeldAdd ==
    ASSUME NEW lv, NEW hd, HeldSound(lv, hd), NEW at, NEW size, \A l \in lv : l.at # at,
           NEW g, g.at = at, g.size \in Nat \ {0}, g.count \in Nat \ {0}, g.size * g.count <= size
    PROVE  HeldSound(lv \cup {New(at, size, FALSE)}, hd \cup {g})
<1>1. New(at, size, FALSE).at = at /\ New(at, size, FALSE).size = size /\ New(at, size, FALSE).obj = FALSE
  BY DEF New
<1>2. PICK n : n = New(at, size, FALSE)
  OBVIOUS
<1>3. n.at = at /\ n.size = size /\ n.obj = FALSE
  BY <1>1, <1>2
<1>4. \A b \in hd : b.at # at
  BY DEF HeldSound
<1>5. HeldSound(lv \cup {n}, hd \cup {g})
  BY <1>3, <1>4 DEF HeldSound
<1>6. QED
  BY <1>2, <1>5

LEMMA HeldMove ==
    ASSUME NEW lv, NEW hd, HeldSound(lv, hd), NEW b \in hd, NEW at, NEW size, \A l \in lv : l.at # at,
           NEW g, g.at = at, g.size \in Nat \ {0}, g.count \in Nat \ {0}, g.size * g.count <= size
    PROVE  HeldSound({l \in lv : l.at # b.at} \cup {New(at, size, FALSE)}, (hd \ {b}) \cup {g})
<1>1. PICK lw, he : lw = {l \in lv : l.at # b.at} /\ he = hd \ {b}
  OBVIOUS
<1>2. HeldSound(lw, he)
  BY <1>1, HeldDrop
<1>3. \A l \in lw : l.at # at
  BY <1>1
<1>4. HeldSound(lw \cup {New(at, size, FALSE)}, he \cup {g})
  BY <1>2, <1>3, HeldAdd
<1>5. QED
  BY <1>1, <1>4

-----------------------------------------------------------------------------
(* The steps.                                                                  *)

(* The heap after a step is the record the operators returned.                *)
LEMMA HeapNow ==
    ASSUME NEW r, HeapInv(r), Become(r)
    PROVE  Heap' = r /\ blocks' = r.blocks /\ live' = r.live /\ used' = r.used
<1>1. r = HeapOf(r.blocks, r.live, r.small, r.big, r.used, r.total)
  BY DEF HeapInv, IsHeap
<1>2. Heap' = HeapOf(r.blocks, r.live, r.small, r.big, r.used, r.total)
  BY DEF Heap, HeapOf, Become
<1>3. QED
  BY <1>1, <1>2 DEF Become

LEMMA HeapParts == Heap.blocks = blocks /\ Heap.live = live /\ Heap.used = used
BY DEF Heap

(* What a change of the heap owes to the strings and the program.              *)
LEMMA HeapStep ==
    ASSUME GcInv, NEW r, HeapInv(r), Kept(Heap, r), Become(r), NoStrings,
           \A a : New(a, Room, TRUE) \in live => New(a, Room, TRUE) \in r.live,
           HeldSound(r.live, held')
    PROVE  GcInv'
<1>1. Heap' = r /\ blocks' = r.blocks /\ live' = r.live /\ used' = r.used
  BY HeapNow
<1>2. pool' = pool /\ room' = room /\ texts' = texts /\ kept' = kept
  BY DEF NoStrings
<1>3. HeapInv(Heap')
  BY <1>1
<1>4. Longer(blocks, r.blocks) /\ r.used - SumSizes(r.live) = used - SumSizes(live)
  BY HeapParts DEF Kept
<1>5. /\ StringsSound(r.blocks, r.live, room, DOMAIN texts)
      /\ InBlocks(r.blocks, DOMAIN texts) = InBlocks(blocks, DOMAIN texts)
  BY <1>4, StringsKept DEF GcInv
<1>6. StringsSound(blocks', live', room', DOMAIN texts')
  BY <1>1, <1>2, <1>5
<1>7. NamesSound(DOMAIN texts', pool', kept')
  BY <1>2 DEF GcInv
<1>8. HeldSound(live', held')
  BY <1>1
<1>9. used' = SumSizes(live') + SumSizes(PooledStrings)'
  <2>1. SumSizes(PooledStrings)' = Bytes(InBlocks(blocks', DOMAIN texts'))
    BY DEF PooledStrings, Bytes, InBlocks, Str, Room, SumSizes
  <2>2. SumSizes(PooledStrings)' = SumSizes(PooledStrings)
    BY <1>1, <1>2, <1>5, <2>1, PooledBytes
  <2>3. SumSizes(r.live) \in Int /\ r.used \in Int
    BY HeapSizes DEF HeapInv
  <2>4. used = SumSizes(live) + SumSizes(PooledStrings) /\ used \in Int /\ SumSizes(live) \in Int
    BY HeapParts, HeapSizes DEF GcInv, HeapInv
  <2>5. SumSizes(PooledStrings) \in Int
    <3>1. IsFiniteSet(InBlocks(blocks, DOMAIN texts))
      BY FS_Subset DEF GcInv, StringsSound, InBlocks
    <3>2. QED
      BY <3>1, PooledBytes, BytesAdd
  <2>6. QED
    BY <1>1, <1>4, <2>2, <2>3, <2>4, <2>5
<1>10. QED
  BY <1>3, <1>6, <1>7, <1>8, <1>9 DEF GcInv

\* The live objects of the strings start at other addresses than the program's
\* buffers.
LEMMA ObjectsStay ==
    ASSUME GcInv, NEW b \in held
    PROVE  \A a : New(a, Room, TRUE) \in live => a # b.at
<1> SUFFICES ASSUME NEW a, New(a, Room, TRUE) \in live, a = b.at PROVE FALSE
  OBVIOUS
<1>1. PICK l \in live : l.at = b.at /\ l.obj = FALSE
  BY DEF GcInv, HeldSound
<1>2. New(a, Room, TRUE).at = a /\ New(a, Room, TRUE).obj = TRUE
  BY DEF New
<1>3. HeapInv(Heap) /\ Heap.live = live
  BY HeapParts DEF GcInv
<1>4. l = New(a, Room, TRUE)
  BY <1>1, <1>2, <1>3, OneStarts
<1>5. QED
  BY <1>1, <1>2, <1>4

(* A request that is refused.                                                 *)
LEMMA NothingChanged ==
    ASSUME GcInv, NEW r, r = Heap, Become(r), NoStrings, held' = held
    PROVE  GcInv'
<1>1. HeapInv(Heap) /\ Heap.live = live /\ HeldSound(live, held)
  BY HeapParts DEF GcInv
<1>2. Longer(Heap.blocks, Heap.blocks)
  BY <1>1, LongerSame DEF HeapInv
<1>3. Kept(Heap, Heap)
  BY <1>2 DEF Kept
<1>4. QED
  BY <1>1, <1>3, HeapStep

(* lua_malloc and lua_calloc.                                                 *)
LEMMA MallocStep ==
    ASSUME GcInv, Malloc
    PROVE  GcInv'
<1>1. PICK size \in Sizes, count \in 1 .. 2 :
         /\ Become(GcMallocVector(Heap, count, size).h)
         /\ held' = IF GcMallocVector(Heap, count, size).at = Null THEN held
                    ELSE held \cup {Given(GcMallocVector(Heap, count, size).at, size, count)}
  BY DEF Malloc
<1>2. NoStrings
  BY DEF Malloc
<1>3. size \in Nat /\ count \in Nat \ {0} /\ HeapInv(Heap) /\ Heap.live = live /\ HeldSound(live, held)
  BY HeapParts, Constants DEF GcInv
<1>4. PICK m : m = GcMallocVector(Heap, count, size)
  OBVIOUS
<1>5. \/ m.at = Null /\ m.h = Heap
      \/ /\ size # 0 /\ Malloced(Heap, m.at, m.h, Align8(count * size), FALSE)
         /\ size * count <= Align8(count * size)
  <2>1. LET c == GcMallocVector(Heap, count, size)
        IN  \/ c.at = Null /\ c.h = Heap
            \/ /\ count # 0 /\ size # 0 /\ Malloced(Heap, c.at, c.h, Align8(count * size), FALSE)
               /\ size * count <= Align8(count * size)
    BY <1>3, VectorSound
  <2>2. QED
    BY <1>4, <2>1
<1>6. PICK at, r : at = m.at /\ r = m.h
  OBVIOUS
<1>7. Become(r) /\ held' = IF at = Null THEN held ELSE held \cup {Given(at, size, count)}
  BY <1>1, <1>4, <1>6
<1>8. CASE m.at = Null /\ m.h = Heap
  BY <1>2, <1>6, <1>7, <1>8, NothingChanged
<1>9. CASE /\ size # 0 /\ Malloced(Heap, m.at, m.h, Align8(count * size), FALSE)
           /\ size * count <= Align8(count * size)
  <2>1. PICK n : n = Align8(count * size)
    OBVIOUS
  <2>2. Malloced(Heap, at, r, n, FALSE) /\ size * count <= n
    BY <1>6, <1>9, <2>1
  <2>3. /\ HeapInv(r) /\ Kept(Heap, r) /\ at # Null /\ r.live = live \cup {New(at, n, FALSE)}
        /\ \A l \in live : l.at # at
    BY <1>3, <2>2, NewAddress DEF Malloced
  <2>4. PICK g : g = Given(at, size, count)
    OBVIOUS
  <2>5. g.at = at /\ g.size = size /\ g.count = count
    BY <2>4 DEF Given
  <2>6. HeldSound(live \cup {New(at, n, FALSE)}, held \cup {g})
    BY <1>3, <1>9, <2>2, <2>3, <2>5, HeldAdd
  <2>7. HeldSound(r.live, held')
    BY <1>7, <2>3, <2>4, <2>6
  <2>8. QED
    BY <1>2, <1>7, <2>3, <2>7, HeapStep
<1>10. QED
  BY <1>5, <1>8, <1>9

(* A buffer of the program is freed.                                           *)
LEMMA FreedStep ==
    ASSUME GcInv, NEW b \in held, Become(GcFree(Heap, b.at)), NoStrings, held' = held \ {b}
    PROVE  GcInv'
<1>1. HeapInv(Heap) /\ Heap.live = live /\ HeldSound(live, held)
  BY HeapParts DEF GcInv
<1>2. PICK r : r = GcFree(Heap, b.at)
  OBVIOUS
<1>3. HeapInv(r) /\ Kept(Heap, r) /\ r.live = {l \in live : l.at # b.at}
  <2>1. /\ HeapInv(GcFree(Heap, b.at)) /\ Kept(Heap, GcFree(Heap, b.at))
        /\ GcFree(Heap, b.at).live = {l \in Heap.live : l.at # b.at}
    BY <1>1, FreeIs
  <2>2. QED
    BY <1>1, <1>2, <2>1
<1>4. Become(r)
  BY <1>2
<1>5. \A a : New(a, Room, TRUE) \in live => New(a, Room, TRUE) \in r.live
  <2>1. \A a : New(a, Room, TRUE).at = a
    BY NewFields
  <2>2. QED
    BY <1>3, <2>1, ObjectsStay
<1>6. HeldSound(r.live, held')
  BY <1>1, <1>3, HeldDrop
<1>7. QED
  BY <1>3, <1>4, <1>5, <1>6, HeapStep

(* It moves to another address.                                                *)
LEMMA MovedStep ==
    ASSUME GcInv, NEW b \in held, NEW at, NEW r, NEW n, Moved(Heap, b.at, at, r, n), Become(r), NoStrings,
           NEW size \in Nat \ {0}, NEW count \in Nat \ {0}, size * count <= n,
           held' = (held \ {b}) \cup {Given(at, size, count)}
    PROVE  GcInv'
<1>1. Heap.live = live /\ HeldSound(live, held)
  BY HeapParts DEF GcInv
<1>2. /\ HeapInv(r) /\ Kept(Heap, r)
      /\ \A l \in live : l.at # at
      /\ r.live = {l \in live : l.at # b.at} \cup {New(at, n, FALSE)}
  BY <1>1 DEF Moved
<1>3. \A a : New(a, Room, TRUE) \in live => New(a, Room, TRUE) \in r.live
  <2>1. \A a : New(a, Room, TRUE).at = a
    BY NewFields
  <2>2. QED
    BY <1>2, <2>1, ObjectsStay
<1>4. PICK g : g = Given(at, size, count)
  OBVIOUS
<1>5. g.at = at /\ g.size = size /\ g.count = count
  BY <1>4 DEF Given
<1>6. HeldSound({l \in live : l.at # b.at} \cup {New(at, n, FALSE)}, (held \ {b}) \cup {g})
  BY <1>1, <1>2, <1>5, HeldMove
<1>7. HeldSound(r.live, held')
  BY <1>2, <1>4, <1>6
<1>8. QED
  BY <1>2, <1>3, <1>7, HeapStep

(* A buffer of the program starts a live buffer that has room for it.          *)
LEMMA HeldLive ==
    ASSUME GcInv, NEW b \in held
    PROVE  /\ HeapInv(Heap) /\ b.size \in Nat \ {0} /\ b.count \in Nat \ {0}
           /\ \E l \in Heap.live : l.at = b.at /\ l.obj = FALSE /\ b.size * b.count <= l.size
BY HeapParts DEF GcInv, HeldSound

(* lua_free, and gc_free_array of a vector.                                   *)
LEMMA FreeStep ==
    ASSUME GcInv, Free
    PROVE  GcInv'
<1>1. PICK b \in held :
         /\ Become(IF b.count = 1 THEN GcFree(Heap, b.at) ELSE GcFreeArray(Heap, b.at, b.count, b.size))
         /\ held' = held \ {b}
  BY DEF Free
<1>2. NoStrings
  BY DEF Free
<1>3. PICK l \in Heap.live : l.at = b.at /\ b.size * b.count <= l.size
  BY HeldLive
<1>4. GcFreeArray(Heap, l.at, b.count, b.size) = GcFree(Heap, l.at)
  <2>1. HeapInv(Heap) /\ b.size \in Nat \ {0} /\ b.count \in Nat \ {0}
    BY HeldLive
  <2>2. PICK size \in Nat \ {0}, count \in Nat \ {0} : size = b.size /\ count = b.count
    BY <2>1
  <2>3. GcFreeArray(Heap, l.at, count, size) = GcFree(Heap, l.at)
    BY <1>3, <2>1, <2>2, FreeArraySound
  <2>4. QED
    BY <2>2, <2>3
<1>5. Become(GcFree(Heap, b.at))
  BY <1>1, <1>3, <1>4
<1>6. QED
  BY <1>1, <1>2, <1>5, FreedStep

LEMMA HeldSame ==
    ASSUME NEW lv, NEW hd, HeldSound(lv, hd), NEW b \in hd, NEW g, g.at = b.at, g.size = b.size, g.count = b.count
    PROVE  HeldSound(lv, (hd \ {b}) \cup {g})
BY DEF HeldSound

(* lua_realloc.                                                               *)
LEMMA ReallocStep ==
    ASSUME GcInv, Realloc
    PROVE  GcInv'
<1>1. PICK b \in held, new \in Sizes \cup {0} :
         /\ b.count = 1 /\ Become(GcRealloc(Heap, b.at, b.size, new).h)
         /\ held' = CASE new = 0 -> held \ {b}
                      [] new > 0 /\ GcRealloc(Heap, b.at, b.size, new).at = Null -> held
                      [] OTHER -> (held \ {b}) \cup
                           {Given(GcRealloc(Heap, b.at, b.size, new).at, IF new > b.size THEN new ELSE b.size, 1)}
  BY DEF Realloc
<1>2. NoStrings
  BY DEF Realloc
<1>3. PICK l \in Heap.live : l.at = b.at
  BY HeldLive
<1>4. HeapInv(Heap) /\ b.size \in Nat \ {0} /\ new \in Nat
  <2>1. HeapInv(Heap) /\ b.size \in Nat \ {0}
    BY HeldLive
  <2>2. new \in Nat
    <3>1. Sizes \subseteq Nat
      BY Constants
    <3>2. new \in Sizes \/ new = 0
      OBVIOUS
    <3>3. QED
      BY <3>1, <3>2
  <2>3. QED
    BY <2>1, <2>2
<1>5. PICK r : r = GcRealloc(Heap, b.at, b.size, new)
  OBVIOUS
<1>6. \/ new = 0 /\ r.h = GcFree(Heap, b.at)
      \/ new # 0 /\ new <= b.size /\ r.at = b.at /\ r.h = Heap
      \/ new > b.size /\ r.at = Null /\ r.h = Heap
      \/ new > b.size /\ Moved(Heap, b.at, r.at, r.h, Align8(new)) /\ new <= Align8(new)
  <2>1. PICK old \in Nat : old = b.size
    BY <1>4
  <2>2. r = GcRealloc(Heap, l.at, old, new)
    BY <1>3, <1>5, <2>1
  <2>3. \/ new = 0 /\ r.h = GcFree(Heap, l.at)
        \/ new # 0 /\ new <= old /\ r.at = l.at /\ r.h = Heap
        \/ new > old /\ r.at = Null /\ r.h = Heap
        \/ new > old /\ Moved(Heap, l.at, r.at, r.h, Align8(new)) /\ new <= Align8(new)
    BY <1>4, <2>2, ReallocSound
  <2>4. QED
    BY <1>3, <2>1, <2>3
<1>7. PICK at, h : at = r.at /\ h = r.h
  OBVIOUS
<1>8. /\ Become(h)
      /\ held' = CASE new = 0 -> held \ {b}
                   [] new > 0 /\ at = Null -> held
                   [] OTHER -> (held \ {b}) \cup {Given(at, IF new > b.size THEN new ELSE b.size, 1)}
  BY <1>1, <1>5, <1>7
<1>9. CASE new = 0 /\ r.h = GcFree(Heap, b.at)
  <2>1. held' = held \ {b}
    <3>1. new = 0 /\ ~ (new > 0)
      BY <1>9
    <3>2. QED
      BY <1>8, <3>1
  <2>2. Become(GcFree(Heap, b.at))
    BY <1>7, <1>8, <1>9
  <2>3. QED
    BY <1>2, <2>1, <2>2, FreedStep
<1>10. CASE new # 0 /\ new <= b.size /\ r.at = b.at /\ r.h = Heap
  <2>1. at # Null /\ at = b.at /\ h = Heap
    BY <1>3, <1>4, <1>7, <1>10, LiveAt
  <2>2. held' = (held \ {b}) \cup {Given(at, b.size, 1)}
    BY <1>4, <1>8, <1>10, <2>1
  <2>3. PICK g : g = Given(at, b.size, 1)
    OBVIOUS
  <2>4. g.at = b.at /\ g.size = b.size /\ g.count = b.count
    BY <1>1, <2>1, <2>3 DEF Given
  <2>5. HeldSound(live, (held \ {b}) \cup {g})
    BY <2>4, HeldSame DEF GcInv
  <2>6. HeldSound(Heap.live, held')
    BY <2>2, <2>3, <2>5, HeapParts
  <2>7. Kept(Heap, Heap)
    BY <1>4, LongerSame DEF HeapInv, Kept
  <2>8. Become(Heap)
    BY <1>8, <2>1
  <2>9. QED
    BY <1>2, <1>4, <2>6, <2>7, <2>8, HeapParts, HeapStep
<1>11. CASE new > b.size /\ r.at = Null /\ r.h = Heap
  <2>1. held' = held
    BY <1>4, <1>7, <1>8, <1>11
  <2>2. Become(Heap)
    BY <1>7, <1>8, <1>11
  <2>3. QED
    BY <1>2, <2>1, <2>2, NothingChanged
<1>12. CASE new > b.size /\ Moved(Heap, b.at, r.at, r.h, Align8(new)) /\ new <= Align8(new)
  <2>1. PICK n : n = Align8(new)
    OBVIOUS
  <2>2. Moved(Heap, b.at, at, h, n) /\ new <= n /\ at # Null
    BY <1>7, <1>12, <2>1 DEF Moved
  <2>3. new \in Nat \ {0} /\ new * 1 <= n
    BY <1>4, <1>12, <2>2
  <2>4. held' = (held \ {b}) \cup {Given(at, new, 1)}
    BY <1>8, <1>12, <2>2, <2>3
  <2>5. QED
    BY <1>2, <1>8, <2>2, <2>3, <2>4, MovedStep
<1>13. QED
  BY <1>6, <1>9, <1>10, <1>11, <1>12

(* gc_grow_vector.                                                            *)
LEMMA GrowVectorStep ==
    ASSUME GcInv, GrowVector
    PROVE  GcInv'
<1>1. PICK b \in held :
         /\ Become(GcGrowVector(Heap, b.at, b.count, b.count, b.size).h)
         /\ held' = IF GcGrowVector(Heap, b.at, b.count, b.count, b.size).at = Null THEN held
                    ELSE (held \ {b}) \cup
                         {Given(GcGrowVector(Heap, b.at, b.count, b.count, b.size).at, b.size,
                                GcGrowVector(Heap, b.at, b.count, b.count, b.size).count)}
  BY DEF GrowVector
<1>2. NoStrings
  BY DEF GrowVector
<1>3. PICK l \in Heap.live : l.at = b.at /\ b.size * b.count <= l.size
  BY HeldLive
<1>4. HeapInv(Heap) /\ b.size \in Nat \ {0} /\ b.count \in Nat \ {0}
  BY HeldLive
<1>5. PICK g : g = GcGrowVector(Heap, b.at, b.count, b.count, b.size)
  OBVIOUS
<1>6. \/ g.at = Null /\ g.h = Heap
      \/ /\ g.count \in Nat \ {0} /\ Moved(Heap, b.at, g.at, g.h, Align8(g.count * b.size))
         /\ b.size * g.count <= Align8(g.count * b.size)
  <2>1. PICK size \in Nat \ {0}, count \in Nat \ {0} : size = b.size /\ count = b.count
    BY <1>4
  <2>2. g = GcGrowVector(Heap, l.at, count, count, size) /\ size * count <= l.size
    BY <1>3, <1>5, <2>1
  <2>3. \/ g.at = Null /\ g.h = Heap
        \/ /\ g.count \in Nat \ {0} /\ Moved(Heap, l.at, g.at, g.h, Align8(g.count * size))
           /\ size * g.count <= Align8(g.count * size)
    BY <1>4, <2>2, GrowSound
  <2>4. QED
    BY <1>3, <2>1, <2>3
<1>7. PICK at, h, more : at = g.at /\ h = g.h /\ more = g.count
  OBVIOUS
<1>8. Become(h) /\ held' = IF at = Null THEN held ELSE (held \ {b}) \cup {Given(at, b.size, more)}
  BY <1>1, <1>5, <1>7
<1>9. CASE g.at = Null /\ g.h = Heap
  <2>1. h = Heap /\ held' = held
    BY <1>7, <1>8, <1>9
  <2>2. Become(Heap)
    BY <1>8, <2>1
  <2>3. QED
    BY <1>2, <2>1, <2>2, NothingChanged
<1>10. CASE /\ g.count \in Nat \ {0} /\ Moved(Heap, b.at, g.at, g.h, Align8(g.count * b.size))
            /\ b.size * g.count <= Align8(g.count * b.size)
  <2>1. PICK n : n = Align8(g.count * b.size)
    OBVIOUS
  <2>2. more \in Nat \ {0} /\ Moved(Heap, b.at, at, h, n) /\ b.size * more <= n /\ at # Null
    BY <1>7, <1>10, <2>1 DEF Moved
  <2>3. held' = (held \ {b}) \cup {Given(at, b.size, more)}
    BY <1>8, <2>2
  <2>4. QED
    BY <1>2, <1>4, <1>8, <2>2, <2>3, MovedStep
<1>11. QED
  BY <1>6, <1>9, <1>10

(* A string of the pool is found.                                             *)
LEMMA FindStringStep ==
    ASSUME GcInv, FindString
    PROVE  GcInv'
<1>1. PICK text \in Texts :
         /\ Hash[text] \in DOMAIN pool
         /\ kept' = kept \cup {[at |-> pool[Hash[text]], text |-> text]}
  BY DEF FindString, Known
<1>2. UNCHANGED <<blocks, live, small, big, pool, room, used, total, texts, held>>
  BY DEF FindString
<1>3. Heap' = Heap
  BY <1>2 DEF Heap
<1>4. PooledStrings' = PooledStrings
  BY <1>2 DEF PooledStrings
<1>5. SumSizes(PooledStrings)' = SumSizes(PooledStrings)
  BY <1>4 DEF SumSizes
<1>6. NamesSound(DOMAIN texts', pool', kept')
  BY <1>1, <1>2 DEF GcInv, NamesSound
<1>7. QED
  BY <1>2, <1>3, <1>5, <1>6 DEF GcInv

(* The sizes in use may change.                                                *)
LEMMA HeapUsed ==
    ASSUME NEW h, HeapInv(h), NEW u \in Int, NEW r, r = HeapOf(h.blocks, h.live, h.small, h.big, u, h.total)
    PROVE  HeapInv(r)
<1>1. /\ IsHeap(r) /\ r.blocks = h.blocks /\ r.live = h.live /\ r.small = h.small /\ r.big = h.big
      /\ r.used = u /\ r.total = h.total
  BY HeapIs
<1>2. QED
  BY <1>1 DEF HeapInv

(* A block for strings.                                                        *)
LEMMA HeapStrings ==
    ASSUME NEW h, HeapInv(h), NEW u \in Int, NEW x, x.size \in Nat, x.strings,
           NEW bs, bs = Added(h.blocks, x), NEW t, t = h.total + x.size, t <= MaxTotal,
           NEW r, r = HeapOf(bs, h.live, h.small, h.big, u, t)
    PROVE  HeapInv(r)
<1>1. /\ IsHeap(r) /\ r.blocks = bs /\ r.live = h.live /\ r.small = h.small /\ r.big = h.big
      /\ r.used = u /\ r.total = t
  BY HeapIs
<1>2. BlocksSound(h.blocks) /\ h.total = SumBlocks(h.blocks)
  BY DEF HeapInv
<1>3. BlocksSound(bs)
  BY <1>2, MoreBlocks DEF Added
<1>4. t = SumBlocks(bs)
  BY <1>2, SumBlocksAppend DEF Added
<1>5. Divided(h.live, FreeIn(h.small, h.big), bs)
  BY <1>2, NewStrings DEF HeapInv, Added
<1>6. QED
  BY <1>1, <1>3, <1>4, <1>5 DEF HeapInv

(* An entry in a table.                                                       *)
LEMMA Entered ==
    ASSUME NEW f, NEW a, NEW x, NEW g, g = Enter(f, a, x)
    PROVE  DOMAIN g = DOMAIN f \cup {a}
BY DEF Enter

LEMMA Entry ==
    ASSUME NEW f, NEW D, \A x \in DOMAIN f : f[x] \in D, NEW a, NEW y,
           NEW g, g = IF y \in DOMAIN f THEN f ELSE Enter(f, y, a)
    PROVE  \A x \in DOMAIN g : g[x] \in D \cup {a}
BY DEF Enter

(* What a new pooled string changes besides the heap and the room.             *)
LEMMA PooledStep ==
    ASSUME GcInv, NEW at, NEW text, Pooled(text, at), NEW D, D = DOMAIN texts, at \notin D,
           HeapInv(Heap'), StringsSound(blocks', live, room', D \cup {at}),
           InBlocks(blocks', D \cup {at}) = InBlocks(blocks, D) \cup {at}
    PROVE  GcInv'
<1>1. /\ DOMAIN texts' = D \cup {at} /\ used' = used + Room
      /\ live' = live /\ held' = held
      /\ pool' = IF Hash[text] \in DOMAIN pool THEN pool ELSE Enter(pool, Hash[text], at)
      /\ kept' = kept \cup {[at |-> at, text |-> text]}
  <2>1. texts' = Enter(texts, at, text)
    BY DEF Pooled
  <2>2. DOMAIN texts' = D \cup {at}
    <3>1. DOMAIN Enter(texts, at, text) = DOMAIN texts \cup {at}
      BY DEF Enter
    <3>2. QED
      BY <2>1, <3>1
  <2>3. QED
    BY <2>2 DEF Pooled, Room
<1>2. NamesSound(DOMAIN texts', pool', kept')
  <2>1. \A x \in DOMAIN pool' : pool'[x] \in D \cup {at}
    BY <1>1, Entry DEF GcInv, NamesSound
  <2>2. \A k \in kept' : k.at \in D \cup {at}
    BY <1>1 DEF GcInv, NamesSound
  <2>3. QED
    BY <1>1, <2>1, <2>2 DEF NamesSound
<1>3. used' = SumSizes(live') + SumSizes(PooledStrings)'
  <2>1. PICK S : S = InBlocks(blocks, D)
    OBVIOUS
  <2>2. SumSizes(PooledStrings)' = Bytes(InBlocks(blocks', DOMAIN texts'))
    BY DEF PooledStrings, Bytes, InBlocks, Str, Room, SumSizes
  <2>3. SumSizes(PooledStrings)' = Bytes(S \cup {at})
    BY <1>1, <2>1, <2>2
  <2>4. IsFiniteSet(S) /\ at \notin S
    BY <2>1, FS_Subset DEF GcInv, StringsSound, InBlocks
  <2>5. Bytes(S \cup {at}) = Bytes(S) + Room /\ Bytes(S) \in Int /\ Room \in Int
    BY <2>4, BytesAdd, RoomSize
  <2>6. used = SumSizes(live) + Bytes(S)
    BY <2>1, PooledBytes DEF GcInv
  <2>7. SumSizes(live) \in Int
    BY HeapParts, HeapSizes DEF GcInv
  <2>8. QED
    BY <1>1, <2>3, <2>5, <2>6, <2>7
<1>4. HeldSound(live', held')
  BY <1>1 DEF GcInv
<1>5. StringsSound(blocks', live', room', DOMAIN texts')
  BY <1>1
<1>6. QED
  BY <1>2, <1>3, <1>4, <1>5 DEF GcInv

(* A string in the room of the last string block.                             *)
LEMMA PoolStringStep ==
    ASSUME GcInv, PoolString
    PROVE  GcInv'
<1>1. PICK text \in Texts : Pooled(text, room.at)
  BY DEF PoolString
<1>2. /\ Room <= room.size /\ blocks' = blocks /\ total' = total
      /\ room' = [at |-> Plus(room.at, Room), size |-> room.size - Room]
  BY DEF PoolString, Room
<1>3. PICK at : at = room.at
  OBVIOUS
<1>4. Pooled(text, at)
  BY <1>1, <1>3
<1>5. HeapInv(Heap) /\ StringsSound(blocks, live, room, DOMAIN texts)
  BY DEF GcInv
<1>6. room'.at = Plus(room.at, Room) /\ room'.size = room.size - Room
  BY <1>2
<1>7. PICK D : D = DOMAIN texts
  OBVIOUS
<1>8. /\ StringsSound(blocks, live, room', D \cup {at}) /\ at \notin D
      /\ InBlocks(blocks, D \cup {at}) = InBlocks(blocks, D) \cup {at}
  <2>1. /\ StringsSound(blocks, live, room', D \cup {room.at}) /\ room.at \notin D
        /\ InBlocks(blocks, D \cup {room.at}) = InBlocks(blocks, D) \cup {room.at}
    BY <1>2, <1>5, <1>6, <1>7, StringsRoom
  <2>2. QED
    BY <1>3, <2>1
<1>9. HeapInv(Heap')
  <2>1. Heap' = HeapOf(Heap.blocks, Heap.live, Heap.small, Heap.big, used + Room, Heap.total)
    BY <1>2, <1>4 DEF Heap, HeapOf, Pooled, Room
  <2>2. used + Room \in Int
    BY <1>5, HeapParts, RoomSize DEF HeapInv
  <2>3. QED
    BY <1>5, <2>1, <2>2, HeapUsed
<1>10. QED
  BY <1>2, <1>4, <1>7, <1>8, <1>9, PooledStep

(* A string in a new string block.                                            *)
LEMMA PoolBlockStep ==
    ASSUME GcInv, PoolStringInNewBlock
    PROVE  GcInv'
<1>1. PICK text \in Texts : Pooled(text, <<Len(blocks) + 1, 0>>)
  BY DEF PoolStringInNewBlock
<1>2. /\ Room > room.size /\ BlockSize + total <= MaxTotal
      /\ room' = IF Room < BlockSize
                 THEN [at |-> Plus(<<Len(blocks) + 1, 0>>, Room), size |-> BlockSize - Room] ELSE room
      /\ blocks' = Append(blocks, StringBlock) /\ total' = total + BlockSize
  BY DEF PoolStringInNewBlock, Room
<1>3. PICK at : at = Start(blocks)
  OBVIOUS
<1>4. Pooled(text, at)
  BY <1>1, <1>3 DEF Start
<1>5. HeapInv(Heap) /\ StringsSound(blocks, live, room, DOMAIN texts)
  BY DEF GcInv
<1>6. room' = IF Room < BlockSize THEN [at |-> Plus(at, Room), size |-> BlockSize - Room] ELSE room
  BY <1>2, <1>3 DEF Start
<1>7. PICK D, x : D = DOMAIN texts /\ x = StringBlock
  OBVIOUS
<1>8. x.size = BlockSize /\ x.strings /\ x.size \in Nat
  BY <1>7, Constants DEF StringBlock
<1>9. BlocksSound(blocks)
  BY <1>5 DEF HeapInv, Heap
<1>10. More(blocks, x, blocks')
  <2>1. More(blocks, x, Append(blocks, x))
    BY <1>8, <1>9, MoreOf
  <2>2. QED
    BY <1>2, <1>7, <2>1
<1>11. IF Room < BlockSize THEN room'.at = Plus(at, Room) /\ room'.size = BlockSize - Room
       ELSE room' = room /\ room.size < Room
  <2>1. Room > room.size => room.size < Room
    BY RoomSize, <1>5 DEF StringsSound
  <2>2. QED
    BY <1>2, <1>6, <2>1
<1>12. /\ StringsSound(blocks', live, room', D \cup {at}) /\ at \notin D
       /\ InBlocks(blocks', D \cup {at}) = InBlocks(blocks, D) \cup {at}
  <2>1. PICK p, rn, rm : p = blocks' /\ rn = room' /\ rm = room
    OBVIOUS
  <2>2. /\ StringsSound(blocks, live, rm, D) /\ More(blocks, x, p)
        /\ IF Room < BlockSize THEN rn.at = Plus(at, Room) /\ rn.size = BlockSize - Room
           ELSE rn = rm /\ rm.size < Room
    BY <1>5, <1>7, <1>10, <1>11, <2>1
  <2>3. PICK bs, lv : bs = blocks /\ lv = live
    OBVIOUS
  <2>4. StringsSound(bs, lv, rm, D) /\ More(bs, x, p) /\ at = Start(bs)
    BY <1>3, <2>2, <2>3
  <2>5. IF Room < BlockSize THEN rn.at = Plus(at, Room) /\ rn.size = BlockSize - Room ELSE rn = rm /\ rm.size < Room
    BY <2>2
  <2>6. x.size = BlockSize /\ x.strings
    BY <1>8
  <2>7. /\ StringsSound(p, lv, rn, D \cup {at}) /\ at \notin D
        /\ InBlocks(p, D \cup {at}) = InBlocks(bs, D) \cup {at}
    BY <2>4, <2>5, <2>6, StringsBlock
  <2>8. QED
    BY <2>1, <2>3, <2>7
<1>13. HeapInv(Heap')
  <2>1. Heap' = HeapOf(blocks', Heap.live, Heap.small, Heap.big, used + Room, total')
    BY <1>4 DEF Heap, HeapOf, Pooled, Room
  <2>2. used + Room \in Int /\ Heap.total = total /\ Heap.blocks = blocks /\ total \in Int
    <3>1. Heap.total = total /\ Heap.blocks = blocks /\ Heap.used = used
      BY DEF Heap
    <3>2. SumBlocks(blocks) \in Int
      BY <1>8, <1>9, SumBlocksAppend
    <3>3. Heap.used \in Int /\ Heap.total = SumBlocks(Heap.blocks)
      BY <1>5 DEF HeapInv
    <3>4. QED
      BY <3>1, <3>2, <3>3, RoomSize
  <2>3. blocks' = Added(Heap.blocks, x)
    BY <1>2, <1>7, <2>2 DEF Added
  <2>4. total' = Heap.total + x.size /\ total' <= MaxTotal
    BY <1>2, <1>8, <2>2, Constants
  <2>5. PICK bs, t, u : bs = blocks' /\ t = total' /\ u = used + Room
    OBVIOUS
  <2>6. /\ u \in Int /\ bs = Added(Heap.blocks, x) /\ t = Heap.total + x.size /\ t <= MaxTotal
        /\ Heap' = HeapOf(bs, Heap.live, Heap.small, Heap.big, u, t)
    BY <2>1, <2>2, <2>3, <2>4, <2>5
  <2>7. QED
    BY <1>5, <1>8, <2>6, HeapStrings
<1>14. QED
  BY <1>4, <1>7, <1>12, <1>13, PooledStep

(* A string that is an object of the heap.                                    *)
LEMMA NewStringStep ==
    ASSUME GcInv, NewString
    PROVE  GcInv'
<1>1. PICK text \in Texts :
         /\ GcMalloc(Heap, StringSize, TRUE).at # Null
         /\ Become(GcMalloc(Heap, StringSize, TRUE).h)
         /\ texts' = Enter(texts, GcMalloc(Heap, StringSize, TRUE).at, text)
         /\ kept' = kept \cup {[at |-> GcMalloc(Heap, StringSize, TRUE).at, text |-> text]}
  BY DEF NewString
<1>2. pool' = pool /\ room' = room /\ held' = held
  BY DEF NewString
<1>3. PICK m : m = GcMalloc(Heap, StringSize, TRUE)
  OBVIOUS
<1>4. PICK at, r : at = m.at /\ r = m.h
  OBVIOUS
<1>5. HeapInv(Heap) /\ Heap.live = live /\ Heap.blocks = blocks /\ Heap.used = used
  BY HeapParts DEF GcInv
<1>6. Malloced(Heap, at, r, Room, TRUE)
  <2>1. LET c == GcMalloc(Heap, StringSize, TRUE)
        IN  \/ c.at = Null /\ c.h = Heap
            \/ StringSize # 0 /\ Malloced(Heap, c.at, c.h, Align8(StringSize), TRUE)
    BY <1>5, Constants, MallocSound
  <2>2. QED
    BY <1>1, <1>3, <1>4, <2>1 DEF Room
<1>7. /\ Become(r) /\ texts' = Enter(texts, at, text) /\ kept' = kept \cup {[at |-> at, text |-> text]}
  BY <1>1, <1>3, <1>4
<1>8. PICK n : n = New(at, Room, TRUE)
  OBVIOUS
<1>9. HeapInv(r) /\ Kept(Heap, r) /\ r.live = live \cup {n} /\ n \in r.live /\ n.at = at /\ n.size = Room
  <2>1. New(at, Room, TRUE).at = at /\ New(at, Room, TRUE).size = Room
    BY DEF New
  <2>2. QED
    BY <1>5, <1>6, <1>8, <2>1 DEF Malloced
<1>10. Heap' = r /\ blocks' = r.blocks /\ live' = r.live /\ used' = r.used
  BY <1>7, <1>9, HeapNow
<1>11. PICK D : D = DOMAIN texts
  OBVIOUS
<1>12. DOMAIN texts' = D \cup {at}
  BY <1>7, <1>11, Entered
<1>13. StringsSound(r.blocks, r.live, room, D) /\ InBlocks(r.blocks, D) = InBlocks(blocks, D)
  <2>1. Longer(blocks, r.blocks)
    BY <1>5, <1>9 DEF Kept
  <2>2. StringsSound(blocks, live, room, D)
    BY <1>11 DEF GcInv
  <2>3. \A a : New(a, Room, TRUE) \in live => New(a, Room, TRUE) \in r.live
    BY <1>9
  <2>4. QED
    BY <2>1, <2>2, <2>3, StringsKept
<1>14. Inside(Str(at), r.blocks) /\ ~ r.blocks[at[1]].strings
  <2>1. /\ n.at = <<n.at[1], n.at[2]>> /\ n.at[1] \in 1 .. Len(r.blocks) /\ n.at[2] \in Nat
        /\ ~ r.blocks[n.at[1]].strings
        /\ r.blocks[n.at[1]].size \in Nat /\ n.at[2] + n.size <= r.blocks[n.at[1]].size
    BY <1>9, LiveAt
  <2>2. QED
    BY <1>9, <2>1, StrFields DEF Inside
<1>15. StringsSound(r.blocks, r.live, room, D \cup {at}) /\ InBlocks(r.blocks, D \cup {at}) = InBlocks(r.blocks, D)
  <2>1. New(at, Room, TRUE) \in r.live
    BY <1>8, <1>9
  <2>2. StringsSound(r.blocks, r.live, room, D)
    BY <1>13
  <2>3. PICK bs, lv, rm : bs = r.blocks /\ lv = r.live /\ rm = room
    OBVIOUS
  <2>4. StringsSound(bs, lv, rm, D) /\ Inside(Str(at), bs) /\ ~ bs[at[1]].strings /\ New(at, Room, TRUE) \in lv
    BY <1>14, <2>1, <2>2, <2>3
  <2>5. StringsSound(bs, lv, rm, D \cup {at}) /\ InBlocks(bs, D \cup {at}) = InBlocks(bs, D)
    <3>1. StringsSound(bs, lv, rm, D \cup {at})
      BY <2>4, StringsObject
    <3>2. InBlocks(bs, D \cup {at}) = InBlocks(bs, D)
      BY <2>4 DEF InBlocks
    <3>3. QED
      BY <3>1, <3>2
  <2>6. QED
    BY <2>3, <2>5
<1>16. StringsSound(blocks', live', room', DOMAIN texts')
  BY <1>2, <1>10, <1>12, <1>15
<1>17. NamesSound(DOMAIN texts', pool', kept')
  BY <1>2, <1>7, <1>11, <1>12 DEF GcInv, NamesSound
<1>18. HeldSound(live', held')
  <2>1. HeldSound(r.live, held)
    BY <1>9, HeldStay DEF GcInv
  <2>2. QED
    BY <1>2, <1>10, <2>1
<1>19. used' = SumSizes(live') + SumSizes(PooledStrings)'
  <2>1. SumSizes(PooledStrings)' = Bytes(InBlocks(blocks', DOMAIN texts'))
    BY DEF PooledStrings, Bytes, InBlocks, Str, Room, SumSizes
  <2>2. SumSizes(PooledStrings)' = Bytes(InBlocks(blocks, D))
    BY <1>10, <1>12, <1>13, <1>15, <2>1
  <2>3. used = SumSizes(live) + Bytes(InBlocks(blocks, D))
    BY <1>11, PooledBytes DEF GcInv
  <2>4. r.used - SumSizes(r.live) = used - SumSizes(live)
    BY <1>5, <1>9 DEF Kept
  <2>5. SumSizes(r.live) \in Int /\ r.used \in Int /\ SumSizes(live) \in Int
    BY <1>5, <1>9, HeapSizes DEF HeapInv
  <2>6. Bytes(InBlocks(blocks, D)) \in Int
    <3>1. IsFiniteSet(InBlocks(blocks, D))
      BY <1>11, FS_Subset DEF GcInv, StringsSound, InBlocks
    <3>2. QED
      BY <3>1, BytesAdd
  <2>7. QED
    BY <1>10, <2>2, <2>3, <2>4, <2>5, <2>6
<1>20. HeapInv(Heap')
  BY <1>9, <1>10
<1>21. QED
  BY <1>16, <1>17, <1>18, <1>19, <1>20 DEF GcInv

LEMMA NoSizes == SumSizes({}) = 0 /\ SumBlocks(<< >>) = 0
<1>1. [b \in {} |-> b.size] = [b \in {} |-> 0]
  OBVIOUS
<1>2. [n \in DOMAIN << >> |-> << >>[n].size] = [b \in {} |-> 0]
  OBVIOUS
<1>3. SumFunction([b \in {} |-> 0]) = 0
  <2>1. PICK f : f = [b \in {} |-> 0]
    OBVIOUS
  <2>2. DOMAIN f = {}
    BY <2>1
  <2>3. SumFunction(f) = 0
    BY <2>2, SumEmpty DEF SumFunction
  <2>4. QED
    BY <2>1, <2>3
<1>4. QED
  BY <1>1, <1>2, <1>3 DEF SumSizes, SumBlocks

\* A VM that owns no block.
NoHeap == HeapOf(<< >>, {}, [n \in 1 .. Top |-> << >>], << >>, 0, 0)

(* The heap before the first block and after the last.                        *)
LEMMA NoHeapSound == HeapInv(NoHeap)
<1>1. PICK s : s = [n \in 1 .. Top |-> << >>]
  OBVIOUS
<1>2. PICK e : e = << >>
  OBVIOUS
<1>3. IsSeq(e) /\ Once(e) /\ ToSet(e) = {} /\ Len(e) = 0
  BY <1>2, NoEntries
<1>4. Lists(s, e)
  BY <1>1, <1>2, <1>3 DEF Lists
<1>5. FreeIn(s, e) = {}
  <2>1. \A n \in 1 .. Top : SmallOf(s, n) = {}
    BY <1>1, <1>2, <1>3 DEF SmallOf
  <2>2. DOMAIN s = 1 .. Top
    BY <1>1
  <2>3. QED
    BY <1>3, <2>1, <2>2 DEF FreeIn
<1>6. Divided({}, {}, e)
  BY <1>3 DEF Divided, Separate, Full
<1>7. BlocksSound(e)
  BY <1>3 DEF BlocksSound
<1>8. SumBlocks(e) = 0 /\ 0 <= MaxTotal
  BY <1>2, NoSizes, Layout
<1>9. PICK h : h = HeapOf(e, {}, s, e, 0, 0)
  OBVIOUS
<1>10. /\ IsHeap(h) /\ h.blocks = e /\ h.live = {} /\ h.small = s /\ h.big = e /\ h.used = 0 /\ h.total = 0
  BY <1>9, HeapIs
<1>11. HeapInv(h)
  BY <1>4, <1>5, <1>6, <1>7, <1>8, <1>10, FS_EmptySet DEF HeapInv
<1>12. QED
  BY <1>1, <1>2, <1>9, <1>11 DEF NoHeap

LEMMA NoStringsSound == \A rm : rm.size = 0 => StringsSound(<< >>, {}, rm, {})
BY FS_EmptySet DEF StringsSound

LEMMA InitHolds ==
    ASSUME Init
    PROVE  GcInv
<1>1. Heap = NoHeap
  BY DEF Init, Heap, NoHeap, HeapOf, Top
<1>2. HeapInv(Heap)
  BY <1>1, NoHeapSound
<1>3. DOMAIN texts = {} /\ DOMAIN pool = {} /\ room.size = 0
  BY DEF Init
<1>4. StringsSound(blocks, live, room, DOMAIN texts)
  <2>1. StringsSound(<< >>, {}, room, {})
    BY <1>3, NoStringsSound
  <2>2. QED
    BY <1>3, <2>1 DEF Init
<1>5. HeldSound(live, held) /\ NamesSound(DOMAIN texts, pool, kept)
  BY <1>3 DEF Init, HeldSound, NamesSound
<1>6. used = SumSizes(live) + SumSizes(PooledStrings)
  <2>1. PooledStrings = {}
    BY <1>3 DEF PooledStrings
  <2>2. QED
    BY <2>1, NoSizes DEF Init
<1>7. QED
  BY <1>2, <1>4, <1>5, <1>6 DEF GcInv

(* close_state.                                                               *)
LEMMA CloseStep ==
    ASSUME GcInv, Close
    PROVE  GcInv'
<1>1. DOMAIN small = 1 .. Top
  BY DEF GcInv, HeapInv, Heap, Lists
<1>2. Heap' = NoHeap
  BY <1>1 DEF Close, Heap, NoHeap, HeapOf
<1>3. HeapInv(Heap')
  BY <1>2, NoHeapSound
<1>4. DOMAIN texts' = {} /\ DOMAIN pool' = {} /\ room'.size = 0
  BY DEF Close
<1>5. StringsSound(blocks', live', room', DOMAIN texts')
  <2>1. StringsSound(<< >>, {}, room', {})
    BY <1>4, NoStringsSound
  <2>2. QED
    BY <1>4, <2>1 DEF Close
<1>6. HeldSound(live', held') /\ NamesSound(DOMAIN texts', pool', kept')
  BY <1>4 DEF Close, HeldSound, NamesSound
<1>7. used' = SumSizes(live') + SumSizes(PooledStrings)'
  <2>1. PooledStrings' = {}
    BY <1>4 DEF PooledStrings
  <2>2. SumSizes(PooledStrings)' = SumSizes({})
    BY <2>1 DEF SumSizes
  <2>3. QED
    BY <2>2, NoSizes DEF Close
<1>8. QED
  BY <1>3, <1>5, <1>6, <1>7 DEF GcInv

LEMMA Idle ==
    ASSUME GcInv, UNCHANGED vars
    PROVE  GcInv'
<1>1. Heap' = Heap
  BY DEF vars, Heap
<1>2. PooledStrings' = PooledStrings
  BY DEF vars, PooledStrings
<1>3. SumSizes(PooledStrings)' = SumSizes(PooledStrings)
  BY <1>2 DEF SumSizes
<1>4. QED
  BY <1>1, <1>3 DEF GcInv, vars

(* GcInv holds after any sequence of allocations, frees, reallocations,       *)
(* growths, new strings and the close of the VM (gcstate.cpp).                *)
THEOREM GcInvariant == Spec => []GcInv
<1>1. Init => GcInv
  BY InitHolds
<1>2. GcInv /\ [Next]_vars => GcInv'
  <2> SUFFICES ASSUME GcInv, [Next]_vars PROVE GcInv'
    OBVIOUS
  <2>1. CASE Malloc
    BY <2>1, MallocStep
  <2>2. CASE Free
    BY <2>2, FreeStep
  <2>3. CASE Realloc
    BY <2>3, ReallocStep
  <2>4. CASE GrowVector
    BY <2>4, GrowVectorStep
  <2>5. CASE FindString
    BY <2>5, FindStringStep
  <2>6. CASE PoolString
    BY <2>6, PoolStringStep
  <2>7. CASE PoolStringInNewBlock
    BY <2>7, PoolBlockStep
  <2>8. CASE NewString
    BY <2>8, NewStringStep
  <2>9. CASE Close
    BY <2>9, CloseStep
  <2>10. CASE UNCHANGED vars
    BY <2>10, Idle
  <2>11. QED
    BY <2>1, <2>2, <2>3, <2>4, <2>5, <2>6, <2>7, <2>8, <2>9, <2>10 DEF Next
<1>3. QED
  BY <1>1, <1>2, PTL DEF Spec

-----------------------------------------------------------------------------
(* What the invariant says of the memory.                                      *)

(* The bytes of a buffer are the addresses it covers.                         *)
LEMMA InCells ==
    ASSUME NEW c, c.size \in Nat, c.at[2] \in Nat, NEW n, NEW i \in Nat
    PROVE  <<n, i>> \in Cells(c.at, c.size) <=> Covers(c, n, i)
<1>1. ASSUME NEW j \in 0 .. (c.size - 1), <<n, i>> = Plus(c.at, j) PROVE Covers(c, n, i)
  BY <1>1 DEF Plus, Covers
<1>2. ASSUME Covers(c, n, i) PROVE \E j \in 0 .. (c.size - 1) : <<n, i>> = Plus(c.at, j)
  <2>1. i - c.at[2] \in 0 .. (c.size - 1)
    BY <1>2 DEF Covers
  <2>2. <<n, i>> = Plus(c.at, i - c.at[2])
    BY <1>2 DEF Covers, Plus
  <2>3. QED
    BY <2>1, <2>2
<1>3. QED
  BY <1>1, <1>2 DEF Cells

\* A buffer given by its address and size that lies within another.
Within(b, c) == b.at = c.at /\ b.size \in Nat /\ b.size <= c.size

LEMMA ApartCells ==
    ASSUME NEW b, NEW c, b.size \in Nat, c.size \in Nat, b.at[2] \in Nat, c.at[2] \in Nat, Apart(b, c)
    PROVE  Cells(b.at, b.size) \cap Cells(c.at, c.size) = {}
<1> SUFFICES ASSUME NEW i \in 0 .. (b.size - 1), NEW j \in 0 .. (c.size - 1), Plus(b.at, i) = Plus(c.at, j)
             PROVE FALSE
  BY DEF Cells
<1>1. b.at[1] = c.at[1] /\ b.at[2] + i = c.at[2] + j
  BY DEF Plus
<1>2. QED
  BY <1>1 DEF Apart

LEMMA WithinApart ==
    ASSUME NEW b, NEW x, NEW c, NEW y, Within(b, x), Within(c, y), Apart(x, y),
           x.size \in Nat, y.size \in Nat, x.at[2] \in Nat, y.at[2] \in Nat
    PROVE  Cells(b.at, b.size) \cap Cells(c.at, c.size) = {}
<1>1. Apart(b, c)
  BY DEF Within, Apart
<1>2. QED
  BY <1>1, ApartCells DEF Within

\* What is in use: live buffers and the strings of the string blocks.
InUse == {Buf(l.at, l.size) : l \in live} \cup PooledStrings

(* What is in use is disjoint, also from what is free.                        *)
LEMMA InUseSound ==
    ASSUME GcInv
    PROVE  /\ \A x \in InUse : Inside(x, blocks) /\ x.size \in Nat
           /\ \A x \in InUse, y \in InUse : x # y => Apart(x, y)
           /\ \A x \in InUse, y \in FreeBuffers : Apart(x, y)
           /\ \A y \in FreeBuffers : y.size \in Nat /\ y.at[2] \in Nat
<1>1. /\ HeapInv(Heap) /\ Heap.live = live /\ Heap.blocks = blocks
      /\ StringsSound(blocks, live, room, DOMAIN texts)
  BY HeapParts DEF GcInv
<1>2. PICK F : F = FreeBuffers
  OBVIOUS
<1>3. F = FreeIn(Heap.small, Heap.big)
  BY <1>2, FreeOfLists DEF FreeBuffers
<1>4. Divided(live, F, blocks)
  BY <1>1, <1>3 DEF HeapInv
<1>5. \A b \in live \cup F : Inside(b, blocks) /\ ~ blocks[b.at[1]].strings /\ b.size \in Nat \ {0} /\ b.at[2] \in Nat
  BY <1>4, PieceFacts DEF Divided, Piece
<1>6. \A a : a \in InBlocks(blocks, DOMAIN texts) => Inside(Str(a), blocks) /\ blocks[a[1]].strings
  BY <1>1 DEF StringsSound, InBlocks
<1>7. PICK U : U = InUse
  OBVIOUS
<1>8. \A x : x \in U <=> \/ \E l \in live : x = Buf(l.at, l.size)
                         \/ \E a \in InBlocks(blocks, DOMAIN texts) : x = Str(a)
  BY <1>7 DEF InUse, PooledStrings, InBlocks, Str, Room
<1>9. \A a, n : Buf(a, n).at = a /\ Buf(a, n).size = n
  BY DEF Buf
<1>10. ASSUME NEW x \in U PROVE Inside(x, blocks) /\ x.size \in Nat
  <2>1. CASE \E l \in live : x = Buf(l.at, l.size)
    BY <1>5, <1>9, <2>1 DEF Inside
  <2>2. CASE \E a \in InBlocks(blocks, DOMAIN texts) : x = Str(a)
    BY <1>6, <2>2, StrFields, RoomSize
  <2>3. QED
    BY <1>8, <2>1, <2>2
<1>11. ASSUME NEW x \in U, NEW y \in F PROVE Apart(x, y)
  <2>1. CASE \E l \in live : x = Buf(l.at, l.size)
    BY <1>4, <1>9, <2>1 DEF Divided, Separate, Apart
  <2>2. CASE \E a \in InBlocks(blocks, DOMAIN texts) : x = Str(a)
    BY <1>5, <1>6, <2>2, StrFields DEF Apart
  <2>3. QED
    BY <1>8, <2>1, <2>2
<1>12. ASSUME NEW x \in U, NEW y \in U, x # y PROVE Apart(x, y)
  <2>1. ASSUME NEW k \in live, NEW l \in live, x = Buf(k.at, k.size), y = Buf(l.at, l.size) PROVE Apart(x, y)
    <3>1. k # l
      BY <1>12, <2>1
    <3>2. Apart(k, l)
      BY <1>4, <3>1 DEF Divided, Separate
    <3>3. QED
      BY <1>9, <2>1, <3>2 DEF Apart
  <2>2. ASSUME NEW l \in live, NEW a \in InBlocks(blocks, DOMAIN texts) PROVE l.at[1] # a[1]
    BY <1>5, <1>6
  <2>3. ASSUME NEW a \in InBlocks(blocks, DOMAIN texts), NEW c \in InBlocks(blocks, DOMAIN texts), x = Str(a), y = Str(c)
        PROVE  Apart(x, y)
    BY <1>1, <1>12, <2>3 DEF StringsSound, InBlocks
  <2>4. QED
    BY <1>8, <1>9, <2>1, <2>2, <2>3, StrFields DEF Apart
<1>13. QED
  BY <1>2, <1>5, <1>7, <1>10, <1>11, <1>12

\* Each thing the program holds lies within a part that is in use.
LEMMA HeldInUse ==
    ASSUME GcInv
    PROVE  /\ \A b \in held : \E x \in InUse : Within(Buf(b.at, b.size * b.count), x) /\ ~ \E k \in kept : k.at = x.at
           /\ \A k \in kept : \E x \in InUse : Within(Buf(k.at, StringSize), x)
<1>1. /\ HeapInv(Heap) /\ Heap.live = live /\ Heap.blocks = blocks
      /\ StringsSound(blocks, live, room, DOMAIN texts) /\ NamesSound(DOMAIN texts, pool, kept)
  BY HeapParts DEF GcInv
<1>2. \A a, n : Buf(a, n).at = a /\ Buf(a, n).size = n
  BY DEF Buf
<1>3. ASSUME NEW k \in kept
      PROVE  \/ New(k.at, Room, TRUE) \in live
             \/ k.at \in InBlocks(blocks, DOMAIN texts)
  BY <1>1 DEF NamesSound, StringsSound, InBlocks
<1>4. ASSUME NEW k \in kept PROVE \E x \in InUse : Within(Buf(k.at, StringSize), x)
  <2>1. CASE New(k.at, Room, TRUE) \in live
    <3>1. PICK l \in live : l.at = k.at /\ l.size = Room
      BY <2>1 DEF New
    <3>2. Buf(l.at, l.size) \in InUse
      BY DEF InUse
    <3>3. QED
      BY <1>2, <3>1, <3>2, RoomSize DEF Within
  <2>2. CASE k.at \in InBlocks(blocks, DOMAIN texts)
    <3>1. Str(k.at) \in InUse
      BY <2>2 DEF InUse, PooledStrings, InBlocks, Str, Room
    <3>2. QED
      BY <1>2, <3>1, StrFields, RoomSize DEF Within
  <2>3. QED
    BY <1>3, <2>1, <2>2
<1>5. ASSUME NEW b \in held
      PROVE  \E x \in InUse : Within(Buf(b.at, b.size * b.count), x) /\ ~ \E k \in kept : k.at = x.at
  <2>1. PICK l \in live : l.at = b.at /\ l.obj = FALSE /\ b.size * b.count <= l.size
    BY <1>1, HeldLive
  <2>2. b.size * b.count \in Nat
    <3>1. b.size \in Nat \ {0} /\ b.count \in Nat \ {0}
      BY HeldLive
    <3>2. QED
      BY <3>1, TimesPositive
  <2>3. Buf(l.at, l.size) \in InUse
    BY DEF InUse
  <2>4. Within(Buf(b.at, b.size * b.count), Buf(l.at, l.size))
    BY <1>2, <2>1, <2>2 DEF Within
  <2>5. ASSUME NEW k \in kept, k.at = l.at PROVE FALSE
    <3>1. CASE New(k.at, Room, TRUE) \in live
      BY <2>1, <2>5, <3>1, ObjectsStay
    <3>2. CASE k.at \in InBlocks(blocks, DOMAIN texts)
      <4>1. ~ blocks[l.at[1]].strings
        BY <1>1, LiveAt
      <4>2. QED
        BY <2>5, <3>2, <4>1 DEF InBlocks
    <3>3. QED
      BY <1>3, <3>1, <3>2
  <2>6. QED
    BY <1>2, <2>3, <2>4, <2>5
<1>6. QED
  BY <1>4, <1>5

(* Buffers and strings the program holds share no byte.                       *)
LEMMA DisjointHolds ==
    ASSUME GcInv
    PROVE  MemoryDisjoint
<1>1. PICK mine, names : /\ mine = {Buf(b.at, b.size * b.count) : b \in held}
                         /\ names = {Buf(k.at, StringSize) : k \in kept}
  OBVIOUS
<1>2. \A a, n : Buf(a, n).at = a /\ Buf(a, n).size = n
  BY DEF Buf
<1>3. \A b \in mine : \E x \in InUse : Within(b, x) /\ ~ \E k \in kept : k.at = x.at
  BY <1>1, HeldInUse
<1>4. \A b \in names : \E x \in InUse : Within(b, x)
  BY <1>1, HeldInUse
<1>5. ASSUME NEW b \in mine \cup names, NEW c \in mine \cup names, b.at = c.at PROVE b = c
  <2>1. CASE b \in names /\ c \in names
    BY <1>1, <1>2, <1>5, <2>1
  <2>2. CASE b \in mine /\ c \in mine
    <3>1. PICK x \in held, y \in held : b = Buf(x.at, x.size * x.count) /\ c = Buf(y.at, y.size * y.count)
      BY <1>1, <2>2
    <3>2. x.at = y.at
      BY <1>2, <1>5, <3>1
    <3>3. x = y
      BY <3>2 DEF GcInv, HeldSound
    <3>4. QED
      BY <3>1, <3>3
  <2>3. ASSUME NEW m \in mine, NEW s \in names PROVE m.at # s.at
    <3>1. PICK k \in kept : s.at = k.at
      BY <1>1, <1>2
    <3>2. PICK x \in InUse : Within(m, x) /\ ~ \E l \in kept : l.at = x.at
      BY <1>3
    <3>3. QED
      BY <3>1, <3>2 DEF Within
  <2>4. QED
    BY <1>5, <2>1, <2>2, <2>3
<1>6. ASSUME NEW b \in mine \cup names
      PROVE  \E x \in InUse : Within(b, x) /\ Inside(x, blocks) /\ x.size \in Nat /\ x.at[2] \in Nat
  <2>1. PICK x \in InUse : Within(b, x)
    BY <1>3, <1>4
  <2>2. Inside(x, blocks) /\ x.size \in Nat
    BY InUseSound
  <2>3. QED
    BY <2>1, <2>2 DEF Inside
<1>7. ASSUME NEW b \in mine \cup names
      PROVE  b.at[1] \in DOMAIN blocks /\ b.at[2] + b.size <= blocks[b.at[1]].size
  <2>1. PICK x \in InUse : Within(b, x) /\ Inside(x, blocks) /\ x.size \in Nat /\ x.at[2] \in Nat
    BY <1>6
  <2>2. IsSeq(blocks)
    BY DEF GcInv, HeapInv, BlocksSound, Heap
  <2>3. DOMAIN blocks = 1 .. Len(blocks)
    BY <2>2, SetOf
  <2>4. QED
    BY <2>1, <2>3 DEF Inside, Within
<1>8. ASSUME NEW b \in mine \cup names, NEW c \in mine \cup names, b # c
      PROVE  Cells(b.at, b.size) \cap Cells(c.at, c.size) = {}
  <2>1. PICK x \in InUse : Within(b, x) /\ x.size \in Nat /\ x.at[2] \in Nat
    BY <1>6
  <2>2. PICK y \in InUse : Within(c, y) /\ y.size \in Nat /\ y.at[2] \in Nat
    BY <1>6
  <2>3. x # y
    BY <1>5, <1>8, <2>1, <2>2 DEF Within
  <2>4. Apart(x, y)
    BY <2>3, InUseSound
  <2>5. QED
    BY <2>1, <2>2, <2>4, WithinApart
<1>9. ASSUME NEW b \in mine \cup names, NEW c \in FreeBuffers
      PROVE  Cells(b.at, b.size) \cap Cells(c.at, c.size) = {}
  <2>1. PICK x \in InUse : Within(b, x) /\ x.size \in Nat /\ x.at[2] \in Nat
    BY <1>6
  <2>2. Apart(x, c) /\ c.size \in Nat /\ c.at[2] \in Nat
    BY InUseSound
  <2>3. Within(c, c)
    BY <2>2 DEF Within
  <2>4. QED
    BY <2>1, <2>2, <2>3, WithinApart
<1>10. /\ mine = {[at |-> b.at, size |-> b.size * b.count] : b \in held}
       /\ names = {[at |-> k.at, size |-> StringSize] : k \in kept}
  BY <1>1 DEF Buf
<1>11. PICK taken : taken = mine \cup names
  OBVIOUS
<1>12. /\ \A b \in taken : b.at[1] \in DOMAIN blocks /\ b.at[2] + b.size <= blocks[b.at[1]].size
       /\ \A b \in taken, c \in taken \cup FreeBuffers :
             b # c => Cells(b.at, b.size) \cap Cells(c.at, c.size) = {}
  BY <1>7, <1>8, <1>9, <1>11
<1>13. QED
  BY <1>10, <1>11, <1>12 DEF MemoryDisjoint

(* Every byte is in one buffer, and the counters are right.                   *)
LEMMA NothingLostHolds ==
    ASSUME GcInv
    PROVE  NothingLost
<1>1. HeapInv(Heap) /\ Heap.live = live /\ Heap.blocks = blocks /\ Heap.total = total
  BY HeapParts DEF GcInv, Heap
<1>2. PICK F : F = FreeBuffers
  OBVIOUS
<1>3. F = FreeIn(Heap.small, Heap.big)
  BY <1>2, FreeOfLists DEF FreeBuffers
<1>4. Divided(live, F, blocks) /\ BlocksSound(blocks)
  BY <1>1, <1>3 DEF HeapInv
<1>5. DOMAIN blocks = 1 .. Len(blocks)
  BY <1>4, SetOf DEF BlocksSound
<1>6. \A b \in live \cup F : b.size \in Nat /\ b.at[2] \in Nat
  BY <1>4, PieceFacts DEF Divided
<1>7. ASSUME NEW n \in DOMAIN blocks, ~ blocks[n].strings, NEW i \in 0 .. (blocks[n].size - 1)
      PROVE  \E b \in live \cup F : \A c \in live \cup F : <<n, i>> \in Cells(c.at, c.size) <=> c = b
  <2>1. i \in Nat
    BY <1>4, <1>5 DEF BlocksSound
  <2>2. PICK b \in live \cup F : Covers(b, n, i)
    BY <1>4, <1>5, <1>7 DEF Divided, Full
  <2>3. ASSUME NEW c \in live \cup F, Covers(c, n, i) PROVE c = b
    <3>1. SUFFICES ASSUME c # b PROVE FALSE
      OBVIOUS
    <3>2. Apart(b, c) \/ Apart(c, b)
      BY <1>4, <3>1 DEF Divided, Separate
    <3>3. QED
      BY <1>6, <2>1, <2>2, <2>3, <3>2 DEF Apart, Covers
  <2>4. ASSUME NEW c \in live \cup F PROVE <<n, i>> \in Cells(c.at, c.size) <=> Covers(c, n, i)
    BY <1>6, <2>1, InCells
  <2>5. QED
    BY <2>2, <2>3, <2>4
<1>8. used = SumSizes(live) + SumSizes(PooledStrings)
  BY DEF GcInv
<1>9. total = SumFunction([n \in DOMAIN blocks |-> blocks[n].size]) /\ total <= MaxTotal
  BY <1>1 DEF HeapInv, SumBlocks
<1>10. QED
  BY <1>2, <1>7, <1>8, <1>9 DEF NothingLost

\* The heap of src/vmgc is divided without overlap or gap, whatever the program
\* asks for and gives back, and its counters are right.
THEOREM HeapStaysSound == Spec => []HeapSound
<1>1. GcInv => HeapSound
  BY DisjointHolds, NothingLostHolds DEF HeapSound
<1>2. QED
  BY GcInvariant, <1>1, PTL
================================================================================
