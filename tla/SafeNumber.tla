------------------------------- MODULE SafeNumber -------------------------------
(* The decimal numbers of contracts (safenumber.cpp): sign, coefficient and     *)
(* exponent over hand-written 128 and 256 bit integers.  The widths scale: a    *)
(* word has 2 * HalfBits bits (64 in the code), a pair two words, a quad two    *)
(* pairs, the most significant first.  Texts are the sequences of their bytes.  *)
(* Left out: the negation and the power of pairs and the negation of quads,     *)
(* which nothing calls, and the smallest int64_t as an argument.                *)
EXTENDS Integers, Sequences

CONSTANTS
    HalfBits,   \* 32
    Places,     \* 16: the decimals a number keeps
    TextLimit   \* 40

Half == 2^HalfBits
Word == 2^(2 * HalfBits)
PairBits == 4 * HalfBits
QuadBits == 8 * HalfBits

\* uint64_pow
Power(a, p) == (a^p) % Word

-----------------------------------------------------------------------------
(* SimpleUint128.                                                             *)

Pair0  == <<0, 0>>
Pair1  == <<0, 1>>
Pair10 == <<0, 10>>
PairIsZero(a) == a[1] = 0 /\ a[2] = 0
PairGt(a, b) == IF a[1] = b[1] THEN a[2] > b[2] ELSE a[1] > b[1]
PairLt(a, b) == PairGt(b, a)
PairGe(a, b) == PairGt(a, b) \/ a = b

PairAdd(a, b) ==
    LET low == (a[2] + b[2]) % Word
    IN  <<(a[1] + b[1] + (IF low < a[2] THEN 1 ELSE 0)) % Word, low>>
PairMinus(a, b) ==
    LET low == (a[2] - b[2]) % Word
    IN  <<(a[1] - b[1] - (IF low > a[2] THEN 1 ELSE 0)) % Word, low>>

\* The columns of the school method, the least significant last; column k takes
\* the low half of x * y when x + y - 4 = k and the high half when x + y - 5 = k.
PairMultiply(a, b) ==
    LET Halves(p) == <<p[1] \div Half, p[1] % Half, p[2] \div Half, p[2] % Half>>
        top    == Halves(a)
        bottom == Halves(b)
        P(x, y) == top[x] * bottom[y]
        Lo(x, y) == P(x, y) % Half
        Hi(x, y) == P(x, y) \div Half
        fourth == Lo(4, 4)
        third  == Lo(4, 3) + Hi(4, 4) + Lo(3, 4) + fourth \div Half
        second == Lo(4, 2) + Hi(4, 3) + Lo(3, 3) + Hi(3, 4) + Lo(2, 4) + third \div Half
        first  == Lo(4, 1) + Hi(4, 2) + Lo(3, 2) + Hi(3, 3) + Lo(2, 3) + Hi(2, 4) + Lo(1, 4) + second \div Half
    IN  <<(first % Half) * Half + (second % Half), (third % Half) * Half + (fourth % Half)>>

PairShiftLeft(a, n) ==
    CASE n >= PairBits     -> Pair0
      [] n = 0             -> a
      [] n = 2 * HalfBits  -> <<a[2], 0>>
      [] n < 2 * HalfBits  -> <<(((a[1] * 2^n) % Word) + a[2] \div 2^(2 * HalfBits - n)) % Word, (a[2] * 2^n) % Word>>
      [] OTHER             -> <<(a[2] * 2^(n - 2 * HalfBits)) % Word, 0>>
PairShiftRight(a, n) ==
    CASE n >= PairBits     -> Pair0
      [] n = 0             -> a
      [] n = 2 * HalfBits  -> <<0, a[1]>>
      [] n < 2 * HalfBits  -> <<a[1] \div 2^n, (((a[1] * 2^(2 * HalfBits - n)) % Word) + a[2] \div 2^n) % Word>>
      [] OTHER             -> <<0, a[1] \div 2^(n - 2 * HalfBits)>>

RECURSIVE WordBits(_)
WordBits(w) == IF w = 0 THEN 0 ELSE 1 + WordBits(w \div 2)
PairBitsOf(a) == IF a[1] # 0 THEN 2 * HalfBits + WordBits(a[1]) ELSE WordBits(a[2])

DivResult(q, r) == [div |-> q, mod |-> r]

\* Long division bit by bit; the caller never passes b = 0.
RECURSIVE PairDivLoop(_, _, _, _)
PairDivLoop(a, b, r, x) ==
    IF x = 0 THEN r
    ELSE LET div == PairShiftLeft(r.div, 1)
             mod == PairAdd(PairShiftLeft(r.mod, 1), <<0, PairShiftRight(a, x - 1)[2] % 2>>)
         IN  PairDivLoop(a, b, IF PairGe(mod, b) THEN DivResult(PairAdd(div, Pair1), PairMinus(mod, b))
                                                 ELSE DivResult(div, mod), x - 1)
PairDivmod(a, b) ==
    CASE b = Pair1     -> DivResult(a, Pair0)
      [] a = b         -> DivResult(Pair1, Pair0)
      [] PairLt(a, b)  -> DivResult(Pair0, a)
      [] OTHER         -> PairDivLoop(a, b, DivResult(Pair0, Pair0), PairBitsOf(a))
PairDiv10(a) == PairDivmod(a, Pair10).div

RECURSIVE PairDigits(_)
PairDigits(a) ==
    LET qr == PairDivmod(a, Pair10)
    IN  (IF PairIsZero(qr.div) THEN <<>> ELSE PairDigits(qr.div)) \o <<48 + qr.mod[2]>>
\* simple_uint128_to_string, base 10, padded to len.
PairToString(a, len) ==
    LET out == PairDigits(a)
    IN  [i \in 1..(IF len > Len(out) THEN len - Len(out) ELSE 0) |-> 48] \o out

-----------------------------------------------------------------------------
(* SimpleUint256.                                                             *)

Quad0  == <<Pair0, Pair0>>
Quad1  == <<Pair0, Pair1>>
Quad10 == <<Pair0, Pair10>>
QuadIsZero(a) == PairIsZero(a[1]) /\ PairIsZero(a[2])
QuadGt(a, b) == IF a[1] = b[1] THEN PairGt(a[2], b[2]) ELSE PairGt(a[1], b[1])
QuadGe(a, b) == QuadGt(a, b) \/ a = b

QuadAdd(a, b) ==
    LET low == PairAdd(a[2], b[2])
    IN  <<PairAdd(PairAdd(a[1], b[1]), IF PairLt(low, a[2]) THEN Pair1 ELSE Pair0), low>>
\* The borrow is -1 converted to uint64_t, the largest word.
QuadMinus(a, b) ==
    LET low == PairMinus(a[2], b[2])
    IN  <<PairAdd(PairMinus(a[1], b[1]), IF PairGt(low, a[2]) THEN <<0, Word - 1>> ELSE Pair0), low>>

QuadMultiply(a, b) ==
    LET top    == a[1] \o a[2]
        bottom == b[1] \o b[2]
        P(x, y) == PairMultiply(<<0, top[x]>>, <<0, bottom[y]>>)
        Lo(x, y) == <<0, P(x, y)[2]>>
        Hi(x, y) == <<0, P(x, y)[1]>>
        Carry(c) == <<0, c[1]>>
        fourth == Lo(4, 4)
        third  == PairAdd(PairAdd(PairAdd(Lo(4, 3), Hi(4, 4)), Lo(3, 4)), Carry(fourth))
        second == PairAdd(PairAdd(PairAdd(Lo(4, 2), Hi(4, 3)), PairAdd(Lo(3, 3), Hi(3, 4))),
                          PairAdd(Lo(2, 4), Carry(third)))
        first  == PairAdd(PairAdd(PairAdd(PairAdd(Lo(4, 1), Hi(4, 2)), PairAdd(Lo(3, 2), Hi(3, 3))),
                                  PairAdd(Lo(2, 3), Hi(2, 4))), PairAdd(Lo(1, 4), Carry(second)))
    IN  <<<<first[2], second[2]>>, <<third[2], fourth[2]>>>>

QuadShiftLeft(a, n) ==
    CASE n >= QuadBits -> Quad0
      [] n = 0         -> a
      [] n = PairBits  -> <<a[2], Pair0>>
      [] n < PairBits  -> <<PairAdd(PairShiftLeft(a[1], n), PairShiftRight(a[2], PairBits - n)), PairShiftLeft(a[2], n)>>
      [] OTHER         -> <<PairShiftLeft(a[2], n - PairBits), Pair0>>
QuadShiftRight(a, n) ==
    CASE n >= QuadBits -> Quad0
      [] n = 0         -> a
      [] n = PairBits  -> <<Pair0, a[1]>>
      [] n < PairBits  -> <<PairShiftRight(a[1], n), PairAdd(PairShiftLeft(a[1], PairBits - n), PairShiftRight(a[2], n))>>
      [] OTHER         -> <<Pair0, PairShiftRight(a[1], n - PairBits)>>

\* The counter is a uint8_t: it wraps at the width of a quad.
QuadBitsOf(a) == (IF PairIsZero(a[1]) THEN PairBitsOf(a[2]) ELSE PairBits + PairBitsOf(a[1])) % QuadBits

RECURSIVE QuadDivLoop(_, _, _, _)
QuadDivLoop(a, b, r, x) ==
    IF x = 0 THEN r
    ELSE LET div == QuadShiftLeft(r.div, 1)
             bit == QuadShiftRight(a, x - 1)[2][2] % 2
             mod == QuadAdd(QuadShiftLeft(r.mod, 1), IF bit = 1 THEN Quad1 ELSE Quad0)
         IN  QuadDivLoop(a, b, IF QuadGe(mod, b) THEN DivResult(QuadAdd(div, Quad1), QuadMinus(mod, b))
                                                 ELSE DivResult(div, mod), x - 1)
QuadDivmod(a, b) ==
    CASE b = Quad1     -> DivResult(a, Quad0)
      [] a = b         -> DivResult(Quad1, Quad0)
      [] QuadGt(b, a)  -> DivResult(Quad0, a)
      [] OTHER         -> QuadDivLoop(a, b, DivResult(Quad0, Quad0), QuadBitsOf(a))
QuadDiv10(a) == QuadDivmod(a, Quad10).div

-----------------------------------------------------------------------------
(* SafeNumber: creation, normal form and text.                                *)

Number(sign, x, e) == [valid |-> TRUE, sign |-> sign, x |-> x, e |-> e]
Zero  == Number(TRUE, Pair0, 0)
NaN   == [Zero EXCEPT !.valid = FALSE]
IsZero(a) == a.valid /\ PairIsZero(a.x)
LargestX == PairMultiply(<<0, Power(10, Places)>>, <<0, Power(10, Places)>>)
TenTo(p) == <<0, Power(10, p)>>

RECURSIVE Shrink(_), DropPlaces(_, _), Strip(_)
\* compress_number, its three loops: while x is too large, beyond the last
\* decimal (the digits become 0), and while the last digit is 0.
Shrink(a) == IF PairGt(a.x, LargestX) /\ a.e # 0 THEN Shrink([a EXCEPT !.x = PairDiv10(a.x), !.e = a.e - 1]) ELSE a
DropPlaces(x, n) == IF n = 0 THEN x ELSE PairMultiply(DropPlaces(PairDiv10(x), n - 1), Pair10)
Strip(a) == IF ~PairIsZero(a.x) /\ PairMultiply(PairDiv10(a.x), Pair10) = a.x /\ a.e > 0
            THEN Strip([a EXCEPT !.x = PairDiv10(a.x), !.e = a.e - 1])
            ELSE a
CompressNumber(a) ==
    LET small == Shrink(a)
        short == [small EXCEPT !.x = DropPlaces(small.x, IF small.e > Places THEN small.e - Places ELSE 0)]
        r     == Strip(short)
    IN  IF ~a.valid THEN a ELSE IF r.e > Places THEN Zero ELSE r

Create(sign, x, e) == CompressNumber(Number(sign, x, e))
CreateInt(n) == Create(n >= 0, <<0, IF n >= 0 THEN n ELSE -n>>, 0)

NaNText == <<78, 97, 78>>
PlusSign  == 43
MinusSign == 45
PointSign == 46
RECURSIVE Digest(_, _, _, _, _)
\* Any byte counts as a digit, its distance from "0" converted to uint64_t.
Digest(s, i, x, e, afterDot) ==
    CASE i > Len(s) -> Number(TRUE, x, e)
      [] i <= Len(s) /\ s[i] = PointSign -> IF afterDot THEN NaN ELSE Digest(s, i + 1, x, e, TRUE)
      [] OTHER -> Digest(s, i + 1, PairAdd(PairMultiply(x, Pair10), <<0, (s[i] - 48) % Word>>),
                         IF afterDot THEN e + 1 ELSE e, afterDot)
CreateText(s) ==
    IF s = <<>> \/ Len(s) > TextLimit \/ s = NaNText THEN NaN
    ELSE LET n == Digest(s, IF s[1] \in {PlusSign, MinusSign} THEN 2 ELSE 1, Pair0, 0, FALSE)
         IN  IF n.valid THEN Create(s[1] # MinusSign, n.x, n.e) ELSE NaN

ToText(a) ==
    LET v  == CompressNumber(a)
        pq == PairDivmod(v.x, TenTo(v.e))
    IN  CASE ~v.valid  -> NaNText
          [] IsZero(v) -> <<48>>
          [] OTHER     -> (IF v.sign THEN <<>> ELSE <<MinusSign>>) \o PairToString(pq.div, 0)
                          \o (IF PairIsZero(pq.mod) THEN <<>> ELSE <<PointSign>> \o PairToString(pq.mod, v.e))

-----------------------------------------------------------------------------
(* Arithmetic.                                                                *)

Larger(m, n) == IF m < n THEN n ELSE m

Add(a, b) ==
    LET e  == Larger(a.e, b.e)
        ax == PairMultiply(a.x, TenTo(e - a.e))
        bx == PairMultiply(b.x, TenTo(e - b.e))
    IN  CASE ~a.valid \/ ~b.valid \/ IsZero(b) -> a
          [] IsZero(a)                         -> b
          [] a.sign = b.sign                   -> Create(a.sign, PairAdd(ax, bx), e)
          [] PairGt(ax, bx)                    -> Create(a.sign, PairMinus(ax, bx), e)
          [] ax = bx                           -> Create(TRUE, Pair0, e)
          [] OTHER                             -> Create(b.sign, PairMinus(bx, ax), e)

Neg(a) == IF ~a.valid \/ IsZero(a) THEN a ELSE Create(~a.sign, a.x, a.e)
Minus(a, b) == Add(a, Neg(b))

RECURSIVE FitPair(_, _)
\* Variant that fails: digits are dropped and the places kept.
FitPairKeepsPlaces(abx, e) == IF PairIsZero(abx[1]) \/ e = 0 THEN <<abx[2], e>> ELSE FitPair(QuadDiv10(abx), e)
FitPair(abx, e) == IF PairIsZero(abx[1]) \/ e = 0 THEN <<abx[2], e>> ELSE FitPair(QuadDiv10(abx), e - 1)
Multiply(a, b) ==
    LET fit == FitPair(QuadMultiply(<<Pair0, a.x>>, <<Pair0, b.x>>), a.e + b.e)
    IN  CASE ~a.valid \/ ~b.valid   -> a
          [] IsZero(a) \/ IsZero(b) -> Zero
          [] OTHER                  -> Create(a.sign = b.sign, fit[1], fit[2])

RECURSIVE DivDigits(_, _, _, _, _)
\* One decimal a round until limit, or rx is large, or nothing remains.
DivDigits(a, b, rx, re, limit) ==
    LET qr   == QuadDivmod(a, b)
        x    == PairAdd(PairMultiply(rx, Pair10), qr.div[2])
        rest == QuadMultiply(qr.mod, Quad10)
    IN  IF re + 1 < limit /\ PairLt(x, LargestX) /\ ~QuadIsZero(rest)
        THEN DivDigits(rest, b, x, re + 1, limit)
        ELSE <<x, re + 1>>
Quotient(a, b, limit) ==
    LET r     == DivDigits(<<Pair0, a.x>>, <<Pair0, b.x>>, Pair0, -1, limit)
        extra == a.e - b.e
    IN  CASE ~a.valid \/ ~b.valid -> a
          [] IsZero(a)            -> Zero
          [] IsZero(b)            -> NaN
          [] extra >= -r[2]       -> Create(a.sign = b.sign, r[1], r[2] + extra)
          [] OTHER                -> Create(a.sign = b.sign, PairMultiply(r[1], TenTo(-extra - r[2])), 0)
Div(a, b) == Quotient(a, b, 2 * Places)
DivOld(a, b) == Quotient(a, b, Places)

\* (low << 1) >> 1 in int64_t: bit 62 becomes the sign.
SignedWord(w) == LET v == w % (Word \div 2) IN IF v >= Word \div 4 THEN v - Word \div 2 ELSE v
Whole(a) == IF a.e > 0 THEN PairDivmod(a.x, TenTo(a.e)) ELSE DivResult(a.x, Pair0)
ToInt64(a) ==
    IF ~a.valid \/ IsZero(a) THEN 0
    ELSE IF a.sign THEN SignedWord(Whole(a).div[2]) ELSE -SignedWord(Whole(a).div[2])
ToInt64Floor(a) ==
    IF ~a.valid \/ IsZero(a) \/ a.sign \/ PairIsZero(Whole(a).mod) THEN ToInt64(a) ELSE ToInt64(a) - 1

IDiv(a, b) == LET q == Div(a, b) IN CreateInt(IF q.sign THEN ToInt64(q) ELSE ToInt64(q) - 1)
Mod(a, b) == Minus(a, Multiply(b, IDiv(a, b)))
Abs(a) == IF a.sign THEN a ELSE Neg(a)

-----------------------------------------------------------------------------
(* Comparison.  An invalid number compares false with everything.              *)

Eq(a, b) == a.valid /\ b.valid /\ a.sign = b.sign /\ a.x = b.x /\ a.e = b.e
Ne(a, b) == a.valid /\ b.valid /\ ~Eq(a, b)
Gt(a, b) ==
    LET da == PairDivmod(a.x, TenTo(a.e))
        db == PairDivmod(b.x, TenTo(b.e))
        ra == PairMultiply(da.mod, TenTo(Larger(a.e, b.e) - a.e))
        rb == PairMultiply(db.mod, TenTo(Larger(a.e, b.e) - b.e))
    IN  CASE ~a.valid \/ ~b.valid    -> FALSE
          [] a.sign # b.sign         -> a.sign
          [] PairGt(da.div, db.div)  -> a.sign
          [] PairLt(da.div, db.div)  -> ~a.sign
          [] ra = rb                 -> FALSE
          [] PairGt(ra, rb)          -> a.sign
          [] OTHER                   -> ~a.sign
Gte(a, b) == Eq(a, b) \/ Gt(a, b)
Lt(a, b)  == Gt(b, a)
Lte(a, b) == Eq(a, b) \/ Lt(a, b)
=============================================================================
