-------------------------------- MODULE SafeMath --------------------------------
(* The safemath library of contracts (lsafemathlib.cpp): integers of 512 bits   *)
(* kept as hexadecimal text in a table, and the decimal numbers of SafeNumber.  *)
(* A function takes the sequence of its arguments, <<type, value>> pairs, and   *)
(* gives a value, Error (a Lua error), Throws (a C++ exception) or Nothing.     *)
(* boost::multiprecision is external: a sign and a magnitude that wraps.        *)
(* Left out: characters below "0" in the text of a big integer, doubles as      *)
(* arguments, and what toint gives beyond int64_t, which is left to boost.      *)
EXTENDS SafeNumber

CONSTANTS
    BigBits,      \* 512
    IntBits,      \* 64, the width of lua_Integer
    PowLimit,     \* 100
    ConvertLimit, \* 1010: the digits convert_pre has room for
    DivForked     \* the block height has reached the fork MOD_SAFE_NUMBER_DIV

Error   == <<"error">>
Throws  == <<"throws">>
NoText  == <<-1>>    \* convert_pre throws
Nothing == <<"nothing">>
NilV    == <<"nil">>
IntV(n)  == <<"int", n>>
StrV(t)  == <<"str", t>>
BoolV(b) == <<"bool", b>>
Arg(args, i) == IF i <= Len(args) THEN args[i] ELSE NilV

-----------------------------------------------------------------------------
(* Texts in base 10 and 16.                                                   *)

DigitValue(c) == IF c \in 65..90 THEN c - 55 ELSE IF c \in 97..122 THEN c - 87 ELSE c - 48
DigitChar(d)  == IF d > 9 THEN d + 87 ELSE d + 48
RECURSIVE Divide(_, _, _, _), Rebase(_, _, _), ConvertPre(_, _, _)
\* One pass of long division: <<quotient digits, remainder>>.
Divide(ds, rest, old, new) ==
    IF ds = <<>> THEN <<<<>>, rest>>
    ELSE LET d    == rest * old + Head(ds)
             tail == Divide(Tail(ds), d % new, old, new)
         IN  <<<<d \div new>> \o tail[1], tail[2]>>
Rebase(ds, old, new) ==
    LET qr == Divide(ds, 0, old, new)
    IN  (IF \A i \in DOMAIN qr[1] : qr[1][i] = 0 THEN <<>> ELSE Rebase(qr[1], old, new)) \o <<qr[2]>>
ConvertPre(old, new, t) ==
    LET ds  == [i \in DOMAIN t |-> DigitValue(t[i])]
        out == Rebase(ds, old, new)
        abs == ConvertPre(old, new, Tail(t))
    IN  CASE t = <<>> -> <<48>>
          [] t # <<>> /\ t[1] = MinusSign -> IF abs = NoText THEN NoText ELSE <<MinusSign>> \o abs
          [] OTHER -> IF Len(t) > ConvertLimit \/ \E i \in DOMAIN ds : ds[i] >= old THEN NoText
                      ELSE [i \in DOMAIN out |-> DigitChar(out[i])]
Hex(t)   == ConvertPre(10, 16, t)
Unhex(t) == ConvertPre(16, 10, t)

-----------------------------------------------------------------------------
(* int512_t: unchecked, so that the magnitude wraps.                           *)

AbsOf(n) == IF n < 0 THEN -n ELSE n
WrapTo(n, bits) == IF n < 0 THEN -((-n) % 2^bits) ELSE n % 2^bits
Wrap(n) == WrapTo(n, BigBits)
BigMax == 2^BigBits - 1
BigMin == -(2^(BigBits - 1))
Truncate(a, b)  == IF (a < 0) = (b < 0) THEN AbsOf(a) \div AbsOf(b) ELSE -(AbsOf(a) \div AbsOf(b))
Remainder(a, b) == IF a < 0 THEN -(AbsOf(a) % AbsOf(b)) ELSE a % AbsOf(b)
RECURSIVE Magnitude(_, _), NatText(_)
Magnitude(t, n) == IF t = <<>> THEN n ELSE Magnitude(Tail(t), (10 * n + Head(t) - 48) % 2^BigBits)
NatText(n) == (IF n < 10 THEN <<>> ELSE NatText(n \div 10)) \o <<48 + (n % 10)>>
IntText(n) == (IF n < 0 THEN <<MinusSign>> ELSE <<>>) \o NatText(AbsOf(n))
FromText(t) ==
    LET neg    == t[1] = MinusSign
        digits == IF neg THEN Tail(t) ELSE t
    IN  IF \A i \in DOMAIN digits : digits[i] \in 48..57
        THEN IntV(IF neg THEN -Magnitude(digits, 0) ELSE Magnitude(digits, 0))
        ELSE Throws

BigTable(t) == <<"bigint", t>>
PushBigint(n) == BigTable(Hex(IntText(n)))
IsBig(v) == v[1] = "bigint" /\ v[2] # <<>>
\* The number in a table, or why there is none.
BigOf(v) ==
    IF ~IsBig(v) THEN Error
    ELSE IF Unhex(v[2]) = NoText THEN Throws ELSE FromText(Unhex(v[2]))
\* Both operands, <<"both", a, b>>: the tables are looked at first.
Both(args) ==
    LET a == BigOf(Arg(args, 1))
        b == BigOf(Arg(args, 2))
    IN  CASE Error \in {a, b}  -> Error
          [] Throws \in {a, b} -> Throws
          [] OTHER             -> <<"both", a[2], b[2]>>
SameDirection(a, b) == (a > 0 /\ b > 0) \/ (a < 0 /\ b < 0)

Bigint(args) ==
    LET v == Arg(args, 1)
        t == Hex(IF v[1] = "int" THEN IntText(v[2]) ELSE v[2])
    IN  IF v[1] \notin {"int", "str"} THEN Error ELSE IF t = NoText THEN NilV ELSE BigTable(t)

BigAdd(args) ==
    LET o == Both(args)
        r == Wrap(o[2] + o[3])
    IN  CASE o[1] # "both" -> o
          [] SameDirection(o[2], o[3]) /\ (IF o[2] > 0 THEN r <= 0 ELSE r >= 0) -> Error
          [] OTHER -> PushBigint(r)
BigSub(args) ==
    LET o == Both(args)
        r == Wrap(o[2] - o[3])
    IN  CASE o[1] # "both" -> o
          [] ~SameDirection(o[2], o[3]) /\ ((o[2] > 0 /\ r <= 0) \/ (o[2] < 0 /\ r >= 0)) -> Error
          [] OTHER -> PushBigint(r)
BigMul(args) ==
    LET o == Both(args)
        r == Wrap(o[2] * o[3])
    IN  CASE o[1] # "both" -> o
          [] SameDirection(o[2], o[3]) /\ (r > BigMax \/ r < BigMin) -> Error
          [] OTHER -> PushBigint(r)
BigDiv(args) ==
    LET o == Both(args)
    IN  CASE o[1] # "both" -> o
          [] o[3] = 0      -> Error
          [] OTHER         -> PushBigint(Truncate(o[2], o[3]))
\* Whatever goes wrong is caught, and no value is returned.
BigRem(args) ==
    LET o == Both(args)
    IN  IF Len(args) < 2 THEN Error
        ELSE IF o[1] # "both" \/ o[3] = 0 THEN Nothing ELSE PushBigint(Remainder(o[2], o[3]))

RECURSIVE PowLoop(_, _, _)
PowLoop(result, value, n) ==
    LET mid == WrapTo(result * value, 2 * BigBits)
    IN  CASE n <= 1 -> IntV(result)
          [] n > 1 /\ (IF SameDirection(result, value) THEN mid > BigMax ELSE mid < BigMin) -> Error
          [] OTHER -> PowLoop(mid, value, n - 1)
BigPow(args) ==
    LET o == Both(args)
        r == PowLoop(o[2], o[2], o[3])
    IN  CASE o[1] # "both"   -> o
          [] o[3] > PowLimit -> Error
          [] r = Error       -> Error
          [] OTHER           -> IF Wrap(r[2]) <= 0 THEN Error ELSE PushBigint(Wrap(r[2]))

BigCompare(args, type) ==
    LET o == Both(args)
        a == o[2]
        b == o[3]
    IN  IF o[1] # "both" THEN o
        ELSE BoolV(CASE type = "gt" -> a > b
                     [] type = "ge" -> a >= b
                     [] type = "lt" -> a < b
                     [] type = "le" -> a <= b
                     [] type = "eq" -> a = b
                     [] type = "ne" -> a # b)

BigToInt(args) ==
    LET n == BigOf(Arg(args, 1))
    IN  CASE n \in {Error, Throws} -> Error
          [] OTHER -> IF n[2] \in -(2^(IntBits - 1))..(2^(IntBits - 1) - 1) THEN n ELSE <<"unspecified">>
BigToHex(args) == IF IsBig(Arg(args, 1)) THEN StrV(args[1][2]) ELSE Error
BigToString(args) == LET n == BigOf(Arg(args, 1)) IN IF n \in {Error, Throws} THEN n ELSE StrV(IntText(n[2]))

RECURSIVE Least(_, _, _), Greatest(_, _, _)
Least(args, i, at) ==
    LET n == BigOf(args[i])
    IN  CASE i > Len(args)         -> args[at]
          [] i <= Len(args) /\ n \in {Error, Throws} -> n
          [] OTHER -> Least(args, i + 1, IF n[2] < BigOf(args[at])[2] THEN i ELSE at)
BigMinimum(args) == IF BigOf(Arg(args, 1)) \in {Error, Throws} THEN BigOf(Arg(args, 1)) ELSE Least(args, 2, 1)
Greatest(args, i, at) ==
    LET n == BigOf(args[i])
    IN  CASE i > Len(args)         -> args[at]
          [] i <= Len(args) /\ n \in {Error, Throws} -> n
          [] OTHER -> Greatest(args, i + 1, IF n[2] > BigOf(args[at])[2] THEN i ELSE at)
BigMaximum(args) == IF BigOf(Arg(args, 1)) \in {Error, Throws} THEN BigOf(Arg(args, 1)) ELSE Greatest(args, 2, 1)

-----------------------------------------------------------------------------
(* The decimal numbers: a table that holds the text.                           *)

PushSafenumber(a) == <<"safenumber", ToText(a)>>
Safenumber(args) ==
    LET v == Arg(args, 1)
    IN  CASE v[1] = "int" -> PushSafenumber(CreateText(IntText(v[2])))
          [] v[1] = "str" -> PushSafenumber(CreateText(v[2]))
          [] OTHER        -> Error
IsSafe(v) == v[1] = "safenumber" /\ v[2] # <<>>
SafeOf(v) == CreateText(v[2])
A(args) == SafeOf(args[1])
B(args) == IF args[2][1] = "int" THEN CreateInt(args[2][2]) ELSE SafeOf(args[2])
OneSafe(args) == IsSafe(Arg(args, 1))
TwoSafe(args) == OneSafe(args) /\ IsSafe(Arg(args, 2))
SafeAndNumber(args) == OneSafe(args) /\ (IsSafe(Arg(args, 2)) \/ Arg(args, 2)[1] = "int")

NumberGt(args)  == IF TwoSafe(args) THEN BoolV(Gt(A(args), B(args))) ELSE Error
NumberGte(args) == IF TwoSafe(args) THEN BoolV(Gte(A(args), B(args))) ELSE Error
NumberLt(args)  == IF TwoSafe(args) THEN BoolV(Lt(A(args), B(args))) ELSE Error
NumberLte(args) == IF TwoSafe(args) THEN BoolV(Lte(A(args), B(args))) ELSE Error
NumberEq(args)  == IF TwoSafe(args) THEN BoolV(Eq(A(args), B(args))) ELSE Error
NumberNe(args)  == IF TwoSafe(args) THEN BoolV(Ne(A(args), B(args))) ELSE Error
NumberAdd(args)      == IF SafeAndNumber(args) THEN PushSafenumber(Add(A(args), B(args))) ELSE Error
NumberMinus(args)    == IF SafeAndNumber(args) THEN PushSafenumber(Minus(A(args), B(args))) ELSE Error
NumberMultiply(args) == IF SafeAndNumber(args) THEN PushSafenumber(Multiply(A(args), B(args))) ELSE Error
NumberIDiv(args)     == IF SafeAndNumber(args) THEN PushSafenumber(IDiv(A(args), B(args))) ELSE Error
NumberMod(args)      == IF SafeAndNumber(args) THEN PushSafenumber(Mod(A(args), B(args))) ELSE Error
NumberDiv(args) ==
    IF SafeAndNumber(args)
    THEN PushSafenumber(IF DivForked THEN Div(A(args), B(args)) ELSE DivOld(A(args), B(args)))
    ELSE Error
NumberNeg(args) == IF OneSafe(args) THEN PushSafenumber(Neg(A(args))) ELSE Error
NumberAbs(args) == IF OneSafe(args) THEN PushSafenumber(Abs(A(args))) ELSE Error
NumberToString(args) == IF OneSafe(args) THEN StrV(ToText(A(args))) ELSE Error
NumberToInt(args) == IF OneSafe(args) THEN IntV(ToInt64(A(args))) ELSE Error
=============================================================================
