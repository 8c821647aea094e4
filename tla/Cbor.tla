--------------------------------- MODULE Cbor ---------------------------------
(* src/src/cborcpp: the bytes a value is written as (encoder.cpp) and the     *)
(* machine that reads them back (decoder.cpp), byte for byte.                 *)
(* A whole number is a magnitude: its bytes, the highest first, without       *)
(* leading zeros, so that the widths of 1, 2, 4 and 8 bytes are the real ones.*)
(* A value is <<type, contents>>; a double is its sign and decimal digits.    *)
(* Left out: lengths of 2^31 and more.                                        *)
EXTENDS Integers, Sequences, SequencesExt, FiniteSets, TLC

Zero == <<>>
Strip(bs) == LET n == CHOOSE n \in 0..Len(bs) : /\ \A i \in 1..n : bs[i] = 0
                                                /\ n < Len(bs) => bs[n + 1] # 0
             IN  SubSeq(bs, n + 1, Len(bs))
Pad(m, n) == [i \in 1..(n - Len(m)) |-> 0] \o m
Num(bs) == FoldLeft(LAMBDA acc, b : acc * 256 + b, 0, bs)
Byte(n) == Strip(<<n>>)
Magnitude(n) == Strip(<<n \div 65536, (n \div 256) % 256, n % 256>>)

\* bs + 1 and bs - 1 in as many bytes, wrapping round at the ends.
Plus1(bs)  == LET low == CHOOSE k \in 0..Len(bs) : (\A i \in (k + 1)..Len(bs) : bs[i] = 255) /\ (k > 0 => bs[k] # 255)
              IN  [i \in DOMAIN bs |-> IF i > low THEN 0 ELSE IF i = low THEN bs[i] + 1 ELSE bs[i]]
Minus1(bs) == LET low == CHOOSE k \in 0..Len(bs) : (\A i \in (k + 1)..Len(bs) : bs[i] = 0) /\ (k > 0 => bs[k] # 0)
              IN  [i \in DOMAIN bs |-> IF i > low THEN 255 ELSE IF i = low THEN bs[i] - 1 ELSE bs[i]]
Succ(m) == Strip(Plus1(<<0>> \o m))
Pred(m) == Strip(Minus1(m))

Whole(neg, m)   == <<"int", [neg |-> neg, m |-> m]>>
Extra(pos, m)   == <<"extra", [pos |-> pos, m |-> m]>>
Text(s)         == <<"string", s>>

-----------------------------------------------------------------------------
(* The encoder.                                                               *)

\* write_type_value: the shortest form that holds the number.
TypeValue(major, m) ==
    LET n    == Len(m)
        code == IF n <= 1 THEN 24 ELSE IF n = 2 THEN 25 ELSE IF n <= 4 THEN 26 ELSE 27
        size == IF n <= 2 THEN n ELSE IF n <= 4 THEN 4 ELSE 8
    IN  IF n <= 1 /\ Num(m) < 24 THEN <<major * 32 + Num(m)>>
        ELSE <<major * 32 + code>> \o Pad(m, size)

LengthValue(major, n) == TypeValue(major, Magnitude(n))

Decimals  == 17
FixedSize == 40
Minus == 45
Point == 46
Digit(d) == 48 + d

\* std::fixed: the sign, the whole part and 17 decimals.  Digits beyond are
\* dropped; no double of the instances rounds up there.
FloatText(f) ==
    (IF f.neg THEN <<Minus>> ELSE <<>>) \o [i \in DOMAIN f.whole |-> Digit(f.whole[i])] \o <<Point>>
    \o [i \in 1..Decimals |-> IF i <= Len(f.frac) THEN Digit(f.frac[i]) ELSE Digit(0)]

\* A double is written as the length of its text, with the float type, the
\* text, and zeros up to 40 bytes.
FloatBytes(f) ==
    LET text == FloatText(f)
    IN  LengthValue(7, Len(text)) \o text \o [i \in 1..(FixedSize - Len(text)) |-> 0]

\* std::map keeps its keys in the order of std::less<std::string>.
Before(a, b) == \/ IsStrictPrefix(a, b)
                \/ \E n \in 1..Len(a) : n <= Len(b) /\ SubSeq(a, 1, n - 1) = SubSeq(b, 1, n - 1) /\ a[n] < b[n]
Ranked(S, less(_, _)) == [i \in 1..Cardinality(S) |-> CHOOSE x \in S : Cardinality({y \in S : less(y, x)}) = i - 1]
InOrder(keys) == Ranked(keys, Before)

WriteString(s) == LengthValue(3, Len(s)) \o s

\* Variant that fails: the magnitude of a negative number as it is.
WriteIntPlain(i) == TypeValue(IF i.neg THEN 1 ELSE 0, i.m)

WriteInt(i) == IF i.neg THEN TypeValue(1, Pred(i.m)) ELSE TypeValue(0, i.m)

\* write_cbor_object.  A negative extra integer keeps its magnitude as it is.
RECURSIVE Encode(_)
Encode(v) ==
    CASE v[1] = "null"      -> <<246>>
      [] v[1] = "undefined" -> <<247>>
      [] v[1] = "bool"      -> IF v[2] THEN <<245>> ELSE <<244>>
      [] v[1] = "int"       -> WriteInt(v[2])
      [] v[1] = "extra"     -> TypeValue(IF v[2].pos THEN 0 ELSE 1, v[2].m)
      [] v[1] = "string"    -> WriteString(v[2])
      [] v[1] = "float"     -> FloatBytes(v[2])
      [] v[1] = "bytes"     -> LengthValue(2, Len(v[2])) \o v[2]
      [] v[1] = "tag"       -> TypeValue(6, v[2])
      [] v[1] = "extratag"  -> TypeValue(6, Strip(SubSeq(Pad(v[2], 8), 5, 8)))
      [] v[1] = "array"     -> LengthValue(4, Len(v[2])) \o FlattenSeq([i \in DOMAIN v[2] |-> Encode(v[2][i])])
      [] v[1] = "map"       -> LET ks == InOrder(DOMAIN v[2])
                               IN  LengthValue(5, Len(ks)) \o
                                   FlattenSeq([i \in DOMAIN ks |-> WriteString(ks[i]) \o Encode(v[2][ks[i]])])

-----------------------------------------------------------------------------
(* The decoder: a loop over the state of the byte that comes next.  Objects   *)
(* are shared with the arrays and maps that hold them: they live in a heap    *)
(* and are named by their place in it.                                        *)

Start(bytes) == [in |-> bytes, state |-> "type", len |-> 1, heap |-> <<>>, stack |-> <<>>,
                 root |-> 0, inkey |-> TRUE, key |-> 0, err |-> FALSE]
Err(d) == [d EXCEPT !.err = TRUE]

Object(v) == [v |-> v, size |-> 0]
Holder(kind, size) == [v |-> IF kind = "array" THEN <<kind, <<>>>> ELSE <<kind, [k \in {} |-> 0]>>, size |-> size]

\* put_decoded_value.
Put(d, o) ==
    LET id       == Len(d.heap) + 1
        h        == Append(d.heap, o)
        open(s)  == IF o.v[1] \in {"array", "map"} /\ o.size > 0 THEN Append(s, id) ELSE s
        top      == Last(d.stack)
        parent   == d.heap[top]
        filled(items) ==
            [d EXCEPT !.heap = [h EXCEPT ![top].v[2] = items],
                      !.stack = open(IF Cardinality(DOMAIN items) >= parent.size THEN Front(@) ELSE @)]
    IN  IF d.stack = <<>>
        THEN IF d.root # 0 THEN Err(d) ELSE [d EXCEPT !.heap = h, !.root = id, !.stack = open(<<>>)]
        ELSE IF parent.v[1] = "array" THEN filled(Append(parent.v[2], id))
        ELSE IF d.inkey THEN [d EXCEPT !.heap = h, !.key = id, !.inkey = FALSE, !.stack = open(@)]
        ELSE IF d.heap[d.key].v[1] # "string" THEN Err(d)
        ELSE [filled((d.heap[d.key].v[2] :> id) @@ parent.v[2]) EXCEPT !.inkey = TRUE]
PutValue(d, v) == Put(d, Object(v))

Take(d, n) == SubSeq(d.in, 1, n)
Drop(d, n) == [d EXCEPT !.in = SubSeq(@, n + 1, Len(@))]
Typed(d)   == [d EXCEPT !.state = "type"]

SizedState == <<"pint", "nint", "bytes_size", "string_size", "array", "map", "tag", "float_size">>
DataState  == (2 :> "bytes") @@ (3 :> "string") @@ (7 :> "float")

\* STATE_TYPE: the upper three bits of the byte are the type, the lower five the
\* value or the number of bytes it takes.  Float lengths 20 to 23 mean false,
\* true, null and undefined.
Sized(d, major, minor, short) ==
    IF minor > 27 THEN Err(d)
    ELSE IF minor >= 24 THEN [d EXCEPT !.state = SizedState[major + 1], !.len = 2 ^ (minor - 24)]
    ELSE short
NumberType(d, major, minor) == Sized(d, major, minor, PutValue(d, Whole(major = 1, Byte(minor + major))))
DataType(d, major, minor)   == Sized(d, major, minor, [d EXCEPT !.state = DataState[major], !.len = minor])
HolderType(d, major, minor) == Sized(d, major, minor, Put(d, Holder(IF major = 4 THEN "array" ELSE "map", minor)))
TagType(d, major, minor)    == Sized(d, major, minor, PutValue(d, <<"tag", Byte(minor)>>))
FloatType(d, major, minor) ==
    CASE minor \in {20, 21} -> PutValue(d, <<"bool", minor = 21>>)
      [] minor = 22 -> PutValue(d, <<"null", 0>>)
      [] minor = 23 -> PutValue(d, <<"undefined", 0>>)
      [] OTHER -> DataType(d, major, minor)
TypeState(d0) ==
    LET major == Head(d0.in) \div 32
        minor == Head(d0.in) % 32
        d     == Drop(d0, 1)
    IN  CASE major \in {0, 1} -> NumberType(d, major, minor)
          [] major \in {2, 3} -> DataType(d, major, minor)
          [] major \in {4, 5} -> HolderType(d, major, minor)
          [] major = 6 -> TagType(d, major, minor)
          [] major = 7 -> FloatType(d, major, minor)

AboveIntMax(bs) == bs[1] > 127

\* STATE_PINT and STATE_NINT.  The 8-byte negative number leaves the state as
\* it is, so that the next bytes are read as one more.
PIntState(d) ==
    LET bs == Take(d, d.len)
        e  == Typed(Drop(d, d.len))
    IN  IF d.len = 8 \/ (d.len = 4 /\ AboveIntMax(bs)) THEN PutValue(e, Extra(TRUE, Strip(bs)))
        ELSE PutValue(e, Whole(FALSE, Strip(bs)))

NIntTyped(d) ==
    LET bs == Take(d, d.len)
        e  == Typed(Drop(d, d.len))
    IN  IF d.len = 8 \/ (d.len = 4 /\ AboveIntMax(bs)) THEN PutValue(e, Extra(FALSE, Strip(Plus1(bs))))
        ELSE PutValue(e, Whole(TRUE, Succ(Strip(bs))))
NIntState(d) == IF d.len = 8 THEN [NIntTyped(d) EXCEPT !.state = "nint"] ELSE NIntTyped(d)

\* The length of bytes, of a string and of a double's text.
SizeState(d, next) ==
    IF d.len = 8 THEN Err(d) ELSE [Drop(d, d.len) EXCEPT !.state = next, !.len = Num(Take(d, d.len))]

DataOf(d, kind) == PutValue(Typed(Drop(d, d.len)), <<kind, Take(d, d.len)>>)

\* fc::to_double on the text; the zeros behind it are skipped.
IsNumber(text) == text # <<>> /\ \A i \in DOMAIN text : text[i] \in {Digit(n) : n \in 0..9} \cup {Point, Minus}
ParseFloat(text) ==
    LET neg  == Head(text) = Minus
        body == IF neg THEN Tail(text) ELSE text
        dot  == IF Contains(body, Point) THEN CHOOSE i \in DOMAIN body : body[i] = Point ELSE Len(body) + 1
        frac == [i \in 1..(Len(body) - dot) |-> body[dot + i] - 48]
        last == CHOOSE n \in 0..Len(frac) : (\A i \in (n + 1)..Len(frac) : frac[i] = 0) /\ (n > 0 => frac[n] # 0)
    IN  [neg |-> neg, whole |-> [i \in 1..(dot - 1) |-> body[i] - 48], frac |-> SubSeq(frac, 1, last)]

FloatState(d) ==
    LET text == Take(d, d.len)
        rest == Drop(d, IF d.len < FixedSize THEN FixedSize ELSE d.len)
    IN  IF ~IsNumber(text) THEN Err(d) ELSE PutValue(Typed(rest), <<"float", ParseFloat(text)>>)

HolderState(d, kind) ==
    IF d.len = 8 THEN Err(d) ELSE Put(Typed(Drop(d, d.len)), Holder(kind, Num(Take(d, d.len))))

TagState(d) ==
    PutValue(Typed(Drop(d, d.len)), <<IF d.len = 8 THEN "extratag" ELSE "tag", Strip(Take(d, d.len))>>)

StepOf(d) ==
    CASE d.state = "type"        -> TypeState(d)
      [] d.state = "pint"        -> PIntState(d)
      [] d.state = "nint"        -> NIntState(d)
      [] d.state = "bytes_size"  -> SizeState(d, "bytes")
      [] d.state = "string_size" -> SizeState(d, "string")
      [] d.state = "float_size"  -> SizeState(d, "float")
      [] d.state \in {"bytes", "string"} -> DataOf(d, d.state)
      [] d.state = "float"       -> FloatState(d)
      [] d.state \in {"array", "map"} -> HolderState(d, d.state)
      [] d.state = "tag"         -> TagState(d)

Needs(d) == IF d.state = "type" THEN 1 ELSE d.len

\* The loop ends when the bytes the state needs are not there.
RECURSIVE Run(_)
Run(d) == IF d.err \/ Len(d.in) < Needs(d) THEN d ELSE Run(StepOf(d))

RECURSIVE Tree(_, _)
Tree(h, id) ==
    LET v == h[id].v
    IN  IF v[1] \in {"array", "map"} THEN <<v[1], [x \in DOMAIN v[2] |-> Tree(h, v[2][x])]>> ELSE v

Failed == <<"error", 0>>
Decode(bytes) ==
    LET d == Run(Start(bytes))
    IN  IF d.err \/ d.root = 0 \/ d.stack # <<>> THEN Failed ELSE Tree(d.heap, d.root)

-----------------------------------------------------------------------------
(* cbor_object.cpp: what a decoded number is to its readers.                  *)

\* force_as_int, as a sign and a magnitude; an int64_t holds magnitudes of
\* seven bytes, and of eight with the highest bit clear.
Fits(m)     == Len(m) < 8 \/ m[1] < 128
MinInt      == <<128, 0, 0, 0, 0, 0, 0, 0>>
Negated(m)  == Succ([i \in 1..8 |-> 255 - Pad(m, 8)[i]])
AsInt64(m)  == IF Fits(m) THEN [neg |-> FALSE, m |-> m]
               ELSE IF m = MinInt THEN [neg |-> TRUE, m |-> m] ELSE [neg |-> TRUE, m |-> Negated(m)]
ForceAsInt(v) ==
    IF v[1] = "int" THEN v[2]
    ELSE LET i == AsInt64(v[2].m)
         IN  IF v[2].pos \/ i.neg \/ i.m = Zero THEN i ELSE [i EXCEPT !.neg = TRUE]

\* to_json: numbers, text and structures; bytes become their hexadecimal text.
RECURSIVE ToJson(_)
ToJson(v) ==
    CASE v[1] \in {"null", "undefined"} -> <<"null", 0>>
      [] v[1] = "bool" -> v
      [] v[1] = "int"  -> v
      [] v[1] = "extra" -> LET i == AsInt64(v[2].m)
                           IN  IF v[2].pos THEN Whole(FALSE, v[2].m)
                               ELSE Whole(i.m # Zero /\ (~i.neg \/ i.m = MinInt), i.m)
      [] v[1] \in {"float", "string"} -> v
      [] v[1] = "tag" -> <<"int", [neg |-> FALSE, m |-> v[2]]>>
      [] v[1] = "bytes" -> <<"hex", v[2]>>
      [] v[1] \in {"array", "map"} -> <<v[1], [x \in DOMAIN v[2] |-> ToJson(v[2][x])]>>
      [] OTHER -> Failed
=============================================================================
