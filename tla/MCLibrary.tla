------------------------------- MODULE MCLibrary -------------------------------
(* Calls of the functions contracts get their data through, for TLC: what is   *)
(* stored, encoded, printed or packed and read back, pattern searches, decimal *)
(* and big integer arithmetic; and one storage slot under StorageChange.       *)
(* A call is <<kind, arguments, what it should give, what the model gives>>.    *)
EXTENDS StorageChange, SequencesExt

CONSTANTS
    MaxDepth, StackLimit, LoadsNegative, Reserved, MaxCaptures, MaxCCalls, MaxReps,
    HalfBits, Places, TextLimit, BigBits, IntBits, PowLimit, ConvertLimit, DivForked,
    ByteValues, NameSize, ArgTypes,
    Base, IntValues, LongValues,
    Calls,      \* the calls of the library
    NoCall      \* the slot is at work instead

VARIABLES
    call, returned

Lua  == INSTANCE LuaStrings
Math == INSTANCE SafeMath
GPC  == INSTANCE ContractPackage
Host == INSTANCE HostLibrary

(* The keys and values of the slot.                                            *)
a == <<"a">>
b == <<"b">>

(* Every key and its two postfixes, in the order of strings.               *)
Postfixed(key) == <<key, Added(key), Deleted(key)>>
MCKeyOrder == <<New, Old>> \o Postfixed(a) \o Postfixed(Added(a)) \o Postfixed(Deleted(a))
                \o Postfixed(b)

Scalars == { Scalar(n) : n \in 0 .. 1 }
MapsOver(keys, values) == { Map(f) : f \in UNION { [k -> values] : k \in SUBSET keys } }
ArraysOver(values, n)  == { Array(s) : s \in UNION { [1 .. k -> values] : k \in 0 .. n } }

(* Scalars and maps of maps; arrays of scalars, of maps and of arrays.     *)
MapValues   == Scalars \cup MapsOver({a, b}, Scalars)
                 \cup MapsOver({a, b}, {Scalar(0)} \cup MapsOver({b}, Scalars))
ArrayValues == ArraysOver(Scalars, 4) \cup ArraysOver(MapsOver({a}, Scalars), 3)
                 \cup ArraysOver(ArraysOver({Scalar(0)}, 1), 2)
AllValues   == MapValues \cup ArrayValues

MCReserved == {<<97, 110, 100>>}

LibraryInit ==
    /\ returned = FALSE
    /\ \/ call \in Calls /\ stored = Scalar(0) /\ change = NoChange
       \/ call = NoCall /\ Init

Return ==
    /\ call # NoCall /\ ~returned
    /\ returned' = TRUE
    /\ UNCHANGED <<call, vars>>
SlotStep == call = NoCall /\ Next /\ UNCHANGED <<call, returned>>
LibraryNext == Return \/ SlotStep
LibrarySpec == LibraryInit /\ [][LibraryNext]_<<call, returned, vars>>

AsIntended(kinds) == call # NoCall /\ returned /\ call[1] \in kinds => call[4] = call[3]

(* What goes through a format comes back: a value through the contract's       *)
(* storage, CBOR or JSON text, a string through the quotes of %q and the       *)
(* scanner, numbers through their text, packed fields, hexadecimal text, bytes *)
(* of a stream, a contract through its package, of which every prefix and      *)
(* every package with another byte in its code is refused.                     *)
ReadsBack == AsIntended({"stored", "json", "cbor", "quoted", "number", "packed", "hex", "stream",
                         "package", "cut", "forged", "waited"})

(* A search finds what backtracking over the items of the pattern finds first, *)
(* and gsub replaces once for every match gmatch gives, keeping the rest.      *)
SearchesAgree == AsIntended({"find", "gsub"})

(* Sums, products, order and text of safe numbers and of big integers are      *)
(* those of the numbers, cut to the decimals that are kept.                    *)
ArithmeticExact == AsIntended({"add", "mul", "order", "text", "big"})

(* The difference recorded for a native contract's slot is undefined exactly   *)
(* when nothing changed, and leads from the old value to the new one and back, *)
(* whatever the call wrote in between.                                         *)
DiffReconstructs == DiffSeesChange /\ SafePatchGivesNew /\ SafeRollbackGivesOld

-----------------------------------------------------------------------------
(* The calls.                                                                 *)

MCCalls ==
  LET
    Flt(neg, w, f) == Lua!FltV([neg |-> neg, whole |-> w, frac |-> f])
    Leaves == {Lua!BoolV(TRUE), Lua!WholeNum(0), Lua!WholeNum(-1), Lua!WholeNum(1000), Lua!WholeNum(-70000),
               Lua!NumV(FALSE, <<127, 255, 255, 255, 255, 255, 255, 255>>),
               Lua!Str(<<>>), Lua!Str(<<65, Lua!Quote, Lua!Backslash, Lua!Newline, 66>>), Lua!Str(<<49>>)}
    \* A negative number of eight bytes changes how what follows is read.
    Least   == Lua!NumV(TRUE, Lua!MinInt)
    \* A double whose text has 20 to 23 characters is not read back from storage.
    Kept17  == {Flt(FALSE, <<2>>, <<5>>), Flt(TRUE, <<1, 2, 3, 4, 5>>, <<7, 5>>)}
    Doubles == Kept17 \cup {Flt(TRUE, <<0>>, <<1, 2, 5>>)}
    Arr(s) == Lua!TableV([k \in {Lua!IntKey(i) : i \in DOMAIN s} |-> s[k[2]]])
    Rec(ks, vs) == Lua!TableV([k \in {Lua!StrKey(ks[i]) : i \in DOMAIN ks} |-> vs[CHOOSE i \in DOMAIN ks : k = Lua!StrKey(ks[i])]])
    ka == <<97>>
    kb == <<98, Lua!Quote>>
    Tables(L) == {Arr(<<>>)} \cup {Arr(<<x>>) : x \in L} \cup {Arr(<<x, y>>) : x, y \in L}
                   \cup {Rec(<<ka, kb>>, <<x, y>>) : x, y \in L}
    Nested == Tables({Arr(<<>>), Arr(<<Lua!WholeNum(1), Lua!WholeNum(2)>>), Rec(<<ka>>, <<Lua!WholeNum(1)>>), Lua!WholeNum(7)})
                \cup {Arr([i \in 1..11 |-> Lua!WholeNum(i)])}
    Plain == Tables(Leaves) \cup Nested
    Back(kind, given, got(_)) == {<<kind, v, v, got(v)>> : v \in given}

    Strings == {<<65, Lua!Quote, 10, 1, 50>>, <<Lua!Backslash, 127, 57, 13>>, <<>>, <<0, 48>>, <<Lua!Esc, 9, 11>>}
    Scanned(s) == Lua!Lex(Lua!AddQuoted(s), 1, 1).token[2]
    Layouts == {<<60, 105, 52>>, <<62, 105, 51>>, <<33, 52, 32, 105, 52>>, <<105, 49, 54>>}
    Packed(f, n) == <<Lua!WholeNum(n), Lua!WholeNum(Len(Lua!Pack(<<98>> \o f, <<Lua!WholeNum(1), Lua!WholeNum(n)>>)[2]) + 1)>>

    ByteTexts == UNION {[1..n -> {0, 7, 9, 15}] : n \in 0..3}
    Chain == <<3, 5, 7, 9, 11>>

    Modules == {[code |-> c, apis |-> p, offline |-> o, events |-> e, storages |-> s] :
                  c \in {<<5>>, <<5, 6, 7>>}, p \in {<<>>, <<<<1>>>>, <<<<1>>, <<1, 2>>>>}, o \in {<<>>, <<<<1>>>>},
                  e \in {<<>>, <<<<9>>>>}, s \in {<<>>, <<[name |-> <<3>>, type |-> 4]>>}}
    Contract(m) == [ok |-> TRUE, code |-> m.code, abi |-> Range(m.apis) \ Range(m.offline), offline |-> Range(m.offline),
                    events |-> Range(m.events), storages |-> Range(m.storages), types |-> {}]
    Forged(m) == [GPC!SaveCode(m) EXCEPT ![25] = (@ + 1) % ByteValues]

    ReadBack ==
        Back("stored", Plain \cup Tables(Kept17), LAMBDA v : Lua!Load(Lua!Save(v)))
        \cup Back("json", Plain \cup Tables(Doubles \cup {Least}), LAMBDA v : Lua!Loads(Lua!Dumps(v)))
        \cup Back("cbor", Plain, LAMBDA v : Lua!CborDecode(Lua!CborEncode(v)))
        \cup Back("quoted", Strings, Scanned)
        \cup Back("number", {v \in Leaves \cup Doubles \cup {Least} : v[1] \in {"num", "flt"}}, LAMBDA v : Lua!Str2Num(Lua!NumText(v)))
        \cup {<<"packed", <<f, n>>, Packed(f, n),
                Tail(Lua!Unpack(<<98>> \o f, Lua!Pack(<<98>> \o f, <<Lua!WholeNum(1), Lua!WholeNum(n)>>)[2], 1))>> :
                f \in Layouts, n \in {0, 1, -1, 255, 256, -32768, 65535}}
        \cup Back("hex", ByteTexts, LAMBDA s : Host!HexToBytes(Host!BytesToHex([i \in DOMAIN s |-> [kind |-> "int", n |-> s[i] + Host!Byte]]).value).value)
        \cup {<<"stream", s, [i \in DOMAIN s |-> Host!Char(s[i])],
                Host!ReadAll([pos |-> 0, buff |-> FoldLeft(Host!Push, Host!EmptyStream, s).buff])>> : s \in ByteTexts}
        \cup {<<"package", m, Contract(m), GPC!LoadFromFile(GPC!SaveCode(m))>> : m \in Modules}
        \cup {<<"cut", <<m, i>>, GPC!Refused, GPC!LoadFromFile(SubSeq(GPC!SaveCode(m), 1, i))>> :
                m \in {x \in Modules : x.offline = <<>>}, i \in 0..24}
        \cup {<<"forged", m, GPC!Refused, GPC!LoadFromFile(Forged(m))>> : m \in Modules}
        \* What a waited block gives is what it gave when it was the head.
        \cup {<<"waited", <<n, h>>, Last(SubSeq(Chain, 1, n + 1)), Host!Waited(SubSeq(Chain, 1, h), n)>> :
                n \in 2..3, h \in 4..5}

    \* Patterns of one-byte classes with a suffix, and what they match.
    Items == {<<c, s>> : c \in {97, 98, Lua!Point}, s \in {0, 42, 43, 63, Lua!Dash}}
    Patterns == {<<x>> : x \in Items} \cup {<<x, y>> : x, y \in Items} \cup {<<x, <<97, 0>>, y>> : x, y \in Items}
    TextOfItems(ps) == FlattenSeq([k \in DOMAIN ps |-> IF ps[k][2] = 0 THEN <<ps[k][1]>> ELSE ps[k]])
    Hits(s, i, item) == i <= Len(s) /\ item[1] \in {s[i], Lua!Point}
    Ways[ps \in Seq(Items), s \in Seq(97..98), i \in 1..6, again \in BOOLEAN] ==
        IF ps = <<>> THEN <<i>>
        ELSE LET item  == ps[1]
                 suf   == IF again /\ item[2] = 43 THEN 42 ELSE item[2]
                 skip  == Ways[Tail(ps), s, i, FALSE]
                 one   == IF Hits(s, i, item) THEN Ways[Tail(ps), s, i + 1, FALSE] ELSE <<>>
                 more  == IF Hits(s, i, item) THEN Ways[ps, s, i + 1, TRUE] ELSE <<>>
             IN  CASE suf = 0  -> one
                   [] suf = 63 -> one \o skip
                   [] suf = 43 -> more
                   [] suf = 42 -> more \o skip
                   [] OTHER    -> skip \o more
    Found(ps, s) ==
        LET starts == {i \in 1..(Len(s) + 1) : Ways[ps, s, i, FALSE] # <<>>}
            i == CHOOSE x \in starts : \A y \in starts : x <= y
        IN  IF starts = {} THEN <<Lua!NilV>> ELSE <<Lua!WholeNum(i), Lua!WholeNum(Ways[ps, s, i, FALSE][1] - 1)>>
    Subjects == UNION {[1..n -> 97..98] : n \in 0..3}
    Searches ==
        {<<"find", <<ps, s>>, Found(ps, s), Lua!StrFindAux(s, TextOfItems(ps), 1, FALSE, TRUE)>> : ps \in Patterns, s \in Subjects}
        \cup {<<"gsub", <<ps, s>>, <<Lua!Str(s), Len(Lua!GMatch(s, TextOfItems(ps)))>>,
                Lua!GSub(s, TextOfItems(ps), Lua!Str(<<Lua!Esc, 48>>), 100)>> : ps \in {<<x, y>> : x, y \in Items}, s \in Subjects}

    \* Without the negative zero, which is less than zero.
    Numbers == {x \in {Math!Create(sign, <<n \div Math!Word, n % Math!Word>>, e) :
                  sign \in BOOLEAN, n \in {0, 1, 9, 10, 33, 120, 299}, e \in 0..2} :
                  x.sign \/ ~Math!IsZero(x)}
    Value(x)  == (IF x.sign THEN 1 ELSE -1) * (x.x[1] * Math!Word + x.x[2])
    Scaled(x) == Value(x) * 10^(2 - x.e)
    Size(n)   == IF n < 0 THEN -n ELSE n
    Kept[ne \in Int \X Int] ==
        LET n == ne[1]
            e == ne[2]
        IN  IF n = 0 THEN <<0, 0>>
            ELSE IF (n > 10000 /\ e > 0) \/ e > 2 \/ (e > 0 /\ n % 10 = 0) THEN Kept[<<n \div 10, e - 1>>] ELSE ne
    Rounded(n, e) == LET k == Kept[<<Size(n), e>>] IN <<IF n < 0 THEN -k[1] ELSE k[1], k[2]>>
    Seen(x) == <<Value(x), IF Value(x) = 0 THEN 0 ELSE x.e>>
    Bigs == -20..20
    Ints(f(_), x, y) == f(<<Math!PushBigint(x), Math!PushBigint(y)>>)
    Arithmetic ==
        {<<"add", <<x, y>>, Rounded(Scaled(x) + Scaled(y), 2), Seen(Math!Add(x, y))>> : x, y \in Numbers}
        \cup {<<"mul", <<x, y>>, Rounded(Value(x) * Value(y), x.e + y.e), Seen(Math!Multiply(x, y))>> :
                x \in Numbers, y \in {z \in Numbers : Size(Value(z)) < 200 \/ z.e > 0}}
        \cup {<<"order", <<x, y>>, Scaled(x) > Scaled(y), Math!Gt(x, y)>> : x, y \in Numbers}
        \cup {<<"text", <<x, x>>, Seen(x), Seen(Math!CreateText(Math!ToText(x)))>> : x \in Numbers}
        \cup {<<"big", <<x, y>>, <<Math!PushBigint(x + y), Math!PushBigint(x - y)>>,
                <<Ints(Math!BigAdd, x, y), Ints(Math!BigSub, x, y)>>>> : x \in Bigs, y \in {-9, -1, 0, 1, 7}}
  IN ReadBack \cup Searches \cup Arithmetic
================================================================================
