--------------------------------- MODULE Json ---------------------------------
(* json.loads and json.dumps of contracts: the reader of json_reader.cpp, the *)
(* writer of lauxlib.cpp and the two functions of ljsonlib2.cpp.  A text is   *)
(* the sequence of its bytes.                                                 *)
(* Left out: the byte 0 in a text, doubles beyond the range of double, and    *)
(* tables that hold themselves.                                               *)
EXTENDS StorageCodec

CONSTANTS
    StackLimit,     \* UvmStackLimit: how deep values nest
    LoadsNegative   \* ~vm_disable_json_loads_negative

Quote     == 34
Backslash == 92
Newline   == 10
Letter_e  == 101
Letter_E  == 69
Letter_u  == 117
Blanks == {32, 9, 13, 10}
Digits == {Digit(n) : n \in 0..9}
Nil    == <<110, 105, 108>>
True   == <<116, 114, 117, 101>>
False  == <<102, 97, 108, 115, 101>>
Null   == <<110, 117, 108, 108>>
Userdata == <<Quote, 117, 115, 101, 114, 100, 97, 116, 97, Quote>>

\* getNextChar: 0 at the end.
At(s, i) == IF i <= Len(s) THEN s[i] ELSE 0
RECURSIVE Skip(_, _, _)
Skip(s, i, cs) == IF At(s, i) \in cs THEN Skip(s, i + 1, cs) ELSE i
SkipSpaces(s, i) == Skip(s, i, Blanks)
Match(s, i, word) == i + Len(word) - 1 <= Len(s) /\ SubSeq(s, i, i + Len(word) - 1) = word

\* readString: the place behind the closing quote, 0 if there is none.
RECURSIVE StringEnd(_, _)
StringEnd(s, i) ==
    CASE At(s, i) = 0         -> 0
      [] At(s, i) = Quote     -> i + 1
      [] At(s, i) = Backslash -> StringEnd(s, i + 2)
      [] OTHER                -> StringEnd(s, i + 1)

\* readNumber: digits, then a fraction, then an exponent; parts may be empty.
NumberEnd(s, i) ==
    LET whole == Skip(s, i, Digits)
        frac  == IF At(s, whole) = Point THEN Skip(s, whole + 1, Digits) ELSE whole
        sign  == IF At(s, frac + 1) \in {43, Minus} THEN frac + 2 ELSE frac + 1
    IN  IF At(s, frac) \in {Letter_e, Letter_E} THEN Skip(s, sign, Digits) ELSE frac

Punctuation == (123 :> "{") @@ (125 :> "}") @@ (91 :> "[") @@ (93 :> "]") @@ (44 :> ",") @@ (58 :> ":")

\* readToken: its type, first byte and the byte behind it.
ReadToken(s, from) ==
    LET i == SkipSpaces(s, from)
        c == At(s, i)
        Token(type, end) == [type |-> type, first |-> i, end |-> end]
        Bad == Token("error", i)
    IN  CASE c \in DOMAIN Punctuation -> Token(Punctuation[c], i + 1)
          [] c = Quote -> IF StringEnd(s, i + 1) = 0 THEN Bad ELSE Token("string", StringEnd(s, i + 1))
          [] c \in Digits \/ (c = Minus /\ LoadsNegative) -> Token("number", NumberEnd(s, i + 1))
          [] Match(s, i, True)  -> Token("true", i + 4)
          [] Match(s, i, False) -> Token("false", i + 5)
          [] Match(s, i, Nil)   -> Token("nil", i + 3)
          [] c = 0 -> Token("end", i)
          [] OTHER -> Bad

\* decodeString on what is between the quotes: \u is dropped and its digits stay.
Escapes == (Quote :> <<Quote>>) @@ (47 :> <<47>>) @@ (Backslash :> <<Backslash>>) @@ (98 :> <<8>>)
           @@ (102 :> <<12>>) @@ (110 :> <<Newline>>) @@ (114 :> <<13>>) @@ (116 :> <<9>>) @@ (Letter_u :> <<>>)
RECURSIVE DecodeString(_)
DecodeString(s) ==
    LET rest(n, prefix) == LET r == DecodeString(SubSeq(s, n + 1, Len(s)))
                           IN  [r EXCEPT !.text = prefix \o @]
        bad == [ok |-> FALSE, text |-> <<>>]
    IN  IF s = <<>> THEN [ok |-> TRUE, text |-> <<>>]
        ELSE IF s[1] \in {Newline, 13} THEN bad
        ELSE IF s[1] # Backslash THEN rest(1, <<s[1]>>)
        ELSE IF At(s, 2) \notin DOMAIN Escapes THEN bad
        ELSE rest(2, Escapes[s[2]])

\* A decimal number as the bytes of its magnitude, and back.
Times10(m, d) ==
    LET bytes == <<0>> \o m
        carry[i \in 1..(Len(bytes) + 1)] == IF i > Len(bytes) THEN d ELSE (bytes[i] * 10 + carry[i + 1]) \div 256
    IN  Strip([i \in DOMAIN bytes |-> (bytes[i] * 10 + carry[i + 1]) % 256])
FromDecimal(digits) == FoldLeft(LAMBDA m, c : Times10(m, c - 48), Zero, digits)
DivMod10(m) ==
    LET rem[i \in 0..Len(m)] == IF i = 0 THEN 0 ELSE (rem[i - 1] * 256 + m[i]) % 10
    IN  [quotient |-> Strip([i \in DOMAIN m |-> (rem[i - 1] * 256 + m[i]) \div 10]), rest |-> rem[Len(m)]]
RECURSIVE ToDecimal(_)
ToDecimal(m) == IF Len(m) = 0 THEN <<Digit(0)>>
                ELSE LET d == DivMod10(m)
                     IN  (IF d.quotient = Zero THEN <<>> ELSE ToDecimal(d.quotient)) \o <<Digit(d.rest)>>

DecimalValue(digits) == FoldLeft(LAMBDA n, c : n * 10 + (c - 48), 0, digits)

\* decodeNumber: a double if there is a point.  A stream reads the longest
\* prefix that is a whole number and fails on overflow, but wants all of a double.
Signless(text) == IF text[1] = Minus THEN Tail(text) ELSE text
DecodeInteger(text) ==
    LET neg   == text[1] = Minus
        t     == Signless(text)
        n     == Skip(t, 1, Digits) - 1
        m     == FromDecimal(SubSeq(t, 1, n))
        fits  == Len(m) <= 8 /\ (Fits(m) \/ (neg /\ m = MinInt))
    IN  IF n = 0 \/ ~fits THEN Failed ELSE Whole(neg /\ m # Zero, m)

\* The double whose digits have their point behind the first `place' of them.
Double(neg, digits, place) ==
    LET zeros(n) == [i \in 1..(IF n < 0 THEN 0 ELSE n) |-> 0]
        all  == zeros(1 - place) \o digits \o zeros(place - Len(digits))
        at   == IF place < 1 THEN 1 ELSE place
        from == CHOOSE n \in 1..at : (\A i \in 1..(n - 1) : all[i] = 0) /\ (all[n] # 0 \/ n = at)
        to   == CHOOSE n \in at..Len(all) : (\A i \in (n + 1)..Len(all) : all[i] = 0) /\ (n > at => all[n] # 0)
    IN  [neg |-> neg, whole |-> SubSeq(all, from, at), frac |-> SubSeq(all, at + 1, to)]

\* strtod on digits with an optional point and exponent; all of the text is used.
\* Left out: values that a double rounds.
StrToD(neg, t) ==
    LET point  == Skip(t, 1, Digits)
        fend   == IF At(t, point) = Point THEN Skip(t, point + 1, Digits) ELSE point
        digits == SelectSeq(SubSeq(t, 1, fend - 1), LAMBDA c : c # Point)
        signed == At(t, fend + 1) \in {43, Minus}
        exp    == SubSeq(t, fend + (IF signed THEN 2 ELSE 1), Len(t))
        e      == DecimalValue(exp) * (IF At(t, fend + 1) = Minus THEN -1 ELSE 1)
    IN  IF digits = <<>> \/ (fend <= Len(t) /\ (At(t, fend) \notin {Letter_e, Letter_E} \/ exp = <<>>
                                              \/ Skip(exp, 1, Digits) <= Len(exp)))
        THEN Failed
        ELSE <<"number", Double(neg, [i \in DOMAIN digits |-> digits[i] - 48], point - 1 + e)>>

DecodeNumber(text) == IF Contains(Signless(text), Point) THEN StrToD(text[1] = Minus, Signless(text)) ELSE DecodeInteger(text)

Refused == [ok |-> FALSE, v |-> Failed, at |-> 0]
Read(v, at) == [ok |-> TRUE, v |-> v, at |-> at]

\* readValue, readObject and readArray: `depth' is the number of nodes.
RECURSIVE ReadValue(_, _, _), ReadMembers(_, _, _, _), ReadItems(_, _, _, _)
ReadValue(s, i, depth) ==
    LET t    == ReadToken(s, i)
        text == SubSeq(s, t.first, t.end - 1)
        str  == DecodeString(SubSeq(s, t.first + 1, t.end - 2))
        next == SkipSpaces(s, t.end)
    IN  IF depth > StackLimit THEN Refused
        ELSE CASE t.type = "{" -> IF At(s, t.end) = 125 THEN Read(<<"unknown_table", [k \in {} |-> 0]>>, t.end + 1)
                                  ELSE ReadMembers(s, t.end, depth, [k \in {} |-> 0])
               [] t.type = "[" -> IF At(s, next) = 93 THEN Read(<<"unknown_array", [k \in {} |-> 0]>>, next + 1)
                                  ELSE ReadItems(s, t.end, depth, [k \in {} |-> 0])
               [] t.type = "number" -> IF DecodeNumber(text) = Failed THEN Refused ELSE Read(DecodeNumber(text), t.end)
               [] t.type = "string" -> IF str.ok THEN Read(<<"string", str.text>>, t.end) ELSE Refused
               [] t.type \in {"true", "false"} -> Read(<<"bool", t.type = "true">>, t.end)
               [] t.type = "nil" -> Read(<<"null", 0>>, t.end)
               [] OTHER -> Refused

ReadMembers(s, i, depth, items) ==
    LET key   == ReadToken(s, i)
        name  == DecodeString(SubSeq(s, key.first + 1, key.end - 2))
        colon == ReadToken(s, key.end)
        value == ReadValue(s, colon.end, depth + 1)
        comma == ReadToken(s, value.at)
        all   == (name.text :> value.v) @@ items
    IN  IF key.type # "string" \/ ~name.ok \/ colon.type # ":" \/ ~value.ok THEN Refused
        ELSE CASE comma.type = "}" -> Read(<<"unknown_table", all>>, comma.end)
               [] comma.type = "," -> ReadMembers(s, comma.end, depth, all)
               [] OTHER -> Refused

ReadItems(s, i, depth, items) ==
    LET value == ReadValue(s, i, depth + 1)
        comma == ReadToken(s, value.at)
        all   == (ToText(Cardinality(DOMAIN items) + 1) :> value.v) @@ items
    IN  IF ~value.ok THEN Refused
        ELSE CASE comma.type = "]" -> Read(<<"unknown_array", all>>, comma.end)
               [] comma.type = "," -> ReadItems(s, comma.end, depth, all)
               [] OTHER -> Refused

\* json_to_lua: nothing but the value may be in the text, no space behind it either.
Parse(s) == LET r == ReadValue(s, 1, 1) IN IF r.ok /\ r.at > Len(s) THEN r.v ELSE Failed
Loads(s) == IF Parse(s) = Failed THEN <<"refused", 0>> ELSE Push(Parse(s))

-----------------------------------------------------------------------------
\* escape_string.
Escape(s) ==
    LET code == (Backslash :> Backslash) @@ (Quote :> Quote) @@ (Newline :> 110) @@ (9 :> 116) @@ (7 :> 97)
                @@ (8 :> 98) @@ (12 :> 102) @@ (13 :> 114) @@ (11 :> 118)
    IN  FlattenSeq([i \in DOMAIN s |-> IF s[i] \in DOMAIN code THEN <<Backslash, code[s[i]]>> ELSE <<s[i]>>])

\* sprintf %f: six decimals.  No double of the instances rounds up there.
NumberText(f) ==
    (IF f.neg THEN <<Minus>> ELSE <<>>) \o [i \in DOMAIN f.whole |-> Digit(f.whole[i])] \o <<Point>>
    \o [i \in 1..6 |-> IF i <= Len(f.frac) THEN Digit(f.frac[i]) ELSE Digit(0)]
IntText(i) == (IF i.neg THEN <<Minus>> ELSE <<>>) \o ToDecimal(i.m)
Quoted(s)  == <<Quote>> \o Escape(s) \o <<Quote>>

\* luatablemap_to_json_stream: the keys alone say whether a table is an array.
RECURSIVE TableText(_)
ItemText(v) ==
    CASE v[1] = "null"   -> Null
      [] v[1] = "bool"   -> IF v[2] THEN True ELSE False
      [] v[1] = "int"    -> IntText(v[2])
      [] v[1] = "number" -> NumberText(v[2])
      [] v[1] = "string" -> Quoted(v[2])
      [] v[1] \in ArrayTypes \cup TableTypes -> TableText(v[2])
      [] OTHER -> Userdata
TableText(items) ==
    LET ks     == MapOrder(items)
        one(k) == (IF IsArray(items) THEN <<>> ELSE Quoted(k) \o <<58>>) \o ItemText(items[k])
        inner  == FlattenSeq([i \in DOMAIN ks |-> (IF i = 1 THEN <<>> ELSE <<44>>) \o one(ks[i])])
    IN  IF IsArray(items) THEN <<91>> \o inner \o <<93>> ELSE <<123>> \o inner \o <<125>>

\* tojsonstring_with_nested, of all but a double that is not in a table.
Dumps(v) ==
    CASE v[1] = "num"   -> IntText(v[2])
      [] v[1] = "str"   -> v[2]
      [] v[1] = "bool"  -> IF v[2] THEN True ELSE False
      [] v[1] = "nil"   -> Nil
      [] v[1] = "table" -> TableText(ItemMap(v[2], 0))

\* What a long text costs in instructions; the tenfold price of a very long one
\* is behind a condition that the first one covers.
ExtraGas(size, forked) == IF forked /\ size > 10000 THEN 10 * size - 1 ELSE 0
=============================================================================
