-------------------------------- MODULE LuaLexer --------------------------------
(* The scanner of the compiler (llex.cpp) and the conversions between numbers  *)
(* and text that it shares with the run time (lobject.cpp).  A source is the   *)
(* sequence of its bytes; a token is <<kind, text or value>>.                  *)
(* Left out: the byte 0, hexadecimal numerals with a fraction or an exponent,  *)
(* doubles that %.14g rounds or writes with an exponent.                       *)
EXTENDS Json

Letters   == (65..90) \cup (97..122) \cup {95}
HexDigits == Digits \cup (65..70) \cup (97..102)
Spaces    == {32} \cup (9..13)
Newlines  == {10, 13}
Equals    == 61
OpenSquare  == 91
CloseSquare == 93

HexValue(c) == IF c \in Digits THEN c - 48 ELSE IF c >= 97 THEN c - 87 ELSE c - 55

-----------------------------------------------------------------------------
(* lobject.cpp *)

\* What an unsigned 64-bit word keeps of a magnitude, and its two's complement.
Low8(m)  == Strip(IF Len(m) > 8 THEN SubSeq(m, Len(m) - 7, Len(m)) ELSE m)
Complement(m) == Low8(Negated(m))

Times16(m, d) == LET nibbles == FlattenSeq([i \in DOMAIN m |-> <<m[i] \div 16, m[i] % 16>>])
                     all  == IF Len(nibbles) % 2 = 0 THEN <<0>> \o nibbles \o <<d>> ELSE nibbles \o <<d>>
                 IN  Strip([i \in 1..(Len(all) \div 2) |-> 16 * all[2 * i - 1] + all[2 * i]])

Trimmed(s) ==
    LET from == Skip(s, 1, Spaces)
        ends == {n \in from..Len(s) : s[n] \notin Spaces}
    IN  IF ends = {} THEN <<>> ELSE SubSeq(s, from, CHOOSE n \in ends : \A k \in ends : k <= n)
IsHex(t) == At(t, 1) = 48 /\ At(t, 2) \in {120, 88}

\* l_str2int: a numeral that is too large wraps round.
Str2Int(neg, t) ==
    LET ds == IF IsHex(t) THEN SubSeq(t, 3, Len(t)) ELSE t
        m  == IF IsHex(t) THEN FoldLeft(LAMBDA a, c : Times16(a, HexValue(c)), Zero, ds) ELSE FromDecimal(ds)
    IN  IF ds = <<>> \/ ~(Range(ds) \subseteq (IF IsHex(t) THEN HexDigits ELSE Digits)) THEN Failed
        ELSE <<"num", AsInt64(IF neg THEN Complement(Low8(m)) ELSE Low8(m))>>

\* luaO_str2num: a whole number if it reads as one, else a double.
Str2Num(s) ==
    LET t    == Trimmed(s)
        neg  == At(t, 1) = Minus
        body == IF At(t, 1) \in {43, Minus} THEN Tail(t) ELSE t
        int  == Str2Int(neg, body)
        flt  == StrToD(neg, body)
    IN  IF body = <<>> THEN Failed
        ELSE IF int # Failed THEN int
        ELSE IF flt # Failed THEN <<"flt", flt[2]>> ELSE Failed

\* luaO_tostring.
NumText(v) ==
    IF v[1] = "num" THEN IntText(v[2])
    ELSE (IF v[2].neg THEN <<Minus>> ELSE <<>>) \o [i \in DOMAIN v[2].whole |-> Digit(v[2].whole[i])] \o <<Point>>
         \o (IF v[2].frac = <<>> THEN <<Digit(0)>> ELSE [i \in DOMAIN v[2].frac |-> Digit(v[2].frac[i])])

\* luaO_utf8esc: continuation bytes until the rest fits in the first one.
RECURSIVE Utf8Tail(_, _, _)
Utf8Tail(x, most, bytes) ==
    LET all  == <<128 + (x % 64)>> \o bytes
        rest == x \div 64
        fits == most \div 2
    IN  IF rest > fits THEN Utf8Tail(rest, fits, all) ELSE <<(255 - (2 * fits + 1)) + rest>> \o all
Utf8Esc(x) == IF x < 128 THEN <<x>> ELSE Utf8Tail(x, 63, <<>>)

-----------------------------------------------------------------------------
(* llex.cpp.  A reading is the token, the place behind it and the line there. *)
Got(kind, text, at, line) == [token |-> <<kind, text>>, at |-> at, line |-> line]
LexError(line) == Got("error", <<>>, 0, line)

\* inclinenumber: \r\n and \n\r are one line break.
PastNewline(s, i) == IF At(s, i + 1) \in Newlines /\ At(s, i + 1) # At(s, i) THEN i + 2 ELSE i + 1

\* skip_sep: the number of '=' between two equal brackets, less than 0 if there
\* is no second bracket.
Sep(s, i) == LET e == Skip(s, i + 1, {Equals})
             IN  IF At(s, e) = At(s, i) THEN e - i - 1 ELSE -(e - i - 1) - 1

\* read_long_string, from behind the opening bracket.
RECURSIVE LongString(_, _, _, _, _)
LongString(s, i, sep, text, line) ==
    LET c == At(s, i)
        e == Skip(s, i + 1, {Equals})
    IN  CASE c = 0 -> LexError(line)
          [] c = CloseSquare /\ Sep(s, i) = sep -> Got("string", text, e + 1, line)
          [] c = CloseSquare -> LongString(s, e, sep, text \o SubSeq(s, i, e - 1), line)
          [] c \in Newlines  -> LongString(s, PastNewline(s, i), sep, Append(text, Newline), line + 1)
          [] OTHER -> LongString(s, i + 1, sep, Append(text, c), line)
LongBracket(s, i) ==
    LET open == i + Sep(s, i) + 2
    IN  IF At(s, open) \in Newlines THEN [at |-> PastNewline(s, open), lines |-> 1] ELSE [at |-> open, lines |-> 0]

Simple == (97 :> 7) @@ (98 :> 8) @@ (102 :> 12) @@ (110 :> 10) @@ (114 :> 13) @@ (116 :> 9) @@ (118 :> 11)
          @@ (Backslash :> Backslash) @@ (Quote :> Quote) @@ (39 :> 39)

\* The escape whose letter is at i: the bytes it stands for and the place behind it.
BadEscape == [bytes |-> <<>>, at |-> 0, lines |-> 0]
Stands(bytes, at) == [bytes |-> bytes, at |-> at, lines |-> 0]
DecimalEscape(s, i) ==
    LET run == Skip(s, i, Digits) - i
        n   == IF run > 3 THEN 3 ELSE run
        v   == DecimalValue(SubSeq(s, i, i + n - 1))
    IN  IF v > 255 THEN BadEscape ELSE Stands(<<v>>, i + n)
HexEscape(s, i) == IF At(s, i + 1) \in HexDigits /\ At(s, i + 2) \in HexDigits
                   THEN Stands(<<HexValue(At(s, i + 1)) * 16 + HexValue(At(s, i + 2))>>, i + 3) ELSE BadEscape
Utf8Escape(s, i) ==
    LET e == Skip(s, i + 2, HexDigits)
        v == FoldLeft(LAMBDA a, c : IF a > 1114111 THEN a ELSE a * 16 + HexValue(c), 0, SubSeq(s, i + 2, e - 1))
    IN  IF At(s, i + 1) # 123 \/ e = i + 2 \/ At(s, e) # 125 \/ v > 1114111 THEN BadEscape ELSE Stands(Utf8Esc(v), e + 1)
\* \z passes over the spaces that follow.
RECURSIVE Zap(_, _, _)
Zap(s, i, lines) == CASE At(s, i) \in Newlines -> Zap(s, PastNewline(s, i), lines + 1)
                      [] At(s, i) \in Spaces \ Newlines -> Zap(s, i + 1, lines)
                      [] OTHER -> [bytes |-> <<>>, at |-> i, lines |-> lines]
EscapeAt(s, i) ==
    LET c == At(s, i)
    IN  CASE c \in DOMAIN Simple -> Stands(<<Simple[c]>>, i + 1)
          [] c = 120 -> HexEscape(s, i)
          [] c = 117 -> Utf8Escape(s, i)
          [] c \in Newlines -> [bytes |-> <<Newline>>, at |-> PastNewline(s, i), lines |-> 1]
          [] c = 122 -> Zap(s, i + 1, 0)
          [] c \in Digits -> DecimalEscape(s, i)
          [] OTHER -> BadEscape

\* read_string, from behind the opening quote.
RECURSIVE ReadString(_, _, _, _, _)
ReadString(s, i, del, text, line) ==
    LET c   == At(s, i)
        esc == EscapeAt(s, i + 1)
    IN  CASE c = del -> Got("string", text, i + 1, line)
          [] c = 0 \/ c \in Newlines -> LexError(line)
          [] c = Backslash -> IF esc.at = 0 THEN LexError(line)
                              ELSE ReadString(s, esc.at, del, text \o esc.bytes, line + esc.lines)
          [] OTHER -> ReadString(s, i + 1, del, Append(text, c), line)

\* read_numeral takes whatever may be part of a numeral; luaO_str2num decides.
RECURSIVE NumeralEnd(_, _, _)
NumeralEnd(s, i, expo) ==
    LET a == IF At(s, i) \notin expo THEN i ELSE IF At(s, i + 1) \in {43, Minus} THEN i + 2 ELSE i + 1
    IN  IF At(s, a) \in HexDigits \cup {Point} THEN NumeralEnd(s, a + 1, expo) ELSE a
Numeral(s, i, line) ==
    LET d   == IF At(s, i) = Point THEN i + 1 ELSE i
        hex == IsHex(SubSeq(s, d, Len(s)))
        end == IF hex THEN NumeralEnd(s, d + 2, {112, 80}) ELSE NumeralEnd(s, d + 1, {Letter_e, Letter_E})
        v   == Str2Num(SubSeq(s, i, end - 1))
    IN  IF v = Failed THEN LexError(line) ELSE Got(v[1], v[2], end, line)

\* Symbols of several bytes, the longest first, and the reserved words.
Symbols  == <<<<46, 46, 46>>, <<46, 46>>, <<61, 61>>, <<60, 61>>, <<60, 60>>, <<62, 61>>, <<62, 62>>, <<47, 47>>,
              <<126, 61>>, <<58, 58>>>>
CONSTANTS Reserved     \* luaX_tokens: the first NUM_RESERVED, as bytes

Symbol(s, i, line) ==
    LET long == {k \in DOMAIN Symbols : Match(s, i, Symbols[k])}
    IN  IF long = {} THEN Got("symbol", <<s[i]>>, i + 1, line)
        ELSE LET k == CHOOSE k \in long : \A l \in long : k <= l
             IN  Got("symbol", Symbols[k], i + Len(Symbols[k]), line)

\* llex.
RECURSIVE Lex(_, _, _)
Lex(s, i, line) ==
    LET c    == At(s, i)
        name == Skip(s, i, Letters \cup Digits)
        text == SubSeq(s, i, name - 1)
        long(k) == LET b == LongBracket(s, k) IN LongString(s, b.at, Sep(s, k), <<>>, line + b.lines)
        comment(k) == IF At(s, k) = OpenSquare /\ Sep(s, k) >= 0 THEN long(k)
                      ELSE Got("string", <<>>, Skip(s, k, 1..255 \ Newlines), line)
    IN  CASE c = 0 -> Got("eof", <<>>, i, line)
          [] c \in Newlines -> Lex(s, PastNewline(s, i), line + 1)
          [] c \in Spaces \ Newlines -> Lex(s, i + 1, line)
          [] c = Minus /\ At(s, i + 1) = Minus ->
                LET r == comment(i + 2) IN IF r.at = 0 THEN LexError(r.line) ELSE Lex(s, r.at, r.line)
          [] c = OpenSquare /\ Sep(s, i) >= 0  -> long(i)
          [] c = OpenSquare /\ Sep(s, i) < -1  -> LexError(line)
          [] c \in {Quote, 39} -> ReadString(s, i + 1, c, <<>>, line)
          [] c \in Digits \/ (c = Point /\ At(s, i + 1) \in Digits) -> Numeral(s, i, line)
          [] c \in Letters -> Got(IF text \in Reserved THEN "reserved" ELSE "name", text, name, line)
          [] OTHER -> Symbol(s, i, line)

\* luaX_next until the end: the tokens with their lines.
RECURSIVE Tokens(_, _, _)
Tokens(s, i, line) ==
    LET r == Lex(s, i, line)
    IN  IF r.token[1] \in {"eof", "error"} THEN <<<<r.token, r.line>>>>
        ELSE <<<<r.token, r.line>>>> \o Tokens(s, r.at, r.line)
=============================================================================
