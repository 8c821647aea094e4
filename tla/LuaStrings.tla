------------------------------- MODULE LuaStrings -------------------------------
(* The string library of contracts (lstrlib.cpp): pattern matching, formatting, *)
(* packing.  Strings and patterns are the sequences of their bytes, numbers    *)
(* those of StorageCodec; a function given to gsub is the function from the    *)
(* captures to its result.                                                     *)
(* Left out: the byte 0 in a pattern or a subject, the digits of the formats   *)
(* for doubles and of octal and hexadecimal ones, packed doubles, and lengths  *)
(* near the largest integer.                                                   *)
EXTENDS LuaLexer

CONSTANTS MaxCaptures, MaxCCalls, MaxReps   \* LUA_MAXCAPTURES, MAXCCALLS, B_REPS

Str(s)     == <<"str", s>>
WholeNum(n) == NumV(n < 0, Magnitude(IF n < 0 THEN -n ELSE n))
LibError   == <<"error", 0>>

Esc    == 37
Dash   == 45
Caret  == 94
Dollar == 36
Lower  == 97..122
Upper  == 65..90
ToLower(c) == IF c \in Upper THEN c + 32 ELSE c
ToUpper(c) == IF c \in Lower THEN c - 32 ELSE c

-----------------------------------------------------------------------------
(* Positions and simple functions.                                            *)

PosRelat(pos, len) == IF pos >= 0 THEN pos ELSE IF -pos > len THEN 0 ELSE len + pos + 1
From(i) == IF i < 1 THEN 1 ELSE i
UpTo(j, len) == IF j > len THEN len ELSE j
Slice(s, i, j) == IF i > j THEN <<>> ELSE SubSeq(s, i, j)

StrSub(s, i, j) == Slice(s, From(PosRelat(i, Len(s))), UpTo(PosRelat(j, Len(s)), Len(s)))
StrByte(s, i, j) == [k \in DOMAIN StrSub(s, i, j) |-> WholeNum(StrSub(s, i, j)[k])]
StrLower(s) == [i \in DOMAIN s |-> ToLower(s[i])]
StrUpper(s) == [i \in DOMAIN s |-> ToUpper(s[i])]
StrReverse(s) == Reverse(s)
StrRep(s, n, sep) == FlattenSeq([i \in 1..(IF n > 0 THEN n ELSE 0) |-> IF i < n THEN s \o sep ELSE s])

\* str_split: `last' is where the item under way began.
RECURSIVE SplitFrom(_, _, _, _)
SplitFrom(s, sep, i, last) ==
    IF i > Len(s) THEN IF i > last THEN <<SubSeq(s, last, Len(s))>> ELSE <<>>
    ELSE IF ~Match(s, i, sep) THEN SplitFrom(s, sep, i + 1, last)
    ELSE (IF last = i THEN <<>> ELSE <<SubSeq(s, last, i - 1)>>) \o SplitFrom(s, sep, i + Len(sep), i + Len(sep))
Split(s, sep) == IF sep = <<>> THEN <<s>> ELSE SplitFrom(s, sep, 1, 1)

-----------------------------------------------------------------------------
(* Classes.                                                                   *)

Printable == 33..126
Alnum  == Upper \cup Lower \cup Digits
Classes == (97 :> Upper \cup Lower) @@ (99 :> (0..31) \cup {127}) @@ (100 :> Digits) @@ (103 :> Printable)
           @@ (108 :> Lower) @@ (112 :> Printable \ Alnum) @@ (115 :> Spaces) @@ (117 :> Upper)
           @@ (119 :> Alnum) @@ (120 :> HexDigits) @@ (122 :> {0})

\* match_class: an upper-case letter means the complement.
MatchClass(c, cl) == IF ToLower(cl) \notin DOMAIN Classes THEN cl = c
                     ELSE (c \in Classes[ToLower(cl)]) = (cl \in Lower)

\* classend: the place behind a class, 0 where the pattern is malformed.
RECURSIVE BracketEnd(_, _)
BracketEnd(p, k) ==
    LET next == IF At(p, k) = Esc /\ k < Len(p) THEN k + 2 ELSE k + 1
    IN  IF k > Len(p) THEN 0 ELSE IF At(p, next) = CloseSquare THEN next + 1 ELSE BracketEnd(p, next)
ClassEnd(p, j) ==
    CASE At(p, j) = Esc -> IF j = Len(p) THEN 0 ELSE j + 2
      [] At(p, j) = OpenSquare -> BracketEnd(p, IF At(p, j + 1) = Caret THEN j + 2 ELSE j + 1)
      [] OTHER -> j + 1

\* matchbracketclass: the members from k up to the bracket at ec.
RECURSIVE AnyOf(_, _, _, _)
AnyOf(c, p, k, ec) ==
    CASE k >= ec -> FALSE
      [] p[k] = Esc -> MatchClass(c, p[k + 1]) \/ AnyOf(c, p, k + 2, ec)
      [] p[k] # Esc /\ p[k + 1] = Dash /\ k + 2 < ec -> c \in p[k]..p[k + 2] \/ AnyOf(c, p, k + 3, ec)
      [] OTHER -> p[k] = c \/ AnyOf(c, p, k + 1, ec)
InBrackets(c, p, j, ec) == IF At(p, j + 1) = Caret THEN ~AnyOf(c, p, j + 2, ec) ELSE AnyOf(c, p, j + 1, ec)

\* singlematch: the class from j to ep against the byte at i.
Single(m, i, j, ep) ==
    /\ i <= Len(m.s)
    /\ CASE m.p[j] = Point -> TRUE
         [] m.p[j] = Esc -> MatchClass(m.s[i], m.p[j + 1])
         [] m.p[j] = OpenSquare -> InBrackets(m.s[i], m.p, j, ep - 1)
         [] OTHER -> m.p[j] = m.s[i]

-----------------------------------------------------------------------------
(* match.  A result is the place behind the match (0: none, -1: an error), the *)
(* captures, and what is left of the steps that a call may take.  `depth' is   *)
(* the recursion still allowed.                                                *)

Unfinished == -1
Position   == -2
Ends(i, caps, reps) == [end |-> i, caps |-> caps, reps |-> reps]
NoMatch(reps) == Ends(0, <<>>, reps)
MatchError    == Ends(-1, <<>>, 0)

\* matchbalance.
RECURSIVE Balance(_, _, _, _, _)
Balance(s, i, b, e, open) ==
    CASE i > Len(s) -> 0
      [] At(s, i) = e -> IF open = 1 THEN i + 1 ELSE Balance(s, i + 1, b, e, open - 1)
      [] OTHER -> Balance(s, i + 1, b, e, IF s[i] = b THEN open + 1 ELSE open)

ToClose(caps) == LET open == {l \in DOMAIN caps : caps[l].len = Unfinished}
                 IN  IF open = {} THEN 0 ELSE CHOOSE l \in open : \A k \in open : k <= l

\* How often the class may be repeated from i on.
RECURSIVE Repeats(_, _, _, _)
Repeats(m, i, j, ep) == IF Single(m, i, j, ep) THEN 1 + Repeats(m, i + 1, j, ep) ELSE 0

RECURSIVE DoMatch(_, _, _, _, _, _), MaxExpand(_, _, _, _, _, _, _), MinExpand(_, _, _, _, _, _, _)
Suffixed(m, i, j, caps, depth, reps) ==
    LET ep     == ClassEnd(m.p, j)
        suffix == At(m.p, ep)
        left   == reps - 1
        once   == DoMatch(m, i + 1, ep + 1, caps, depth - 1, left)
    IN  CASE ep = 0 -> MatchError
          [] ep # 0 /\ ~Single(m, i, j, ep) -> IF suffix \in {42, 63, Dash}
                                               THEN DoMatch(m, i, ep + 1, caps, depth, reps) ELSE NoMatch(reps)
          [] ep # 0 /\ Single(m, i, j, ep) /\ reps = 0 -> MatchError
          [] OTHER ->
                CASE suffix = 63   -> IF once.end # 0 THEN once ELSE DoMatch(m, i, ep + 1, caps, depth, once.reps)
                  [] suffix = 43   -> MaxExpand(m, i + 1, Repeats(m, i + 1, j, ep), ep, caps, depth, left)
                  [] suffix = 42   -> MaxExpand(m, i, Repeats(m, i, j, ep), ep, caps, depth, left)
                  [] suffix = Dash -> MinExpand(m, i, j, ep, caps, depth, left)
                  [] OTHER         -> DoMatch(m, i + 1, ep, caps, depth, left)

\* Variant that fails: never less often than possible.
MaxExpandGreedy(m, i, n, ep, caps, depth, reps) == DoMatch(m, i + n, ep + 1, caps, depth - 1, reps)

\* max_expand: as often as possible first.
MaxExpand(m, i, n, ep, caps, depth, reps) ==
    LET r == DoMatch(m, i + n, ep + 1, caps, depth - 1, reps)
    IN  IF r.end # 0 \/ n = 0 THEN r ELSE MaxExpand(m, i, n - 1, ep, caps, depth, r.reps)
MinExpand(m, i, j, ep, caps, depth, reps) ==
    LET r == DoMatch(m, i, ep + 1, caps, depth - 1, reps)
    IN  IF r.end # 0 \/ ~Single(m, i, j, ep) THEN r ELSE MinExpand(m, i + 1, j, ep, caps, depth, r.reps)

\* %b, %f and %0 to %9.
Escaped(m, i, j, caps, depth, reps) ==
    LET p     == m.p
        d     == At(p, j + 1)
        ep    == ClassEnd(p, j + 2)
        after == Balance(m.s, i + 1, At(p, j + 2), At(p, j + 3), 1)
        prev  == At(m.s, i - 1)
        l     == d - 48
        len   == caps[l].len
    IN  CASE d = 98 -> IF j + 3 > Len(p) THEN MatchError
                       ELSE IF At(m.s, i) # p[j + 2] \/ after = 0 THEN NoMatch(reps)
                       ELSE DoMatch(m, after, j + 4, caps, depth, reps)
          [] d = 102 -> IF At(p, j + 2) # OpenSquare \/ ep = 0 THEN MatchError
                        ELSE IF ~InBrackets(IF i = 1 THEN 0 ELSE prev, p, j + 2, ep - 1)
                                /\ InBrackets(At(m.s, i), p, j + 2, ep - 1)
                        THEN DoMatch(m, i, ep, caps, depth, reps) ELSE NoMatch(reps)
          [] OTHER -> IF l \notin DOMAIN caps \/ len = Unfinished THEN MatchError
                      ELSE IF len >= 0 /\ Match(m.s, i, SubSeq(m.s, caps[l].from, caps[l].from + len - 1))
                      THEN DoMatch(m, i + len, j + 2, caps, depth, reps) ELSE NoMatch(reps)

DoMatch(m, i, j, caps, depth, reps) ==
    LET c == At(m.p, j)
        d == At(m.p, j + 1)
        l == ToClose(caps)
        open(len, next) == DoMatch(m, i, next, Append(caps, [from |-> i, len |-> len]), depth - 1, reps)
    IN  CASE depth = 0 -> MatchError
          [] depth # 0 /\ j > Len(m.p) -> Ends(i, caps, reps)
          [] depth # 0 /\ c = 40 -> IF Len(caps) >= MaxCaptures THEN MatchError
                                    ELSE IF d = 41 THEN open(Position, j + 2) ELSE open(Unfinished, j + 1)
          [] depth # 0 /\ c = 41 -> IF l = 0 THEN MatchError
                                    ELSE DoMatch(m, i, j + 1, [caps EXCEPT ![l].len = i - caps[l].from], depth - 1, reps)
          [] depth # 0 /\ c = Dollar /\ j = Len(m.p) -> IF i = Len(m.s) + 1 THEN Ends(i, caps, reps) ELSE NoMatch(reps)
          [] depth # 0 /\ c = Esc /\ d \in {98, 102} \cup Digits -> Escaped(m, i, j, caps, depth, reps)
          [] OTHER -> Suffixed(m, i, j, caps, depth, reps)

\* prepstate and reprepstate: every attempt begins without captures and with
\* the full depth; the steps are for all the attempts of a call.
Subject(s, p) == [s |-> s, p |-> p, reps |-> 4 * Len(s) + MaxReps]
Attempt(m, i, reps) == DoMatch(m, i, 1, <<>>, MaxCCalls, reps)

\* push_onecapture and push_captures of a match from i to e.
OneCapture(m, r, l, i) ==
    IF l > Len(r.caps) THEN IF l = 1 THEN Str(SubSeq(m.s, i, r.end - 1)) ELSE LibError
    ELSE LET cap == r.caps[l]
         IN  CASE cap.len = Unfinished -> LibError
               [] cap.len = Position -> WholeNum(cap.from)
               [] OTHER -> Str(SubSeq(m.s, cap.from, cap.from + cap.len - 1))
Captures(m, r, i, whole) ==
    [l \in 1..(IF r.caps = <<>> /\ whole THEN 1 ELSE Len(r.caps)) |-> OneCapture(m, r, l, i)]

-----------------------------------------------------------------------------
(* find, match, gmatch and gsub.  Results are sequences of values.            *)

Specials == {Caret, Dollar, 42, 43, 63, Point, 40, OpenSquare, Esc, Dash}
Anchored(p)   == At(p, 1) = Caret
Unanchored(p) == IF Anchored(p) THEN Tail(p) ELSE p
Raised(values) == IF \E i \in DOMAIN values : values[i] = LibError THEN <<LibError>> ELSE values

RECURSIVE Search(_, _, _, _, _)
Search(m, i, anchor, find, reps) ==
    LET r == Attempt(m, i, reps)
    IN  CASE r.end = -1 -> <<LibError>>
          [] r.end > 0  -> IF find THEN Raised(<<WholeNum(i), WholeNum(r.end - 1)>> \o Captures(m, r, i, FALSE))
                           ELSE Raised(Captures(m, r, i, TRUE))
          [] OTHER -> IF i > Len(m.s) \/ anchor THEN <<NilV>> ELSE Search(m, i + 1, anchor, find, r.reps)

\* lmemfind.
PlainFind(s, p, init) ==
    LET at == {i \in init..(Len(s) + 1) : Match(s, i, p)}
        i  == CHOOSE i \in at : \A k \in at : i <= k
    IN  IF at = {} THEN <<NilV>> ELSE <<WholeNum(i), WholeNum(i + Len(p) - 1)>>

StrFindAux(s, p, pos, plain, find) ==
    LET init == From(PosRelat(pos, Len(s)))
        m    == Subject(s, Unanchored(p))
    IN  IF init > Len(s) + 1 THEN <<NilV>>
        ELSE IF find /\ (plain \/ Range(p) \cap Specials = {}) THEN PlainFind(s, p, init)
        ELSE Search(m, init, Anchored(p), find, m.reps)

\* All that gmatch returns, call after call.
RECURSIVE GMatchFrom(_, _, _)
GMatchFrom(m, i, reps) ==
    LET r == Attempt(m, i, reps)
    IN  IF i > Len(m.s) + 1 THEN <<>>
        ELSE CASE r.end = -1 -> <<<<LibError>>>>
               [] r.end = 0  -> GMatchFrom(m, i + 1, r.reps)
               [] OTHER -> <<Raised(Captures(m, r, i, TRUE))>> \o GMatchFrom(m, IF r.end = i THEN i + 1 ELSE r.end, r.reps)
GMatch(s, p) == GMatchFrom(Subject(s, p), 1, Subject(s, p).reps)

\* add_s: the replacement text with its captures.
RECURSIVE AddS(_, _, _, _)
AddS(m, r, i, news) ==
    LET d    == At(news, 2)
        cap  == OneCapture(m, r, d - 48, i)
        part == CASE news[1] # Esc -> Str(<<news[1]>>)
                  [] news[1] = Esc /\ d = Esc -> Str(<<Esc>>)
                  [] news[1] = Esc /\ d = 48  -> Str(SubSeq(m.s, i, r.end - 1))
                  [] news[1] = Esc /\ d \in Digits \ {48} -> IF cap[1] = "num" THEN Str(NumText(cap)) ELSE cap
                  [] OTHER -> LibError
        rest == AddS(m, r, i, SubSeq(news, IF news[1] = Esc THEN 3 ELSE 2, Len(news)))
    IN  IF news = <<>> THEN Str(<<>>)
        ELSE IF part = LibError \/ rest = LibError THEN LibError ELSE Str(part[2] \o rest[2])

\* add_value: a result that is nil or false keeps the text.
AddValue(m, r, i, repl) ==
    LET given == IF repl[1] = "function" THEN repl[2][Captures(m, r, i, TRUE)]
                 ELSE IF OneCapture(m, r, 1, i) \in DOMAIN repl[2] THEN repl[2][OneCapture(m, r, 1, i)] ELSE NilV
    IN  IF repl[1] = "str" THEN AddS(m, r, i, repl[2])
        ELSE CASE given \in {NilV, BoolV(FALSE)} -> Str(SubSeq(m.s, i, r.end - 1))
               [] given[1] = "num" -> Str(NumText(given))
               [] given[1] = "str" -> given
               [] OTHER -> LibError

RECURSIVE GSubFrom(_, _, _, _, _, _, _)
GSubFrom(m, i, repl, left, anchor, n, reps) ==
    LET r     == Attempt(m, i, reps)
        found == r.end > 0
        added == IF found THEN AddValue(m, r, i, repl) ELSE Str(<<>>)
        moved == found /\ r.end > i
        next  == IF moved THEN r.end ELSE i + 1
        kept  == IF moved \/ i > Len(m.s) THEN <<>> ELSE <<m.s[i]>>
        count == n + (IF found THEN 1 ELSE 0)
        rest  == IF anchor \/ (~moved /\ i > Len(m.s)) THEN <<Str(SubSeq(m.s, next, Len(m.s))), count>>
                 ELSE GSubFrom(m, next, repl, left - (IF found THEN 1 ELSE 0), anchor, count, r.reps)
    IN  IF left <= 0 THEN <<Str(SubSeq(m.s, i, Len(m.s))), n>>
        ELSE IF r.end = -1 \/ added = LibError \/ rest[1] = LibError THEN <<LibError, 0>>
        ELSE <<Str(added[2] \o kept \o rest[1][2]), rest[2]>>
GSub(s, p, repl, max) ==
    LET m == Subject(s, Unanchored(p)) IN GSubFrom(m, 1, repl, max, Anchored(p), 0, m.reps)
-----------------------------------------------------------------------------
(* format.                                                                    *)

Flags == {Dash, 43, 32, 35, 48}
Blank(n, c) == [i \in 1..(IF n < 0 THEN 0 ELSE n) |-> c]

\* scanformat: flags, a width and a precision of two digits each at most.
\* `conv' is the place of the conversion, 0 where the format is refused.
ScanFormat(f, i) ==
    LET flags == Skip(f, i, Flags)
        two(k) == IF At(f, k) \notin Digits THEN k ELSE IF At(f, k + 1) \in Digits THEN k + 2 ELSE k + 1
        width == two(flags)
        dot   == At(f, width) = Point
        prec  == IF dot THEN two(width + 1) ELSE width
    IN  [conv  |-> IF flags - i >= 6 \/ At(f, prec) \in Digits THEN 0 ELSE prec,
         flags |-> Range(SubSeq(f, i, flags - 1)),
         width |-> DecimalValue(SubSeq(f, flags, width - 1)),
         prec  |-> IF dot THEN DecimalValue(SubSeq(f, width + 1, prec - 1)) ELSE -1,
         plain |-> prec = i]

\* sprintf: to the right of its field unless the flag - says otherwise.
Field(sp, text) == IF Dash \in sp.flags THEN text \o Blank(sp.width - Len(text), 32)
                   ELSE Blank(sp.width - Len(text), 32) \o text
FormatInt(sp, i) ==
    LET sign   == IF i.neg THEN <<Minus>> ELSE IF 43 \in sp.flags THEN <<43>> ELSE IF 32 \in sp.flags THEN <<32>> ELSE <<>>
        digits == IF i.m = Zero /\ sp.prec = 0 THEN <<>> ELSE ToDecimal(i.m)
        wanted == IF sp.prec >= 0 THEN sp.prec
                  ELSE IF 48 \in sp.flags /\ Dash \notin sp.flags THEN sp.width - Len(sign) ELSE 0
    IN  Field(sp, sign \o Blank(wanted - Len(digits), Digit(0)) \o digits)
FormatStr(sp, s) == IF sp.plain \/ (sp.prec < 0 /\ Len(s) >= 100) THEN s
                    ELSE Field(sp, IF sp.prec >= 0 THEN SubSeq(s, 1, UpTo(sp.prec, Len(s))) ELSE s)

\* addquoted: three digits where a digit follows.
AddQuoted(s) ==
    LET one(i) == CASE s[i] \in {Quote, Backslash, Newline} -> <<Backslash, s[i]>>
                    [] s[i] \in ((0..31) \ {Newline}) \cup {127} ->
                          <<Backslash>> \o (IF At(s, i + 1) \in Digits THEN Blank(3 - Len(ToText(s[i])), Digit(0)) ELSE <<>>)
                          \o ToText(s[i])
                    [] OTHER -> <<s[i]>>
    IN  <<Quote>> \o FlattenSeq([i \in DOMAIN s |-> one(i)]) \o <<Quote>>

\* A 64-bit number as its eight bytes, the highest first, and back.
Bits(i)  == Pad(IF i.neg THEN Complement(i.m) ELSE i.m, 8)
OfBits(b) == NumV(AsInt64(Strip(b)).neg, AsInt64(Strip(b)).m)

\* A value where a string or a whole number is asked for (luaL_checkinteger,
\* luaL_tolstring).
IntArg(v)  == IF v[1] = "num" THEN v ELSE IF v[1] = "str" /\ Str2Num(v[2])[1] = "num" THEN Str2Num(v[2]) ELSE LibError
TextArg(v) == CASE v[1] = "str" -> v[2] [] v[1] \in {"num", "flt"} -> NumText(v)
                [] v[1] = "bool" -> (IF v[2] THEN True ELSE False) [] v[1] = "nil" -> Nil

Item(sp, conv, v) ==
    CASE conv \in {100, 105} -> IF IntArg(v) = LibError THEN LibError ELSE Str(FormatInt(sp, IntArg(v)[2]))
      [] conv = 99  -> IF IntArg(v) = LibError THEN LibError ELSE Str(Field(sp, <<Last(Bits(IntArg(v)[2]))>>))
      [] conv = 115 -> Str(FormatStr(sp, TextArg(v)))
      [] conv = 113 -> IF v[1] \in {"str", "num", "flt"} THEN Str(AddQuoted(TextArg(v))) ELSE LibError
      [] OTHER -> LibError

\* str_format.
RECURSIVE FormatFrom(_, _, _, _)
FormatFrom(f, i, args, out) ==
    LET sp   == ScanFormat(f, i + 1)
        item == Item(sp, At(f, sp.conv), Head(args))
    IN  CASE i > Len(f)   -> Str(out)
          [] i <= Len(f) /\ f[i] # Esc -> FormatFrom(f, i + 1, args, Append(out, f[i]))
          [] i <= Len(f) /\ f[i] = Esc /\ At(f, i + 1) = Esc -> FormatFrom(f, i + 2, args, Append(out, Esc))
          [] OTHER -> IF args = <<>> \/ sp.conv = 0 \/ item = LibError THEN LibError
                      ELSE FormatFrom(f, sp.conv + 1, Tail(args), out \o item[2])
Format(f, args) == FormatFrom(f, 1, args, <<>>)

-----------------------------------------------------------------------------
(* pack, packsize and unpack on whole numbers and strings.                    *)

MaxIntSize == 16
NativeAlign == 8

\* packint: numbers longer than eight bytes extend the sign of a signed one.
PackInt(i, size, little, signed) ==
    LET low == IF size <= 8 THEN SubSeq(Bits(i), 9 - size, 8)
               ELSE Blank(size - 8, IF signed /\ i.neg THEN 255 ELSE 0) \o Bits(i)
    IN  IF little THEN Reverse(low) ELSE low

\* unpackint: what does not fit in a 64-bit number is refused.
UnpackInt(bytes, little, signed) ==
    LET b    == IF little THEN Reverse(bytes) ELSE bytes
        n    == Len(b)
        low  == IF n > 8 THEN SubSeq(b, n - 7, n) ELSE b
        fill == IF signed /\ low[1] >= 128 THEN 255 ELSE 0
    IN  IF n <= 8 THEN OfBits(Blank(8 - n, fill) \o low)
        ELSE IF \E k \in 1..(n - 8) : b[k] # fill THEN LibError ELSE OfBits(low)

IntFits(i, size, signed) ==
    \/ size >= 8
    \/ ~signed /\ ~i.neg /\ Len(i.m) <= size
    \/ signed /\ UnpackInt(PackInt(i, size, FALSE, TRUE), FALSE, TRUE) = <<"num", i>>

\* getoption: the kind and size of the option at k, and the header it leaves.
Option(kind, size, at, h) == [kind |-> kind, size |-> size, at |-> at, h |-> h]
Fixed == (98 :> <<"int", 1>>) @@ (66 :> <<"uint", 1>>) @@ (104 :> <<"int", 2>>) @@ (72 :> <<"uint", 2>>)
         @@ (108 :> <<"int", 8>>) @@ (76 :> <<"uint", 8>>) @@ (106 :> <<"int", 8>>) @@ (74 :> <<"uint", 8>>)
         @@ (84 :> <<"uint", 8>>) @@ (122 :> <<"zstr", 0>>) @@ (120 :> <<"padding", 1>>) @@ (88 :> <<"paddalign", 0>>)
SizedOption == (105 :> <<"int", 4>>) @@ (73 :> <<"uint", 4>>) @@ (115 :> <<"string", 8>>) @@ (33 :> <<"nop", NativeAlign>>)
GetOption(f, k, h) ==
    LET c     == f[k]
        end   == Skip(f, k + 1, Digits)
        given == end > k + 1
        num   == DecimalValue(SubSeq(f, k + 1, end - 1))
        size  == IF given THEN num ELSE SizedOption[c][2]
        bad   == Option("error", 0, k, h)
    IN  CASE c \in DOMAIN Fixed -> Option(Fixed[c][1], Fixed[c][2], k + 1, h)
          [] c \in DOMAIN SizedOption -> IF size \notin 1..MaxIntSize THEN bad
                                   ELSE IF c = 33 THEN Option("nop", 0, end, [h EXCEPT !.align = size])
                                   ELSE Option(SizedOption[c][1], size, end, h)
          [] c = 99 -> IF given THEN Option("char", num, end, h) ELSE bad
          [] c = 32 -> Option("nop", 0, k + 1, h)
          [] c \in {60, 61} -> Option("nop", 0, k + 1, [h EXCEPT !.little = TRUE])
          [] c = 62 -> Option("nop", 0, k + 1, [h EXCEPT !.little = FALSE])
          [] OTHER -> bad

\* getdetails: with the bytes that align it, behind `total' bytes.
Details(f, k, h, total) ==
    LET o     == GetOption(f, k, h)
        next  == GetOption(f, o.at, o.h)
        x     == o.kind = "paddalign"
        badx  == o.at > Len(f) \/ next.kind \in {"char", "error"} \/ next.size = 0
        want  == IF x THEN next.size ELSE o.size
        align == IF want > o.h.align THEN o.h.align ELSE want
        fill  == IF want <= 1 \/ o.kind = "char" THEN 0 ELSE (align - (total % align)) % align
    IN  IF o.kind = "error" \/ (x /\ badx) \/ (want > 1 /\ o.kind # "char" /\ align \notin {1, 2, 4, 8, 16})
        THEN [kind |-> "error", size |-> 0, at |-> k, h |-> h, fill |-> 0]
        ELSE [kind |-> o.kind, size |-> o.size, fill |-> fill, at |-> IF x THEN next.at ELSE o.at,
              h |-> IF x THEN next.h ELSE o.h]
InitHeader == [little |-> TRUE, align |-> 1]

\* str_pack.  totalsize is the length of what is packed.
PackOne(o, v) ==
    CASE o.kind \in {"int", "uint"} ->
            IF v[1] = "num" /\ IntFits(v[2], o.size, o.kind = "int")
            THEN Str(PackInt(v[2], o.size, o.h.little, o.kind = "int")) ELSE LibError
      [] v[1] # "str" -> LibError
      [] o.kind = "char"   -> Str(SubSeq(v[2], 1, UpTo(o.size, Len(v[2]))) \o Blank(o.size - Len(v[2]), 0))
      [] o.kind = "string" -> IF o.size < 8 /\ Len(Magnitude(Len(v[2]))) > o.size THEN LibError
                              ELSE Str(PackInt([neg |-> FALSE, m |-> Magnitude(Len(v[2]))], o.size, o.h.little, FALSE) \o v[2])
      [] o.kind = "zstr"   -> IF 0 \in Range(v[2]) THEN LibError ELSE Str(v[2] \o <<0>>)

RECURSIVE PackFrom(_, _, _, _, _)
PackFrom(f, k, h, args, out) ==
    LET o == Details(f, k, h, Len(out))
        filled == out \o Blank(o.fill, 0)
        packed == PackOne(o, Head(args))
    IN  IF k > Len(f) THEN Str(out)
        ELSE CASE o.kind = "error" -> LibError
               [] o.kind \in {"nop", "paddalign"} -> PackFrom(f, o.at, o.h, args, filled)
               [] o.kind = "padding" -> PackFrom(f, o.at, o.h, args, filled \o <<0>>)
               [] OTHER -> IF args = <<>> \/ packed = LibError THEN LibError
                           ELSE PackFrom(f, o.at, o.h, Tail(args), filled \o packed[2])
Pack(f, args) == PackFrom(f, 1, InitHeader, args, <<>>)

\* str_packsize: -1 for a format of a length that varies.
RECURSIVE PackSizeFrom(_, _, _, _)
PackSizeFrom(f, k, h, total) ==
    LET o == Details(f, k, h, total)
    IN  IF k > Len(f) THEN total
        ELSE IF o.kind \in {"error", "string", "zstr"} THEN -1 ELSE PackSizeFrom(f, o.at, o.h, total + o.fill + o.size)
PackSize(f) == PackSizeFrom(f, 1, InitHeader, 0)

\* str_unpack: the values, then the place behind them.
RECURSIVE UnpackFrom(_, _, _, _, _)
UnpackFrom(f, k, h, data, pos) ==
    LET o    == Details(f, k, h, pos)
        at   == pos + o.fill
        part == SubSeq(data, at + 1, at + o.size)
        int  == UnpackInt(part, o.h.little, o.kind = "int")
        len  == Num(int[2].m)
        zero == Skip(data, at + 1, 1..255)
        rest(next) == UnpackFrom(f, o.at, o.h, data, next)
    IN  IF k > Len(f) THEN <<WholeNum(pos + 1)>>
        ELSE IF o.kind = "error" \/ at + o.size > Len(data) THEN <<LibError>>
        ELSE CASE o.kind \in {"int", "uint"} -> IF int = LibError THEN <<int>> ELSE <<int>> \o rest(at + o.size)
               [] o.kind = "char"   -> <<Str(part)>> \o rest(at + o.size)
               [] o.kind = "string" -> IF int = LibError \/ at + len + o.size > Len(data) THEN <<LibError>>
                                       ELSE <<Str(SubSeq(data, at + o.size + 1, at + o.size + len))>> \o rest(at + o.size + len)
               [] o.kind = "zstr"   -> <<Str(SubSeq(data, at + 1, zero - 1))>> \o rest(zero)
               [] OTHER -> rest(at + o.size)
Unpack(f, data, pos) ==
    LET from == PosRelat(pos, Len(data)) - 1
    IN  IF from < 0 \/ from > Len(data) THEN <<LibError>> ELSE UnpackFrom(f, 1, InitHeader, data, from)
=============================================================================
