------------------------------- MODULE MCLuaVM -------------------------------
(* The chunks that are compiled and run, as syntax trees, with the writer     *)
(* that turns a tree into tokens (one line per statement, the parentheses the *)
(* priorities call for and no others), and what a run must show.              *)
EXTENDS LuaParser, LuaDump, LuaVM

CONSTANT CutSizes    \* how many pieces a truncated dump lacks

Ref == INSTANCE LuaReference

-----------------------------------------------------------------------------
(* From trees to tokens.                                                      *)

T(tk) == <<tk, "">>
Id(x) == <<"NAME", x>>
Priority == [or |-> 1, and |-> 2] @@ ("<" :> 3) @@ (">" :> 3) @@ ("<=" :> 3) @@ (">=" :> 3)
         @@ ("==" :> 3) @@ ("~=" :> 3) @@ (".." :> 4) @@ ("+" :> 5) @@ ("-" :> 5)
         @@ ("*" :> 6) @@ ("//" :> 6) @@ ("%" :> 6)
Level(e) == CASE e[1] = "bin" -> Priority[e[2]] [] e[1] = "un" -> 7 [] OTHER -> 8
Suffixable(e) == e[1] \in {"var", "idx", "call", "mcall", "paren"}

Commas(tss) == IF tss = <<>> THEN <<>>
               ELSE FoldLeft(LAMBDA acc, ts : acc \o <<T(",")>> \o ts, Head(tss), Tail(tss))
IdList(xs) == Commas([i \in DOMAIN xs |-> <<Id(xs[i])>>])

RECURSIVE E(_), Stat(_)
NL == <<"NL", "">>
Stats(b) == FlattenSeq([i \in DOMAIN b |-> Append(Stat(b[i]), NL)])
BlockOf(b) == <<NL>> \o Stats(b)
FnTail(e) ==
    LET ps == [i \in DOMAIN e[2] |-> <<Id(e[2][i])>>]
    IN  <<T("(")>> \o Commas(IF e[3] THEN Append(ps, <<T("...")>>) ELSE ps) \o <<T(")")>>
        \o BlockOf(e[4]) \o <<T("end")>>
Paren(e, when) == IF when THEN <<T("(")>> \o E(e) \o <<T(")")>> ELSE E(e)
Es(es) == Commas([i \in DOMAIN es |-> E(es[i])])
Object(e) == Paren(e, ~Suffixable(e))
Item(it) == CASE it[1] = "pos"   -> E(it[2])
              [] it[1] = "named" -> <<Id(it[2]), T("=")>> \o E(it[3])
              [] it[1] = "key"   -> <<T("[")>> \o E(it[2]) \o <<T("]"), T("=")>> \o E(it[3])

E(e) ==
    CASE e[1] = "int" -> << <<"INT", e[2]>> >>
      [] e[1] = "str" -> << <<"STRING", e[2]>> >>
      [] e[1] \in {"nil", "true", "false", "..."} -> <<T(e[1])>>
      [] e[1] = "var" -> <<Id(e[2])>>
      [] e[1] = "idx" -> IF e[3][1] = "str" THEN Object(e[2]) \o <<T("."), Id(e[3][2])>>
                         ELSE Object(e[2]) \o <<T("[")>> \o E(e[3]) \o <<T("]")>>
      [] e[1] = "bin" -> LET n == Priority[e[2]]
                             right == e[2] = ".."
                         IN  Paren(e[3], Level(e[3]) < n \/ (Level(e[3]) = n /\ right))
                             \o <<T(e[2])>> \o Paren(e[4], Level(e[4]) < n \/ (Level(e[4]) = n /\ ~right))
      [] e[1] = "un"  -> <<T(e[2])>> \o Paren(e[3], Level(e[3]) < 7)
      [] e[1] = "paren" -> Paren(e[2], TRUE)
      [] e[1] = "call" -> LET f == Object(e[2])
                          IN  IF Len(e[3]) = 1 /\ e[3][1][1] \in {"str", "table"} THEN f \o E(e[3][1])
                              ELSE f \o <<T("(")>> \o Es(e[3]) \o <<T(")")>>
      [] e[1] = "mcall" -> Object(e[2]) \o <<T(":"), Id(e[3]), T("(")>> \o Es(e[4]) \o <<T(")")>>
      [] e[1] = "fn"  -> <<T("function")>> \o FnTail(e)
      [] e[1] = "table" -> <<T("{")>> \o Commas([i \in DOMAIN e[2] |-> Item(e[2][i])]) \o <<T("}")>>

RECURSIVE If(_, _, _)
If(branches, other, kw) ==
    <<T(kw)>> \o E(Head(branches)[1]) \o <<T("then")>> \o BlockOf(Head(branches)[2]) \o
    (IF Len(branches) > 1 THEN If(Tail(branches), other, "elseif")
     ELSE (IF other = <<>> THEN <<>> ELSE <<T("else")>> \o BlockOf(other)) \o <<T("end")>>)

\* The name of a function statement, with ":" before the last part of a method's.
FnName(path, method) ==
    LET ts == E(path) IN IF method THEN [ts EXCEPT ![Len(ts) - 1] = T(":")] ELSE ts

Stat(st) ==
    CASE st[1] = "local"   -> <<T("local")>> \o IdList(st[2]) \o
                              (IF st[3] = <<>> THEN <<>> ELSE <<T("=")>> \o Es(st[3]))
      [] st[1] = "assign"  -> Es(st[2]) \o <<T("=")>> \o Es(st[3])
      [] st[1] = "callst"  -> E(st[2])
      [] st[1] = "do"      -> <<T("do")>> \o BlockOf(st[2]) \o <<T("end")>>
      [] st[1] = "while"   -> <<T("while")>> \o E(st[2]) \o <<T("do")>> \o BlockOf(st[3]) \o <<T("end")>>
      [] st[1] = "repeat"  -> <<T("repeat")>> \o BlockOf(st[2]) \o <<T("until")>> \o E(st[3])
      [] st[1] = "if"      -> If(st[2], st[3], "if")
      [] st[1] = "fornum"  -> <<T("for"), Id(st[2]), T("=")>> \o Es(st[3]) \o <<T("do")>> \o BlockOf(st[4]) \o <<T("end")>>
      [] st[1] = "forin"   -> <<T("for")>> \o IdList(st[2]) \o <<T("in")>> \o Es(st[3]) \o
                              <<T("do")>> \o BlockOf(st[4]) \o <<T("end")>>
      [] st[1] = "localfn" -> <<T("local"), T("function"), Id(st[2])>> \o FnTail(st[3])
      [] st[1] = "funcst"  -> <<T("function")>> \o FnName(st[2], st[3]) \o FnTail(st[4])
      [] st[1] = "return"  -> <<T("return")>> \o Es(st[2])
      [] st[1] = "break"   -> <<T("break")>>
      [] st[1] = "goto"    -> <<T("goto"), Id(st[2])>>
      [] st[1] = "label"   -> <<T("::"), Id(st[2]), T("::")>>
      [] st[1] = "empty"   -> <<T(";")>>

\* Tokens with their lines, without the marks where a line ends.
Lined(ts) ==
    LET line[i \in 0..Len(ts)] == IF i = 0 THEN 1 ELSE line[i - 1] + (IF ts[i] = NL THEN 1 ELSE 0)
        toks == [i \in DOMAIN ts |-> [tk |-> ts[i][1], v |-> ts[i][2], line |-> line[i]]]
    IN  SelectSeq(toks, LAMBDA t : t.tk # "NL")

\* A chunk, what the compiler makes of it, and what the language says of it.
\* "kind" says whether it runs to an end, is rejected, or runs for ever.  Of a
\* "stored" one, what runs is what the loader reads from the dump; "same" says
\* whether either reader yields what was compiled, "cut" what the loader says of
\* the dump without its last n pieces, "checked" whether a contract may have it.
Chunk(block, kind, stored) ==
    LET fs     == MainFunc(Append(Lined(Stats(block)), EOS))
        stream == Dump(Proto(fs), FALSE)
        loaded == LoadBuffer(stream)
        dumped == stored /\ fs.err = ""
        passed == dumped /\ CheckContractBytecodeStream(stream)
        says(fixed) == IF kind = "runs" THEN Ref!Outcome(block, Globals, Contract, fixed) ELSE Ref!Nothing
    IN  [kind |-> kind, err |-> fs.err,
         main |-> IF dumped THEN loaded.p ELSE Proto(fs),
         same |-> dumped => loaded = [p |-> Proto(fs), err |-> ""] /\ UndumpFromStream(stream) = loaded,
         cut |-> IF dumped THEN {LoadBuffer(SubSeq(stream, 1, Len(stream) - n)).err : n \in CutSizes} ELSE {},
         checked |-> passed,
         expected |-> [single |-> says({2}), contract |-> IF passed THEN says({1, 2}) ELSE Ref!Nothing]]

-----------------------------------------------------------------------------
(* Programs.                                                                  *)

Vr(x) == <<"var", x>>
I(n)  == <<"int", n>>
St(x) == <<"str", x>>
Ni    == <<"nil">>
Tr    == <<"true">>
Fa    == <<"false">>
Va    == <<"...">>
Op(op, l, r) == <<"bin", op, l, r>>
Un(op, e) == <<"un", op, e>>
Ap(f, args) == <<"call", f, args>>
Ix(o, k) == <<"idx", o, k>>
Dot(o, x) == <<"idx", o, St(x)>>
Tb(items) == <<"table", items>>
Pos(e) == <<"pos", e>>
Fn(ps, b) == <<"fn", ps, FALSE, b>>
Fv(ps, b) == <<"fn", ps, TRUE, b>>
Emit(es) == <<"callst", Ap(Vr("emit"), es)>>
Cl(f, es) == <<"callst", Ap(f, es)>>
Lo(x, e) == <<"local", <<x>>, <<e>>>>
Ls(xs, es) == <<"local", xs, es>>
As(x, e) == <<"assign", <<Vr(x)>>, <<e>>>>
Am(ts, es) == <<"assign", ts, es>>
Re(es) == <<"return", es>>
IfThen(c, b) == <<"if", <<<<c, b>>>>, <<>>>>
IfElse(c, b, o) == <<"if", <<<<c, b>>>>, o>>
For(x, a, b, body) == <<"fornum", x, <<a, b>>, body>>
Inc(x) == As(x, Op("+", Vr(x), I(1)))

\* A counter made by a closure over a local, one in a loop per round.
Closures == <<
    Ls(<<"a", "b">>, <<>>),
    <<"fornum", "i", <<I(1), I(2)>>, <<
        Lo("n", Op("*", Vr("i"), I(10))),
        Lo("f", Fn(<<>>, <<Inc("n"), Re(<<Op("+", Vr("n"), Vr("i"))>>)>>)),
        IfElse(Op("==", Vr("i"), I(1)), <<As("a", Vr("f"))>>, <<As("b", Vr("f"))>>)>>>>,
    Emit(<<Ap(Vr("a"), <<>>), Ap(Vr("a"), <<>>), Ap(Vr("b"), <<>>)>>),
    Re(<<Op("==", Vr("a"), Vr("b"))>>)>>

\* A closure without upvalues is made once; two closures share a captured local.
Shared == <<
    Ls(<<"x", "get", "set">>, <<I(1)>>),
    <<"while", Op("<", Vr("x"), I(5)), <<
        Lo("y", Vr("x")),
        As("get", Fn(<<>>, <<Re(<<Vr("y"), Vr("x")>>)>>)),
        As("set", Fn(<<"v">>, <<Am(<<Vr("y"), Vr("x")>>, <<Vr("v"), Op("+", Vr("v"), I(1))>>)>>)),
        Cl(Vr("set"), <<Op("+", Vr("x"), I(2))>>)>>>>,
    Emit(<<Ap(Vr("get"), <<>>)>>),
    Cl(Vr("set"), <<I(9)>>),
    Re(<<Vr("x"), Ap(Vr("get"), <<>>)>>)>>

\* goto continue out of a scope whose local a closure captured, and break.
Continue == <<
    Ls(<<"i", "f">>, <<I(0)>>),
    <<"repeat", <<
        Inc("i"),
        <<"do", <<Lo("c", Vr("i")),
                  IfThen(Op("==", Vr("i"), I(2)), <<<<"goto", "continue">>>>),
                  As("f", Fn(<<>>, <<Inc("c"), Re(<<Vr("c")>>)>>)),
                  IfThen(Op(">", Vr("i"), I(3)), <<<<"break">>>>)>>>>,
        Emit(<<Vr("i"), Ap(Vr("f"), <<>>)>>),
        <<"label", "continue">>>>, Fa>>,
    Re(<<Ap(Vr("f"), <<>>), Ap(Vr("f"), <<>>)>>)>>

\* The condition of repeat sees the body's locals, one of them captured.
Until == <<
    Ls(<<"n", "f">>, <<I(0)>>),
    <<"repeat", <<Lo("done", Op(">=", Vr("n"), I(2))),
                  As("f", Fn(<<>>, <<Re(<<Vr("done"), Vr("n")>>)>>)),
                  Inc("n")>>, Vr("done")>>,
    Re(<<Ap(Vr("f"), <<>>)>>)>>

Backward == <<
    Ls(<<"i", "f", "g">>, <<I(0)>>),
    <<"label", "top">>,
    Lo("x", Op("*", Vr("i"), I(2))),
    IfElse(Op("==", Vr("i"), I(0)), <<As("f", Fn(<<>>, <<Inc("x"), Re(<<Vr("x")>>)>>))>>,
                                     <<As("g", Fn(<<>>, <<Inc("x"), Re(<<Vr("x")>>)>>))>>),
    Inc("i"),
    IfThen(Op("<", Vr("i"), I(2)), <<<<"goto", "top">>>>),
    Emit(<<Ap(Vr("f"), <<>>), Ap(Vr("g"), <<>>), Ap(Vr("f"), <<>>)>>),
    <<"goto", "out">>,
    <<"do", <<Emit(<<I(1)>>)>>>>,
    <<"label", "out">>, <<"empty">>>>

\* The targets of an assignment that it also assigns to.
Conflict == <<
    Ls(<<"i", "t">>, <<I(1), Tb(<<Pos(I(5)), Pos(I(6))>>)>>),
    Lo("u", Vr("t")),
    Am(<<Vr("i"), Ix(Vr("t"), Vr("i")), Vr("t")>>, <<I(2), I(7), I(0)>>),
    Emit(<<Vr("i"), Ix(Vr("u"), I(1)), Ix(Vr("u"), I(2)), Vr("t")>>),
    As("t", Vr("u")),
    Am(<<Ix(Vr("t"), Vr("i")), Vr("i")>>, <<I(8), I(1)>>),
    Am(<<Vr("t"), Dot(Vr("t"), "k")>>, <<Tb(<<>>), I(3)>>),
    Emit(<<Vr("i"), Ix(Vr("u"), I(1)), Ix(Vr("u"), I(2)), Dot(Vr("u"), "k"), Dot(Vr("t"), "k")>>),
    <<"localfn", "w", Fn(<<>>, <<Am(<<Dot(Vr("u"), "k"), Vr("u"), Vr("i")>>, <<I(4), Vr("i")>>)>>)>>,
    Lo("v", Vr("u")),
    Cl(Vr("w"), <<>>),
    Emit(<<Dot(Vr("v"), "k"), Vr("u"), Vr("i")>>),
    Am(<<Vr("i"), Vr("u")>>, <<Vr("u"), Vr("i")>>),
    Ls(<<"p", "q">>, <<I(1), I(2), Ap(Vr("emit"), <<I(0)>>)>>),
    Am(<<Vr("p"), Vr("q")>>, <<Vr("q"), Vr("p"), I(3)>>),
    Re(<<Vr("i"), Vr("u"), Vr("p"), Vr("q")>>)>>

Varargs == <<
    <<"localfn", "f", Fv(<<"a", "b">>, <<
        Ls(<<"x", "y">>, <<Va>>),
        Lo("t", Tb(<<Pos(Vr("a")), Pos(Va)>>)),
        Emit(<<Vr("b"), Un("#", Vr("t")), Va>>),
        Re(<<Vr("x"), Vr("y"), Va>>)>>)>>,
    <<"localfn", "g", Fv(<<"a">>, <<Re(<<Vr("a")>>)>>)>>,
    Emit(<<Ap(Vr("f"), <<I(1)>>)>>),
    Emit(<<Ap(Vr("f"), <<I(1), I(2), I(3)>>)>>),
    Emit(<<<<"paren", Ap(Vr("f"), <<I(1), I(2), I(3), I(4), I(5)>>)>>, Ap(Vr("g"), <<I(6), I(7)>>)>>),
    Ls(<<"p", "q", "r", "s">>, <<Ap(Vr("two"), <<I(1)>>), Ap(Vr("two"), <<I(2)>>)>>),
    Re(<<Vr("p"), Vr("q"), Vr("r"), Vr("s"), Va>>)>>

Methods == <<
    Lo("o", Tb(<<<<"named", "n", I(1)>>, <<"key", Op("..", St("m"), I(1)), I(5)>>, Pos(I(7)), Pos(I(8)), Pos(I(9)), Pos(I(10)), Pos(I(11)),
                Pos(Ap(Vr("two"), <<I(3)>>))>>)),
    <<"funcst", Dot(Vr("o"), "get"), TRUE, Fn(<<"d">>, <<Re(<<Op("+", Dot(Vr("self"), "n"), Vr("d"))>>)>>)>>,
    <<"funcst", Dot(Vr("o"), "make"), FALSE, Fn(<<"d">>, <<Re(<<Tb(<< <<"named", "n", Vr("d")>>, <<"named", "get", Dot(Vr("o"), "get")>>>>)>>)>>)>>,
    Emit(<<<<"mcall", Vr("o"), "get", <<I(2)>>>>, <<"mcall", Ap(Dot(Vr("o"), "make"), <<I(4)>>), "get", <<I(2)>>>>>>),
    Emit(<<Un("#", Vr("o")), Ix(Vr("o"), I(3)), Ix(Vr("o"), I(7)), Dot(Vr("o"), "m1")>>),
    <<"assign", <<Dot(Vr("o"), "n")>>, <<Ni>>>>,
    As("result", Dot(Vr("o"), "n")),
    Re(<<Vr("result"), Dot(Vr("self"), "id"), Ap(Vr("type"), <<Tb(<<>>)>>)>>)>>

\* Generic for with a generator written in Lua, one in C, and break.
Iterate == <<
    <<"localfn", "upto", Fn(<<"n">>, <<
        Re(<<Fn(<<"lim", "c">>, <<IfThen(Op("<", Vr("c"), Vr("lim")), <<Re(<<Op("+", Vr("c"), I(1)), Op("*", Vr("c"), Vr("n"))>>)>>)>>),
             I(3), I(0)>>)>>)>>,
    Lo("fs", Tb(<<>>)),
    <<"forin", <<"i", "x">>, <<Ap(Vr("upto"), <<I(5)>>)>>, <<
        <<"assign", <<Ix(Vr("fs"), Vr("i"))>>, <<Fn(<<>>, <<As("x", Op("+", Vr("x"), I(1))), Re(<<Vr("x")>>)>>)>>>>>>>>,
    Emit(<<Ap(Ix(Vr("fs"), I(1)), <<>>), Ap(Ix(Vr("fs"), I(3)), <<>>), Ap(Ix(Vr("fs"), I(3)), <<>>)>>),
    Lo("n", I(0)),
    <<"forin", <<"k">>, <<Vr("type"), I(1)>>, <<Inc("n"), Emit(<<Vr("k")>>), IfThen(Op("==", Vr("n"), I(2)), <<<<"break">>>>)>>>>,
    Re(<<Vr("n")>>)>>

Recursion == <<
    <<"localfn", "sum", Fn(<<"n", "acc">>, <<
        IfThen(Op("==", Vr("n"), I(0)), <<Re(<<Vr("acc")>>)>>),
        Re(<<Ap(Vr("sum"), <<Op("-", Vr("n"), I(1)), Op("+", Vr("acc"), Vr("n"))>>)>>)>>)>>,
    <<"localfn", "fact", Fn(<<"n">>, <<
        <<"if", << <<Op("<=", Vr("n"), I(1)), <<Re(<<I(1)>>)>>>>, <<Op("==", Vr("n"), I(9)), <<>>>> >>,
            <<Re(<<Op("*", Vr("n"), Ap(Vr("fact"), <<Op("-", Vr("n"), I(1))>>))>>)>>>>>>)>>,
    <<"localfn", "cap", Fn(<<"a">>, <<
        Lo("f", Fn(<<"k">>, <<Re(<<Op("+", Vr("a"), Vr("k"))>>)>>)),
        Re(<<Ap(Vr("f"), <<I(1)>>)>>)>>)>>,
    <<"localfn", "va", Fv(<<>>, <<Re(<<Ap(Vr("two"), <<Va>>)>>)>>)>>,
    <<"localfn", "tva", Fn(<<"x">>, <<Re(<<Ap(Vr("va"), <<Vr("x"), I(2)>>)>>)>>)>>,
    Emit(<<Ap(Vr("sum"), <<I(3), I(0)>>), Ap(Vr("fact"), <<I(3)>>), Ap(Vr("cap"), <<I(4)>>)>>),
    Re(<<Ap(Vr("tva"), <<I(8)>>)>>)>>

\* Upvalues through two levels of functions, and globals written by one of them.
Nested == <<
    Lo("a", I(1)),
    <<"localfn", "outer", Fn(<<"b">>, <<
        <<"localfn", "mid", Fn(<<>>, <<
            <<"localfn", "inner", Fn(<<>>, <<As("a", Op("+", Vr("a"), Vr("b"))), As("g", Vr("a")), Re(<<Vr("a")>>)>>)>>,
            Re(<<Vr("inner")>>)>>)>>,
        Re(<<Ap(Vr("mid"), <<>>), Vr("mid")>>)>>)>>,
    Ls(<<"f", "m">>, <<Ap(Vr("outer"), <<I(3)>>)>>),
    Cl(Vr("f"), <<>>),
    Cl(Ap(Vr("m"), <<>>), <<>>),
    Emit(<<Vr("a"), Vr("g"), Op("..", I(1), Op("..", St("x"), Vr("a")))>>),
    Re(<<Un("not", Vr("h")), Un("-", Vr("a")), Un("#", St("ab"))>>)>>

\* Numeric for with a step, an empty range, and a captured loop variable.
Counting == <<
    Lo("fs", Tb(<<>>)),
    <<"fornum", "i", <<I(5), I(1), Un("-", I(2))>>, <<<<"assign", <<Ix(Vr("fs"), Vr("i"))>>, <<Fn(<<>>, <<Re(<<Vr("i")>>)>>)>>>>>>>>,
    <<"fornum", "i", <<I(2), I(1)>>, <<Emit(<<Vr("i")>>)>>>>,
    <<"fornum", "i", <<I(1), I(3)>>, <<
        <<"if", << <<Op("==", Vr("i"), I(1)), <<Emit(<<St("one")>>)>>>>,
                   <<Op(">", Vr("i"), I(2)), <<<<"break">>>>>> >>, <<Emit(<<Vr("i")>>)>>>>>>>>,
    Re(<<Ap(Ix(Vr("fs"), I(5)), <<>>), Ap(Ix(Vr("fs"), I(1)), <<>>), Op("//", Un("-", I(7)), I(2)), Op("%", Un("-", I(7)), I(3))>>)>>

\* Runs that end in an error, and chunks the compiler rejects.
Failing == [
    indexnil |-> <<Emit(<<I(1)>>), Re(<<Dot(Vr("g"), "x")>>)>>,
    callnil |-> <<Lo("f", I(1)), Cl(Vr("f"), <<>>)>>,
    arith |-> <<Lo("f", St("x")), Re(<<Op("+", Vr("f"), I(1))>>)>>,
    zero |-> <<Re(<<Op("//", I(1), I(0))>>)>>,
    cmp |-> <<Re(<<Op("<", Ni, I(0))>>)>>,
    cat |-> <<Re(<<Op("..", Tr, I(0))>>)>>,
    len |-> <<Re(<<Un("#", I(3))>>)>>,
    forstr |-> <<For("i", I(1), St("x"), <<>>)>>,
    contract |-> <<<<"assign", <<Dot(Vr("self"), "id")>>, <<I(1)>>>>>>,
    nilkey |-> <<Lo("t", Tb(<<>>)), <<"assign", <<Ix(Vr("t"), Ni)>>, <<I(1)>>>>>>,
    cerror |-> <<<<"localfn", "f", Fn(<<>>, <<Cl(Vr("error"), <<>>)>>)>>, Cl(Vr("f"), <<>>), Emit(<<I(1)>>)>>,
    generror |-> <<<<"forin", <<"x">>, <<Vr("error")>>, <<>>>>>>,
    method |-> <<<<"callst", <<"mcall", Vr("g"), "m", <<>>>>>>>>,
    rawargs |-> <<Cl(Vr("rawset"), <<Tb(<<>>), I(1)>>)>>,
    rawkey |-> <<Cl(Vr("rawset"), <<Tb(<<>>), Ni, I(1)>>)>>,
    rawtable |-> <<Cl(Vr("rawset"), <<I(1), I(1), I(1)>>)>>]

Rejected == [
    scope |-> <<<<"goto", "l">>, Lo("a", I(1)), <<"label", "l">>, Emit(<<Vr("a")>>)>>,
    nolabel |-> <<<<"goto", "l">>>>,
    twice |-> <<<<"label", "l">>, <<"label", "l">>>>,
    breaks |-> <<<<"break">>>>,
    dots |-> <<Lo("f", Fn(<<>>, <<Re(<<Va>>)>>))>>,
    notcall |-> <<<<"callst", Vr("x")>>>>,
    assigncall |-> <<Am(<<Ap(Vr("two"), <<>>)>>, <<I(1)>>)>>,
    afterret |-> <<Re(<<I(1)>>), Emit(<<I(1)>>)>>]

\* Run under the debugger: a function called in a loop, and a tail call.
Stepped == <<
    Lo("n", I(0)),
    <<"localfn", "add", Fn(<<"d">>, <<
        As("n", Op("+", Vr("n"), Vr("d"))),
        Re(<<Vr("n")>>)>>)>>,
    <<"fornum", "i", <<I(1), I(2)>>, <<
        Cl(Vr("add"), <<Vr("i")>>),
        Emit(<<Vr("n")>>)>>>>,
    <<"localfn", "twice", Fn(<<"d">>, <<Re(<<Ap(Vr("add"), <<Vr("d")>>)>>)>>)>>,
    Lo("m", Ap(Vr("twice"), <<I(1)>>)),
    Emit(<<Vr("m")>>),
    Re(<<Vr("m"), Vr("n")>>)>>

\* Globals set past the name that the check looks for: a field of a local that
\* holds the environment, the same as an upvalue, and by rawset.
Alias == Lo("e", Vr("_ENV"))
Aliased == <<Emit(<<Vr("two")>>), Alias, <<"assign", <<Dot(Vr("e"), "two")>>, <<I(5)>>>>, Re(<<Vr("two")>>)>>
AliasedAbove == <<
    Alias,
    <<"localfn", "set", Fn(<<>>, <<<<"assign", <<Dot(Vr("e"), "type")>>, <<I(6)>>>>>>)>>,
    Cl(Vr("set"), <<>>),
    Re(<<Vr("type")>>)>>
RawSet == <<
    Alias,
    Lo("t", Tb(<<>>)),
    Emit(<<Ap(Vr("rawset"), <<Vr("t"), I(1), I(8)>>), Ix(Vr("t"), I(1))>>),
    Cl(Vr("rawset"), <<Vr("e"), St("two"), I(5)>>),
    Re(<<Vr("two")>>)>>

\* A global that may be read is assigned, at once and in a nested function.
Overwriting == <<
    As("two", I(5)),
    <<"localfn", "set", Fn(<<>>, <<As("type", I(6))>>)>>,
    Cl(Vr("set"), <<>>),
    Re(<<Vr("two"), Vr("type")>>)>>

Samples == [
    overwriting |-> Overwriting, aliased |-> Aliased, above |-> AliasedAbove, rawset |-> RawSet,
    closures |-> Closures, shared |-> Shared, continue |-> Continue, until |-> Until,
    backward |-> Backward, conflict |-> Conflict, varargs |-> Varargs, methods |-> Methods,
    iterate |-> Iterate, recursion |-> Recursion, nested |-> Nested, counting |-> Counting]

Spinning == <<<<"while", Tr, <<>>>>>>

\* Every condition made of a few operands: its value, and where an if goes.
Locals == {Vr("a"), Vr("b")}
Operands == Locals \cup {Ni, I(1)}
Simple == Operands \cup {Un("not", x) : x \in Locals}
          \cup {Op("and", x, y) : x \in Locals, y \in Operands} \cup {Op("==", Vr("a"), y) : y \in Operands}
          \cup {Op("or", Vr("a"), y) : y \in Operands}
Conditions == {Op(op, l, r) : op \in {"and", "or"}, l \in Simple, r \in Simple}
              \cup {Un("not", x) : x \in Simple}
Judge(c) == <<
    Ls(<<"a", "b", "r">>, <<Fa, I(2)>>),
    As("r", c),
    IfElse(c, <<Emit(<<Vr("r")>>)>>, <<Emit(<<St("no"), Vr("r")>>)>>),
    Re(<<c>>)>>

\* Every loop over bodies of two of these steps: leaving the loop, the round or
\* the chunk, from a scope with a captured local or without.
Leave(st) == IfThen(Op("==", Vr("i"), I(2)), <<st>>)
Counter(x) == As("f", Fn(<<>>, <<Inc(x), Re(<<Vr(x)>>)>>))
Steps == <<
    Leave(<<"break">>), Leave(<<"goto", "continue">>), Leave(Re(<<Vr("f"), Vr("c")>>)), Counter("c"),
    <<"do", <<Lo("d", Vr("c")), Counter("d"), Leave(<<"break">>)>>>>,
    <<"do", <<Lo("d", Vr("c")), Leave(<<"goto", "continue">>), Counter("d")>>>>>>
Body2(j, k) == <<Lo("c", Op("*", Vr("i"), I(10))), Steps[j], Emit(<<Vr("i")>>), Steps[k], <<"label", "continue">>>>
Loops(body) == <<
    <<"while", Op("<", Vr("i"), I(3)), <<Inc("i")>> \o body>>,
    <<"repeat", <<Inc("i")>> \o body, Op(">=", Vr("i"), I(3))>>,
    For("i", I(1), I(3), body),
    <<"forin", <<"i">>, <<Fn(<<"n", "k">>, <<IfThen(Op("<", Vr("k"), Vr("n")), <<Re(<<Op("+", Vr("k"), I(1))>>)>>)>>), I(3), I(0)>>, body>> >>
Looping(l, j, k) == <<
    Ls(<<"i", "f">>, <<I(0)>>),
    Loops(Body2(j, k))[l],
    Emit(<<Vr("i"), Op("and", Vr("f"), Ap(Vr("f"), <<>>)), Op("and", Vr("f"), Ap(Vr("f"), <<>>))>>)>>

Programs ==
    {<<<<"loop", x>>, Looping(x[1], x[2], x[3]), "runs">> : x \in (1..4) \X (1..6) \X (2..5)} \cup
    {<<<<"sample", n>>, Samples[n], "runs">> : n \in DOMAIN Samples} \cup
    {<<<<"failing", n>>, Failing[n], "runs">> : n \in DOMAIN Failing} \cup
    {<<<<"rejected", n>>, Rejected[n], "rejected">> : n \in DOMAIN Rejected} \cup
    {<<<<"judge", e>>, Judge(e), "runs">> : e \in Conditions} \cup
    {<<<<"spinning", 1>>, Spinning, "spins">>, <<<<"debugged", 1>>, Stepped, "runs">>}
MCChunks == LET named(p) == <<p[1], Chunk(p[2], p[3], p[1][1] # "judge")>> IN {named(p) : p \in Programs}
MCDebugged == {<<"debugged", 1>>}
MCWhitelist == {"emit", "two", "type", "error", "rawset", "self"}
MCCutSizes == {1, 3, 20}
MCBreakLines == {{3}, {3, 7}, {11}}

-----------------------------------------------------------------------------
(* Properties.                                                                *)

\* A chunk the language rejects does not compile, any other does; and when its
\* run ends it has emitted, returned and failed as the language says.
Agrees ==
    LET c == chunk[2]
    IN  /\ (c.err # "") = (c.kind = "rejected")
        /\ vm.status # "run" /\ c.kind = "runs" =>
              [out |-> Ref!Trace(vm.out), err |-> vm.status = "error", result |-> Ref!Shapes(vm.result)]
                = c.expected[engine]
        /\ c.kind = "spins" => vm.status = "run" \/ vm.err = "over instructions limit"

\* What was dumped loads as what was compiled, with either reader, and a dump
\* that lacks its end is truncated for the reader of a buffer.
DumpLoads == chunk[2].same /\ chunk[2].cut \subseteq {"truncated"}

\* No opcode of a contract changes a global, apart from last_return and by a call
\* of rawset: the check of its code refuses _ENV by that name and lets a write
\* through another name pass, and the interpreter raises at that one.
OwnGlobals == LET t == vm.tabs[GlobalTable] IN [n \in DOMAIN t \ {StrV("last_return")} |-> t[n]]
CallsRawSet == Inst.op \in {"CALL", "TAILCALL", "TFORCALL"} /\ R(vm, Inst.a) = <<"cfn", "rawset">>

\* Frames and the code they run fit together: each frame's function lies in the
\* registers of the frame below, the instruction to run exists and writes a
\* register the frame has, and an open upvalue names a register of a frame in
\* use, no two of them the same one.
FrameSafe ==
    LET open == {u \in DOMAIN vm.ups : vm.ups[u].open}
        proto(c) == ProtoAt(main, vm.cls[vm.stack[c.func + 1][2]].path)
    IN  vm.status = "run" =>
        /\ vm.top <= Len(vm.stack)
        /\ \A n \in DOMAIN vm.ci :
              LET c == vm.ci[n]
              IN  /\ c.func < c.base /\ c.top <= Len(vm.stack) /\ c.top = c.base + proto(c).maxstack
                  /\ c.pc < Len(proto(c).code)
                  /\ LET i == proto(c).code[c.pc + 1]
                     IN  i.op \notin {"SETTABUP", "EQ", "LT", "LE", "JMP"} => i.a < proto(c).maxstack
                  /\ n > 1 => c.func \in vm.ci[n - 1].base..(vm.ci[n - 1].top - 1)
        /\ \A u \in open :
              /\ \E n \in DOMAIN vm.ci : vm.ups[u].slot \in vm.ci[n].base..(vm.ci[n].top - 1)
              /\ \A w \in open \ {u} : vm.ups[w].slot # vm.ups[u].slot
=============================================================================
