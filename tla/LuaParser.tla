------------------------------ MODULE LuaParser ------------------------------
(* The parser of the contract compiler, src/src/uvm/lparser.cpp: recursive    *)
(* descent over the tokens of a chunk that calls the code generator as it     *)
(* goes, so scopes, upvalues, pending gotos and registers are settled in one  *)
(* pass.  A token is [tk, v, line]; the parser's state p is the tokens left,  *)
(* the FuncState being filled (its enclosing one in "prev") and the           *)
(* descriptor of the expression just parsed.  An error is remembered in the   *)
(* FuncState and ends the input.                                              *)
(* Left out: floats, the bitwise operators, debug information, and the limits *)
(* on nesting, locals and upvalues.                                           *)
EXTENDS LuaCode

EOS == [tk |-> "EOS", v |-> "", line |-> 0]

Tok(p)  == Head(p.ts).tk
Val(p)  == Head(p.ts).v
Line(p) == Head(p.ts).line

Advance(p) == [p EXCEPT !.fs.line = Line(p), !.ts = IF Len(@) > 1 THEN Tail(@) ELSE @]
SyntaxFail(p, why) == [p EXCEPT !.fs = Error(@, why), !.ts = <<EOS>>]
CheckNext(p, tk) == IF Tok(p) = tk THEN Advance(p) ELSE SyntaxFail(p, "expected")
On(p, x) == [p EXCEPT !.fs = x.fs, !.e = x.e]
With(p, fs) == [p EXCEPT !.fs = fs]
HasMultRet(e) == e.k \in {"VCALL", "VVARARG"}

CodeString(fs, s) == LET a == AddK(fs, <<"str", s>>) IN X(a.fs, Exp("VK", a.k))

-----------------------------------------------------------------------------
(* Variables.                                                                 *)

NewLocal(fs, name) == [fs EXCEPT !.decl = Append(@, name), !.locs = Append(@, name)]

\* A declared local may carry a type, which is parsed and not checked.
NewLocalVar(p) ==
    LET q == With(Advance(p), NewLocal(Advance(p).fs, Val(p)))
    IN  IF Tok(q) = ":" THEN Advance(Advance(q)) ELSE q

AdjustLocalVars(fs, n) ==
    [fs EXCEPT !.act = @ \o SubSeq(fs.decl, 1, n), !.decl = SubSeq(@, n + 1, Len(@))]

MarkUpval(fs, level) ==
    LET b == CHOOSE i \in DOMAIN fs.bl : /\ fs.bl[i].nactvar <= level
                                         /\ \A j \in DOMAIN fs.bl : j > i => fs.bl[j].nactvar > level
    IN  [fs EXCEPT !.bl[b].upval = TRUE]

\* Where a name lives; a local of an enclosing function becomes an upvalue of
\* every function in between.
RECURSIVE SingleVarAux(_, _, _)
SingleVarAux(fs, name, base) ==
    LET locals == {i \in DOMAIN fs.act : fs.act[i] = name}
        v      == (CHOOSE i \in locals : \A j \in locals : j <= i) - 1
        ups    == {i \in DOMAIN fs.up : fs.up[i].name = name}
        outer  == SingleVarAux(fs.prev[1], name, FALSE)
        new    == [name |-> name, instack |-> outer.k = "VLOCAL", idx |-> outer.info]
        found(g, k, i) == [fs |-> g, k |-> k, info |-> i]
    IN  IF locals # {} THEN found(IF base THEN fs ELSE MarkUpval(fs, v), "VLOCAL", v)
        ELSE IF ups # {} THEN found(fs, "VUPVAL", (CHOOSE i \in ups : \A j \in ups : i <= j) - 1)
        ELSE IF fs.prev = <<>> \/ outer.k = "VVOID" THEN found(fs, "VVOID", 0)
        ELSE found([fs EXCEPT !.prev = <<outer.fs>>, !.up = Append(@, new)], "VUPVAL", Len(fs.up))

\* A name that is no local and no upvalue is a field of _ENV.
SingleVar(p) ==
    LET q   == Advance(p)
        var == SingleVarAux(q.fs, Val(p), TRUE)
        env == SingleVarAux(q.fs, "_ENV", TRUE)
        key == CodeString(env.fs, Val(p))
    IN  IF var.k = "VVOID" THEN On(q, Indexed(X(key.fs, Exp(env.k, env.info)), key.e))
        ELSE On(q, X(var.fs, Exp(var.k, var.info)))

AdjustAssign(fs, nvars, nexps, e) ==
    LET extra == nvars - nexps
        more  == Greater(extra + 1, 0)
        multi == SetReturns(fs, e, more)
        last  == IF e.k = "VVOID" THEN fs ELSE Exp2NextReg(X(fs, e)).fs
    IN  IF HasMultRet(e) THEN (IF more > 1 THEN ReserveRegs(multi, more - 1) ELSE multi)
        ELSE IF extra > 0 THEN CodeNil(ReserveRegs(last, extra), last.free, extra)
        ELSE last

-----------------------------------------------------------------------------
(* Blocks, labels and gotos.                                                  *)

Block(fs) == Last(fs.bl)

CloseGoto(fs, g, label) ==
    LET gt == fs.gotos[g]
        h  == IF gt.nactvar < label.nactvar THEN Error(fs, "jumps into the scope of local") ELSE fs
    IN  [PatchList(h, gt.pc, label.pc) EXCEPT !.gotos = RemoveAt(@, g)]

\* Labels of the current block that solve a goto: a backward jump.
LabelsFor(fs, g) ==
    {i \in (Block(fs).firstlabel + 1)..Len(fs.labels) : fs.labels[i].name = fs.gotos[g].name}

FindLabel(fs, g) ==
    LET gt == fs.gotos[g]
        lb == fs.labels[CHOOSE i \in LabelsFor(fs, g) : \A j \in LabelsFor(fs, g) : i <= j]
    IN  IF LabelsFor(fs, g) = {} THEN fs
        ELSE CloseGoto(IF gt.nactvar > lb.nactvar THEN PatchClose(fs, gt.pc, lb.nactvar) ELSE fs, g, lb)

Entry(fs, name, line, pc) == [name |-> name, line |-> line, nactvar |-> Len(fs.act), pc |-> pc]

\* Pending gotos of the block that a new label solves: forward jumps.
RECURSIVE FindGotos(_, _, _)
FindGotos(fs, label, i) ==
    IF i > Len(fs.gotos) THEN fs
    ELSE IF fs.gotos[i].name = label.name THEN FindGotos(CloseGoto(fs, i, label), label, i)
    ELSE FindGotos(fs, label, i + 1)

\* Gotos that leave a block take part in the enclosing one; the ones that leave
\* the scope of a captured local close it.
RECURSIVE MoveGotosOut(_, _, _)
MoveGotosOut(fs, bl, i) ==
    LET gt  == fs.gotos[i]
        cl  == IF bl.upval THEN PatchClose(fs, gt.pc, bl.nactvar) ELSE fs
        out == IF gt.nactvar > bl.nactvar THEN [cl EXCEPT !.gotos[i].nactvar = bl.nactvar] ELSE fs
    IN  IF i > Len(fs.gotos) THEN fs
        ELSE IF LabelsFor(out, i) # {} THEN MoveGotosOut(FindLabel(out, i), bl, i)
        ELSE MoveGotosOut(out, bl, i + 1)

EnterBlock(fs, isloop) ==
    [fs EXCEPT !.bl = Append(@, [isloop |-> isloop, nactvar |-> Len(fs.act), upval |-> FALSE,
                                 firstlabel |-> Len(fs.labels), firstgoto |-> Len(fs.gotos)])]

BreakLabel(fs) ==
    LET l == Entry(fs, "break", 0, PC(fs))
    IN  FindGotos([fs EXCEPT !.labels = Append(@, l)], l, Block(fs).firstgoto + 1)

LeaveBlock(fs) ==
    LET bl    == Block(fs)
        inner == Len(fs.bl) > 1
        j     == PatchClose(Jump(fs), PC(fs), bl.nactvar)
        fs1   == IF inner /\ bl.upval THEN PatchToHere(j, PC(fs)) ELSE fs
        fs2   == IF bl.isloop THEN BreakLabel(fs1) ELSE fs1
        fs3   == [fs2 EXCEPT !.bl = Front(@), !.act = SubSeq(@, 1, bl.nactvar), !.free = bl.nactvar,
                             !.labels = SubSeq(@, 1, bl.firstlabel)]
    IN  IF inner THEN MoveGotosOut(fs3, bl, bl.firstgoto + 1)
        ELSE IF bl.firstgoto < Len(fs3.gotos) THEN Error(fs3, "no visible label")
        ELSE fs3

-----------------------------------------------------------------------------
(* Functions.                                                                 *)

OpenFunc(prev, line, err) ==
    EnterBlock([code |-> <<>>, jpc |-> NoJump, lasttarget |-> 0, free |-> 0, maxstack |-> 2,
                k |-> <<>>, p |-> <<>>, up |-> <<>>, act |-> <<>>, decl |-> <<>>, locs |-> <<>>, bl |-> <<>>,
                labels |-> <<>>, gotos |-> <<>>, numparams |-> 0, isvararg |-> 0,
                line |-> line, err |-> err, prev |-> prev], FALSE)

CloseFunc(fs) == LeaveBlock(CodeReturn(fs, 0, 0))

Proto(fs) == [code |-> fs.code, k |-> fs.k, p |-> fs.p, up |-> fs.up, locs |-> fs.locs,
              numparams |-> fs.numparams, isvararg |-> fs.isvararg, maxstack |-> fs.maxstack]

\* isvararg is 2 in a function that takes "..." and 1 in one that also uses it.
\* The closed function in its parent, which gets a CLOSURE instruction.
CodeClosure(fs) ==
    LET closed == CloseFunc(fs)
        outer  == [closed.prev[1] EXCEPT !.p = Append(@, Proto(closed)), !.line = fs.line, !.err = closed.err]
        np     == Len(outer.p)
    IN  Exp2NextReg(X(Code(outer, "CLOSURE", 0, np - 1, 0), Exp("VRELOCABLE", PC(outer))))

RECURSIVE SubExpr(_, _), Statement(_), StatList(_), SuffixedExp(_), Body(_, _), ParList(_, _)

Expr(p) == SubExpr(p, 0)

ParList(p, n) ==
    CASE Tok(p) = "NAME" ->
            LET q == NewLocalVar(p) IN IF Tok(q) = "," THEN ParList(Advance(q), n + 1) ELSE <<q, n + 1>>
      [] Tok(p) = "..." -> <<With(Advance(p), [Advance(p).fs EXCEPT !.isvararg = 2]), n>>
      [] OTHER -> <<p, n>>

\* body: the function's own FuncState while its statements are parsed.
Body(p, ismethod) ==
    LET new  == OpenFunc(<<p.fs>>, p.fs.line, p.fs.err)
        self == IF ismethod THEN AdjustLocalVars(NewLocal(new, "self"), 1) ELSE new
        par  == ParList(With(CheckNext(p, "("), self), 0)
        act  == AdjustLocalVars(par[1].fs, par[2])
        n    == Len(act.act)
        q    == With(par[1], ReserveRegs([act EXCEPT !.numparams = n], n))
        r    == CheckNext(StatList(CheckNext(q, ")")), "end")
    IN  On(r, CodeClosure(r.fs))

-----------------------------------------------------------------------------
(* Expressions.                                                               *)

FieldSel(p) ==
    LET q   == Advance(On(p, Exp2AnyRegUp(p)))
        key == CodeString(Advance(q).fs, Val(q))
    IN  On(Advance(q), Indexed(X(key.fs, q.e), key.e))

YIndex(p) == LET q == Expr(Advance(p)) IN CheckNext(On(q, Exp2Val(q)), "]")

\* Constructors: cc holds the table, the last list item and the counts.
RecField(p, cc) ==
    LET named == On(Advance(p), CodeString(Advance(p).fs, Val(p)))
        key   == IF Tok(p) = "NAME" THEN named ELSE YIndex(p)
        rk    == Exp2RK(CheckNext(key, "="))
        val   == Expr(With(CheckNext(key, "="), rk.fs))
        rv    == Exp2RK(val)
    IN  [p  |-> With(val, [Code(rv.fs, "SETTABLE", cc.t, rk.rk, rv.rk) EXCEPT !.free = p.fs.free]),
         cc |-> [cc EXCEPT !.nh = @ + 1]]

CloseListField(p, cc) ==
    LET g == Exp2NextReg(X(p.fs, cc.v)).fs
        full == cc.tostore = FieldsPerFlush
    IN  IF cc.v.k = "VVOID" THEN [p |-> p, cc |-> cc]
        ELSE [p  |-> With(p, IF full THEN SetList(g, cc.t, cc.na, cc.tostore) ELSE g),
              cc |-> [cc EXCEPT !.v.k = "VVOID", !.tostore = IF full THEN 0 ELSE @]]

LastListField(fs, cc) ==
    LET g == IF cc.v.k = "VVOID" THEN fs ELSE Exp2NextReg(X(fs, cc.v)).fs
    IN  IF cc.tostore = 0 THEN fs
        ELSE IF HasMultRet(cc.v)
             THEN SetList(SetReturns(fs, cc.v, MultRet), cc.t, cc.na, MultRet)
             ELSE SetList(g, cc.t, cc.na, cc.tostore)

ListField(p, cc) ==
    LET q == Expr(p)
    IN  [p |-> q, cc |-> [cc EXCEPT !.v = q.e, !.na = @ + 1, !.tostore = @ + 1]]

RECURSIVE Fields(_, _)
Fields(p, cc) ==
    LET c   == CloseListField(p, cc)
        rec == Tok(p) = "[" \/ (Tok(p) = "NAME" /\ p.ts[2].tk = "=")
        f   == IF rec THEN RecField(c.p, c.cc) ELSE ListField(c.p, c.cc)
    IN  IF Tok(p) = "}" THEN [p |-> p, cc |-> cc]
        ELSE IF Tok(f.p) \in {",", ";"} THEN Fields(Advance(f.p), f.cc) ELSE f

Constructor(p) ==
    LET t  == Exp2NextReg(X(Code(p.fs, "NEWTABLE", 0, 0, 0), Exp("VRELOCABLE", PC(p.fs))))
        c  == Fields(CheckNext(On(p, t), "{"),
                     [t |-> t.e.info, v |-> Exp("VVOID", 0), na |-> 0, nh |-> 0, tostore |-> 0])
        q  == CheckNext(c.p, "}")
    IN  On(q, X(LastListField(q.fs, c.cc), t.e))

\* <<state, number of expressions>>; all but the last are in registers.
RECURSIVE ExpListFrom(_, _)
ExpListFrom(p, n) ==
    IF Tok(p) = "," THEN ExpListFrom(Expr(Advance(On(p, Exp2NextReg(p)))), n + 1) ELSE <<p, n>>
ExpList(p) == ExpListFrom(Expr(p), 1)

\* The arguments of a call of the function in p.e.
FuncArgs(p, line) ==
    LET f    == p.e
        q    == Advance(p)
        list == ExpList(q)[1]
        open == With(list, SetReturns(list.fs, list.e, MultRet))
        args == CASE Tok(p) = "STRING" -> On(q, CodeString(q.fs, Val(p)))
                  [] Tok(p) = "{" -> Constructor(p)
                  [] OTHER -> CheckNext(IF Tok(q) = ")" THEN [q EXCEPT !.e = Exp("VVOID", 0)]
                                        ELSE open, ")")
        multi == HasMultRet(args.e)
        g    == IF multi \/ args.e.k = "VVOID" THEN args.fs ELSE Exp2NextReg(args).fs
        n    == IF multi THEN MultRet ELSE g.free - (f.info + 1)
        call == FixLine(Code(g, "CALL", f.info, n + 1, 2), line)
    IN  On(args, X([call EXCEPT !.free = f.info + 1], Exp("VCALL", PC(g))))

PrimaryExp(p) ==
    LET q == CheckNext(Expr(Advance(p)), ")")
    IN  CASE Tok(p) = "(" -> On(q, DischargeVars(q))
          [] Tok(p) = "NAME" -> SingleVar(p)
          [] OTHER -> SyntaxFail(p, "unexpected symbol")

RECURSIVE SuffixOps(_, _)
SuffixOps(p, line) ==
    LET up  == On(p, Exp2AnyRegUp(p))
        key == YIndex(up)
        q   == Advance(p)
        mk  == CodeString(Advance(q).fs, Val(q))
    IN  CASE Tok(p) = "." -> SuffixOps(FieldSel(p), line)
          [] Tok(p) = "[" -> SuffixOps(On(key, Indexed(X(key.fs, up.e), key.e)), line)
          [] Tok(p) = ":" -> SuffixOps(FuncArgs(On(Advance(q), Self(X(mk.fs, p.e), mk.e)), line), line)
          [] Tok(p) \in {"(", "STRING", "{"} ->
                SuffixOps(FuncArgs(On(p, Exp2NextReg(p)), line), line)
          [] OTHER -> p

SuffixedExp(p) == SuffixOps(PrimaryExp(p), Line(p))

SimpleExp(p) ==
    LET q == Advance(p)
        is(k, i) == [q EXCEPT !.e = Exp(k, i)]
        va == X([Code(p.fs, "VARARG", 0, 1, 0) EXCEPT !.isvararg = 1], Exp("VVARARG", PC(p.fs)))
    IN  CASE Tok(p) = "INT"      -> is("VKINT", Val(p))
          [] Tok(p) = "STRING"   -> Advance(On(p, CodeString(p.fs, Val(p))))
          [] Tok(p) = "nil"      -> is("VNIL", 0)
          [] Tok(p) = "true"     -> is("VTRUE", 0)
          [] Tok(p) = "false"    -> is("VFALSE", 0)
          [] Tok(p) = "..."      -> IF p.fs.isvararg # 0 THEN Advance(On(p, va))
                                    ELSE SyntaxFail(p, "cannot use '...' outside a vararg function")
          [] Tok(p) = "{"        -> Constructor(p)
          [] Tok(p) = "function" -> Body(q, FALSE)
          [] OTHER               -> SuffixedExp(p)

UnOpr == [not |-> "not"] @@ ("-" :> "UNM") @@ ("#" :> "LEN")
\* <<operator, left priority, right priority>>
BinOpr == ("+" :> <<"ADD", 10, 10>>) @@ ("-" :> <<"SUB", 10, 10>>) @@ ("*" :> <<"MUL", 11, 11>>)
       @@ ("%" :> <<"MOD", 11, 11>>) @@ ("//" :> <<"IDIV", 11, 11>>) @@ (".." :> <<"CONCAT", 9, 8>>)
       @@ ("==" :> <<"eq", 3, 3>>) @@ ("~=" :> <<"ne", 3, 3>>) @@ ("<" :> <<"lt", 3, 3>>)
       @@ ("<=" :> <<"le", 3, 3>>) @@ (">" :> <<"gt", 3, 3>>) @@ (">=" :> <<"ge", 3, 3>>)
       @@ ("and" :> <<"and", 2, 2>>) @@ ("or" :> <<"or", 1, 1>>)
UnaryPriority == 12

\* Operators that bind tighter than the limit, applied to the operand in p.e.
RECURSIVE Operators(_, _)
Operators(p, limit) ==
    LET op    == BinOpr[Tok(p)]
        left  == On(Advance(p), Infix(op[1], Advance(p)))
        right == SubExpr(left, op[3])
    IN  IF Tok(p) \in DOMAIN BinOpr /\ op[2] > limit
        THEN Operators(On(right, Posfix(op[1], right.fs, left.e, right.e, Line(p))), limit)
        ELSE p

SubExpr(p, limit) ==
    LET operand == SubExpr(Advance(p), UnaryPriority)
        unary   == On(operand, Prefix(UnOpr[Tok(p)], operand, Line(p)))
    IN  Operators(IF Tok(p) \in DOMAIN UnOpr THEN unary ELSE SimpleExp(p), limit)

-----------------------------------------------------------------------------
(* Statements.                                                                *)

BlockFollow(p, withuntil) ==
    Tok(p) \in {"else", "elseif", "end", "EOS"} \/ (withuntil /\ Tok(p) = "until")

StatList(p) ==
    IF BlockFollow(p, TRUE) THEN p
    ELSE IF Tok(p) = "return" THEN Statement(p)
    ELSE StatList(Statement(p))

BlockStat(p) == LET q == StatList(With(p, EnterBlock(p.fs, FALSE))) IN With(q, LeaveBlock(q.fs))

\* Mutant of CheckConflict: the copy is never made.
CheckConflictNone(fs, lhs, v) == [fs |-> fs, lhs |-> lhs]

\* A local or upvalue that an earlier target indexes is copied before it is assigned.
CheckConflict(fs, lhs, v) ==
    LET base(l)  == l.k = "VINDEXED" /\ l.vt = v.k /\ l.info = v.info
        index(l) == l.k = "VINDEXED" /\ v.k = "VLOCAL" /\ l.idx = v.info
        safe(l)  == [l EXCEPT !.vt = IF base(l) THEN "VLOCAL" ELSE @,
                              !.info = IF base(l) THEN fs.free ELSE @,
                              !.idx = IF index(l) THEN fs.free ELSE @]
        move     == Code(fs, IF v.k = "VLOCAL" THEN "MOVE" ELSE "GETUPVAL", fs.free, v.info, 0)
        conflict == \E i \in DOMAIN lhs : base(lhs[i]) \/ index(lhs[i])
    IN  [fs |-> IF conflict THEN ReserveRegs(move, 1) ELSE fs, lhs |-> [i \in DOMAIN lhs |-> safe(lhs[i])]]

RECURSIVE Targets(_, _)
Targets(p, lhs) ==
    LET q == SuffixedExp(Advance(p))
        c == IF q.e.k = "VINDEXED" THEN [fs |-> q.fs, lhs |-> lhs] ELSE CheckConflict(q.fs, lhs, q.e)
    IN  IF Tok(p) = "," THEN Targets(With(q, c.fs), Append(c.lhs, q.e)) ELSE [p |-> p, lhs |-> lhs]

\* The last target takes the last value, the others the registers below it.
Assignment(p) ==
    LET t     == Targets(p, <<p.e>>)
        nvars == Len(t.lhs)
        list  == ExpList(CheckNext(t.p, "="))
        q     == list[1]
        n     == list[2]
        one   == SetOneRet(q)
        adj   == AdjustAssign(q.fs, nvars, n, q.e)
        some  == IF n > nvars THEN [adj EXCEPT !.free = @ - (n - nvars)] ELSE adj
        store(fs, var) == StoreVar(fs, var, Exp("VNONRELOC", fs.free - 1))
    IN  With(q, IF n = nvars
                THEN FoldLeft(store, StoreVar(one.fs, Last(t.lhs), one.e), Reverse(Front(t.lhs)))
                ELSE FoldLeft(store, some, Reverse(t.lhs)))

ExprStat(p) ==
    LET q == SuffixedExp(p)
    IN  CASE Tok(q) \in {"=", ","} ->
                IF q.e.k \in {"VLOCAL", "VUPVAL", "VINDEXED"} THEN Assignment(q) ELSE SyntaxFail(q, "syntax error")
          [] OTHER -> IF q.e.k = "VCALL" THEN With(q, SetArg(q.fs, q.e.info, [c |-> 1]))
                      ELSE SyntaxFail(q, "syntax error")

LocalFunc(p) ==
    LET q == NewLocalVar(p) IN Body(With(q, AdjustLocalVars(q.fs, 1)), FALSE)

RECURSIVE Names(_, _)
Names(p, n) ==
    LET q == NewLocalVar(p) IN IF Tok(q) = "," THEN Names(Advance(q), n + 1) ELSE <<q, n + 1>>

LocalStat(p) ==
    LET names == Names(p, 0)
        q     == names[1]
        list  == IF Tok(q) = "=" THEN ExpList(Advance(q)) ELSE <<[q EXCEPT !.e = Exp("VVOID", 0)], 0>>
        adj   == AdjustAssign(list[1].fs, names[2], list[2], list[1].e)
    IN  With(list[1], AdjustLocalVars(adj, names[2]))

RECURSIVE FieldSels(_)
FieldSels(p) == IF Tok(p) = "." THEN FieldSels(FieldSel(p)) ELSE p

FuncStat(p) ==
    LET name == FieldSels(SingleVar(Advance(p)))
        isM  == Tok(name) = ":"
        var  == IF isM THEN FieldSel(name) ELSE name
        b    == Body(var, isM)
    IN  With(b, FixLine(StoreVar(b.fs, var.e, b.e), Line(p)))

RetStat(p) ==
    LET none  == BlockFollow(p, TRUE) \/ Tok(p) = ";"
        list  == ExpList(p)
        q     == list[1]
        n     == list[2]
        nact  == Len(p.fs.act)
        open  == SetReturns(q.fs, q.e, MultRet)
        tail  == IF q.e.k = "VCALL" /\ n = 1 THEN SetArg(open, q.e.info, [op |-> "TAILCALL"]) ELSE open
        any   == Exp2AnyReg(q)
        r     == CASE none -> With(p, CodeReturn(p.fs, 0, 0))
                   [] ~none /\ HasMultRet(q.e) -> With(q, CodeReturn(tail, nact, MultRet))
                   [] ~none /\ ~HasMultRet(q.e) /\ n = 1 -> With(q, CodeReturn(any.fs, any.e.info, 1))
                   [] OTHER -> With(q, CodeReturn(Exp2NextReg(q).fs, nact, n))
    IN  IF Tok(r) = ";" THEN Advance(r) ELSE r

GotoStat(p, pc) ==
    LET isGoto == Tok(p) = "goto"
        q      == IF isGoto THEN Advance(Advance(p)) ELSE Advance(p)
        g      == Entry(q.fs, IF isGoto THEN Val(Advance(p)) ELSE "break", Line(p), pc)
        fs     == [q.fs EXCEPT !.gotos = Append(@, g)]
    IN  With(q, FindLabel(fs, Len(fs.gotos)))

RECURSIVE SkipNoop(_)
SkipNoop(p) == IF Tok(p) \in {";", "::"} THEN SkipNoop(Statement(p)) ELSE p

\* A label that ends its block is outside the scope of the block's locals.
LabelStat(p) ==
    LET q    == CheckNext(Advance(Advance(p)), "::")
        fs   == GetLabel(q.fs)
        name == Val(Advance(p))
        dup  == \E i \in (Block(fs).firstlabel + 1)..Len(fs.labels) : fs.labels[i].name = name
        l    == Len(fs.labels) + 1
        put  == [fs EXCEPT !.labels = Append(@, Entry(fs, name, Line(p), PC(fs)))]
        r    == SkipNoop(With(q, IF dup THEN Error(put, "label already defined") ELSE put))
        end  == IF BlockFollow(r, FALSE) THEN [r.fs EXCEPT !.labels[l].nactvar = Block(r.fs).nactvar]
                ELSE r.fs
    IN  With(r, FindGotos(end, end.labels[l], Block(end).firstgoto + 1))

\* The parsed condition; p.e.f lists the jumps taken when it is false.
Cond(p) ==
    LET q == Expr(p)
    IN  On(q, GoIfTrue([q EXCEPT !.e.k = IF @ = "VNIL" THEN "VFALSE" ELSE @]))

WhileStat(p) ==
    LET start == GetLabel(Advance(p).fs)
        c     == Cond(With(Advance(p), start))
        body  == BlockStat(CheckNext(With(c, EnterBlock(c.fs, TRUE)), "do"))
        back  == PatchList(Jump(body.fs), PC(body.fs), PC(start))
        q     == CheckNext(With(body, back), "end")
    IN  With(q, PatchToHere(LeaveBlock(q.fs), c.e.f))

RepeatStat(p) ==
    LET start == GetLabel(p.fs)
        body  == StatList(Advance(With(p, EnterBlock(EnterBlock(start, TRUE), FALSE))))
        c     == Cond(CheckNext(body, "until"))
        bl    == Block(c.fs)
        fs1   == LeaveBlock(IF bl.upval THEN PatchClose(c.fs, c.e.f, bl.nactvar) ELSE c.fs)
    IN  With(c, LeaveBlock(PatchList(fs1, c.e.f, PC(start))))

ForBody(p, base, line, nvars, isnum) ==
    LET q    == CheckNext(With(p, AdjustLocalVars(p.fs, 3)), "do")
        prep == PC(q.fs)
        fs1  == EnterBlock(IF isnum THEN Code(q.fs, "FORPREP", base, NoJump, 0) ELSE Jump(q.fs), FALSE)
        r    == BlockStat(With(q, ReserveRegs(AdjustLocalVars(fs1, nvars), nvars)))
        fs2  == PatchToHere(LeaveBlock(r.fs), prep)
        gen  == FixLine(Code(fs2, "TFORCALL", base, 0, nvars), line)
        fs3  == IF isnum THEN Code(fs2, "FORLOOP", base, NoJump, 0)
                ELSE Code(gen, "TFORLOOP", base + 2, NoJump, 0)
    IN  With(r, FixLine(PatchList(fs3, PC(fs3) - 1, prep + 1), line))

Exp1(p) == LET q == Expr(p) IN On(q, Exp2NextReg(q))

ForNum(p, name, line) ==
    LET decl  == FoldLeft(NewLocal, p.fs, <<"(for index)", "(for limit)", "(for step)", name>>)
        limit == Exp1(CheckNext(Exp1(CheckNext(With(p, decl), "=")), ","))
        one   == AddK(limit.fs, <<"int", 1>>)
        step  == IF Tok(limit) = "," THEN Exp1(Advance(limit))
                 ELSE With(limit, ReserveRegs(CodeK(one.fs, one.fs.free, one.k), 1))
    IN  ForBody(step, p.fs.free, line, 1, TRUE)

ForList(p, name) ==
    LET decl  == FoldLeft(NewLocal, p.fs, <<"(for generator)", "(for state)", "(for control)", name>>)
        names == IF Tok(p) = "," THEN Names(Advance(With(p, decl)), 1) ELSE <<With(p, decl), 1>>
        q     == CheckNext(names[1], "in")
        list  == ExpList(q)
        adj   == AdjustAssign(list[1].fs, 3, list[2], list[1].e)
    IN  ForBody(With(list[1], CheckStack(adj, 3)), p.fs.free, Line(q), names[2], FALSE)

ForStat(p) ==
    LET q == Advance(With(p, EnterBlock(p.fs, TRUE)))
        r == Advance(q)
        b == IF Tok(r) = "=" THEN ForNum(r, Val(q), Line(p)) ELSE ForList(r, Val(q))
        e == CheckNext(b, "end")
    IN  With(e, LeaveBlock(e.fs))

\* <<state, jumps to the end of the if>>.  A condition followed by a goto or
\* break jumps to its label by itself.
TestThenBlock(p, escape) ==
    LET v     == CheckNext(Expr(Advance(p)), "then")
        jumps == Tok(v) \in {"goto", "break"}
        c     == IF jumps THEN GoIfFalse(v) ELSE GoIfTrue(v)
        q     == On(v, [c EXCEPT !.fs = EnterBlock(@, FALSE)])
        g     == SkipNoop(GotoStat(q, c.e.t))
        only  == jumps /\ BlockFollow(g, FALSE)
        r     == StatList(IF jumps THEN With(g, Jump(g.fs)) ELSE q)
        jf    == IF jumps THEN PC(g.fs) ELSE c.e.f
        fs    == LeaveBlock(r.fs)
        more  == Tok(r) \in {"else", "elseif"}
        out   == Jump(fs)
        fs2   == IF more THEN Concat(out, escape, PC(out) - 1) ELSE fs
    IN  IF only THEN <<With(g, LeaveBlock(g.fs)), escape>>
        ELSE <<With(r, PatchToHere(fs2, jf)), IF more THEN ConcatHead(escape, PC(out) - 1) ELSE escape>>

RECURSIVE Branches(_, _)
Branches(p, escape) ==
    LET b == TestThenBlock(p, escape)
    IN  IF Tok(b[1]) = "elseif" THEN Branches(b[1], b[2]) ELSE b

IfStat(p) ==
    LET b == Branches(p, NoJump)
        q == CheckNext(IF Tok(b[1]) = "else" THEN BlockStat(Advance(b[1])) ELSE b[1], "end")
    IN  With(q, PatchToHere(q.fs, b[2]))

Statement(p) ==
    LET q == CASE Tok(p) = ";"        -> Advance(p)
               [] Tok(p) = "if"       -> IfStat(p)
               [] Tok(p) = "while"    -> WhileStat(p)
               [] Tok(p) = "do"       -> CheckNext(BlockStat(Advance(p)), "end")
               [] Tok(p) = "for"      -> ForStat(p)
               [] Tok(p) = "repeat"   -> RepeatStat(p)
               [] Tok(p) = "function" -> FuncStat(p)
               [] Tok(p) = "local"    -> IF Tok(Advance(p)) = "function" THEN LocalFunc(Advance(Advance(p)))
                                         ELSE LocalStat(Advance(p))
               [] Tok(p) = "::"       -> LabelStat(p)
               [] Tok(p) = "return"   -> RetStat(Advance(p))
               [] Tok(p) \in {"goto", "break"} -> GotoStat(With(p, Jump(p.fs)), PC(Jump(p.fs)) - 1)
               [] OTHER               -> ExprStat(p)
    IN  [q EXCEPT !.fs.free = Len(q.fs.act)]

\* mainfunc: a vararg function whose upvalue is the environment.
MainFunc(tokens) ==
    LET fs == [OpenFunc(<<>>, 1, "") EXCEPT !.isvararg = 2,
                   !.up = <<[name |-> "_ENV", instack |-> TRUE, idx |-> 0]>>]
        p  == StatList([ts |-> tokens, fs |-> fs, e |-> Exp("VVOID", 0)])
        end == IF Tok(p) = "EOS" THEN p.fs ELSE Error(p.fs, "<eof> expected")
    IN  CloseFunc(end)
=============================================================================
