------------------------------- MODULE LuaCode -------------------------------
(* The code generator of the contract compiler, src/src/uvm/lcode.cpp.  The   *)
(* parser drives it with expression descriptors; it emits instructions into   *)
(* the FuncState of the function being compiled, keeps jumps whose target is  *)
(* not known yet as lists threaded through the jump instructions, and delays  *)
(* the choice of an expression's register as long as it can.                  *)
(* A step of the C code that updates both the FuncState and a descriptor is   *)
(* an operator on a pair [fs, e].  Constants are integers, strings, booleans  *)
(* and nil; floats and the bitwise operators are left out.                    *)
EXTENDS Integers, Sequences, FiniteSets, SequencesExt

CONSTANTS
    MaxRegs,         \* MAXREGS
    MaxIndexRK,      \* the largest constant an operand can name
    FieldsPerFlush   \* LFIELDS_PER_FLUSH

ASSUME CodeLimits == MaxRegs \in 1..255 /\ MaxIndexRK \in -1..255 /\ FieldsPerFlush \in Nat \ {0}

NoJump  == -1
NoReg   == 255
MultRet == -1
BitRK   == 256
MaxArgSBx == 131071

IsK(rk)     == rk >= BitRK
IndexK(rk)  == rk - BitRK
RKAsK(k)    == k + BitRK
Abs(n)      == IF n < 0 THEN -n ELSE n
Greater(a, b) == IF a > b THEN a ELSE b
Smaller(a, b) == IF a < b THEN a ELSE b
TestsMode(op) == op \in {"EQ", "LT", "LE", "TEST", "TESTSET"}

IDiv(a, b)  == IF b > 0 THEN a \div b ELSE (-a) \div (-b)
IMod(a, b)  == a - b * IDiv(a, b)
Arith(op, a, b) ==
    CASE op = "ADD" -> a + b [] op = "SUB" -> a - b [] op = "MUL" -> a * b
      [] op = "IDIV" -> IDiv(a, b) [] op = "MOD" -> IMod(a, b) [] op = "UNM" -> -a

\* expdesc.  "info" is a register, a pc, a constant's index, an upvalue or the
\* integer itself, by kind; an indexed variable is t[idx].
Exp(k, info) == [k |-> k, info |-> info, t |-> NoJump, f |-> NoJump, idx |-> 0, vt |-> "VLOCAL"]
HasJumps(e)  == e.t # e.f

X(fs, e) == [fs |-> fs, e |-> e]
Set(x, k, info) == [x EXCEPT !.e.k = k, !.e.info = info]

Error(fs, why) == IF fs.err = "" THEN [fs EXCEPT !.err = why] ELSE fs

-----------------------------------------------------------------------------
(* Instructions and jump lists.                                               *)

PC(fs)     == Len(fs.code)
InstrAt(fs, pc) == fs.code[pc + 1]
SetArg(fs, pc, i) == [fs EXCEPT !.code[pc + 1] = i @@ @]

FixJump(fs, pc, dest) ==
    LET offset == dest - (pc + 1)
    IN  IF Abs(offset) > MaxArgSBx THEN Error(fs, "control structure too long")
        ELSE [fs EXCEPT !.code[pc + 1].b = offset]

GetLabel(fs) == [fs EXCEPT !.lasttarget = PC(fs)]

GetJump(fs, pc) == IF InstrAt(fs, pc).b = NoJump THEN NoJump ELSE pc + 1 + InstrAt(fs, pc).b

RECURSIVE JumpList(_, _)
JumpList(fs, list) == IF list = NoJump THEN <<>> ELSE <<list>> \o JumpList(fs, GetJump(fs, list))

\* The instruction that decides whether the jump at pc is taken.
JumpControl(fs, pc) == IF pc >= 1 /\ TestsMode(InstrAt(fs, pc - 1).op) THEN pc - 1 ELSE pc

NeedValue(fs, list) ==
    \E pc \in Range(JumpList(fs, list)) : InstrAt(fs, JumpControl(fs, pc)).op # "TESTSET"

Patches(fs, node) == InstrAt(fs, JumpControl(fs, node)).op = "TESTSET"

PatchTestReg(fs, node, reg) ==
    LET pc == JumpControl(fs, node)
        i  == InstrAt(fs, pc)
    IN  IF ~Patches(fs, node) THEN fs
        ELSE IF reg # NoReg /\ reg # i.b THEN [fs EXCEPT !.code[pc + 1].a = reg]
        ELSE [fs EXCEPT !.code[pc + 1] = [i EXCEPT !.op = "TEST", !.a = i.b, !.b = 0]]

RemoveValues(fs, list) ==
    FoldLeft(LAMBDA g, pc : PatchTestReg(g, pc, NoReg), fs, JumpList(fs, list))

\* Jumps that carry a value go to vtarget with the value in reg, the others to dtarget.
PatchListAux(fs, list, vtarget, reg, dtarget) ==
    FoldLeft(LAMBDA g, pc : FixJump(PatchTestReg(g, pc, reg), pc,
                                    IF Patches(g, pc) THEN vtarget ELSE dtarget),
             fs, JumpList(fs, list))

ConcatHead(l1, l2) == IF l1 = NoJump THEN l2 ELSE l1
Concat(fs, l1, l2) ==
    IF l1 = NoJump \/ l2 = NoJump THEN fs ELSE FixJump(fs, Last(JumpList(fs, l1)), l2)

PatchToHere(fs, list) ==
    LET g == GetLabel(fs) IN [Concat(g, g.jpc, list) EXCEPT !.jpc = ConcatHead(g.jpc, list)]

PatchList(fs, list, target) ==
    IF target = PC(fs) THEN PatchToHere(fs, list)
    ELSE PatchListAux(fs, list, target, NoReg, target)

PatchClose(fs, list, level) ==
    FoldLeft(LAMBDA g, pc : [g EXCEPT !.code[pc + 1].a = level + 1], fs, JumpList(fs, list))

DischargeJpc(fs) == [PatchListAux(fs, fs.jpc, PC(fs), NoReg, PC(fs)) EXCEPT !.jpc = NoJump]

Code(fs, op, a, b, c) ==
    LET i == [op |-> op, a |-> a, b |-> b, c |-> c, line |-> fs.line]
    IN  [DischargeJpc(fs) EXCEPT !.code = Append(@, i)]

FixLine(fs, line) == [fs EXCEPT !.code[PC(fs)].line = line]

\* Jumps to here wait on the new jump's list.
Jump(fs) ==
    LET g == Code([fs EXCEPT !.jpc = NoJump], "JMP", 0, NoJump, 0)
    IN  Concat(g, PC(fs), fs.jpc)

CondJump(fs, op, a, b, c) == Jump(Code(fs, op, a, b, c))

CodeReturn(fs, first, nret) == Code(fs, "RETURN", first, nret + 1, 0)

\* Loading nil into registers next to those the last instruction clears extends it.
CodeNil(fs, from, n) ==
    LET p == InstrAt(fs, PC(fs) - 1)
        l == from + n - 1
        first == Smaller(from, p.a)
        joins == \/ p.a <= from /\ from <= p.a + p.b + 1
                 \/ from <= p.a /\ p.a <= l + 1
    IN  IF PC(fs) > fs.lasttarget /\ p.op = "LOADNIL" /\ joins
        THEN SetArg(fs, PC(fs) - 1, [a |-> first, b |-> Greater(l, p.a + p.b) - first])
        ELSE Code(fs, "LOADNIL", from, n - 1, 0)

-----------------------------------------------------------------------------
(* Registers and constants.                                                   *)

CheckStackShort(fs, n) == IF fs.free + n <= fs.maxstack THEN fs ELSE [fs EXCEPT !.maxstack = fs.free + n - 1]

CheckStack(fs, n) ==
    LET size == fs.free + n
    IN  IF size <= fs.maxstack THEN fs
        ELSE IF size >= MaxRegs THEN Error(fs, "function or expression needs too many registers")
        ELSE [fs EXCEPT !.maxstack = size]

ReserveRegs(fs, n) == [CheckStack(fs, n) EXCEPT !.free = @ + n]

FreeReg(fs, reg) == IF ~IsK(reg) /\ reg >= Len(fs.act) THEN [fs EXCEPT !.free = @ - 1] ELSE fs
FreeExp(fs, e)   == IF e.k = "VNONRELOC" THEN FreeReg(fs, e.info) ELSE fs

\* The position of a constant, which is added when the function lacks it.
AddK(fs, v) ==
    IF v \in Range(fs.k)
    THEN [fs |-> fs, k |-> (CHOOSE n \in DOMAIN fs.k : fs.k[n] = v) - 1]
    ELSE [fs |-> [fs EXCEPT !.k = Append(@, v)], k |-> Len(fs.k)]

CodeK(fs, reg, k) == Code(fs, "LOADK", reg, k, 0)

-----------------------------------------------------------------------------
(* From descriptors to values.                                                *)

SetReturns(fs, e, n) ==
    CASE e.k = "VCALL"   -> SetArg(fs, e.info, [c |-> n + 1])
      [] e.k = "VVARARG" -> ReserveRegs(SetArg(fs, e.info, [b |-> n + 1, a |-> fs.free]), 1)
      [] OTHER           -> fs

SetOneRet(x) ==
    CASE x.e.k = "VCALL"   -> Set(x, "VNONRELOC", InstrAt(x.fs, x.e.info).a)
      [] x.e.k = "VVARARG" -> [X(SetArg(x.fs, x.e.info, [b |-> 2]), x.e) EXCEPT !.e.k = "VRELOCABLE"]
      [] OTHER             -> x

\* A descriptor whose value the next instruction to be emitted produces.
Relocable(x, op, a, b, c) == Set(X(Code(x.fs, op, a, b, c), x.e), "VRELOCABLE", PC(x.fs))

DischargeVars(x) ==
    LET e     == x.e
        inReg == e.vt = "VLOCAL"
        freed == FreeReg(x.fs, e.idx)
        g     == IF inReg THEN FreeReg(freed, e.info) ELSE freed
    IN  CASE e.k = "VLOCAL"   -> [x EXCEPT !.e.k = "VNONRELOC"]
          [] e.k = "VUPVAL"   -> Relocable(x, "GETUPVAL", 0, e.info, 0)
          [] e.k = "VINDEXED" -> Relocable(X(g, e), IF inReg THEN "GETTABLE" ELSE "GETTABUP",
                                           0, e.info, e.idx)
          [] OTHER            -> SetOneRet(x)

Discharge2Reg(x, reg) ==
    LET y  == DischargeVars(x)
        fs == y.fs
        e  == y.e
        at(g) == Set(X(g, e), "VNONRELOC", reg)
        ki == AddK(fs, <<"int", e.info>>)
    IN  CASE e.k = "VNIL"               -> at(CodeNil(fs, reg, 1))
          [] e.k \in {"VTRUE", "VFALSE"} -> at(Code(fs, "LOADBOOL", reg, IF e.k = "VTRUE" THEN 1 ELSE 0, 0))
          [] e.k = "VK"                 -> at(CodeK(fs, reg, e.info))
          [] e.k = "VKINT"              -> at(CodeK(ki.fs, reg, ki.k))
          [] e.k = "VRELOCABLE"         -> at(SetArg(fs, e.info, [a |-> reg]))
          [] e.k = "VNONRELOC"          -> at(IF reg = e.info THEN fs ELSE Code(fs, "MOVE", reg, e.info, 0))
          [] OTHER                      -> y

Discharge2AnyReg(x) ==
    IF x.e.k = "VNONRELOC" THEN x
    ELSE Discharge2Reg([x EXCEPT !.fs = ReserveRegs(@, 1)], x.fs.free)

CodeLabel(fs, a, b, jump) == Code(GetLabel(fs), "LOADBOOL", a, b, jump)

\* The value in reg, on every path: jumps that lack the value get LOADBOOLs to land on.
Exp2Reg(x, reg) ==
    LET y    == Discharge2Reg(x, reg)
        isJ  == y.e.k = "VJMP"
        t    == IF isJ THEN ConcatHead(y.e.t, y.e.info) ELSE y.e.t
        f    == y.e.f
        fs1  == IF isJ THEN Concat(y.fs, y.e.t, y.e.info) ELSE y.fs
        need == NeedValue(fs1, t) \/ NeedValue(fs1, f)
        fs2  == IF isJ THEN fs1 ELSE Jump(fs1)
        pf   == PC(fs2)
        load == CodeLabel(CodeLabel(fs2, reg, 0, 1), reg, 1, 0)
        fs3  == PatchToHere(load, IF isJ THEN NoJump ELSE PC(fs1))
        fs4  == GetLabel(IF need THEN fs3 ELSE fs1)
        to(g, list, p) == PatchListAux(g, list, PC(fs4), reg, IF need THEN p ELSE NoJump)
        fs5  == to(to(fs4, f, pf), t, pf + 1)
    IN  X(IF t # f THEN fs5 ELSE fs1, Exp("VNONRELOC", reg))

Exp2NextReg(x) ==
    LET y == DischargeVars(x)
        g == ReserveRegs(FreeExp(y.fs, y.e), 1)
    IN  Exp2Reg(X(g, y.e), g.free - 1)

Exp2AnyReg(x) ==
    LET y == DischargeVars(x)
    IN  IF y.e.k = "VNONRELOC" /\ ~HasJumps(y.e) THEN y
        ELSE IF y.e.k = "VNONRELOC" /\ y.e.info >= Len(y.fs.act) THEN Exp2Reg(y, y.e.info)
        ELSE Exp2NextReg(y)

Exp2AnyRegUp(x) == IF x.e.k # "VUPVAL" \/ HasJumps(x.e) THEN Exp2AnyReg(x) ELSE x

Exp2Val(x) == IF HasJumps(x.e) THEN Exp2AnyReg(x) ELSE DischargeVars(x)

\* An operand: the constant when it fits, else a register.
Exp2RK(x) ==
    LET y == Exp2Val(x)
        k == y.e.k
        c == CASE k = "VNIL" -> <<"nil", 0>>
               [] k \in {"VTRUE", "VFALSE"} -> <<"bool", k = "VTRUE">>
               [] OTHER -> <<"int", y.e.info>>
        a == AddK(y.fs, c)
        asK == X(a.fs, [y.e EXCEPT !.k = "VK", !.info = a.k])
        z == CASE k \in {"VTRUE", "VFALSE", "VNIL"} ->
                    IF Len(y.fs.k) <= MaxIndexRK THEN asK ELSE y
               [] k = "VKINT" -> asK
               [] OTHER -> y
        w == Exp2AnyReg(z)
    IN  IF z.e.k = "VK" /\ z.e.info <= MaxIndexRK
        THEN [fs |-> z.fs, e |-> z.e, rk |-> RKAsK(z.e.info)]
        ELSE [fs |-> w.fs, e |-> w.e, rk |-> w.e.info]


StoreVar(fs, var, ex) ==
    LET any == Exp2AnyReg(X(fs, ex))
        rk  == Exp2RK(X(fs, ex))
    IN  CASE var.k = "VLOCAL" -> Exp2Reg(X(FreeExp(fs, ex), ex), var.info).fs
          [] var.k = "VUPVAL" ->
               FreeExp(Code(any.fs, "SETUPVAL", any.e.info, var.info, 0), any.e)
          [] var.k = "VINDEXED" ->
               FreeExp(Code(rk.fs, IF var.vt = "VLOCAL" THEN "SETTABLE" ELSE "SETTABUP",
                            var.info, var.idx, rk.rk), rk.e)

\* luaK_self: prepares the call of a method.
Self(x, key) ==
    LET y   == Exp2AnyReg(x)
        g   == FreeExp(y.fs, y.e)
        k   == Exp2RK(X(ReserveRegs(g, 2), key))
    IN  Set(X(FreeExp(Code(k.fs, "SELF", g.free, y.e.info, k.rk), k.e), y.e), "VNONRELOC", g.free)

Indexed(x, key) ==
    LET k == Exp2RK(X(x.fs, key))
    IN  X(k.fs, [x.e EXCEPT !.k = "VINDEXED", !.idx = k.rk,
                            !.vt = IF x.e.k = "VUPVAL" THEN "VUPVAL" ELSE "VLOCAL"])

-----------------------------------------------------------------------------
(* Conditions.                                                                *)

InvertJump(fs, e) == [fs EXCEPT !.code[JumpControl(fs, e.info) + 1].a = 1 - @]

\* The pc of the jump taken when the value is cond, with the state after it.
JumpOnCond(x, cond) ==
    LET i == InstrAt(x.fs, x.e.info)
        y == Discharge2AnyReg(x)
        g == IF x.e.k = "VRELOCABLE" /\ i.op = "NOT"
             THEN CondJump([x.fs EXCEPT !.code = Front(@)], "TEST", i.b, 0, 1 - cond)
             ELSE CondJump(FreeExp(y.fs, y.e), "TESTSET", NoReg, y.e.info, cond)
    IN  [fs |-> g, e |-> IF x.e.k = "VRELOCABLE" /\ i.op = "NOT" THEN x.e ELSE y.e, pc |-> PC(g) - 1]

GoIfTrue(x) ==
    LET y == DischargeVars(x)
        j == CASE y.e.k = "VJMP" -> [fs |-> InvertJump(y.fs, y.e), e |-> y.e, pc |-> y.e.info]
               [] y.e.k \in {"VK", "VKINT", "VTRUE"} -> [fs |-> y.fs, e |-> y.e, pc |-> NoJump]
               [] OTHER -> JumpOnCond(y, 0)
        g == Concat(j.fs, j.e.f, j.pc)
    IN  X(PatchToHere(g, j.e.t), [j.e EXCEPT !.f = ConcatHead(@, j.pc), !.t = NoJump])

GoIfFalse(x) ==
    LET y == DischargeVars(x)
        j == CASE y.e.k = "VJMP" -> [fs |-> y.fs, e |-> y.e, pc |-> y.e.info]
               [] y.e.k \in {"VNIL", "VFALSE"} -> [fs |-> y.fs, e |-> y.e, pc |-> NoJump]
               [] OTHER -> JumpOnCond(y, 1)
        g == Concat(j.fs, j.e.t, j.pc)
    IN  X(PatchToHere(g, j.e.f), [j.e EXCEPT !.t = ConcatHead(@, j.pc), !.f = NoJump])

CodeNot(x) ==
    LET y == DischargeVars(x)
        r == Discharge2AnyReg(y)
        n == CASE y.e.k \in {"VNIL", "VFALSE"} -> [y EXCEPT !.e.k = "VTRUE"]
               [] y.e.k \in {"VK", "VKINT", "VTRUE"} -> [y EXCEPT !.e.k = "VFALSE"]
               [] y.e.k = "VJMP" -> X(InvertJump(y.fs, y.e), y.e)
               [] OTHER -> Relocable(X(FreeExp(r.fs, r.e), r.e), "NOT", 0, r.e.info, 0)
    IN  X(RemoveValues(RemoveValues(n.fs, n.e.t), n.e.f), [n.e EXCEPT !.t = n.e.f, !.f = n.e.t])

-----------------------------------------------------------------------------
(* Operators.                                                                 *)

Unary == {"UNM", "LEN"}
ArithOps == {"ADD", "SUB", "MUL", "IDIV", "MOD", "UNM"}
IsNumeral(e) == ~HasJumps(e) /\ e.k = "VKINT"

Folds(op, e1, e2) ==
    /\ op \in ArithOps /\ IsNumeral(e1) /\ IsNumeral(e2)
    /\ op \in {"IDIV", "MOD"} => e2.info # 0

\* Registers are freed in the reverse of the order they were taken in.
FreeBoth(fs, e1, o1, e2, o2) ==
    IF o1 > o2 THEN FreeExp(FreeExp(fs, e1), e2) ELSE FreeExp(FreeExp(fs, e2), e1)

CodeExpVal(fs, op, e1, e2, line) ==
    LET u  == Exp2AnyReg(X(fs, e1))
        r2 == Exp2RK(X(fs, e2))
        r1 == Exp2RK(X(r2.fs, e1))
        un == Relocable(X(FreeBoth(u.fs, u.e, u.e.info, e2, 0), u.e), op, 0, u.e.info, 0)
        bi == Relocable(X(FreeBoth(r1.fs, r1.e, r1.rk, r2.e, r2.rk), r1.e), op, 0, r1.rk, r2.rk)
        x  == IF op \in Unary THEN un ELSE bi
    IN  IF Folds(op, e1, e2) THEN X(fs, [e1 EXCEPT !.info = Arith(op, e1.info, e2.info)])
        ELSE X(FixLine(x.fs, line), x.e)

\* a > b is coded as b < a, a >= b as b <= a.
CodeComp(fs, op, cond, e1, e2) ==
    LET r1   == Exp2RK(X(fs, e1))
        r2   == Exp2RK(X(r1.fs, e2))
        g    == FreeExp(FreeExp(r2.fs, r2.e), r1.e)
        swap == cond = 0 /\ op # "EQ"
        j    == IF swap THEN CondJump(g, op, 1, r2.rk, r1.rk) ELSE CondJump(g, op, cond, r1.rk, r2.rk)
    IN  Set(X(j, r1.e), "VJMP", PC(j) - 1)

Prefix(op, x, line) ==
    IF op = "not" THEN CodeNot(x) ELSE CodeExpVal(x.fs, op, x.e, Exp("VKINT", 0), line)

\* What happens between the left operand and the right one.
Infix(op, x) ==
    CASE op = "and"     -> GoIfTrue(x)
      [] op = "or"      -> GoIfFalse(x)
      [] op = "CONCAT"  -> Exp2NextReg(x)
      [] op \in ArithOps -> IF IsNumeral(x.e) THEN x ELSE Exp2RK(x)
      [] OTHER          -> Exp2RK(x)

Comparison == [eq |-> <<"EQ", 1>>, ne |-> <<"EQ", 0>>, lt |-> <<"LT", 1>>,
               gt |-> <<"LT", 0>>, le |-> <<"LE", 1>>, ge |-> <<"LE", 0>>]

Posfix(op, fs, e1, e2, line) ==
    LET d  == DischargeVars(X(fs, e2))
        v  == Exp2Val(X(fs, e2))
        n  == Exp2NextReg(v)
        i  == InstrAt(v.fs, v.e.info)
    IN  CASE op = "and" -> X(Concat(d.fs, d.e.f, e1.f), [d.e EXCEPT !.f = ConcatHead(@, e1.f)])
          [] op = "or"  -> X(Concat(d.fs, d.e.t, e1.t), [d.e EXCEPT !.t = ConcatHead(@, e1.t)])
          [] op = "CONCAT" ->
               IF v.e.k = "VRELOCABLE" /\ i.op = "CONCAT"
               THEN Set(X(SetArg(FreeExp(v.fs, e1), v.e.info, [b |-> e1.info]), e1),
                        "VRELOCABLE", v.e.info)
               ELSE CodeExpVal(n.fs, op, e1, n.e, line)
          [] op \in ArithOps -> CodeExpVal(fs, op, e1, e2, line)
          [] op \in DOMAIN Comparison -> CodeComp(fs, Comparison[op][1], Comparison[op][2], e1, e2)

SetList(fs, base, nelems, tostore) ==
    LET c == ((nelems - 1) \div FieldsPerFlush) + 1
    IN  [Code(fs, "SETLIST", base, IF tostore = MultRet THEN 0 ELSE tostore, c)
            EXCEPT !.free = base + 1]
=============================================================================
