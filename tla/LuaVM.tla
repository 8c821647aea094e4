-------------------------------- MODULE LuaVM --------------------------------
(* The interpreter of contract bytecode: src/src/uvm/lvm.cpp with the calls   *)
(* of ldo.cpp and the upvalues of lfunc.cpp, one action per opcode the        *)
(* compiler emits, and the debugger's commands, which run the same opcodes in *)
(* a loop of their own until a line or depth condition.                       *)
(* A value is <<type, contents>>.  The stack is shared by all frames; a local *)
(* captured by a closure is an open upvalue that names a stack slot until the *)
(* slot's scope is left.  Left out: floats, bitwise operators, metatables,    *)
(* coroutines, the opcodes only the assembler can write, and breakpoints in a *)
(* function a for statement calls.                                            *)
EXTENDS LuaCode, TLC

CONSTANTS
    Chunks,     \* the compiled chunks: <<name, [main |-> prototype, err |-> compile error,
                \*   checked |-> whether its code may be registered as a contract's]>>
    Debugged,   \* the names of the chunks that are run under the debugger
    BreakLines, \* sets of lines with a breakpoint
    InstLimit   \* insts_limit

ASSUME VMLimits == InstLimit \in Nat

VARIABLES
    chunk,
    engine,     \* who made the state: the contract engine, or uvm_single
    vm, dbg
vars == <<chunk, engine, vm, dbg>>

main == chunk[2].main

Nil       == <<"nil", 0>>
Bool(b)   == <<"bool", b>>
IntV(n)   == <<"int", n>>
StrV(s)   == <<"str", s>>
IsFalse(v) == v[1] = "nil" \/ v = Bool(FALSE)
GlobalTable == 1
Builtins  == {"emit", "two", "type", "error", "rawset"}

Fill(s, n) == s \o [i \in 1..Greater(0, n - Len(s)) |-> Nil]

-----------------------------------------------------------------------------
(* Frames, registers and upvalues.                                            *)

CI(m)   == Last(m.ci)
Base(m) == CI(m).base
ClosureOf(m) == m.cls[m.stack[CI(m).func + 1][2]]

\* A prototype is named by its path from the main function's.
RECURSIVE ProtoAt(_, _)
ProtoAt(p, path) == IF path = <<>> THEN p ELSE ProtoAt(p.p[Head(path) + 1], Tail(path))
P(m)    == ProtoAt(main, ClosureOf(m).path)

R(m, i)      == m.stack[Base(m) + i + 1]
SetSlot(m, s, v) == [m EXCEPT !.stack[s + 1] = v]
SetR(m, i, v) == SetSlot(m, Base(m) + i, v)
RK(m, x)     == IF IsK(x) THEN P(m).k[IndexK(x) + 1] ELSE R(m, x)
Skip(m, n)   == [m EXCEPT !.ci[Len(m.ci)].pc = @ + n]
Fail(m, why) == [m EXCEPT !.status = "error", !.err = why]
TopOfFrame(m) == [m EXCEPT !.top = CI(m).top]

UpGet(m, u)    == IF m.ups[u].open THEN m.stack[m.ups[u].slot + 1] ELSE m.ups[u].v
UpSet(m, u, v) == IF m.ups[u].open THEN SetSlot(m, m.ups[u].slot, v) ELSE [m EXCEPT !.ups[u].v = v]
Upvalue(m, b)  == ClosureOf(m).ups[b + 1]

\* luaF_close: captured slots from a level up move into their upvalues.
CapturedFrom(m, level)  == {u \in DOMAIN m.ups : m.ups[u].open /\ m.ups[u].slot >= level}
Close(m, level) ==
    [m EXCEPT !.ups = [u \in DOMAIN @ |->
        IF u \in CapturedFrom(m, level)
        THEN [open |-> FALSE, slot |-> 0, v |-> m.stack[@[u].slot + 1]] ELSE @[u]]]

\* luaF_findupval: <<state, upvalue>>.
FindUpval(m, level) ==
    LET open == {u \in DOMAIN m.ups : m.ups[u].open /\ m.ups[u].slot = level}
    IN  IF open # {} THEN <<m, CHOOSE u \in open : TRUE>>
        ELSE <<[m EXCEPT !.ups = Append(@, [open |-> TRUE, slot |-> level, v |-> Nil])], Len(m.ups) + 1>>

-----------------------------------------------------------------------------
(* Tables.                                                                    *)

IsTab(v)  == v[1] = "table"
Tab(m, v) == m.tabs[v[2]]
Lookup(t, k) == IF k \in DOMAIN t THEN t[k] ELSE Nil
Store(t, k, v) == IF v = Nil THEN [x \in DOMAIN t \ {k} |-> t[x]] ELSE (k :> v) @@ t
SetField(m, id, k, v) == [m EXCEPT !.tabs[id] = Store(@, k, v)]

\* luaH_getn, for tables without holes.
Border(t) == CHOOSE n \in 0..Cardinality(DOMAIN t) :
                /\ \A i \in 1..n : IntV(i) \in DOMAIN t
                /\ IntV(n + 1) \notin DOMAIN t

GetTable(m, t, k, a) == IF IsTab(t) THEN SetR(m, a, Lookup(Tab(m, t), k)) ELSE Fail(m, "index")

SetTable(m, t, k, v) ==
    IF ~IsTab(t) \/ t[2] \in m.contracts \cup m.readonly \/ k = Nil THEN Fail(m, "set") ELSE SetField(m, t[2], k, v)

LastReturn(m, v) == SetField(m, GlobalTable, StrV("last_return"), v)

-----------------------------------------------------------------------------
(* Calls.                                                                     *)

Copy(m, from, to, n) ==
    [m EXCEPT !.stack = [s \in DOMAIN @ |-> IF s \in (to + 1)..(to + n) THEN @[s - to + from] ELSE @[s]]]
Clear(m, from, n) ==
    [m EXCEPT !.stack = [s \in DOMAIN @ |-> IF s \in (from + 1)..(from + n) THEN Nil ELSE @[s]]]

\* moveresults: the number wanted, filled up with nil, from res on.
MoveResults(m, first, res, n, wanted) ==
    LET kept == IF wanted = MultRet \/ wanted > n THEN n ELSE wanted
        c    == [m EXCEPT !.stack = Fill(@, res + Greater(wanted, n))]
        all  == Copy(c, first, res, kept)
    IN  [Clear(all, res + kept, wanted - kept) EXCEPT !.top = res + (IF wanted = MultRet THEN n ELSE wanted)]

PosCall(m, first, n) ==
    [MoveResults(m, first, CI(m).func, n, CI(m).nresults)
        EXCEPT !.ci = Front(@), !.depth = IF @ > 0 THEN @ - 1 ELSE @]

\* The functions written in C that programs call: emit records its arguments,
\* two returns its argument twice, type its type, error stops, and rawset sets a
\* field of any table, past the checks of SetTable.
CResults(name, args) ==
    CASE name = "emit"   -> <<>>
      [] name = "two"    -> <<args[1], args[1]>>
      [] name = "type"   -> <<StrV(args[1][1])>>
      [] name = "rawset" -> <<args[1]>>

CRaises(name, args) ==
    CASE name = "error"  -> TRUE
      [] name = "emit"   -> FALSE
      [] name = "rawset" -> Len(args) < 3 \/ ~IsTab(args[1]) \/ args[2] = Nil
      [] OTHER           -> args = <<>>

CEffect(m, name, args) ==
    CASE name = "emit"   -> [m EXCEPT !.out = Append(@, args)]
      [] name = "rawset" -> SetField(m, args[1][2], args[2], args[3])
      [] OTHER           -> m

\* The results of a C function are moved to where the caller wants them, and
\* what then lies as far below the top as there were results is last_return.
CallC(m, func, nresults, name) ==
    LET args == SubSeq(m.stack, func + 2, m.top)
        rs   == CResults(name, args)
        n    == Len(rs)
        put  == [CEffect(m, name, args) EXCEPT !.stack = Fill(SubSeq(@, 1, m.top) \o rs, Len(m.stack))]
        done == MoveResults(put, m.top, func, n, nresults)
    IN  IF CRaises(name, args) THEN Fail(m, "error")
        ELSE LastReturn(done, IF n > 0 THEN done.stack[done.top - n + 1] ELSE Nil)

\* A Lua function's frame.  Only a function that uses "..." has its parameters
\* moved above the arguments.
EnterLua(m, func, nresults) ==
    LET p      == ProtoAt(main, m.cls[m.stack[func + 1][2]].path)
        n      == m.top - func - 1
        uses   == p.isvararg = 1
        base   == IF uses THEN m.top ELSE func + 1
        moved  == Smaller(n, p.numparams)
        s1     == [m EXCEPT !.stack = Fill(@, base + p.maxstack)]
        s2     == IF uses
                  THEN Clear(Clear(Copy(s1, m.top - n, base, moved), m.top - n, moved), base + moved, p.numparams - moved)
                  ELSE Clear(s1, func + 1 + n, p.numparams - n)
    IN  [s2 EXCEPT !.ci = Append(@, [func |-> func, base |-> base, pc |-> 0, nresults |-> nresults,
                                     top |-> base + p.maxstack, fresh |-> FALSE]),
                   !.top = base + p.maxstack]

PreCall(m, func, nresults) ==
    LET f == m.stack[func + 1]
        d == [m EXCEPT !.depth = @ + 1]
    IN  CASE f[1] = "cfn" -> CallC(m, func, nresults, f[2])
          [] f[1] = "fn"  -> EnterLua(d, func, nresults)
          [] OTHER        -> Fail(m, "call")

EntersLua(m, func) == m.stack[func + 1][1] = "fn"

-----------------------------------------------------------------------------
(* What each opcode does to the machine; i is the instruction, m the machine  *)
(* with the program counter moved past it.                                    *)

DoJump(m, i, e) ==
    Skip(IF i.a # 0 THEN Close(m, Base(m) + i.a - 1) ELSE m, i.b + e)
NextJump(m) == DoJump(m, P(m).code[CI(m).pc + 1], 1)
\* A test skips the jump that follows it when it fails.
Test(m, holds) == IF holds THEN NextJump(m) ELSE Skip(m, 1)

LoadNil(m, i) == Clear(m, Base(m) + i.a, i.b + 1)
LoadBool(m, i) == Skip(SetR(m, i.a, Bool(i.b # 0)), IF i.c # 0 THEN 1 ELSE 0)

IsInt(v) == v[1] = "int"
ArithOp(m, i) ==
    LET x == RK(m, i.b)
        y == IF i.op = "UNM" THEN x ELSE RK(m, i.c)
    IN  IF ~IsInt(x) \/ ~IsInt(y) THEN Fail(m, "can only accept numbers")
        ELSE IF i.op \in {"IDIV", "MOD"} /\ y[2] = 0 THEN Fail(m, "divide by zero")
        ELSE SetR(m, i.a, IntV(Arith(i.op, x[2], y[2])))

Length(m, i) ==
    LET v == R(m, i.b)
    IN  CASE IsTab(v) -> SetR(m, i.a, IntV(Border(Tab(m, v))))
          [] v[1] = "str" -> SetR(m, i.a, IntV(Len(v[2])))
          [] OTHER -> Fail(m, "length")

ToStr(v) == IF IsInt(v) THEN ToString(v[2]) ELSE v[2]
ConcatOp(m, i) ==
    LET vs == [j \in 1..(i.c - i.b + 1) |-> R(m, i.b + j - 1)]
        s  == FoldRight(LAMBDA v, acc : ToStr(v) \o acc, vs, "")
    IN  IF \E j \in DOMAIN vs : vs[j][1] \notin {"int", "str"} THEN Fail(m, "concatenate")
        ELSE TopOfFrame(SetR(SetR(m, i.b, StrV(s)), i.a, StrV(s)))

Compare(m, i) ==
    LET x == RK(m, i.b)
        y == RK(m, i.c)
        res == CASE i.op = "EQ" -> x = y
                 [] i.op = "LT" -> x[2] < y[2]
                 [] i.op = "LE" -> x[2] <= y[2]
    IN  IF i.op # "EQ" /\ ~(IsInt(x) /\ IsInt(y)) THEN Fail(m, "compare")
        ELSE Test(m, res = (i.a = 1))

TestOp(m, i) ==
    LET v == IF i.op = "TEST" THEN R(m, i.a) ELSE R(m, i.b)
        holds == ~IsFalse(v) = (i.c = 1)
    IN  Test(IF i.op = "TESTSET" /\ holds THEN SetR(m, i.a, v) ELSE m, holds)

SelfOp(m, i) ==
    LET o == R(m, i.b) IN GetTable(SetR(m, i.a + 1, o), o, RK(m, i.c), i.a)

NewTable(m, i) ==
    SetR([m EXCEPT !.tabs = Append(@, [k \in {} |-> Nil])], i.a, <<"table", Len(m.tabs) + 1>>)

SetListOp(m, i) ==
    LET n  == IF i.b = 0 THEN m.top - (Base(m) + i.a) - 1 ELSE i.b
        at == (i.c - 1) * FieldsPerFlush
        put(g, j) == SetField(g, R(m, i.a)[2], IntV(at + j), R(m, i.a + j))
    IN  TopOfFrame(FoldLeft(put, m, [j \in 1..n |-> j]))

\* getcached: the closure made last from a prototype is used again when its
\* upvalues are the ones a new closure would get.
Cached(m, path, p) ==
    /\ path \in DOMAIN m.cache
    /\ \A j \in DOMAIN p.up :
          LET u == m.cls[m.cache[path]].ups[j]
          IN  IF p.up[j].instack THEN m.ups[u].open /\ m.ups[u].slot = Base(m) + p.up[j].idx
              ELSE u = Upvalue(m, p.up[j].idx)

Capture(m, p) ==
    FoldLeft(LAMBDA acc, uv :
                LET f == FindUpval(acc[1], Base(m) + uv.idx)
                IN  IF uv.instack THEN <<f[1], Append(acc[2], f[2])>>
                    ELSE <<acc[1], Append(acc[2], Upvalue(m, uv.idx))>>,
             <<m, <<>>>>, p.up)

ClosureOp(m, i) ==
    LET path == Append(ClosureOf(m).path, i.b)
        p    == P(m).p[i.b + 1]
        new  == Capture(m, p)
        id   == Len(m.cls) + 1
    IN  IF Cached(m, path, p) THEN SetR(m, i.a, <<"fn", m.cache[path]>>)
        ELSE SetR([new[1] EXCEPT !.cls = Append(@, [path |-> path, ups |-> new[2]]),
                                 !.cache = (path :> id) @@ @], i.a, <<"fn", id>>)

VarargOp(m, i) ==
    LET n == Greater(0, Base(m) - CI(m).func - P(m).numparams - 1)
        b == IF i.b = 0 THEN n ELSE i.b - 1
        ra == Base(m) + i.a
        g == [m EXCEPT !.stack = Fill(@, ra + b), !.top = IF i.b = 0 THEN ra + n ELSE @]
        have == Smaller(b, n)
    IN  Clear(Copy(g, Base(m) - n, ra, have), ra + have, b - have)

SetTop(m, i) == IF i.b # 0 THEN [m EXCEPT !.top = Base(m) + i.a + i.b] ELSE m

CallOp(m, i) ==
    LET func == Base(m) + i.a
        c    == PreCall(SetTop(m, i), func, i.c - 1)
    IN  IF EntersLua(m, func) \/ c.status = "error" THEN c
        ELSE IF i.c > 0 THEN TopOfFrame(c) ELSE c

\* A tail call of a Lua function puts its frame in place of the caller's.  The
\* call depth keeps the level that precall added.
TailCallOp(m, i) ==
    LET func == Base(m) + i.a
        c    == PreCall(SetTop(m, i), func, MultRet)
        nci  == Last(c.ci)
        oci  == CI(m)
        p    == ProtoAt(main, c.cls[c.stack[func + 1][2]].path)
        lim  == nci.base + p.numparams
        shut == IF P(m).p # <<>> THEN Close(c, oci.base) ELSE c
        mv   == Copy(shut, nci.func, oci.func, lim - nci.func)
        ci   == [oci EXCEPT !.base = oci.func + (nci.base - nci.func), !.pc = 0,
                            !.top = oci.func + (c.top - nci.func)]
    IN  IF EntersLua(m, func) THEN [mv EXCEPT !.ci = Append(Front(m.ci), ci), !.top = ci.top] ELSE c

ForPrep(m, i) ==
    IF ~(IsInt(R(m, i.a)) /\ IsInt(R(m, i.a + 1)) /\ IsInt(R(m, i.a + 2)))
    THEN Fail(m, "'for' must have numbers")
    ELSE Skip(SetR(m, i.a, IntV(R(m, i.a)[2] - R(m, i.a + 2)[2])), i.b)

ForLoop(m, i) ==
    LET step  == R(m, i.a + 2)[2]
        idx   == R(m, i.a)[2] + step
        limit == R(m, i.a + 1)[2]
        again == IF 0 < step THEN idx <= limit ELSE limit <= idx
    IN  IF again THEN Skip(SetR(SetR(m, i.a, IntV(idx)), i.a + 3, IntV(idx)), i.b) ELSE m

TForLoop(m, i) ==
    IF R(m, i.a + 1) # Nil THEN Skip(SetR(m, i.a, R(m, i.a + 1)), i.b) ELSE m

\* The TFORLOOP that follows a TFORCALL runs with it.
AfterTForCall(m) == TForLoop(Skip(TopOfFrame(m), 1), P(m).code[CI(m).pc + 1])

\* A generator written in Lua runs in an interpreter of its own, whose return
\* comes back here.
TForCall(m, i) ==
    LET cb   == Base(m) + i.a + 3
        args == [Copy(m, Base(m) + i.a, cb, 3) EXCEPT !.top = cb + 3]
        c    == PreCall([args EXCEPT !.stack = Fill(@, cb + 3)], cb, i.c)
    IN  IF c.status = "error" THEN c
        ELSE IF EntersLua(args, cb) THEN [c EXCEPT !.ci[Len(c.ci)].fresh = TRUE]
        ELSE AfterTForCall(c)

\* A return of fixed values records the first in last_return: the value at its
\* register number counted from the function, not from the frame's base.
ReturnOp(m, i) ==
    LET ra   == Base(m) + i.a
        seen == i.b > 1 /\ m.top - (CI(m).func + 1) >= i.a + 1
        l    == IF seen THEN LastReturn(m, m.stack[CI(m).func + i.a + 2]) ELSE m
        shut == IF P(m).p # <<>> THEN Close(l, Base(m)) ELSE l
        n    == IF i.b # 0 THEN i.b - 1 ELSE m.top - ra
        r    == PosCall(shut, ra, n)
    IN  IF Len(m.ci) = 1 THEN [r EXCEPT !.status = "halt", !.result = SubSeq(r.stack, CI(m).func + 1, r.top)]
        ELSE IF CI(m).fresh THEN AfterTForCall(r)
        ELSE IF CI(m).nresults # MultRet THEN TopOfFrame(r) ELSE r

-----------------------------------------------------------------------------
(* The debugger.  A command runs opcodes while its condition holds; a         *)
(* breakpoint on the line of the next instruction ends it, except on the line *)
(* the command started from after a break.                                    *)

CurrentLine(m) ==
    IF m.ci = <<>> THEN 0 ELSE P(m).code[CI(m).pc + 1].line

Goes(m, line) ==
    CASE dbg.cmd \in {"start", "resume"} -> TRUE
      [] dbg.cmd = "into" -> m.depth <= dbg.depth /\ line = dbg.startline
      [] dbg.cmd = "over" -> m.depth > dbg.depth \/ line = dbg.startline
      [] dbg.cmd = "out"  -> m.depth >= dbg.depth

AfterOp(m) ==
    LET line == CurrentLine(m)
        hit  == line \in dbg.lines
        skip == hit /\ dbg.from /\ line = dbg.startline
        stop == hit /\ ~skip
        next == ~hit \/ (skip /\ dbg.cmd # "into")
    IN  IF m.status # "run"
        THEN [dbg EXCEPT !.running = FALSE,
                         !.state = IF dbg.cmd \in {"start", "resume"} THEN "none" ELSE "fault"]
        ELSE IF stop THEN [dbg EXCEPT !.running = FALSE, !.state = "break"]
        ELSE IF Goes(m, line) THEN dbg
        ELSE [dbg EXCEPT !.running = FALSE, !.state = IF next THEN "suspend" ELSE "none"]

Command(c) ==
    /\ vm.status = "run" /\ ~dbg.running
    /\ dbg' = [dbg EXCEPT !.cmd = c, !.running = TRUE, !.state = "none", !.from = dbg.state = "break",
                          !.startline = CurrentLine(vm), !.depth = vm.depth]
    /\ UNCHANGED <<chunk, engine, vm>>

StepInto == Command("into")
StepOver == Command("over")
StepOut  == Command("out")
GoResume == Command("resume")

-----------------------------------------------------------------------------
(* executeToNextOp.                                                           *)

Inst == P(vm).code[CI(vm).pc + 1]
Advanced == [Skip(vm, 1) EXCEPT !.count = @ + 1]
Ready == vm.status = "run" /\ dbg.running
At(ops) == Ready /\ vm.count < InstLimit /\ Inst.op \in ops
Do(m) == vm' = m /\ dbg' = AfterOp(m) /\ UNCHANGED <<chunk, engine>>

LimitOver == Ready /\ vm.count >= InstLimit /\ Do(Fail(Advanced, "over instructions limit"))

Move     == At({"MOVE"}) /\ Do(SetR(Advanced, Inst.a, R(vm, Inst.b)))
LoadK    == At({"LOADK"}) /\ Do(SetR(Advanced, Inst.a, P(vm).k[Inst.b + 1]))
LoadConst == \/ At({"LOADNIL"}) /\ Do(LoadNil(Advanced, Inst))
             \/ At({"LOADBOOL"}) /\ Do(LoadBool(Advanced, Inst))
GetUpval == At({"GETUPVAL"}) /\ Do(SetR(Advanced, Inst.a, UpGet(vm, Upvalue(vm, Inst.b))))
SetUpval == At({"SETUPVAL"}) /\ Do(UpSet(Advanced, Upvalue(vm, Inst.b), R(vm, Inst.a)))
GetTabUp == At({"GETTABUP"}) /\ Do(GetTable(Advanced, UpGet(vm, Upvalue(vm, Inst.b)), RK(vm, Inst.c), Inst.a))
SetTabUp == At({"SETTABUP"}) /\ Do(SetTable(Advanced, UpGet(vm, Upvalue(vm, Inst.a)), RK(vm, Inst.b), RK(vm, Inst.c)))
GetTab   == At({"GETTABLE"}) /\ Do(GetTable(Advanced, R(vm, Inst.b), RK(vm, Inst.c), Inst.a))
SetTab   == At({"SETTABLE"}) /\ Do(SetTable(Advanced, R(vm, Inst.a), RK(vm, Inst.b), RK(vm, Inst.c)))
Table    == \/ At({"NEWTABLE"}) /\ Do(NewTable(Advanced, Inst))
            \/ At({"SELF"}) /\ Do(SelfOp(Advanced, Inst))
            \/ At({"SETLIST"}) /\ Do(SetListOp(Advanced, Inst))
Operator == \/ At(ArithOps) /\ Do(ArithOp(Advanced, Inst))
            \/ At({"NOT"}) /\ Do(SetR(Advanced, Inst.a, Bool(IsFalse(R(vm, Inst.b)))))
            \/ At({"LEN"}) /\ Do(Length(Advanced, Inst))
            \/ At({"CONCAT"}) /\ Do(ConcatOp(Advanced, Inst))
Branch   == \/ At({"JMP"}) /\ Do(DoJump(Advanced, Inst, 0))
            \/ At({"EQ", "LT", "LE"}) /\ Do(Compare(Advanced, Inst))
            \/ At({"TEST", "TESTSET"}) /\ Do(TestOp(Advanced, Inst))
Call     == At({"CALL"}) /\ Do(CallOp(Advanced, Inst))
TailCall == At({"TAILCALL"}) /\ Do(TailCallOp(Advanced, Inst))
Return   == At({"RETURN"}) /\ Do(ReturnOp(Advanced, Inst))
Loop     == \/ At({"FORPREP"}) /\ Do(ForPrep(Advanced, Inst))
            \/ At({"FORLOOP"}) /\ Do(ForLoop(Advanced, Inst))
            \/ At({"TFORCALL"}) /\ Do(TForCall(Advanced, Inst))
Closure  == At({"CLOSURE"}) /\ Do(ClosureOp(Advanced, Inst))
Vararg   == At({"VARARG"}) /\ Do(VarargOp(Advanced, Inst))

\* create_lua_state and the first luaV_execute: the main closure's upvalue is the
\* global table, which holds the functions written in C and a contract table.
\* The contract engine's state may not change its global table (its scope has
\* allow_change_global FALSE), that of uvm_single may.
Engines == {"contract", "single"}
Globals ==
    [k \in {StrV(n) : n \in Builtins} |-> <<"cfn", k[2]>>] @@ (StrV("self") :> <<"table", 2>>)

Contract == [k \in {StrV("id")} |-> IntV(7)]

\* A chunk that did not compile is not run.
Start(c, e) == LET p == c.main IN
    [stack |-> Fill(<< <<"fn", 1>> >>, 1 + p.maxstack), top |-> 1 + p.maxstack,
     ci |-> <<[func |-> 0, base |-> 1, pc |-> 0, nresults |-> MultRet, top |-> 1 + p.maxstack, fresh |-> TRUE]>>,
     cls |-> <<[path |-> <<>>, ups |-> <<1>>]>>,
     ups |-> <<[open |-> FALSE, slot |-> 0, v |-> <<"table", GlobalTable>>]>>,
     tabs |-> <<Globals, Contract>>, contracts |-> {2},
     readonly |-> IF e = "contract" THEN {GlobalTable} ELSE {},
     cache |-> [x \in {} |-> 0], depth |-> 1, count |-> 0, out |-> <<>>, result |-> <<>>,
     status |-> IF c.err = "" THEN "run" ELSE "error", err |-> c.err]

Init ==
    /\ chunk \in Chunks
    /\ engine \in Engines
    /\ engine = "contract" => chunk[2].checked
    /\ vm = Start(chunk[2], engine)
    /\ \E lines \in (IF chunk[1] \in Debugged THEN BreakLines ELSE {{}}) :
          dbg = [lines |-> lines, cmd |-> "start", running |-> TRUE, state |-> "none",
                 from |-> FALSE, startline |-> 0, depth |-> 0]

Next ==
    \/ Move \/ LoadK \/ LoadConst \/ GetUpval \/ SetUpval \/ GetTabUp \/ SetTabUp \/ GetTab \/ SetTab
    \/ Table \/ Operator \/ Branch \/ Call \/ TailCall \/ Return \/ Loop \/ Closure \/ Vararg
    \/ LimitOver \/ StepInto \/ StepOver \/ StepOut \/ GoResume

Spec == Init /\ [][Next]_vars
=============================================================================
