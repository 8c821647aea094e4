-------------------------------- MODULE LuaDump --------------------------------
(* Compiled contracts as streams (ldump.cpp, lundump.cpp), the two readers that *)
(* feed them to the loader, and the check a contract's code has to pass         *)
(* (uvm_lib.cpp).  A stream is the sequence of what one Dump or Load call moves: *)
(* <<kind, value>>, where the bytes of a string follow their count.             *)
(* Left out: line numbers, the variables' ranges, streams made of anything but  *)
(* pieces of a dump, and counts beyond 500M, at which the loader gives up       *)
(* a function and goes on.                                                      *)
EXTENDS LuaCode

CONSTANTS
    LongSize,    \* 0xFF: the byte that says a 64 bit size follows
    MaxLocals,   \* LUA_FUNCTION_MAX_LOCALVARS_COUNT
    Whitelist,   \* globalvar_whitelist
    Deployed     \* the names of contracts that exist

-----------------------------------------------------------------------------
(* Writing.                                                                   *)

Byte(n)    == <<"byte", n % 256>>
Word(n)     == <<"int", n>>
NoName     == <<"nil", 0>>
DumpString(s) ==
    LET size == Len(s[2]) + 1
    IN  IF s = NoName THEN <<Byte(0)>>
        ELSE (IF size < LongSize THEN <<Byte(size)>> ELSE <<Byte(LongSize), <<"size", size>>>>) \o <<<<"text", s[2]>>>>
DumpConstant(k) ==
    <<<<"type", k[1]>>>> \o (CASE k[1] = "nil"  -> <<>>
                               [] k[1] = "bool" -> <<Byte(IF k[2] THEN 1 ELSE 0)>>
                               [] k[1] = "int"  -> <<<<"integer", k[2]>>>>
                               [] k[1] = "str"  -> DumpString(k))
DumpUpvalue(u) == <<Byte(IF u.instack THEN 1 ELSE 0), Byte(u.idx)>>
Each(s, F(_)) == FlattenSeq([i \in DOMAIN s |-> F(s[i])])
DumpDebug(p, strip) ==
    LET Names(s) == <<Word(IF strip THEN 0 ELSE Len(s))>> \o (IF strip THEN <<>> ELSE Each(s, DumpString))
    IN  Names([i \in DOMAIN p.locs |-> <<"str", p.locs[i]>>]) \o Names([i \in DOMAIN p.up |-> <<"str", p.up[i].name>>])
RECURSIVE DumpFunction(_, _)
\* No source is ever written.
DumpFunction(p, strip) ==
    LET Nested(q) == DumpFunction(q, strip)
    IN  DumpString(NoName) \o <<Byte(p.numparams), Byte(p.isvararg), Byte(p.maxstack)>>
        \o <<Word(Len(p.code))>> \o [i \in DOMAIN p.code |-> <<"code", p.code[i]>>]
        \o <<Word(Len(p.k))>> \o Each(p.k, DumpConstant)
        \o <<Word(Len(p.up))>> \o Each(p.up, DumpUpvalue)
        \o <<Word(Len(p.p))>> \o Each(p.p, Nested)
        \o DumpDebug(p, strip)
Signature == <<"text", "\\x1bLua">>
Header == <<Signature, <<"byte", 83>>, <<"byte", 0>>, <<"text", "LUAC_DATA">>, <<"byte", 4>>, <<"byte", 8>>,
            <<"byte", 4>>, <<"byte", 8>>, <<"byte", 8>>, <<"integer", 22136>>, <<"number", "370.5">>>>
Dump(p, strip) == Header \o <<Byte(Len(p.up))>> \o DumpFunction(p, strip)

-----------------------------------------------------------------------------
(* Reading.  s.at counts what was read.  The reader of a contract's stream      *)
(* hands out the whole buffer each time it is asked for more, so that it never  *)
(* ends (around); the reader of a buffer ends.                                  *)

Broken(s, why) == [s EXCEPT !.err = IF @ = "" THEN why ELSE @]
\* Mutant: no reader ends.
EndedNever(s) == s.in = <<>>
Ended(s) == s.in = <<>> \/ (~s.around /\ s.at >= Len(s.in))
Unit(s) == s.in[(s.at % Len(s.in)) + 1]
\* <<what was read, the reader behind it>>; another kind is other bytes.
Load(s, kind) ==
    CASE s.err # ""       -> <<0, s>>
      [] s.err = "" /\ Ended(s)       -> <<0, Broken(s, "truncated")>>
      [] s.err = "" /\ ~Ended(s) /\ Unit(s)[1] # kind -> <<0, Broken(s, "misread")>>
      [] OTHER            -> <<Unit(s)[2], [s EXCEPT !.at = @ + 1]>>
LoadText(s, size) ==
    LET t == Load(s, "text")
    IN  IF t[2].err = "" /\ Len(t[1]) # size THEN <<NoName, Broken(s, "misread")>> ELSE <<<<"str", t[1]>>, t[2]>>
LoadString(s) ==
    LET b == Load(s, "byte")
        n == IF b[1] = LongSize THEN Load(b[2], "size") ELSE b
    IN  IF n[1] = 0 THEN <<NoName, n[2]>> ELSE LoadText(n[2], n[1] - 1)
LoadConstant(s) ==
    LET t == Load(s, "type")
        b == Load(t[2], "byte")
        i == Load(t[2], "integer")
    IN  CASE t[2].err # "" -> <<NoName, t[2]>>
          [] t[1] = "bool" -> <<<<"bool", b[1] # 0>>, b[2]>>
          [] t[1] = "int"  -> <<<<"int", i[1]>>, i[2]>>
          [] t[1] = "str"  -> LoadString(t[2])
          [] OTHER         -> <<NoName, t[2]>>
LoadUpvalue(s) ==
    LET instack == Load(s, "byte")
        idx     == Load(instack[2], "byte")
    IN  <<[name |-> "-", instack |-> instack[1] # 0, idx |-> idx[1]], idx[2]>>
LoadInstruction(s) == Load(s, "code")

RECURSIVE Times(_, _, _, _), LoadFunction(_)
Times(s, n, acc, what) ==
    LET one == CASE what = "code"  -> LoadInstruction(s)
                 [] what = "k"     -> LoadConstant(s)
                 [] what = "up"    -> LoadUpvalue(s)
                 [] what = "p"     -> LoadFunction(s)
                 [] what = "name"  -> LoadString(s)
    IN  IF n = 0 \/ s.err # "" THEN <<acc, s>> ELSE Times(one[2], n - 1, Append(acc, one[1]), what)
LoadVector(s, what) == LET n == Load(s, "int") IN Times(n[2], n[1], <<>>, what)
\* UPVALNAME_OF_PROTO: a missing name reads "-".
NameOf(n) == IF n = NoName THEN "-" ELSE n[2]
LoadFunction(s) ==
    LET source == LoadString(s)
        params == Load(source[2], "byte")
        vararg == Load(params[2], "byte")
        regs   == Load(vararg[2], "byte")
        code   == LoadVector(regs[2], "code")
        k      == LoadVector(code[2], "k")
        up     == LoadVector(k[2], "up")
        p      == LoadVector(up[2], "p")
        locs   == LoadVector(p[2], "name")
        names  == LoadVector(locs[2], "name")
    IN  <<[code |-> code[1], k |-> k[1], p |-> p[1], numparams |-> params[1], isvararg |-> vararg[1], maxstack |-> regs[1],
           up   |-> [i \in DOMAIN up[1] |-> IF i \in DOMAIN names[1] THEN [up[1][i] EXCEPT !.name = NameOf(names[1][i])] ELSE up[1][i]],
           locs |-> [i \in DOMAIN locs[1] |-> NameOf(locs[1][i])]], names[2]>>

CheckHeader(s) ==
    LET bad == {i \in DOMAIN Header : Unit([s EXCEPT !.at = i - 1]) # Header[i]}
        first == CHOOSE i \in bad : \A j \in bad : i <= j
        why == [i \in DOMAIN Header |-> CASE i = 1 -> "not a" [] i = 2 -> "version mismatch in" [] i = 3 -> "format mismatch in"
                                          [] i = 4 -> "corrupted" [] i = 10 -> "endianness mismatch in"
                                          [] i = 11 -> "float format mismatch in" [] OTHER -> "size mismatch in"]
    IN  CASE s.in = <<>> \/ (~s.around /\ Len(s.in) < Len(Header)) -> Broken(s, "truncated")
          [] bad # {} -> Broken(s, why[first])
          [] OTHER    -> [s EXCEPT !.at = Len(Header)]
\* [p, err]; the bytes behind a function are not looked at.
Undump(stream, around) ==
    LET s == CheckHeader([in |-> stream, at |-> 0, around |-> around, err |-> ""])
        n == Load(s, "byte")
        f == LoadFunction(n[2])
    IN  [p |-> f[1], err |-> f[2].err]
UndumpFromStream(stream) == Undump(stream, TRUE)
LoadBuffer(stream)       == Undump(stream, FALSE)

-----------------------------------------------------------------------------
(* The check of a contract's code.                                             *)

\* INDEXK(bx): the bit that marks a constant is cleared in any operand.
ClearRK(n) == IF (n \div BitRK) % 2 = 1 THEN n - BitRK ELSE n

\* An upvalue in the parent's registers counts when it is no parameter.
RECURSIVE UpvalDefinedInParent(_, _)
UpvalDefinedInParent(parents, u) ==
    LET parent == Last(parents)
    IN  IF u.instack THEN u.idx >= parent.numparams /\ u.idx < Len(parent.locs)
        ELSE /\ Len(parents) > 1
             /\ u.idx < Len(parent.up)
             /\ UpvalDefinedInParent(Front(parents), parent.up[u.idx + 1])

Environment == {"_ENV", "_G"}
NamedUpvalue(p, n) == n < Len(p.up)
BadGetUpval(p, i, parents) ==
    /\ i.a # 0
    /\ \/ ~NamedUpvalue(p, i.b)
       \/ /\ p.k # <<>>
          /\ p.up[i.b + 1].name \notin Whitelist \cup {"_ENV", "-"}
          /\ parents = <<>> \/ ~UpvalDefinedInParent(parents, p.up[i.b + 1])
BadSetUpval(p, i) == ~NamedUpvalue(p, i.b) \/ p.up[i.b + 1].name \in Environment
\* A key in a register is not looked at.
BadGetTabUp(p, i) ==
    \/ ~NamedUpvalue(p, i.b)
    \/ /\ IsK(i.c)
       /\ p.k[IndexK(i.c) + 1] \notin {<<"str", n>> : n \in Whitelist \cup {"-"}}
       /\ p.up[i.b + 1].name \in Environment
BadSetTabUp(p, i) == ~NamedUpvalue(p, i.a) \/ p.up[i.a + 1].name \in Environment
\* The LOADK behind the read of import_contract names a contract that exists.
Imports(p, pc, by) ==
    LET i == p.code[pc]
    IN  i.op = "GETTABUP" /\ IsK(i.c) /\ p.k[IndexK(i.c) + 1] = <<"str", by>>
BadImport(p, pc) ==
    /\ pc > 1
    /\ Imports(p, pc - 1, "import_contract") \/ Imports(p, pc - 1, "import_contract_address")
    /\ p.code[pc].op = "LOADK" /\ ClearRK(p.code[pc].b) < Len(p.k)
    /\ LET k == p.k[ClearRK(p.code[pc].b) + 1] IN k[1] = "str" /\ k[2] \notin Deployed
BadInstruction(p, pc, parents) ==
    LET i == p.code[pc]
    IN  \/ BadImport(p, pc)
        \/ i.op = "GETUPVAL" /\ BadGetUpval(p, i, parents)
        \/ i.op = "SETUPVAL" /\ BadSetUpval(p, i)
        \/ i.op = "GETTABUP" /\ BadGetTabUp(p, i)
        \/ i.op = "SETTABUP" /\ BadSetTabUp(p, i)
RECURSIVE CheckContractProto(_, _)
CheckContractProto(p, parents) ==
    /\ Len(p.locs) <= MaxLocals
    /\ \A pc \in DOMAIN p.code : ~BadInstruction(p, pc, parents)
    /\ \A j \in DOMAIN p.p : CheckContractProto(p.p[j], Append(parents, p))
CheckContractBytecodeStream(stream) ==
    LET u == UndumpFromStream(stream) IN u.err = "" /\ CheckContractProto(u.p, <<>>)
=============================================================================
