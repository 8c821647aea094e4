----------------------------- MODULE LuaReference -----------------------------
(* What a program means: the language's own rules, over the syntax tree of a  *)
(* program, with no registers, jumps or frames.  Every local is a cell, a     *)
(* closure keeps the cells of its scope, and a statement ends with a signal:  *)
(* go on, break, a goto that looks for its label outwards, or return.         *)
(*                                                                            *)
(* Expressions: <<"int", n>> <<"str", s>> <<"nil">> <<"true">> <<"false">>    *)
(*   <<"...">> <<"var", x>> <<"idx", e, key>> <<"bin", op, l, r>>             *)
(*   <<"un", op, e>> <<"paren", e>> <<"call", f, args>>                       *)
(*   <<"mcall", o, name, args>> <<"fn", params, vararg, body>>                *)
(*   <<"table", items>>, an item being <<"pos", e>>, <<"named", name, e>> or  *)
(*   <<"key", e, e>>.                                                         *)
(* Statements: <<"local", names, es>> <<"assign", targets, es>>               *)
(*   <<"callst", e>> <<"do", b>> <<"while", e, b>> <<"repeat", b, e>>         *)
(*   <<"if", branches, else>> <<"fornum", x, es, b>> <<"forin", xs, es, b>>   *)
(*   <<"localfn", x, fn>> <<"funcst", path, method, fn>> <<"return", es>>     *)
(*   <<"break">> <<"goto", l>> <<"label", l>> <<"empty">>                     *)
EXTENDS Integers, Sequences, FiniteSets, TLC

RNil == <<"nil", 0>>
RTruthy(v) == v # RNil /\ v # <<"bool", FALSE>>
RDiv(a, b) == IF b > 0 THEN a \div b ELSE (-a) \div (-b)

\* An environment: the cell of every visible local, and the extra arguments.
RBind(env, x, cell) == [env EXCEPT !.v = (x :> cell) @@ @]
RAlloc(s, v) == [s EXCEPT !.cells = Append(@, v)]
RFail(s) == [s EXCEPT !.err = TRUE]
One(vs) == IF vs = <<>> THEN RNil ELSE Head(vs)
Adjust(vs, n) == [i \in 1..n |-> IF i <= Len(vs) THEN vs[i] ELSE RNil]

RGet(s, t, k) ==
    IF t[1] # "table" THEN <<RFail(s), <<RNil>>>>
    ELSE <<s, <<IF k \in DOMAIN s.tabs[t[2]] THEN s.tabs[t[2]][k] ELSE RNil>> >>
RPut(s, t, k, v) ==
    IF t[1] # "table" \/ k = RNil \/ t[2] \in s.fixed THEN RFail(s)
    ELSE [s EXCEPT !.tabs[t[2]] = IF v = RNil THEN [x \in DOMAIN @ \ {k} |-> @[x]] ELSE (k :> v) @@ @]

RText(v) == IF v[1] = "int" THEN ToString(v[2]) ELSE v[2]
RLen(t) == CHOOSE n \in 0..Cardinality(DOMAIN t) :
              /\ \A i \in 1..n : <<"int", i>> \in DOMAIN t
              /\ <<"int", n + 1>> \notin DOMAIN t

\* <<defined, value>> of an operator on two values.
RBinary(op, a, b) ==
    LET ints == a[1] = "int" /\ b[1] = "int"
        text == {a[1], b[1]} \subseteq {"int", "str"}
        int(n) == <<ints, <<"int", n>>>>
        bool(ok, p) == <<ok, <<"bool", p>>>>
    IN  CASE op = "==" -> bool(TRUE, a = b)
          [] op = "~=" -> bool(TRUE, a # b)
          [] op = ".." -> IF text THEN <<TRUE, <<"str", RText(a) \o RText(b)>>>> ELSE <<FALSE, RNil>>
          [] ~ints     -> <<FALSE, RNil>>
          [] op = "+"  -> int(a[2] + b[2])
          [] op = "-"  -> int(a[2] - b[2])
          [] op = "*"  -> int(a[2] * b[2])
          [] op = "//" -> IF b[2] = 0 THEN <<FALSE, RNil>> ELSE int(RDiv(a[2], b[2]))
          [] op = "%"  -> IF b[2] = 0 THEN <<FALSE, RNil>> ELSE int(a[2] - b[2] * RDiv(a[2], b[2]))
          [] op = "<"  -> bool(TRUE, a[2] < b[2])
          [] op = "<=" -> bool(TRUE, a[2] <= b[2])
          [] op = ">"  -> bool(TRUE, a[2] > b[2])
          [] op = ">=" -> bool(TRUE, a[2] >= b[2])

RUnary(s, op, a) ==
    CASE op = "not" -> <<TRUE, <<"bool", ~RTruthy(a)>>>>
      [] op = "-"   -> IF a[1] = "int" THEN <<TRUE, <<"int", -a[2]>>>> ELSE <<FALSE, RNil>>
      [] op = "#"   -> CASE a[1] = "str"   -> <<TRUE, <<"int", Len(a[2])>>>>
                         [] a[1] = "table" -> <<TRUE, <<"int", RLen(s.tabs[a[2]])>>>>
                         [] OTHER          -> <<FALSE, RNil>>

\* <<state, values>> of an expression; only calls and "..." have any number.
RECURSIVE Values(_, _, _), Multi(_, _, _, _), Run(_, _, _, _), Exec(_, _, _), Items(_, _, _, _, _)

Value(e, env, s) == LET r == Values(e, env, s) IN <<r[1], One(r[2])>>

RCall(s, f, args) ==
    LET c     == s.fns[f[2]]
        n     == Len(c.params)
        cells == [s EXCEPT !.cells = @ \o Adjust(args, n)]
        env   == [v  |-> [x \in {c.params[i] : i \in 1..n} |->
                            Len(s.cells) + (CHOOSE i \in 1..n : c.params[i] = x
                                                /\ \A j \in (i + 1)..n : c.params[j] # x)] @@ c.env.v,
                  va |-> IF c.vararg THEN SubSeq(args, n + 1, Len(args)) ELSE <<>>]
        r     == Run(c.body, 1, <<env>>, cells)
    IN  IF f[1] = "cfn"
        THEN CASE f[2] = "emit"  -> <<[s EXCEPT !.out = Append(@, args)], <<>>>>
               [] f[2] = "error" \/ args = <<>> -> <<RFail(s), <<>>>>
               [] f[2] = "rawset" ->
                    IF Len(args) < 3 THEN <<RFail(s), <<>>>>
                    ELSE <<[RPut([s EXCEPT !.fixed = {}], args[1], args[2], args[3]) EXCEPT !.fixed = s.fixed],
                           <<args[1]>>>>
               [] f[2] = "two"   -> <<s, <<args[1], args[1]>>>>
               [] OTHER          -> <<s, << <<"str", args[1][1]>> >>>>
        ELSE IF f[1] # "fn" THEN <<RFail(s), <<>>>>
        ELSE <<r.s, IF r.sig[1] = "return" THEN r.sig[2] ELSE <<>> >>

Closed(s, env, e) == <<[s EXCEPT !.fns = Append(@, [params |-> e[2], vararg |-> e[3], body |-> e[4], env |-> env])],
                       << <<"fn", Len(s.fns) + 1>> >>>>

Values(e, env, s) ==
    LET a    == Value(e[2], env, s)
        l    == Value(e[3], env, s)
        r    == Value(e[4], env, l[1])
        bin  == RBinary(e[2], l[2], r[2])
        un   == RUnary(l[1], e[2], l[2])
        key  == Value(e[3], env, a[1])
        args == Multi(e[3], 1, env, a[1])
        meth == RGet(a[1], a[2], <<"str", e[3]>>)
        margs == Multi(e[4], 1, env, meth[1])
        x    == IF e[2] \in DOMAIN env.v THEN s.cells[env.v[e[2]]]
                ELSE IF e[2] = "_ENV" THEN <<"table", 1>>
                ELSE RGet(s, <<"table", 1>>, <<"str", e[2]>>)[2][1]
        new  == [s EXCEPT !.tabs = Append(@, [k \in {} |-> RNil])]
    IN  IF s.err THEN <<s, <<>>>>
        ELSE CASE e[1] \in {"int", "str"} -> <<s, <<e>>>>
          [] e[1] = "nil"   -> <<s, <<RNil>>>>
          [] e[1] = "true"  -> <<s, << <<"bool", TRUE>> >>>>
          [] e[1] = "false" -> <<s, << <<"bool", FALSE>> >>>>
          [] e[1] = "..."   -> <<s, env.va>>
          [] e[1] = "var"   -> <<s, <<x>>>>
          [] e[1] = "paren" -> <<a[1], <<a[2]>>>>
          [] e[1] = "fn"    -> Closed(s, env, e)
          [] e[1] = "idx"   -> IF key[1].err THEN <<key[1], <<>>>> ELSE RGet(key[1], a[2], key[2])
          [] e[1] = "bin" /\ e[2] = "and" -> IF RTruthy(l[2]) THEN <<r[1], <<r[2]>>>> ELSE <<l[1], <<l[2]>>>>
          [] e[1] = "bin" /\ e[2] = "or"  -> IF RTruthy(l[2]) THEN <<l[1], <<l[2]>>>> ELSE <<r[1], <<r[2]>>>>
          [] e[1] = "bin" /\ e[2] \notin {"and", "or"} ->
               IF r[1].err \/ ~bin[1] THEN <<RFail(r[1]), <<>>>> ELSE <<r[1], <<bin[2]>>>>
          [] e[1] = "un"    -> IF l[1].err \/ ~un[1] THEN <<RFail(l[1]), <<>>>> ELSE <<l[1], <<un[2]>>>>
          [] e[1] = "call"  -> IF args[1].err THEN <<args[1], <<>>>> ELSE RCall(args[1], a[2], args[2])
          [] e[1] = "mcall" -> IF margs[1].err THEN <<margs[1], <<>>>>
                               ELSE RCall(margs[1], meth[2][1], <<a[2]>> \o margs[2])
          [] e[1] = "table" -> LET t == Items(e[2], 1, 1, env, new)
                               IN  <<t, << <<"table", Len(new.tabs)>> >>>>

\* A list of expressions from the i-th on: the last one gives all its values.
Multi(es, i, env, s) ==
    LET v == Values(es[i], env, s)
        r == Multi(es, i + 1, env, v[1])
    IN  IF i > Len(es) THEN <<s, <<>>>>
        ELSE IF i = Len(es) THEN v ELSE <<r[1], <<One(v[2])>> \o r[2]>>

\* The items of a constructor; the table is the one made last before them.
Items(items, i, n, env, s) == LET id == Len(s.tabs) IN
    LET RECURSIVE From(_, _, _)
        From(j, pos, g) ==
            LET it == items[j]
                v  == Values(it[2], env, g)
                nv == Value(it[3], env, g)
                k  == Value(it[2], env, g)
                kv == Value(it[3], env, k[1])
                all == IF j = Len(items) THEN v[2] ELSE <<One(v[2])>>
                putAll[m \in 0..Len(all)] ==
                    IF m = 0 THEN v[1]
                    ELSE RPut(putAll[m - 1], <<"table", id>>, <<"int", pos + m - 1>>, all[m])
            IN  IF j > Len(items) \/ g.err THEN g
                ELSE CASE it[1] = "pos"   -> IF v[1].err THEN v[1] ELSE From(j + 1, pos + 1, putAll[Len(all)])
                       [] it[1] = "named" -> From(j + 1, pos, IF nv[1].err THEN nv[1]
                                                    ELSE RPut(nv[1], <<"table", id>>, <<"str", it[2]>>, nv[2]))
                       [] it[1] = "key"   -> From(j + 1, pos, IF kv[1].err THEN kv[1]
                                                    ELSE RPut(kv[1], <<"table", id>>, k[2], kv[2]))
    IN  From(i, n, s)

Go(s, env)        == [s |-> s, env |-> env, sig |-> <<"next">>]
Signal(s, env, x) == [s |-> s, env |-> env, sig |-> x]

\* Locals bound to values in new cells.
Declare(s, env, names, vs) ==
    [s   |-> [s EXCEPT !.cells = @ \o Adjust(vs, Len(names))],
     env |-> [env EXCEPT !.v = [x \in {names[i] : i \in DOMAIN names} |->
                Len(s.cells) + (CHOOSE i \in DOMAIN names : names[i] = x
                                   /\ \A j \in (i + 1)..Len(names) : names[j] # x)] @@ @]]

\* A block from its i-th statement; a goto looks for its label here first.
Run(b, i, envs, s) ==
    LET r  == Exec(b[i], envs[i], s)
        at == {j \in DOMAIN b : b[j][1] = "label" /\ b[j][2] = r.sig[2]}
        j  == CHOOSE k \in at : TRUE
        es == [k \in 1..j |-> IF k <= i THEN envs[k] ELSE envs[i]]
    IN  IF i > Len(b) \/ s.err THEN Go(s, envs[Len(envs)])
        ELSE IF r.sig[1] = "next" THEN Run(b, i + 1, Append(envs, r.env), r.s)
        ELSE IF r.sig[1] = "goto" /\ at # {} THEN Run(b, j, es, r.s)
        ELSE r

InBlock(b, env, s) == LET r == Run(b, 1, <<env>>, s) IN [r EXCEPT !.env = env]

\* One round of a loop body, then more: break ends the loop.
After(r, env, more) ==
    IF r.s.err \/ r.sig[1] \in {"goto", "return"} THEN r
    ELSE IF r.sig[1] = "break" THEN Go(r.s, env) ELSE more

RECURSIVE While(_, _, _), Repeat(_, _, _), Count(_, _, _, _, _, _, _), Each(_, _, _, _, _, _, _), Choose(_, _, _, _)
While(st, env, s) ==
    LET c == Value(st[2], env, s)
        r == InBlock(st[3], env, c[1])
    IN  IF c[1].err \/ ~RTruthy(c[2]) THEN Go(c[1], env) ELSE After(r, env, While(st, env, r.s))

Repeat(st, env, s) ==
    LET r == Run(st[2], 1, <<env>>, s)
        c == Value(st[3], r.env, r.s)
        more == IF c[1].err \/ RTruthy(c[2]) THEN Go(c[1], env) ELSE Repeat(st, env, c[1])
    IN  [After(r, env, more) EXCEPT !.env = env]

Count(x, i, limit, step, body, env, s) ==
    LET r == InBlock(body, RBind(env, x, Len(s.cells) + 1), RAlloc(s, <<"int", i>>))
    IN  IF (step > 0 /\ i > limit) \/ (step <= 0 /\ i < limit) THEN Go(s, env)
        ELSE [After(r, env, Count(x, i + step, limit, step, body, env, r.s)) EXCEPT !.env = env]

Each(xs, f, st, ctl, body, env, s) ==
    LET c == RCall(s, f, <<st, ctl>>)
        v == One(c[2])
        d == Declare(c[1], env, xs, c[2])
        r == InBlock(body, d.env, d.s)
    IN  IF c[1].err \/ v = RNil THEN Go(c[1], env)
        ELSE [After(r, env, Each(xs, f, st, v, body, env, r.s)) EXCEPT !.env = env]

Choose(branches, other, env, s) ==
    LET b == Head(branches)
        c == Value(b[1], env, s)
    IN  IF branches = <<>> THEN InBlock(other, env, s)
        ELSE IF c[1].err THEN Go(c[1], env)
        ELSE IF RTruthy(c[2]) THEN InBlock(b[2], env, c[1]) ELSE Choose(Tail(branches), other, env, c[1])

\* The objects and keys of the targets come before the values, the stores after.
RECURSIVE Places(_, _, _, _), Assign(_, _, _, _, _)
Places(ts, i, env, s) ==
    LET o == Value(ts[i][2], env, s)
        k == Value(ts[i][3], env, o[1])
        here == IF ts[i][1] = "var" THEN <<s, <<"var", ts[i][2], RNil>>>> ELSE <<k[1], <<"idx", o[2], k[2]>>>>
        rest == Places(ts, i + 1, env, here[1])
    IN  IF i > Len(ts) THEN <<s, <<>>>> ELSE <<rest[1], <<here[2]>> \o rest[2]>>

Assign(ps, vs, i, env, s) ==
    LET p == ps[i]
        g == IF p[1] = "idx" THEN RPut(s, p[2], p[3], vs[i])
             ELSE IF p[2] \in DOMAIN env.v THEN [s EXCEPT !.cells[env.v[p[2]]] = vs[i]]
             ELSE RPut(s, <<"table", 1>>, <<"str", p[2]>>, vs[i])
    IN  IF i = 0 \/ s.err THEN s ELSE Assign(ps, vs, i - 1, env, g)

Exec(st, env, s) ==
    LET vs   == Multi(st[3], 1, env, s)
        d    == Declare(vs[1], env, st[2], vs[2])
        ps   == Places(st[2], 1, env, s)
        as   == Multi(st[3], 1, env, ps[1])
        rv   == Multi(st[2], 1, env, s)
        f    == Closed(RAlloc(s, RNil), RBind(env, st[2], Len(s.cells) + 1), st[3])
        fn   == IF st[1] = "funcst" /\ st[3] THEN [st[4] EXCEPT ![2] = <<"self">> \o @] ELSE st[4]
        g    == Closed(s, env, fn)
        tgt  == Places(<<st[2]>>, 1, env, g[1])
        cv   == Values(st[2], env, s)
        lim  == Multi(st[3], 1, env, s)
        nums == \A i \in DOMAIN lim[2] : lim[2][i][1] = "int"
        gen  == Adjust(lim[2], 3)
    IN  CASE st[1] \in {"label", "empty"} -> Go(s, env)
          [] st[1] = "local"   -> IF vs[1].err THEN Go(vs[1], env) ELSE Go(d.s, d.env)
          [] st[1] = "assign"  -> IF as[1].err THEN Go(as[1], env)
                                  ELSE Go(Assign(ps[2], Adjust(as[2], Len(st[2])), Len(st[2]), env, as[1]), env)
          [] st[1] = "callst"  -> Go(cv[1], env)
          [] st[1] = "do"      -> InBlock(st[2], env, s)
          [] st[1] = "while"   -> While(st, env, s)
          [] st[1] = "repeat"  -> Repeat(st, env, s)
          [] st[1] = "if"      -> Choose(st[2], st[3], env, s)
          [] st[1] = "fornum"  -> IF lim[1].err \/ ~nums THEN Go(RFail(lim[1]), env)
                                  ELSE Count(st[2], lim[2][1][2], lim[2][2][2],
                                             IF Len(lim[2]) = 3 THEN lim[2][3][2] ELSE 1, st[4], env, lim[1])
          [] st[1] = "forin"   -> IF lim[1].err THEN Go(lim[1], env)
                                  ELSE Each(st[2], gen[1], gen[2], gen[3], st[4], env, lim[1])
          [] st[1] = "localfn" -> Go([f[1] EXCEPT !.cells[Len(s.cells) + 1] = f[2][1]],
                                     RBind(env, st[2], Len(s.cells) + 1))
          [] st[1] = "funcst"  -> Go(Assign(tgt[2], g[2], 1, env, tgt[1]), env)
          [] st[1] = "return"  -> IF rv[1].err THEN Go(rv[1], env) ELSE Signal(rv[1], env, <<"return", rv[2]>>)
          [] st[1] = "break"   -> Signal(s, env, <<"break">>)
          [] st[1] = "goto"    -> Signal(s, env, <<"goto", st[2]>>)

\* Tables and functions are compared by kind: their identities are not the language's.
Shape(v) == IF v[1] \in {"table", "fn"} THEN <<v[1], 0>> ELSE v
Shapes(vs) == [i \in DOMAIN vs |-> Shape(vs[i])]
Trace(out) == [i \in DOMAIN out |-> Shapes(out[i])]

\* What a chunk emits, whether it fails, and what it returns; the tables "fixed"
\* may not be assigned to.
Outcome(block, globals, contract, fixed) ==
    LET s == [cells |-> <<>>, tabs |-> <<globals, contract>>, fixed |-> fixed, fns |-> <<>>, out |-> <<>>, err |-> FALSE]
        r == Run(block, 1, << [v |-> [x \in {} |-> 0], va |-> <<>>] >>, s)
    IN  [out    |-> Trace(r.s.out), err |-> r.s.err,
         result |-> IF ~r.s.err /\ r.sig[1] = "return" THEN Shapes(r.sig[2]) ELSE <<>>]

Nothing == [out |-> <<>>, err |-> FALSE, result |-> <<>>]
=============================================================================
