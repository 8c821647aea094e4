--------------------------- MODULE MCUvmContract ---------------------------
EXTENDS UvmContract

MCSlots == {<<"c1", "p">>, <<"c1", "f">>}
MCDeclared == [n \in {"p"} |-> "table"]
MCKeyOrder == <<"k">>
T0 == Table([x \in {} |-> Null])
TK(v) == Table([x \in {"k"} |-> v])
MCSetValues == {IntV(1), Null, TK(StrV("s"))}
MCItemValues == {IntV(1), IntV(2)}
MCInit == {[s \in MCSlots |-> IF s[2] = "p" THEN TK(IntV(1)) ELSE v] : v \in {IntV(1), Null, TK(IntV(1))}}

=============================================================================
