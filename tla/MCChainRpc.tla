----------------------------- MODULE MCChainRpc -----------------------------
(* One contract with a constructor, an API which calls a helper twice on one   *)
(* line, and one which needs more gas than it gets; one account, two           *)
(* transactions, breakpoints on two lines.                                     *)
EXTENDS ChainRpc

Instr(line, depth, cost, slot, value) ==
    [line |-> line, depth |-> depth, cost |-> cost, slot |-> slot, value |-> value]
MCProgram ==
    [init |-> <<Instr(1, 1, 1, "x", 1)>>,
     step |-> <<Instr(2, 1, 1, None, None), Instr(3, 2, 1, "x", 2), Instr(2, 1, 1, None, None),
                Instr(3, 2, 1, "y", 1)>>,
     dear |-> <<Instr(2, 1, 5, "y", 2), Instr(3, 1, 1, None, None)>>]

Balance(n) == [kind |-> "balance", asset |-> 0, amount |-> n]
Store(s, v) == [kind |-> "storage", slot |-> s, value |-> v]
\* A load refused after its first entry when the contract holds nothing, and
\* complete when it is repeated.
MCLoads == {<<Balance(1), Balance(-2), Store("y", 2)>>}

\* No request looks at the last answer, so states that differ in it alone are
\* explored once; the action property is still checked of every step.
ButForAnswer == <<chainVars, txs, mempool, breakpoints, engine, ran>>
=============================================================================
