---------------------------- MODULE MCContractHost ----------------------------
(* Three contracts for TLC: "a" has a special API and a typed one, "b" a special *)
(* API and a field that is no function, "c" was recorded before argument types   *)
(* were and its code is not what was recorded.                                   *)
EXTENDS ContractHost

MCCode == [c \in {"a", "b", "c"} |->
    CASE c = "a" -> [functions |-> {"init", "pay"}, fields |-> {}, locals |-> {}]
      [] c = "b" -> [functions |-> {"init", "see"}, fields |-> {"note"}, locals |-> {"see"}]
      [] c = "c" -> [functions |-> {"init", "see", "pay"}, fields |-> {}, locals |-> {}]]
MCStored == [c \in {"a", "b", "c"} |->
    CASE c = "a" -> Recorded(Code[c]) @@ [types |-> "init" :> << >> @@ "pay" :> <<"int">>]
      [] c = "b" -> Recorded(Code[c]) @@ [types |-> << >>]
      [] c = "c" -> [abi |-> {"init", "see", "note"}, offline |-> {}, types |-> << >>]]
MCNamed == ("first" :> "a")
MCArguments == {<< >>, <<"number">>, <<"string">>}
===============================================================================
