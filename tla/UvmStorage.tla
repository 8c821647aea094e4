----------------------------- MODULE UvmStorage -----------------------------
(* What a running contract sees of its persistent storage, as                *)
(* src/src/uvm/uvm_storage.cpp keeps it in the lua_State: the change list,    *)
(* the list of tables read or assigned (whose contents are compared with      *)
(* their snapshot at commit) and the live tables held in Lua globals.  Every  *)
(* operator takes and returns the record of one lua_State; UvmContract adds   *)
(* calls, messages, gas and the evaluator around it.                          *)
(* A storage value is a pair <<type, contents>>; a table's contents are a     *)
(* function from the keys present to scalar values.  The numeric type, byte   *)
(* streams and the array/map distinction are left out.                        *)
EXTENDS Integers, Sequences, FiniteSets, SequencesExt, Functions

CONSTANTS
    Slots,      \* pairs <<contract, name>>
    FastNames,  \* the names that are fast-map entries
    Declared,   \* contract_storage_properties: non-fast names to "int" or "table" of ints
    KeyOrder,   \* the keys of tables, in the order of lua_table_less
    HeadBlock,  \* head block number: MOD_CHANGE_LIST is in force from block 1 on
    StorageGas  \* gas one committed change costs

Null     == <<"null", 0>>
IntV(n)  == <<"int", n>>
StrV(s)  == <<"string", s>>
Table(f) == <<"table", f>>
Missing  == <<"none", 0>>         \* no entry in the list of read tables

TypeOf(v)    == v[1]
IsTable(v)   == v[1] = "table"
ItemTypes(v) == IF IsTable(v) THEN {TypeOf(x) : x \in Range(v[2])} ELSE {}
Fast(s)      == s[2] \in FastNames
ModChangeList == HeadBlock >= 1

\* A fresh lua_State: nothing read, nothing changed, no exception.
FreshState(init) ==
    [list  |-> <<>>, reads |-> [s \in Slots |-> Missing], live |-> [s \in Slots |-> Null],
     err   |-> FALSE, code |-> "none", stop |-> FALSE, force |-> FALSE,
     gas   |-> 0, init |-> init, ids |-> <<>>]

\* throw_exception: ignored while an exception is pending, and a different code
\* recorded before is kept.
Throw(S, code) ==
    IF S.err THEN S
    ELSE [S EXCEPT !.err = TRUE, !.code = IF @ = "none" THEN code ELSE @]

ThrowAndStop(S, code) == [Throw(S, code) EXCEPT !.stop = TRUE]

-----------------------------------------------------------------------------
\* The positions of a slot's changes in the list.
ItemsOf(list, s) == {i \in DOMAIN list : list[i].slot = s}

\* What the changes leave in a slot: the last one's value, else what the chain has.
Latest(list, chain, s) ==
    LET items == ItemsOf(list, s)
    IN  IF items = {} THEN chain[s] ELSE list[Max(items)].after

\* A table that enters the state is snapshotted unless the slot has a snapshot.
Snapshot(S, s, v) ==
    IF IsTable(v) /\ S.reads[s] = Missing THEN [S EXCEPT !.reads[s] = v] ELSE S

\* The value of a slot, read from the list or the chain.  The first value ever
\* read is cached as a change of nothing.
GetLast(S, chain, s) ==
    LET onChain == Snapshot(S, s, chain[s])
    IN  [v |-> Latest(S.list, chain, s),
         S |-> IF ItemsOf(S.list, s) # {} THEN S
               ELSE IF S.list # <<>> THEN onChain
               ELSE [onChain EXCEPT !.list = <<[slot |-> s, before |-> chain[s], after |-> chain[s]]>>]]

\* uvmlib_get_storage_impl: a table that is live is returned as it is; a table
\* read from the list or the chain becomes live.
View(S, chain, s) == IF S.live[s] # Null THEN S.live[s] ELSE GetLast(S, chain, s).v

GetStorage(S, chain, s) ==
    IF S.live[s] # Null THEN S
    ELSE LET g == GetLast(S, chain, s)
         IN  IF IsTable(g.v) THEN [g.S EXCEPT !.live[s] = g.v] ELSE g.S

-----------------------------------------------------------------------------
\* The reasons set_storage refuses a value, in the words of its exceptions.
ChangesToNil(s, after)         == ~Fast(s) /\ after = Null
ChangesType(s, before, after)  == /\ ~Fast(s) /\ before # Null /\ ~IsTable(before)
                                  /\ TypeOf(before) # TypeOf(after)
RegistersLate(S, s, before)    == ~Fast(s) /\ before = Null /\ ~S.init
Nested(after)                  == "table" \in ItemTypes(after)
MixesTypes(S, s, before, after) ==
    /\ IsTable(after)
    /\ \/ Cardinality(ItemTypes(before) \cup ItemTypes(after)) > 1
       \/ /\ ItemTypes(before) = {} /\ ItemTypes(after) # {}
          /\ \E i \in ItemsOf(S.list, s) : ~(ItemTypes(S.list[i].after) \subseteq ItemTypes(after))

SetRefused(S, s, before, after) ==
    \/ ChangesToNil(s, after)
    \/ ChangesType(s, before, after)
    \/ RegistersLate(S, s, before)
    \/ Nested(after)
    \/ MixesTypes(S, s, before, after)

\* A table assigned to a slot becomes its live table before anything is checked.
MakeLive(S, s, v) ==
    IF IsTable(v) THEN [Snapshot(S, s, v) EXCEPT !.live[s] = v] ELSE S

SetStorage(S, chain, s, v) ==
    LET g      == GetLast(MakeLive(S, s, v), chain, s)
        detach == Fast(s) /\ v = Null /\ IsTable(g.v) /\ ModChangeList
    IN  IF SetRefused(g.S, s, g.v, v) THEN ThrowAndStop(g.S, "simple")
        ELSE [g.S EXCEPT !.live[s] = IF detach THEN Null ELSE @,
                         !.list = Append(@, [slot |-> s, before |-> g.v, after |-> v])]

\* set_storage in a static call.
SetStorageRefusedStatic(S) == [Throw(S, "simple") EXCEPT !.stop = TRUE, !.force = TRUE]

-----------------------------------------------------------------------------
(* luaL_commit_storage_changes.                                               *)

\* The first item is dropped when it is the cached read of a missing value.
WithoutFirstNull(list) ==
    IF ModChangeList /\ list # <<>> /\ Head(list).before = Null /\ Head(list).after = Null
    THEN Tail(list) ELSE list

\* Live tables that differ from their snapshot are appended to the changes.
Touched(S) == {s \in Slots : S.reads[s] # Missing /\ S.live[s] # Null /\ S.reads[s] # S.live[s]}
TableChanges(S) ==
    LET order == SetToSeq(Touched(S))
    IN  [i \in DOMAIN order |-> [slot   |-> order[i],
                                 before |-> S.reads[order[i]],
                                 after  |-> S.live[order[i]]]]

\* Before block 1, changes of a fast-map entry after the first one to nil were ignored.
Counted(list, s) ==
    LET items == ItemsOf(list, s)
        nils  == {i \in items : list[i].after = Null}
    IN  IF ModChangeList \/ ~Fast(s) \/ nils = {} THEN items
        ELSE {i \in items : i <= Min(nils)}

SlotsOf(list) == {list[i].slot : i \in DOMAIN list}

\* Mutant of Merged: the last before too.
MergedLast(list) ==
    [s \in SlotsOf(list) |->
        LET items == ItemsOf(list, s)
        IN  [before |-> list[Max(items)].before, after |-> list[Min(items)].after]]

\* One change per slot: the first before and the last after.
Merged(list) ==
    [s \in SlotsOf(list) |->
        LET items == Counted(list, s)
        IN  [before |-> list[Min(items)].before, after |-> list[Max(items)].after]]

\* Type checks against the declared properties: in the init of the starting
\* contract every property must be declared, later only changes of declared ones
\* that had a value are compared.  Only the first item of a table is looked at,
\* and the loop over all items that follows in the code compares nothing (its
\* is_first never becomes false).  Scalars are never compared.
FirstItem(v) == v[2][SelectSeq(KeyOrder, LAMBDA k : k \in DOMAIN v[2])[1]]

BadForDeclared(n, after) ==
    /\ IsTable(after)
    /\ \/ Declared[n] # "table"
       \/ DOMAIN after[2] # {} /\ TypeOf(FirstItem(after)) # "int"

CommitRefused(S, start, changes) ==
    \E s \in DOMAIN changes :
        LET n == s[2] IN
        IF S.init /\ s[1] = start
        THEN ~Fast(s) /\ (n \notin DOMAIN Declared \/ BadForDeclared(n, changes[s].after))
        ELSE changes[s].before # Null /\ n \in DOMAIN Declared /\ ~Fast(s)
             /\ BadForDeclared(n, changes[s].after)

\* Unchanged scalars and tables that stay empty are not sent to the chain.
Unchanged(c) ==
    /\ c.before = c.after
    /\ ~IsTable(c.after) \/ c.after[2] = <<>>

\* The changes that reach the evaluator, or the exception that stops them.
Commit(S, start) ==
    LET merged  == Merged(WithoutFirstNull(S.list) \o TableChanges(S))
        changes == Restrict(merged, {s \in DOMAIN merged : ~Unchanged(merged[s])})
        cleared == [S EXCEPT !.list = <<>>, !.reads = [s \in Slots |-> Missing]]
        none    == Restrict(merged, {})
    IN  IF S.err THEN [S |-> [S EXCEPT !.list = <<>>], changes |-> none]
        ELSE IF S.init /\ DOMAIN merged = {} /\ DOMAIN Declared # {}
        THEN [S |-> Throw(cleared, "simple"), changes |-> none]
        ELSE IF CommitRefused(S, start, merged) THEN [S |-> Throw(cleared, "simple"), changes |-> none]
        ELSE [S |-> cleared, changes |-> changes]
=============================================================================
