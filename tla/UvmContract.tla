---------------------------- MODULE UvmContract ----------------------------
(* The evaluation of one contract call or contract creation: the evaluator    *)
(* (contract_evaluate.cpp, evaluate_state.cpp, contract.cpp), the engine, the *)
(* chain API (simplechain_uvm_api.cpp) and the calls between contracts        *)
(* (lauxlib.cpp, uvm_lib.cpp, lvm.cpp) around the storage of UvmStorage.      *)
(* The contracts' code is any sequence of operations a script can perform.    *)
EXTENDS UvmStorage

CONSTANTS
    Contracts,  \* contract addresses
    User,       \* the calling account
    Payees,     \* the accounts scripts transfer to
    Keys,       \* keys of storage tables
    SetValues,  \* values scripts assign to a slot
    ItemValues, \* values scripts assign inside a table
    InitStores, \* chain storages a call may start from
    Kinds,      \* "invoke" and "create"
    GasLimit,   \* gas_limit of the call: bounds the length of the script
    ApiGas,     \* gas of a chain API call beyond its instruction
    MaxDepth    \* bound on nested calls

Accounts == Contracts \cup {User}

ASSUME UvmContractAssumption ==
    /\ IsFiniteSet(Contracts) /\ IsFiniteSet(Slots)
    /\ Payees \subseteq Accounts

NoMoney  == [a \in Accounts |-> 0]

VARIABLES
    store,     \* blockchain::contract_storages: slot to value, Null where absent
    balances,  \* blockchain balances of one asset
    deployed,  \* contracts the chain knows
    tx,        \* the operation: status and contract_invoke_result
    S,         \* the lua_State
    frames,    \* running Lua functions, innermost last
    h          \* history: what the script wrote, and which slots left the rules

vars == <<store, balances, deployed, tx, S, frames, h>>

EmptyResult == [changes |-> [s \in {} |-> Null], money |-> NoMoney, contracts |-> {}, events |-> 0]

\* A frame of code of contract `id`, its storage that of `st`; what send_message
\* saved before the call is kept in the frame it made.
Saved(kind) ==
    IF kind # "message" THEN <<>>
    ELSE <<[list |-> Len(S.list), ids |-> Len(S.ids),
            err |-> S.err, live |-> S.live, reads |-> S.reads, h |-> h]>>
Frame(kind, id, st) == [kind |-> kind, id |-> id, store |-> st, saved |-> Saved(kind)]

Id(id, st, static) == [id |-> id, store |-> st, static |-> static]
TopId == Last(S.ids)

Init ==
    /\ deployed \in {Contracts} \cup (IF "create" \in Kinds THEN {Contracts \ {c} : c \in Contracts} ELSE {})
    /\ store \in {[s \in Slots |-> IF s[1] \in deployed THEN f[s] ELSE Null] : f \in InitStores}
    /\ balances = [a \in Accounts |-> 1]
    /\ tx = [status |-> "idle", start |-> User, deposit |-> 0, result |-> EmptyResult]
    /\ S = FreshState(FALSE)
    /\ frames = <<>>
    /\ h = [spec |-> store, taint |-> {}, err |-> FALSE, swallowed |-> FALSE]

-----------------------------------------------------------------------------
(* The start and the end of an evaluation.                                    *)

\* update_account_asset_balance of the evaluator: changes are summed.
Moved(money, from, to, n) == [money EXCEPT ![from] = @ - n, ![to] = @ + n]
AddMoney(result, from, to, n) == [result EXCEPT !.money = Moved(@, from, to, n)]

Enter(c, init) ==
    /\ S' = [FreshState(init) EXCEPT !.ids = <<Id(c, c, FALSE)>>]
    /\ frames' = <<Frame("top", c, c)>>
    /\ UNCHANGED <<store, balances, deployed, h>>

\* A call of an API; a deposit moves money to the contract before the code runs.
Invoke(c, deposit) ==
    /\ tx.status = "idle" /\ c \in deployed /\ deposit <= balances[User]
    /\ tx' = [status |-> "running", start |-> c, deposit |-> deposit,
              result |-> AddMoney(EmptyResult, User, c, deposit)]
    /\ Enter(c, FALSE)

\* Creation: the contract is stored in the pending result and its init runs.
Create(c) ==
    /\ tx.status = "idle" /\ c \notin deployed
    /\ tx' = [status |-> "running", start |-> c, deposit |-> 0,
              result |-> [EmptyResult EXCEPT !.contracts = {c}]]
    /\ Enter(c, TRUE)

\* commit_storage_changes_to_uvm: the changes go to the evaluator before their
\* gas is compared with the limit.
CommitToUvm(c) ==
    LET gas == StorageGas * Cardinality(DOMAIN c.changes)
    IN  IF c.S.err THEN c.S
        ELSE IF gas > GasLimit \/ gas + c.S.gas > GasLimit THEN Throw(c.S, "limit")
        ELSE [c.S EXCEPT !.gas = @ + gas]

\* The handler of std::exception takes the deposit from the contract again
\* before set_failed() clears the result.
Refund(result) == [result EXCEPT !.money[tx.start] = @ - tx.deposit]
\* Mutant of SetFailed: the balance changes are not cleared.
SetFailedKeepsMoney(result) == [EmptyResult EXCEPT !.money = result.money]
SetFailed(result) == EmptyResult

\* Mutant of Succeeded: the engine does not look at exception_code.
SucceededUnchecked(T) == T.gas <= GasLimit /\ T.gas > 0
Succeeded(T) == T.code = "none" /\ T.gas <= GasLimit /\ T.gas > 0

\* contract_invoke_result::apply_pendings, of a failed result too.
ApplyPendings(result) ==
    /\ deployed' = deployed \cup result.contracts
    /\ balances' = [a \in Accounts |-> balances[a] + result.money[a]]
    /\ store' = [s \in Slots |-> IF s \in DOMAIN result.changes THEN result.changes[s].after ELSE store[s]]

\* The script is over (returned, stopped or thrown out of): commit, then apply.
Finish(T) ==
    LET c  == Commit(T, tx.start)
        T2 == CommitToUvm(c)
        ok == Succeeded(T2)
        result == IF ok THEN [tx.result EXCEPT !.changes = c.changes]
                  ELSE SetFailed(Refund(tx.result))
    IN  /\ ApplyPendings(result)
        /\ tx' = [tx EXCEPT !.status = IF ok THEN "ok" ELSE "failed", !.result = result]
        /\ S' = FreshState(FALSE)          \* the engine and its lua_State are destroyed
        /\ frames' = <<>>

-----------------------------------------------------------------------------
(* Leaving a function.                                                        *)

PopId(T) == IF T.ids = <<>> THEN T ELSE [T EXCEPT !.ids = Front(@)]

\* Mutant of MessageFailed: the change list is kept.
MessageFailedKeepsList(T, f) ==
    [T EXCEPT !.force = FALSE, !.err = FALSE, !.code = "none", !.ids = SubSeq(@, 1, f.ids)]

\* What send_message restores when its call failed: the length of the change
\* list and of the contract-id stack, and the exception state.  Balances, live
\* tables, snapshots and the stop flag stay as the callee left them.
MessageFailed(T, f) ==
    [T EXCEPT !.force = FALSE, !.err = FALSE, !.code = IF @ = "limit" THEN @ ELSE "none",
              !.list = SubSeq(@, 1, f.list), !.ids = SubSeq(@, 1, f.ids)]

\* The history of a failed message: the writes are undone, except that slots
\* whose live table or snapshot the callee changed leave the rules.
Disturbed(T, f) ==
    {s \in Slots : \/ T.live[s] \notin {f.live[s], f.h.spec[s]}
                   \/ T.reads[s] \notin {f.reads[s], f.h.spec[s]}}
Undone(T, f) ==
    [f.h EXCEPT !.taint = h.taint \cup Disturbed(T, f),
                !.swallowed = h.swallowed \/ f.err]

MessageSucceeded(T) == ~T.force /\ T.code = "none"

Noted(T) == [h EXCEPT !.err = @ \/ (T.err /\ ~S.err)]

\* A normal return of the innermost function (a stopped function returns too).
ReturnFrom(T) ==
    LET f == Last(frames)
        U == PopId(T)
    IN  IF f.kind = "top" THEN Finish(U) /\ h' = Noted(T)
        ELSE /\ frames' = Front(frames)
             /\ UNCHANGED <<store, balances, deployed, tx>>
             /\ IF f.kind = "message" /\ ~MessageSucceeded(U)
                THEN S' = MessageFailed(U, f.saved[1]) /\ h' = Undone(U, f.saved[1])
                ELSE S' = U /\ h' = Noted(T)

\* A Lua error unwinds to the innermost pcall: that of send_message, which
\* restores, of delegate_call, which returns with the exception pending and the
\* contract-id stack as it is, or of the call itself.
Handler == CHOOSE i \in DOMAIN frames :
              /\ frames[i].kind \in {"message", "delegate", "top"}
              /\ \A j \in DOMAIN frames : j > i => frames[j].kind \notin {"message", "delegate", "top"}

RaiseTo(T) ==
    LET f == frames[Handler]
    IN  IF f.kind = "top" THEN Finish(T) /\ h' = Noted(T)
        ELSE /\ frames' = SubSeq(frames, 1, Handler - 1)
             /\ UNCHANGED <<store, balances, deployed, tx>>
             /\ IF f.kind = "message" THEN S' = MessageFailed(T, f.saved[1]) /\ h' = Undone(T, f.saved[1])
                ELSE S' = T /\ h' = Noted(T)

-----------------------------------------------------------------------------
(* The operations of a script.  Each takes one instruction.                   *)

Running == tx.status = "running"
Halted  == S.gas + 1 > GasLimit \/ S.stop \/ S.force
Spent(T, n) == [T EXCEPT !.gas = IF @ + n > GasLimit THEN GasLimit + 1 ELSE @ + n]

\* The interpreter ends the function at its next instruction.
Unwind ==
    /\ Running /\ Halted
    /\ ReturnFrom(IF S.gas + 1 > GasLimit THEN Throw(Spent(S, 1), "limit") ELSE Spent(S, 1))

Return == Running /\ ~Halted /\ ReturnFrom(Spent(S, 1))

Step(T, h2) ==
    /\ S' = T
    /\ h' = [h2 EXCEPT !.err = @ \/ (T.err /\ ~S.err)]
    /\ UNCHANGED <<store, balances, deployed, tx, frames>>

Mine(name) == <<TopId.store, name>>

Get(name) ==
    /\ Running /\ ~Halted /\ Mine(name) \in Slots
    /\ Step(GetStorage(Spent(S, 1 + ApiGas), store, Mine(name)), h)

\* Slots that leave the rules at an assignment: the live table of a slot is not
\* replaced by a scalar, and a snapshot is not replaced by an assigned table.
Slips(s, v, T) ==
    \/ ~IsTable(v) /\ T.live[s] # Null
    \/ IsTable(v) /\ S.reads[s] # Missing

Set(name, v) ==
    LET s == Mine(name)
        T == IF TopId.static THEN SetStorageRefusedStatic(Spent(S, 1))
             ELSE SetStorage(Spent(S, 1), store, s, v)
    IN  /\ Running /\ ~Halted /\ s \in Slots
        /\ Step(T, IF T.stop THEN h
                   ELSE [h EXCEPT !.spec[s] = v, !.taint = IF Slips(s, v, T) THEN @ \cup {s} ELSE @])

\* t[k] = v, t the live table of a slot of the running contract.
Put(t, k, v) ==
    LET rest == Restrict(t[2], DOMAIN t[2] \ {k})
    IN  Table(IF v = Null THEN rest ELSE (k :> v) @@ rest)

Mutate(name, k, v) ==
    LET s == Mine(name)
        t == Put(S.live[s], k, v)
    IN  /\ Running /\ ~Halted /\ s \in Slots /\ S.live[s] # Null
        /\ Step([Spent(S, 1) EXCEPT !.live[s] = t],
                IF s \in h.taint THEN h ELSE [h EXCEPT !.spec[s] = t])

\* A call of another contract's API: plain, CSTATICCALL, delegate_call or send_message.
Call(kind, c) ==
    LET st == IF kind = "delegate" THEN TopId.store ELSE c
        T  == Spent(S, IF kind = "message" THEN 1 + ApiGas ELSE 1)
    IN  /\ Running /\ ~Halted /\ c \in deployed \cup tx.result.contracts
        /\ Len(frames) < MaxDepth
        /\ S' = [T EXCEPT !.ids = Append(@, Id(c, st, kind = "static"))]
        /\ frames' = Append(frames, Frame(kind, c, st))
        /\ UNCHANGED <<store, balances, deployed, tx, h>>

\* delegate_call of a contract that does not exist: an exception and a forced stop.
DelegateMissing ==
    /\ Running /\ ~Halted
    /\ Step([Throw(Spent(S, 1), "simple") EXCEPT !.force = TRUE], h)

\* A chain API call with bad arguments: an exception, and the script goes on.
ApiError == Running /\ ~Halted /\ Step(Throw(Spent(S, 1), "simple"), h)

\* error(), or any Lua runtime error.
LuaError == Running /\ ~Halted /\ RaiseTo(Throw(Spent(S, 1), "lvm"))

\* exit()
Exit == Running /\ ~Halted /\ Step([Throw(Spent(S, 1), "simple") EXCEPT !.force = TRUE], h)

Transfer(to, n) ==
    /\ Running /\ ~Halted
    /\ LET from == TopId.store
           enough == balances[from] + tx.result.money[from] >= n
           T == IF n <= 0 THEN Throw(Spent(S, 1), "simple") ELSE Spent(S, 1 + ApiGas)
       IN  /\ tx' = [tx EXCEPT !.result = IF n > 0 /\ enough THEN AddMoney(@, from, to, n) ELSE @]
           /\ S' = T
           /\ h' = Noted(T)
    /\ UNCHANGED <<store, balances, deployed, frames>>

Next ==
    \/ \E c \in Contracts : \/ \E deposit \in {0, 1} : Invoke(c, deposit)
                            \/ Create(c)
    \/ Unwind \/ Return \/ DelegateMissing \/ ApiError \/ LuaError \/ Exit
    \/ \E s \in Slots : \/ Get(s[2])
                        \/ \E v \in SetValues : Set(s[2], v)
                        \/ \E k \in Keys, v \in ItemValues : Mutate(s[2], k, v)
    \/ \E kind \in {"call", "static", "delegate", "message"}, c \in Contracts : Call(kind, c)
    \/ \E to \in Payees : Transfer(to, 1)

Spec == Init /\ [][Next]_vars

-----------------------------------------------------------------------------
(* Properties.                                                                *)

\* The lua_State, the frames and the evaluator's result keep their shape; the
\* gas counter never runs past the limit by more than the model's cap.
TypeOK ==
    /\ tx.status \in {"idle", "running", "ok", "failed"}
    /\ DOMAIN store = Slots /\ DOMAIN balances = Accounts /\ deployed \subseteq Contracts
    /\ S.gas \in 0..(GasLimit + 1) /\ S.code \in {"none", "simple", "lvm", "limit"}
    /\ (tx.status = "running") <=> (frames # <<>>)
    /\ Len(frames) <= MaxDepth

\* Between any two instructions of a running script with no exception pending,
\* reading a slot gives what the script last wrote there, whatever was called,
\* failed and undone in between; slots of the two known slips are excepted.
ReadYourWrites ==
    Running /\ ~S.err =>
        \A s \in Slots \ h.taint : View(S, store, s) = h.spec[s]

\* After a call that succeeds, the chain holds exactly what the script last
\* wrote to each slot, the changes made inside its tables included, and nothing
\* that a failed message wrote.
CommittedIsLastWritten ==
    tx.status = "ok" =>
        \A s \in Slots \ h.taint : store[s] = h.spec[s]

\* The contract-id stack, from which storage and balances are chosen, is the
\* stack of running functions, after every return, error and failed message.
StackMatches ==
    Running /\ ~S.err /\ ~h.swallowed =>
        /\ Len(S.ids) = Len(frames)
        /\ \A i \in DOMAIN frames : S.ids[i].id = frames[i].id /\ S.ids[i].store = frames[i].store

\* A call is recorded as a success only if no API raised an exception outside a
\* failed send_message (which may also swallow one that was pending before it).
SuccessIsClean == tx.status = "ok" => ~h.err \/ h.swallowed

\* Contract code, with or without failures, neither creates nor destroys money
\* and never takes an account below zero; a failed call moves none.
MoneyConserved ==
    /\ SumFunction(balances) = SumFunction([a \in Accounts |-> 1])
    /\ SumFunction(tx.result.money) = 0
    /\ \A a \in Accounts : balances[a] >= 0
    /\ tx.status = "failed" => balances = [a \in Accounts |-> 1]

=============================================================================
