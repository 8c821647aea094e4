------------------------------ MODULE ChainRpc ------------------------------
(* The RPC server of a node (rpcserver.cpp, chain_rpc.cpp) over the chain it   *)
(* serves (blockchain.cpp) and the debugger session it keeps                   *)
(* (contract_evaluate.cpp, uvm_contract_engine.cpp, blockchain.cpp).           *)
(*                                                                             *)
(* One worker thread handles one request at a time, so a request is one step.  *)
(* The exceptions that can leave generate_block between two writes are         *)
(* SimpleChain's subject and do not occur here: a creation is given gas enough. *)
(* A transaction has one operation.  A contract's API is the sequence of the   *)
(* instructions it executes, each with its source line, its depth of calls,    *)
(* its gas and what it writes; LuaVM is the instruction set, UvmContract the   *)
(* storage and money of a call.                                                *)
EXTENDS Integers, Sequences, FiniteSets, SequencesExt, FiniteSetsExt

CONSTANTS
    Accounts,   \* account addresses
    Contracts,  \* contract addresses
    Apis,       \* names of contract APIs; "init" runs when a contract is created
    Program,    \* api to sequence of [line, depth, cost, slot, value]
    Gases,      \* gas limits of invocations
    Plenty,     \* 10000000, the limit of an offline invocation
    Lines,      \* lines requests set breakpoints on
    Slots,      \* storage slots of a contract
    Values,     \* values of a slot
    Amounts,    \* amounts requests name
    AssetIds,   \* 0 .. n; 0 is the core asset of the constructor
    MaxTxs,     \* bound on transactions made
    Loads,      \* arguments of load_contract_state: sequences of entries
    MaxBlocks,  \* bound on blocks
    MaxRuns,    \* bound on the history of runs and loads
    None

ASSUME RpcAssumption ==
    /\ "init" \in Apis /\ 0 \in AssetIds
    /\ \A a \in Apis : Len(Program[a]) > 0
    /\ FoldLeft(LAMBDA gas, i : gas + i.cost, 0, Program["init"]) <= Plenty
    /\ \A a \in Apis : Last(Program[a]).cost = 1
    /\ None \notin Values

VARIABLES
    assets,      \* number of registered assets: their ids are 0 .. assets - 1
    pubkeys,     \* accounts with a registered key
    balances,    \* account_balances; a missing entry is 0
    contracts,   \* stored contracts
    storage,     \* contract_storages: slot to value, None where absent
    receipts,    \* tx_receipts of contract operations: exec_succeed, None where absent
    txs,         \* the operations of the transactions made; their nonces make each one new
    mempool,     \* tx_mempool, by their place in txs
    blocks,      \* transactions of each block, the genesis block first
    breakpoints, \* the chain's own breakpoints: contract to lines
    engine,      \* last_contract_engine_for_debugger, None when there is none
    code,        \* error_code of the last response: 0 or 100
    ran          \* history: contract runs and loads that reached the chain

chainVars == <<assets, pubkeys, balances, contracts, storage, receipts, blocks>>
vars == <<chainVars, txs, mempool, breakpoints, engine, code, ran>>

NoSlots == [s \in Slots |-> None]
NoBreakpoints == [c \in Contracts |-> {}]

Init ==
    /\ assets = 1 /\ pubkeys = {} /\ contracts = {}
    /\ balances = [a \in Accounts \cup Contracts |-> [i \in AssetIds |-> 0]]
    /\ storage = [c \in Contracts |-> NoSlots]
    /\ receipts = [t \in 1..MaxTxs |-> None] /\ txs = <<>>
    /\ mempool = <<>> /\ blocks = << <<>> >>
    /\ breakpoints = NoBreakpoints /\ engine = None
    /\ code = 0 /\ ran = <<>>

-----------------------------------------------------------------------------
(* A run of a contract in an engine.  pc is the instruction to execute next,   *)
(* gas what the limit leaves; live holds what the run wrote, which is committed *)
(* when the API returns.                                                       *)

Line(r)  == IF r.pc > Len(Program[r.api]) THEN 0 ELSE Program[r.api][r.pc].line
Depth(r) == IF r.pc > Len(Program[r.api]) THEN 0 ELSE Program[r.api][r.pc].depth
Over(r)  == r.pc > Len(Program[r.api])
Ended(r) == Over(r) \/ r.state = "limit"

\* A new engine copies the breakpoints get_breakpoints_in_last_debugger_state
\* returns: the chain's own, since the last engine has just been dropped.
Started(o) ==
    [contract |-> o.contract, api |-> o.api, pc |-> 1, gas |-> o.gas, live |-> NoSlots, state |-> "none",
     breaks |-> breakpoints[o.contract], passed |-> {}]

\* An instruction that calls the host may use more gas than is left; the next
\* one is then not executed.
OutOfGas(r) == r.gas < 1
Execute(r) ==
    LET i == Program[r.api][r.pc]
    IN  [r EXCEPT !.pc = @ + 1, !.gas = @ - i.cost, !.live = IF i.slot = None THEN @ ELSE [@ EXCEPT ![i.slot] = i.value]]

\* Whether a command goes on at a line and depth no breakpoint stops it at.
GoesOn(cmd, r, from) ==
    CASE cmd \in {"start", "resume"} -> TRUE
      [] cmd = "into" -> Depth(r) <= from.depth /\ Line(r) = from.line
      [] cmd = "over" -> Depth(r) > from.depth \/ Line(r) = from.line
      [] cmd = "out"  -> Depth(r) >= from.depth

\* Mutant of Hits: a command skips the functions called where it started.
HitsShallow(r, from) == Line(r) \in r.breaks /\ (from.depth > 0 => Depth(r) <= from.depth)
Hits(r, from) == Line(r) \in r.breaks

\* executeToNextOp until the command is over.  The line a command starts from
\* after a break is skipped; the end of the code is a fault for the step
\* commands.  `passed' is a history: lines with a breakpoint gone through.
RECURSIVE Go(_, _, _)
Go(r, cmd, from) ==
    LET n    == Execute(r)
        hit  == Hits(n, from)
        skip == hit /\ from.broke /\ Line(n) = from.line
        seen == [n EXCEPT !.passed = IF Line(n) \in n.breaks /\ Line(n) # from.line THEN @ \cup {Line(n)} ELSE @]
    IN  IF OutOfGas(r) THEN [r EXCEPT !.state = "limit"]
        ELSE IF Over(n) THEN [n EXCEPT !.state = IF cmd \in {"start", "resume"} THEN "none" ELSE "fault"]
        ELSE IF hit /\ ~skip THEN [n EXCEPT !.state = "break"]
        ELSE IF GoesOn(cmd, n, from) THEN Go(seen, cmd, from)
        ELSE [n EXCEPT !.state = IF skip /\ cmd = "into" THEN "none" ELSE "suspend"]

From(r) == [line |-> Line(r), depth |-> Depth(r), broke |-> r.state = "break"]
Evaluated(o) == Go(Started(o), "start", [line |-> 0, depth |-> 0, broke |-> FALSE])

-----------------------------------------------------------------------------
(* Operations.  A node n is the part of the chain an operation is applied to.  *)

Node == [assets |-> assets, pubkeys |-> pubkeys, balances |-> balances, contracts |-> contracts,
         storage |-> storage, receipts |-> receipts, engine |-> engine, ran |-> ran]

Register(a)             == [kind |-> "register", addr |-> a]
MintTo(a, i, n)         == [kind |-> "mint", addr |-> a, asset |-> i, amount |-> n]
Move(a, b, i, n)        == [kind |-> "transfer", from |-> a, to |-> b, asset |-> i, amount |-> n]
CreateOf(c)             == [kind |-> "create", contract |-> c, api |-> "init", gas |-> Plenty]
Call(c, api, gas)       == [kind |-> "invoke", contract |-> c, api |-> api, gas |-> gas]
IsContractOp(o)         == o.kind \in {"create", "invoke"}

\* What evaluating does: it throws, or it answers with a result.  A contract that
\* is not there, an API that may not be called directly and a run without gas are
\* answered with a failure.  What an invocation asserts is thrown: that the
\* address is a contract's, and that a run, one stopped at a breakpoint right
\* after an expensive call too, has kept to its gas.
Starts(n, o) == o.kind = "create" \/ (o.gas > 0 /\ o.contract \in n.contracts /\ o.api # "init")
Overspent(r) == r.state = "break" /\ r.gas < 0
Throws(n, o) ==
    CASE o.kind = "register" -> FALSE
      [] o.kind = "mint"     -> o.asset >= n.assets \/ o.amount <= 0
      [] o.kind = "transfer" -> \/ o.asset >= n.assets \/ o.amount <= 0
                                \/ o.to \in Contracts \/ n.balances[o.from][o.asset] < o.amount
      [] o.kind = "create"   -> FALSE
      [] o.kind = "invoke"   -> o.contract \notin Contracts \/ (Starts(n, o) /\ Overspent(Evaluated(o)))
Succeeds(n, o) == Starts(n, o) /\ Evaluated(o).state # "limit"

\* do_evaluate of a contract operation: the last engine is dropped first, also
\* by an operation that throws, and the new one is kept when its run was stopped.
\* A stopped run counts as a success, without its storage changes.
EngineAfter(n, o) ==
    IF ~IsContractOp(o) THEN n.engine
    ELSE IF ~Starts(n, o) THEN None
    ELSE LET r == Evaluated(o) IN IF r.state = "break" /\ ~Overspent(r) THEN r ELSE None
Evaluate(n, o) == [n EXCEPT !.engine = EngineAfter(n, o)]

\* Mutant of Changes: what a stopped run wrote so far is committed.
ChangesOfStopped(r) == r.live
Changes(r) == IF r.state = "break" THEN NoSlots ELSE r.live

Overlay(old, new) == [s \in Slots |-> IF new[s] = None THEN old[s] ELSE new[s]]
Pay(b, a, i, n) == [b EXCEPT ![a] = [@ EXCEPT ![i] = @ + n]]

\* apply(): do_apply, that is do_evaluate once more and the result's changes.
ApplyContract(n, o) ==
    LET r  == Evaluated(o)
    IN  IF ~Succeeds(n, o) THEN [n EXCEPT !.engine = None]
        ELSE [n EXCEPT !.engine = EngineAfter(n, o),
                       !.contracts = IF o.kind = "create" THEN @ \cup {o.contract} ELSE @,
                       !.storage = [@ EXCEPT ![o.contract] = Overlay(@, Changes(r))],
                       !.ran = Append(@, [contract |-> o.contract, api |-> o.api, whole |-> r.state # "break"])]
Apply(n, o) ==
    CASE o.kind = "register" -> [n EXCEPT !.pubkeys = @ \cup {o.addr}]
      [] o.kind = "mint"     -> [n EXCEPT !.balances = Pay(@, o.addr, o.asset, o.amount)]
      [] o.kind = "transfer" -> [n EXCEPT !.balances = Pay(Pay(@, o.to, o.asset, o.amount), o.from, o.asset, - o.amount)]
      [] OTHER               -> ApplyContract(n, o)
Receipt(n, t, o) == IF IsContractOp(o) THEN [n EXCEPT !.receipts[t] = Succeeds(n, o)] ELSE n

\* generate_block: what throws stays in the mempool, everything else is applied
\* in order.
Block(n) == FoldLeft(LAMBDA b, t :
                IF Throws(b.node, txs[t])
                THEN [b EXCEPT !.node = Evaluate(@, txs[t]), !.left = Append(@, t)]
                ELSE [b EXCEPT !.node = Receipt(Apply(Evaluate(@, txs[t]), txs[t]), t, txs[t]),
                               !.taken = Append(@, t)],
                [node |-> n, taken |-> <<>>, left |-> <<>>], mempool)

Becomes(n) ==
    /\ assets' = n.assets /\ pubkeys' = n.pubkeys /\ balances' = n.balances /\ contracts' = n.contracts
    /\ storage' = n.storage /\ receipts' = n.receipts /\ engine' = n.engine /\ ran' = n.ran

-----------------------------------------------------------------------------
(* Requests which make a transaction.                                          *)

Answer(c) == code' = c
ChainStays == UNCHANGED <<chainVars, ran>>

\* Mutant of Submit: the transaction is queued before it is evaluated.
SubmitFirst(o) ==
    /\ Len(txs) < MaxTxs
    /\ txs' = Append(txs, o) /\ mempool' = Append(mempool, Len(txs'))
    /\ Answer(IF Throws(Node, o) THEN 100 ELSE 0)
    /\ engine' = Evaluate(Node, o).engine
    /\ ChainStays /\ UNCHANGED breakpoints
\* evaluate_transaction and, unless it throws, accept_transaction_to_mempool.
\* The result of the evaluation does not matter.
Submit(o) ==
    /\ Len(txs) < MaxTxs
    /\ IF Throws(Node, o) THEN Answer(100) /\ UNCHANGED <<txs, mempool>>
       ELSE Answer(0) /\ txs' = Append(txs, o) /\ mempool' = Append(mempool, Len(txs'))
    /\ engine' = Evaluate(Node, o).engine
    /\ ChainStays /\ UNCHANGED breakpoints

RegisterAccount == \E a \in Accounts : Submit(Register(a))
Mint            == \E a \in Accounts, i \in AssetIds, n \in Amounts : Submit(MintTo(a, i, n))
Transfer        == \E a \in Accounts, b \in Accounts \cup Contracts, n \in Amounts : Submit(Move(a, b, 0, n))
CreateContract  == \E c \in Contracts : Submit(CreateOf(c))
Addressed       == Contracts \cup Accounts
InvokeContract  == \E c \in Addressed, api \in Apis, gas \in Gases : Submit(Call(c, api, gas))

\* invoke_contract_offline and debugger_invoke_contract evaluate a call and
\* forget its transaction.
EvaluateOnly(gas) ==
    /\ \E c \in Addressed, api \in Apis :
          LET o == Call(c, api, gas)
          IN  Answer(IF Throws(Node, o) THEN 100 ELSE 0) /\ engine' = Evaluate(Node, o).engine
    /\ ChainStays /\ UNCHANGED <<txs, mempool, breakpoints>>
InvokeContractOffline  == EvaluateOnly(Plenty)
DebuggerInvokeContract == \E gas \in Gases : EvaluateOnly(gas)

-----------------------------------------------------------------------------
(* Requests which change the chain.                                            *)

AddAsset ==
    /\ assets \in AssetIds /\ Answer(0) /\ assets' = assets + 1
    /\ UNCHANGED <<pubkeys, balances, contracts, storage, receipts, blocks, txs, mempool, breakpoints, engine, ran>>

GenerateBlock ==
    /\ Len(blocks) < MaxBlocks /\ Answer(0)
    /\ LET b == Block(Node)
       IN  Becomes(b.node) /\ mempool' = b.left /\ blocks' = Append(blocks, b.taken)
    /\ UNCHANGED <<txs, breakpoints>>

\* load_contract_state: balances first, then storages.  A balance change that
\* update_account_asset_balance refuses ends it, and what was written stays.
Refused(n, c, e) == e.kind = "balance" /\ n.balances[c][e.asset] + e.amount < 0
LoadEntry(n, c, e) ==
    IF e.kind = "balance" THEN [n EXCEPT !.balances = Pay(@, c, e.asset, e.amount)]
    ELSE [n EXCEPT !.storage = [@ EXCEPT ![c] = [@ EXCEPT ![e.slot] = e.value]],
                   !.ran = Append(@, [contract |-> c, slot |-> e.slot, value |-> e.value])]
Loaded(n, c, es) ==
    FoldLeft(LAMBDA l, e : IF l.failed \/ Refused(l.node, c, e) THEN [l EXCEPT !.failed = TRUE]
                           ELSE [l EXCEPT !.node = LoadEntry(@, c, e)],
             [node |-> n, failed |-> FALSE], es)
\* The handler catches the exception itself: the response has error code 0 and
\* exec_succeed false.
LoadContractState ==
    /\ Len(ran) < MaxRuns /\ Answer(0)
    /\ \E c \in Contracts, es \in Loads : Becomes(Loaded(Node, c, es).node)
    /\ UNCHANGED <<txs, mempool, blocks, breakpoints>>

\* load_new_contract_from_json stores a contract without running its init.
LoadNewContract ==
    /\ Answer(0) /\ \E c \in Contracts : contracts' = contracts \cup {c}
    /\ UNCHANGED <<assets, pubkeys, balances, storage, receipts, blocks, txs, mempool, breakpoints, engine, ran>>

-----------------------------------------------------------------------------
(* The debugger.                                                               *)

\* get_breakpoints_in_last_debugger_state: the engine's copy when one is kept,
\* until the next evaluation drops it.
GetBreakpoints(c) ==
    IF engine = None THEN breakpoints[c] ELSE IF engine.contract = c THEN engine.breaks ELSE breakpoints[c]

ChangeBreakpoints(c, lines) ==
    /\ Answer(0)
    /\ IF engine = None THEN breakpoints' = [breakpoints EXCEPT ![c] = lines] /\ UNCHANGED engine
       ELSE engine' = (IF engine.contract = c THEN [engine EXCEPT !.breaks = lines] ELSE engine)
            /\ UNCHANGED breakpoints
    /\ ChainStays /\ UNCHANGED <<txs, mempool>>
SetBreakpoint    == \E c \in Contracts, l \in Lines : ChangeBreakpoints(c, GetBreakpoints(c) \cup {l})
RemoveBreakpoint == \E c \in Contracts, l \in Lines : ChangeBreakpoints(c, GetBreakpoints(c) \ {l})
ClearBreakpoints ==
    /\ Answer(0) /\ breakpoints' = NoBreakpoints
    /\ engine' = IF engine = None THEN None ELSE [engine EXCEPT !.breaks = {}]
    /\ ChainStays /\ UNCHANGED <<txs, mempool>>

\* A command does nothing without an engine, or after a fault.  A command on a
\* run that has returned is not modelled: it executes a frame that is gone; nor
\* one on a run without gas.
Command(cmd) ==
    /\ Answer(0)
    /\ engine # None /\ ~Ended(engine)
    /\ engine' = Go([engine EXCEPT !.passed = {}], cmd, From(engine))
    /\ ChainStays /\ UNCHANGED <<txs, mempool, breakpoints>>
DebuggerGoResume == Command("resume")
DebuggerStepInto == Command("into")
DebuggerStepOver == Command("over")
DebuggerStepOut  == Command("out")

\* What view_current_contract_storage_value answers.
ViewStorageValue(s) ==
    IF engine = None THEN None
    ELSE IF engine.live[s] # None THEN engine.live[s] ELSE storage[engine.contract][s]

\* An unknown method or a body that is no request is answered with HTTP 400, a
\* handler which throws (a parameter missing or of the wrong type) with code 100.
BadRequest == Answer(100) /\ ChainStays /\ UNCHANGED <<txs, mempool, breakpoints, engine>>

Next ==
    \/ RegisterAccount \/ Mint \/ Transfer \/ CreateContract \/ InvokeContract
    \/ InvokeContractOffline \/ DebuggerInvokeContract
    \/ AddAsset \/ GenerateBlock \/ LoadContractState \/ LoadNewContract
    \/ SetBreakpoint \/ RemoveBreakpoint \/ ClearBreakpoints
    \/ DebuggerGoResume \/ DebuggerStepInto \/ DebuggerStepOver \/ DebuggerStepOut
    \/ BadRequest

Spec == Init /\ [][Next]_vars

-----------------------------------------------------------------------------
(* Properties.                                                                 *)

\* Last value an API writes to a slot with its first n instructions.
Written(api, n, s) ==
    LET at == {i \in 1..n : Program[api][i].slot = s}
    IN  IF at = {} THEN None ELSE Program[api][Max(at)].value

\* The storage of a contract is what its whole runs and the loads of its state
\* wrote, in the order they reached the chain.  A run a breakpoint stopped in
\* the middle (generate_block stops at breakpoints too) leaves nothing behind,
\* and neither do the commands which finish it in the debugger.
StorageOfWholeRuns ==
    \A c \in Contracts, s \in Slots :
        storage[c][s] = FoldLeft(LAMBDA v, r :
            IF r.contract # c THEN v
            ELSE IF "slot" \in DOMAIN r THEN (IF r.slot = s THEN r.value ELSE v)
            ELSE LET w == IF r.whole THEN Written(r.api, Len(Program[r.api]), s) ELSE None
                 IN  IF w = None THEN v ELSE w,
            None, ran)

\* A command of the debugger goes past no line that has a breakpoint, however
\* deep in calls, but for the line it starts from.
NoBreakpointMissed == engine # None => engine.passed = {}

\* What the debugger shows of a slot is what the run, across all the commands
\* so far, wrote to it last, or else what the chain holds now.
ShowsLastWritten ==
    engine # None => \A s \in Slots :
        LET w == Written(engine.api, engine.pc - 1, s)
        IN  ViewStorageValue(s) = IF w = None THEN storage[engine.contract][s] ELSE w

\* What the chain stores and what the debugger shows follow the runs.
StorageFollowsRuns == StorageOfWholeRuns /\ ShowsLastWritten

\* A request answered with an error changes neither the chain nor the mempool nor
\* the breakpoints of either kind; the session of the debugger is dropped by an
\* invocation that is refused, and by no other request.  (load_contract_state
\* answers without an error when it fails in the middle.)
RefusedChangesNothing ==
    [][code' = 100 =>
          /\ UNCHANGED <<chainVars, txs, mempool, breakpoints, ran>>
          /\ engine' # engine =>
                engine' = None /\ (InvokeContract \/ InvokeContractOffline \/ DebuggerInvokeContract)]_vars
==============================================================================
