------------------------------ MODULE SimpleChain ------------------------------
(***************************************************************************)
(* The node of simplechain: RPC submission of transactions, the mempool,   *)
(* and blockchain::generate_block, which walks the mempool and applies     *)
(* transactions one by one (blockchain.cpp, contract.cpp,                  *)
(* contract_evaluate.cpp, transfer_evaluate.cpp, chain_rpc.cpp).           *)
(*                                                                         *)
(* generate_block is one C++ call, but it is not all or nothing: an        *)
(* exception can leave it between any two writes to the chain.  It is      *)
(* therefore modelled one write at a time; `pc' says where the call is and *)
(* no RPC runs while it is not "idle" (the HTTP server has one worker).    *)
(*                                                                         *)
(* Contract execution is the deposit / withdraw part of the native         *)
(* exchange contract: books of user balances kept in contract storage and  *)
(* backed by the balance of the contract's own address.                    *)
(***************************************************************************)
EXTENDS Integers, Sequences, FiniteSets, SequencesExt

CONSTANTS
    Accounts,       \* ordinary addresses
    Contracts,      \* contract addresses ("CON..."): template key + second of creation
    AssetIds,       \* asset ids that may ever be registered
    CoreAsset,      \* the asset registered by the constructor
    PubKeys,        \* public keys
    TxIds,          \* transaction hashes; the nonce makes each one fresh
    Ops,            \* the operations clients submit in this instance
    MaxOps,         \* bound: operations per transaction
    MaxBlocks,      \* bound: blocks generated after the genesis block
    Pow64,          \* number of values of uint64_t (2^64 in the code)
    MaxSupply,      \* bound: total ever minted, and
    MaxHeld,        \* bound: what a contract holds when a block is begun (a refused deposit
                    \* is credited again each time), so that int64 balances do not overflow
    Rank,           \* the place of an address in the order of std::string: "CON..." comes
                    \* before "SPL...", but any string that is not empty is an address
    FcIsStd,        \* does fc::exception derive from std::exception? (fc is not in this tree)
    None            \* absent owner, admin or key

Addresses == Accounts \cup Contracts
Uint64    == 0 .. Pow64 - 1

Apis == {"init_config", "on_deposit_asset", "withdraw"}

Operation ==
  [kind : {"register"}, addr : Accounts, key : PubKeys]
  \cup [kind : {"mint"}, addr : Addresses, asset : AssetIds, amount : Uint64]
  \cup [kind : {"transfer"}, from : Addresses, to : Addresses,
        asset : AssetIds, amount : Uint64]
  \cup [kind : {"create"}, caller : Addresses, contract : Contracts, gas : BOOLEAN]
  \cup [kind : {"invoke"}, caller : Addresses, contract : Contracts, api : Apis,
        asset : AssetIds, amount : Uint64, deposit : Uint64, gas : BOOLEAN]

ASSUME ChainAssumption ==
  /\ Accounts \cap Contracts = {}
  /\ CoreAsset \in AssetIds
  /\ None \notin Addresses \cup PubKeys
  /\ Pow64 \in Nat \ {0}
  /\ MaxSupply \in Nat /\ MaxHeld \in Nat /\ MaxOps \in Nat /\ MaxBlocks \in Nat
  /\ Ops \subseteq Operation
  /\ Rank \in [Addresses -> Int]
  /\ FcIsStd \in BOOLEAN
  /\ IsFiniteSet(Addresses) /\ IsFiniteSet(TxIds)

VARIABLES
    assets,     \* ids of the registered assets
    pubkeys,    \* address_pubkeys
    balances,   \* account_balances; a missing entry behaves as 0
    contracts,  \* owner_address of each stored contract, None when there is none
    storage,    \* contract storage: state, admin and the users' books
    receipts,   \* tx_receipts: "none", or exec_succeed as "ok" / "failed"
    txs,        \* operations of each submitted transaction, <<>> before submission
    mempool,    \* tx_mempool
    blocks,     \* the chain, genesis block first
    pc,         \* where generate_block is
    it,         \* its iterator into the mempool
    validTxs,   \* its valid_txs
    opi,        \* index of the operation being applied
    todo        \* balance updates of that operation not yet written

chainVars == <<assets, pubkeys, balances, contracts, storage, receipts>>
poolVars  == <<txs, mempool, blocks>>
genVars   == <<pc, it, validTxs, opi, todo>>
vars      == <<chainVars, poolVars, genVars>>

----------------------------------------------------------------------------
(* Amounts are uint64_t in operations and int64_t in balance changes.      *)

ToInt64(u) == IF 2 * u >= Pow64 THEN u - Pow64 ELSE u

Change(addr, asset, delta) == [addr |-> addr, asset |-> asset, delta |-> delta]

(* native_contract_store::transfer_to_address on an empty result, as the   *)
(* map account_balances_changes, which is ordered by address: the smaller  *)
(* address is written first, whether debited or credited.  When both ends  *)
(* are the same address the credit overwrites the debit.                   *)
ContractTransfer(from, to, asset, amount) ==
  LET debit  == Change(from, asset, - ToInt64(amount))
      credit == Change(to, asset, ToInt64(amount))
  IN  IF from = to THEN <<credit>>
      ELSE IF Rank[from] < Rank[to] THEN <<debit, credit>>
      ELSE <<credit, debit>>

(* Variant that fails: the deposit is booked, its money is not moved.      *)
MutCallChanges(o) ==
  IF o.api = "withdraw"
    THEN ContractTransfer(o.contract, o.caller, o.asset, o.amount)
  ELSE <<>>

(* account_balances_changes left by a native contract call.                *)
CallChanges(o) ==
  IF o.api = "on_deposit_asset"
    THEN ContractTransfer(o.caller, o.contract, o.asset, o.deposit)
  ELSE IF o.api = "withdraw"
    THEN ContractTransfer(o.contract, o.caller, o.asset, o.amount)
  ELSE <<>>

(* contract_invoke_result::validate: per asset, what goes in covers what   *)
(* goes out.  A call moves one asset only.                                 *)
Validated(changes) ==
  \A i \in 1..Len(changes) :
    changes[i].delta > 0 =>
      \E j \in 1..Len(changes) : - changes[j].delta >= changes[i].delta

(* The native contract's own checks.                                       *)
ApiAccepts(o) ==
  LET s == storage[o.contract] IN
  CASE o.api = "init_config"      -> s.admin = o.caller /\ s.state = "NOT_INITED"
    [] o.api = "on_deposit_asset" -> s.state = "COMMON" /\ ToInt64(o.deposit) > 0
    [] o.api = "withdraw"         -> /\ s.state = "COMMON"
                                     /\ ToInt64(o.amount) > 0
                                     /\ ToInt64(o.amount) <= s.books[o.caller][o.asset]
                                     /\ o.asset \in assets

(* contract_invoke_evaluator::do_evaluate up to the gas check: only        *)
(* on_deposit_asset may carry a deposit, and it may not be called without. *)
CallSucceeds(o) ==
  /\ (o.deposit > 0) <=> (o.api = "on_deposit_asset")
  /\ o.deposit > 0 => o.asset \in assets
  /\ contracts[o.contract] # None
  /\ ApiAccepts(o)
  /\ Validated(CallChanges(o))

(* What evaluating an operation against the current chain does: "ok", a    *)
(* failed contract result that still enters the block ("failed"), or an    *)
(* exception of std ("std") or fc ("fc") kind out of the evaluator.        *)
Evaluate(o) ==
  CASE o.kind = "register" -> "ok"
    [] o.kind = "mint"     -> IF o.asset \in assets /\ o.amount > 0 THEN "ok" ELSE "std"
    [] o.kind = "transfer" ->
         IF /\ o.asset \in assets /\ o.amount > 0
            /\ o.from \notin Contracts /\ o.to \notin Contracts
            /\ balances[o.from][o.asset] >= ToInt64(o.amount)
         THEN "ok" ELSE "std"
    [] o.kind = "create"   -> IF o.gas THEN "ok" ELSE IF FcIsStd THEN "failed" ELSE "fc"
    [] o.kind = "invoke"   -> IF ~ CallSucceeds(o) THEN "failed"
                              ELSE IF o.gas THEN "ok" ELSE "std"

Throws(o) == Evaluate(o) \in {"std", "fc"}

(* The balance updates do_apply performs, in the order it performs them.   *)
Updates(o) ==
  CASE o.kind = "mint"     -> <<Change(o.addr, o.asset, ToInt64(o.amount))>>
    [] o.kind = "transfer" -> <<Change(o.to, o.asset, ToInt64(o.amount)),
                                Change(o.from, o.asset, - ToInt64(o.amount))>>
    [] o.kind = "invoke" /\ Evaluate(o) = "ok" -> CallChanges(o)
    [] OTHER               -> <<>>

(* Variant that fails: no guard.                                           *)
MutCanUpdate(c) == c.delta \in Int

(* The guard of blockchain::update_account_asset_balance.                  *)
CanUpdate(c) == c.delta > 0 \/ - c.delta <= balances[c.addr][c.asset]

----------------------------------------------------------------------------
Init ==
  /\ assets    = {CoreAsset}
  /\ pubkeys   = [a \in Accounts |-> None]
  /\ balances  = [a \in Addresses |-> [s \in AssetIds |-> 0]]
  /\ contracts = [c \in Contracts |-> None]
  /\ storage   = [c \in Contracts |->
                   [state |-> "none", admin |-> None,
                    books |-> [a \in Addresses |-> [s \in AssetIds |-> 0]]]]
  /\ receipts  = [t \in TxIds |-> "none"]
  /\ txs       = [t \in TxIds |-> <<>>]
  /\ mempool   = <<>>
  /\ blocks    = << <<>> >>
  /\ pc        = "idle"
  /\ it        = 1
  /\ validTxs  = <<>>
  /\ opi       = 1
  /\ todo      = <<>>

(* add_asset RPC: a symbol is registered once.                             *)
AddAsset(a) ==
  /\ pc = "idle"
  /\ a \notin assets
  /\ assets' = assets \cup {a}
  /\ UNCHANGED <<pubkeys, balances, contracts, storage, receipts, poolVars, genVars>>

TxOps == UNION { [1..n -> Ops] : n \in 1..MaxOps }

(* What the mint operations of a transaction create, all assets together   *)
(* or one asset alone.                                                     *)
MintOf(o)       == IF o.kind = "mint" THEN ToInt64(o.amount) ELSE 0
Minted(ops)     == SumFunction([i \in DOMAIN ops |-> MintOf(ops[i])])
SubmittedSupply == SumFunction([t \in TxIds |-> Minted(txs[t])])

(* The mint, transfer, register_account, create_native_contract and        *)
(* invoke_contract RPCs: the operations are evaluated one by one against   *)
(* the chain as it is, and the transaction is queued unless one throws.    *)
Submit(t, ops) ==
  /\ pc = "idle"
  /\ txs[t] = <<>>
  /\ \A i \in 1..Len(ops) : ~ Throws(ops[i])
  /\ SubmittedSupply + Minted(ops) <= MaxSupply
  /\ txs'     = [txs EXCEPT ![t] = ops]
  /\ mempool' = Append(mempool, t)
  /\ UNCHANGED <<chainVars, blocks, genVars>>

(* generate_block is called.                                               *)
StartBlock ==
  /\ pc = "idle"
  /\ Len(blocks) <= MaxBlocks
  /\ \A c \in Contracts, s \in AssetIds : balances[c][s] <= MaxHeld
  /\ pc'       = "scan"
  /\ it'       = 1
  /\ validTxs' = <<>>
  /\ UNCHANGED <<chainVars, poolVars, opi, todo>>

(* Variants that fail: the iterator does not move, or the first failing    *)
(* transaction ends the block.                                             *)
MutRaiseStuck(kind) ==
  todo' = <<>> /\ opi' = 1 /\ pc' = "scan" /\ UNCHANGED <<it, validTxs>>
MutRaiseQuits(kind) ==
  todo' = <<>> /\ opi' = 1 /\ pc' = "scan" /\ it' = Len(mempool) + 1 /\ UNCHANGED validTxs

(* Where an exception of the given kind leaves generate_block: its handler *)
(* catches std::exception and goes on with the next transaction; anything  *)
(* else ends the call, and valid_txs with it.                              *)
Raise(kind) ==
  /\ todo' = <<>>
  /\ opi'  = 1
  /\ \/ /\ kind = "std" \/ FcIsStd
        /\ pc' = "scan"
        /\ it' = it + 1
        /\ UNCHANGED validTxs
     \/ /\ kind = "fc" /\ ~ FcIsStd
        /\ pc' = "idle"
        /\ validTxs' = <<>>
        /\ UNCHANGED it

CurrentOps == txs[mempool[it]]

(* apply_transaction, first loop: every operation is evaluated against the *)
(* chain before any is applied.                                            *)
EvaluateTx ==
  /\ pc = "scan"
  /\ it <= Len(mempool)
  /\ \A i \in 1..Len(CurrentOps) : ~ Throws(CurrentOps[i])
  /\ pc'  = "apply"
  /\ opi' = 1
  /\ UNCHANGED <<chainVars, poolVars, it, validTxs, todo>>

EvaluateTxThrows ==
  /\ pc = "scan"
  /\ it <= Len(mempool)
  /\ \E i \in 1..Len(CurrentOps) :
       /\ Throws(CurrentOps[i])
       /\ \A j \in 1..(i - 1) : ~ Throws(CurrentOps[j])
       /\ Raise(Evaluate(CurrentOps[i]))
  /\ UNCHANGED <<chainVars, poolVars>>

(* apply_transaction, second loop: do_apply evaluates the operation again, *)
(* then writes.  A new contract is stored before any balance changes.      *)
ApplyOp ==
  /\ pc = "apply"
  /\ opi <= Len(CurrentOps)
  /\ LET o == CurrentOps[opi] IN
       /\ ~ Throws(o)
       /\ todo' = Updates(o)
       /\ contracts' = IF o.kind = "create" /\ Evaluate(o) = "ok"
                       THEN [contracts EXCEPT ![o.contract] = o.caller]
                       ELSE contracts
  /\ pc' = "update"
  /\ UNCHANGED <<assets, pubkeys, balances, storage, receipts, poolVars,
                 it, validTxs, opi>>

ApplyOpThrows ==
  /\ pc = "apply"
  /\ opi <= Len(CurrentOps)
  /\ Throws(CurrentOps[opi])
  /\ Raise(Evaluate(CurrentOps[opi]))
  /\ UNCHANGED <<chainVars, poolVars>>

(* blockchain::update_account_asset_balance, once per pending change.      *)
UpdateBalance ==
  /\ pc = "update"
  /\ todo # <<>>
  /\ LET c == Head(todo) IN
       /\ CanUpdate(c)
       /\ balances' = [balances EXCEPT ![c.addr][c.asset] = @ + c.delta]
  /\ todo' = Tail(todo)
  /\ UNCHANGED <<assets, pubkeys, contracts, storage, receipts, poolVars,
                 pc, it, validTxs, opi>>

(* Variant that fails: a refused update is skipped.                        *)
MutUpdateBalanceThrows ==
  /\ pc = "update"
  /\ todo # <<>>
  /\ ~ CanUpdate(Head(todo))
  /\ todo' = Tail(todo)
  /\ UNCHANGED <<chainVars, poolVars, pc, it, validTxs, opi>>

(* Its FC_ASSERT fails: the updates before this one stay.                  *)
UpdateBalanceThrows ==
  /\ pc = "update"
  /\ todo # <<>>
  /\ ~ CanUpdate(Head(todo))
  /\ Raise("fc")
  /\ UNCHANGED <<chainVars, poolVars>>

(* Storage after the contract call, by api.                                *)
CallStorage(o) ==
  CASE o.api = "init_config"      -> [storage EXCEPT ![o.contract].state = "COMMON"]
    [] o.api = "on_deposit_asset" ->
         [storage EXCEPT ![o.contract].books[o.caller][o.asset] = @ + ToInt64(o.deposit)]
    [] o.api = "withdraw"         ->
         [storage EXCEPT ![o.contract].books[o.caller][o.asset] = @ - ToInt64(o.amount)]

(* Variant that fails: a failed call leaves no receipt.                    *)
MutReceipt(o) ==
  IF o.kind \in {"create", "invoke"} /\ Evaluate(o) = "ok" THEN "ok"
  ELSE receipts[mempool[it]]

(* exec_succeed as apply_pendings leaves it in the transaction's receipt.  *)
Receipt(o) ==
  IF o.kind \notin {"create", "invoke"} THEN receipts[mempool[it]]
  ELSE IF Evaluate(o) = "ok" THEN "ok" ELSE "failed"

(* The rest of apply_pendings (storage, then the receipt), or of           *)
(* register_account; then the loop moves to the next operation.            *)
FinishOp ==
  /\ pc = "update"
  /\ todo = <<>>
  /\ LET o == CurrentOps[opi]
         ok == Evaluate(o) = "ok"
     IN /\ pubkeys' = IF o.kind = "register" THEN [pubkeys EXCEPT ![o.addr] = o.key]
                      ELSE pubkeys
        /\ storage' =
             IF o.kind = "create" /\ ok
               THEN [storage EXCEPT ![o.contract].state = "NOT_INITED",
                                    ![o.contract].admin = o.caller]
             ELSE IF o.kind = "invoke" /\ ok THEN CallStorage(o)
             ELSE storage
        /\ receipts' = [receipts EXCEPT ![mempool[it]] = Receipt(o)]
  /\ pc'  = "apply"
  /\ opi' = opi + 1
  /\ UNCHANGED <<assets, balances, contracts, poolVars, it, validTxs, todo>>

(* Variant that fails: the transaction is not erased from the mempool.     *)
MutIncludeTx ==
  /\ pc = "apply"
  /\ opi > Len(CurrentOps)
  /\ validTxs' = Append(validTxs, mempool[it])
  /\ it'       = it + 1
  /\ pc'       = "scan"
  /\ opi'      = 1
  /\ UNCHANGED <<chainVars, txs, mempool, blocks, todo>>

(* apply_transaction returned: the transaction moves to valid_txs.         *)
IncludeTx ==
  /\ pc = "apply"
  /\ opi > Len(CurrentOps)
  /\ validTxs' = Append(validTxs, mempool[it])
  /\ mempool'  = RemoveAt(mempool, it)
  /\ pc'       = "scan"
  /\ opi'      = 1
  /\ UNCHANGED <<chainVars, txs, blocks, it, todo>>

(* The end of the mempool: the block is sealed, even an empty one.         *)
SealBlock ==
  /\ pc = "scan"
  /\ it > Len(mempool)
  /\ blocks'   = Append(blocks, validTxs)
  /\ validTxs' = <<>>
  /\ pc'       = "idle"
  /\ UNCHANGED <<chainVars, txs, mempool, it, opi, todo>>

(* The rest of a call of generate_block.                                   *)
GenerateBlock ==
  \/ EvaluateTx \/ EvaluateTxThrows
  \/ ApplyOp \/ ApplyOpThrows
  \/ UpdateBalance \/ UpdateBalanceThrows
  \/ FinishOp \/ IncludeTx \/ SealBlock

Next ==
  \/ \E a \in AssetIds : AddAsset(a)
  \/ \E t \in TxIds, ops \in TxOps : Submit(t, ops)
  \/ StartBlock
  \/ GenerateBlock

Spec == Init /\ [][Next]_vars

(* Once called, generate_block runs to its end: it waits for nothing.      *)
FairSpec == Spec /\ WF_vars(GenerateBlock)

----------------------------------------------------------------------------
Status == {"none", "ok", "failed"}

(* Types of the node's state and of generate_block's locals.               *)
TypeOK ==
  /\ assets \in SUBSET AssetIds
  /\ pubkeys \in [Accounts -> PubKeys \cup {None}]
  /\ balances \in [Addresses -> [AssetIds -> Int]]
  /\ contracts \in [Contracts -> Addresses \cup {None}]
  /\ storage \in [Contracts -> [state : {"none", "NOT_INITED", "COMMON"},
                                admin : Addresses \cup {None},
                                books : [Addresses -> [AssetIds -> Int]]]]
  /\ receipts \in [TxIds -> Status]
  /\ txs \in [TxIds -> Seq(Ops)]
  /\ mempool \in Seq(TxIds)
  /\ blocks \in Seq(Seq(TxIds))
  /\ pc \in {"idle", "scan", "apply", "update"}
  /\ it \in Nat \ {0}
  /\ validTxs \in Seq(TxIds)
  /\ opi \in Nat \ {0}
  /\ todo \in Seq([addr : Addresses, asset : AssetIds, delta : Int])

(* No sequence of legal calls takes an account, a contract or a user's     *)
(* book of a contract below zero, although update_account_asset_balance    *)
(* and withdraw check at different times from when the money moves.        *)
NonNegative ==
  /\ \A a \in Addresses, s \in AssetIds : balances[a][s] >= 0
  /\ \A c \in Contracts, a \in Addresses, s \in AssetIds : storage[c].books[a][s] >= 0

(* Between two transactions: no apply_transaction is under way.            *)
BetweenTxs == pc \in {"idle", "scan"}

(* The blocks and, last, the block being built; the transactions in them.  *)
Ledger   == Append(blocks, validTxs)
Included == UNION { ToSet(Ledger[b]) : b \in DOMAIN Ledger }

(* The mempool and the blocks: every queue that may hold a transaction.    *)
Queue(b) == IF b = 0 THEN mempool ELSE Ledger[b]

(* A transaction accepted by an RPC is in the mempool or in the chain, and *)
(* once: the erase in generate_block and the push to valid_txs stay in     *)
(* step, and a failing neighbour never makes generate_block drop it.       *)
NoTxTwice ==
  \A b, c \in 0..Len(Ledger) :
    \A i \in DOMAIN Queue(b), j \in DOMAIN Queue(c) :
      Queue(b)[i] = Queue(c)[j] => b = c /\ i = j

EachTxOnce ==
  /\ NoTxTwice
  /\ \A t \in TxIds : txs[t] # <<>> => \E b \in 0..Len(Ledger) : t \in ToSet(Queue(b))

(* What operations mint of an asset to accounts, what the included         *)
(* transactions have minted to them, what the accounts hold, and what the  *)
(* books of a contract, or of all contracts, come to.                      *)
MintedIn(ops, s) ==
  SumFunction([i \in DOMAIN ops |->
     IF ops[i].kind = "mint" /\ ops[i].addr \in Accounts /\ ops[i].asset = s
     THEN ToInt64(ops[i].amount) ELSE 0])
IncludedMint(s) ==
  SumFunction([t \in TxIds |-> IF t \in Included THEN MintedIn(txs[t], s) ELSE 0])
Held(s)    == SumFunction([a \in Accounts |-> balances[a][s]])
Owed(c, s) == SumFunction([a \in Addresses |-> storage[c].books[a][s]])
Booked(s)  == SumFunction([c \in Contracts |-> Owed(c, s)])

(* Between transactions what accounts hold and what contracts owe in their *)
(* books add up to what the included transactions minted: wherever a       *)
(* transaction failed, nobody has gained or lost a claim to money.  The    *)
(* balance of a contract itself does not count: the credit of a deposit    *)
(* is written before the caller's debit is refused, and stays, at every    *)
(* block again, so that all balances may add up to more than was minted.   *)
ClaimsConserved ==
  BetweenTxs => \A s \in AssetIds : Held(s) + Booked(s) = IncludedMint(s)

(* Between transactions the chain balance of a contract covers the books   *)
(* it keeps for its users, so every one of them can withdraw: the native   *)
(* contract writes its books, the evaluator moves the money, separately.   *)
Solvency ==
  BetweenTxs => \A c \in Contracts, s \in AssetIds : balances[c][s] >= Owed(c, s)

CallsContract(ops) == \E i \in 1..Len(ops) : ops[i].kind \in {"create", "invoke"}

(* Between transactions a receipt exists exactly for the included          *)
(* transactions that create or call a contract.                            *)
ReceiptsMatchChain ==
  BetweenTxs =>
    \A t \in TxIds : (receipts[t] # "none") <=> (t \in Included /\ CallsContract(txs[t]))

(* Every call of generate_block returns, whatever the mempool holds.       *)
GenerateBlockReturns == (pc # "idle") ~> (pc = "idle")

(* A mint that was in the mempool when generate_block started is in the    *)
(* chain when it is done: transactions that fail in front of it, at        *)
(* evaluation or halfway through their updates, do not hold it up.         *)
ValidTxIncluded ==
  \A t \in TxIds :
    (/\ pc = "scan" /\ it = 1 /\ t \in ToSet(mempool)
     /\ Len(txs[t]) = 1 /\ txs[t][1].kind = "mint" /\ txs[t][1].amount < Pow64 \div 2)
      ~> (t \in Included)
================================================================================
