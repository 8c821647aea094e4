--------------------------- MODULE SimpleChainProofs ---------------------------
(***************************************************************************)
(* Invariance proofs for SimpleChain: typing; no balance and no book ever  *)
(* goes below zero; no transaction is queued twice or lost; receipts tell  *)
(* what the ledger holds; a contract can pay what its books owe; money     *)
(* comes from included mints only.                                         *)
(***************************************************************************)
EXTENDS SimpleChain, Sums, SequenceTheorems, TLAPS

(* generate_block's iterators are in range while a transaction is applied. *)
CursorOK ==
  /\ pc \in {"apply", "update"} => it <= Len(mempool)
  /\ pc = "update" => opi <= Len(CurrentOps)

ChainInv == TypeOK /\ CursorOK

Changes == [addr : Addresses, asset : AssetIds, delta : Int]

(* Erasing one element leaves a sequence over the same set, one shorter.   *)
LEMMA RemoveAtType ==
  ASSUME NEW S, NEW s \in Seq(S), NEW i \in 1..Len(s)
  PROVE  RemoveAt(s, i) \in Seq(S) /\ Len(RemoveAt(s, i)) = Len(s) - 1
<1> DEFINE front == SubSeq(s, 1, i - 1)
           back  == SubSeq(s, i + 1, Len(s))
<1>1. front \in Seq(S) /\ Len(front) = i - 1
  BY SubSeqProperties, LenProperties
<1>2. back \in Seq(S) /\ Len(back) = Len(s) - i
  BY SubSeqProperties, LenProperties
<1>3. RemoveAt(s, i) = front \o back
  BY DEF RemoveAt
<1> HIDE DEF front, back
<1>4. front \o back \in Seq(S) /\ Len(front \o back) = Len(front) + Len(back)
  BY <1>1, <1>2, ConcatProperties, Zenon
<1>5. Len(s) \in Nat
  BY LenProperties
<1>6. QED
  BY <1>1, <1>2, <1>3, <1>4, <1>5

(* The uint64_t to int64_t conversion yields an integer.                   *)
LEMMA ToInt64Type ==
  ASSUME NEW u \in Uint64
  PROVE  ToInt64(u) \in Int
BY ChainAssumption DEF ToInt64, Uint64

(* What an operation record holds, by kind.                                *)
LEMMA OpFields ==
  ASSUME NEW o \in Ops
  PROVE  /\ o.kind \in {"register", "mint", "transfer", "create", "invoke"}
         /\ o.kind = "register" => o.addr \in Accounts /\ o.key \in PubKeys
         /\ o.kind = "mint" => o.addr \in Addresses /\ o.asset \in AssetIds /\ o.amount \in Uint64
         /\ o.kind = "transfer" => /\ o.from \in Addresses /\ o.to \in Addresses
                                   /\ o.asset \in AssetIds /\ o.amount \in Uint64
         /\ o.kind = "create" => o.caller \in Addresses /\ o.contract \in Contracts
         /\ o.kind = "invoke" => /\ o.caller \in Addresses /\ o.contract \in Contracts
                                 /\ o.api \in Apis /\ o.asset \in AssetIds
                                 /\ o.amount \in Uint64 /\ o.deposit \in Uint64
BY ChainAssumption DEF Operation

(* The balance updates of an operation are well formed.                    *)
LEMMA UpdatesType ==
  ASSUME NEW o \in Ops
  PROVE  Updates(o) \in Seq(Changes)
<1>0. /\ << >> \in Seq(Changes)
      /\ \A x \in Changes : <<x>> \in Seq(Changes)
      /\ \A x, y \in Changes : <<x, y>> \in Seq(Changes)
  OBVIOUS
<1>1. ASSUME NEW f \in Addresses, NEW t \in Addresses, NEW s \in AssetIds, NEW n \in Uint64
      PROVE  ContractTransfer(f, t, s, n) \in Seq(Changes)
  <2>1. ToInt64(n) \in Int
    BY ToInt64Type
  <2>2. Change(f, s, - ToInt64(n)) \in Changes /\ Change(t, s, ToInt64(n)) \in Changes
    BY <2>1 DEF Change, Changes
  <2>3. QED
    BY <1>0, <2>2 DEF ContractTransfer
<1>2. CASE o.kind = "mint"
  <2>1. Change(o.addr, o.asset, ToInt64(o.amount)) \in Changes
    BY <1>2, OpFields, ToInt64Type DEF Change, Changes
  <2>2. QED
    BY <1>0, <1>2, <2>1 DEF Updates
<1>3. CASE o.kind = "transfer"
  <2>1. /\ Change(o.to, o.asset, ToInt64(o.amount)) \in Changes
        /\ Change(o.from, o.asset, - ToInt64(o.amount)) \in Changes
    BY <1>3, OpFields, ToInt64Type DEF Change, Changes
  <2>2. QED
    BY <1>0, <1>3, <2>1 DEF Updates
<1>4. CASE o.kind = "invoke"
  <2>1. CallChanges(o) \in Seq(Changes)
    <3>1. /\ ContractTransfer(o.caller, o.contract, o.asset, o.deposit) \in Seq(Changes)
          /\ ContractTransfer(o.contract, o.caller, o.asset, o.amount) \in Seq(Changes)
      BY <1>4, <1>1, OpFields DEF Addresses
    <3>2. QED
      BY <1>0, <3>1 DEF CallChanges
  <2>2. QED
    BY <1>0, <1>4, <2>1 DEF Updates
<1>5. CASE o.kind \in {"register", "create"}
  BY <1>0, <1>5 DEF Updates
<1>6. QED
  BY <1>2, <1>3, <1>4, <1>5, OpFields

Contract == [state : {"none", "NOT_INITED", "COMMON"}, admin : Addresses \cup {None},
             books : [Addresses -> [AssetIds -> Int]]]

(* A contract call keeps the storage well formed.                          *)
LEMMA CallStorageType ==
  ASSUME storage \in [Contracts -> Contract], NEW o \in Ops, o.kind = "invoke"
  PROVE  CallStorage(o) \in [Contracts -> Contract]
<1>1. /\ o.caller \in Addresses /\ o.contract \in Contracts /\ o.asset \in AssetIds
      /\ o.api \in Apis
      /\ ToInt64(o.deposit) \in Int /\ ToInt64(o.amount) \in Int
  BY OpFields, ToInt64Type
<1> DEFINE books == storage[o.contract].books
           book  == books[o.caller]
<1>2. CASE o.api = "init_config"
  BY <1>1, <1>2 DEF CallStorage, Contract
<1>3. ASSUME NEW n \in Int
      PROVE  [storage EXCEPT ![o.contract].books[o.caller][o.asset] = n]
               \in [Contracts -> Contract]
  <2>1. [book EXCEPT ![o.asset] = n] \in [AssetIds -> Int]
    BY <1>1 DEF Contract
  <2>2. [books EXCEPT ![o.caller] = [book EXCEPT ![o.asset] = n]]
          \in [Addresses -> [AssetIds -> Int]]
    BY <1>1, <2>1 DEF Contract
  <2>3. QED
    BY <1>1, <2>2, ZenonT(60) DEF Contract
<1>4. book[o.asset] \in Int
  BY <1>1 DEF Contract
<1>5. CASE o.api = "on_deposit_asset"
  BY <1>1, <1>3, <1>4, <1>5, SMTT(60) DEF CallStorage
<1>6. CASE o.api = "withdraw"
  BY <1>1, <1>3, <1>4, <1>6, SMTT(60) DEF CallStorage
<1>7. QED
  BY <1>1, <1>2, <1>5, <1>6 DEF Apis

(* The transaction being applied is a queued one, its operations are       *)
(* operations of the instance.                                             *)
LEMMA CurrentOpsType ==
  ASSUME TypeOK, it <= Len(mempool)
  PROVE  mempool[it] \in TxIds /\ CurrentOps \in Seq(Ops)
<1>1. mempool[it] \in TxIds
  BY DEF TypeOK
<1>2. QED
  BY <1>1 DEF TypeOK, CurrentOps

(* An exception leaves generate_block with its locals well formed.         *)
LEMMA RaiseType ==
  ASSUME TypeOK, NEW kind, Raise(kind)
  PROVE  /\ pc' \in {"idle", "scan"} /\ it' \in Nat \ {0} /\ validTxs' \in Seq(TxIds)
         /\ opi' \in Nat \ {0} /\ todo' \in Seq(Changes)
<1>1. << >> \in Seq(Changes) /\ << >> \in Seq(TxIds)
  OBVIOUS
<1>2. it \in Nat \ {0} /\ validTxs \in Seq(TxIds)
  BY DEF TypeOK
<1>3. todo' = << >> /\ opi' = 1
  BY DEF Raise
<1>4. \/ pc' = "scan" /\ it' = it + 1 /\ validTxs' = validTxs
      \/ pc' = "idle" /\ it' = it /\ validTxs' = << >>
  BY Zenon DEF Raise
<1>5. todo' \in Seq(Changes) /\ opi' \in Nat \ {0}
  BY <1>1, <1>3
<1>6. pc' \in {"idle", "scan"} /\ validTxs' \in Seq(TxIds)
  BY <1>1, <1>2, <1>4, Zenon
<1>7. it' \in Nat \ {0}
  BY <1>2, <1>4
<1>8. QED
  BY <1>5, <1>6, <1>7

(* The node starts well formed and every step keeps it so.                 *)
LEMMA ChainInvInductive ==
  ASSUME ChainInv, [Next]_vars
  PROVE  ChainInv'
<1> USE DEF ChainInv
<1>1. ASSUME NEW a \in AssetIds, AddAsset(a)
      PROVE  ChainInv'
  BY <1>1 DEF TypeOK, CursorOK, AddAsset, poolVars, genVars, CurrentOps
<1>2. ASSUME NEW t \in TxIds, NEW ops \in TxOps, Submit(t, ops)
      PROVE  ChainInv'
  <2>1. ops \in Seq(Ops)
    <3>1. PICK n \in 1..MaxOps : ops \in [1..n -> Ops]
      BY DEF TxOps
    <3>2. QED
      BY <3>1, ChainAssumption
  <2>2. txs' \in [TxIds -> Seq(Ops)] /\ mempool' \in Seq(TxIds)
    BY <1>2, <2>1 DEF TypeOK, Submit
  <2>3. QED
    BY <1>2, <2>2 DEF TypeOK, CursorOK, Submit, chainVars, genVars
<1>3. CASE StartBlock
  BY <1>3 DEF TypeOK, CursorOK, StartBlock, chainVars, poolVars
<1>4. CASE EvaluateTx
  BY <1>4 DEF TypeOK, CursorOK, EvaluateTx, chainVars, poolVars
<1>5. CASE EvaluateTxThrows
  <2>1. PICK kind : Raise(kind)
    BY <1>5 DEF EvaluateTxThrows
  <2>2. QED
    BY <1>5, <2>1, RaiseType DEF TypeOK, CursorOK, EvaluateTxThrows, chainVars, poolVars, Changes
<1>6. CASE ApplyOp
  <2>1. CurrentOps \in Seq(Ops) /\ CurrentOps[opi] \in Ops
    BY <1>6, CurrentOpsType, SMTT(60) DEF ApplyOp, CursorOK, TypeOK
  <2>2. todo' \in Seq(Changes)
    BY <1>6, <2>1, UpdatesType DEF ApplyOp
  <2>3. contracts' \in [Contracts -> Addresses \cup {None}]
    BY <1>6, <2>1, OpFields DEF ApplyOp, TypeOK
  <2>4. QED
    BY <1>6, <2>2, <2>3 DEF TypeOK, CursorOK, ApplyOp, poolVars, Changes, CurrentOps
<1>7. CASE ApplyOpThrows
  <2>1. PICK kind : Raise(kind)
    BY <1>7 DEF ApplyOpThrows
  <2>2. QED
    BY <1>7, <2>1, RaiseType DEF TypeOK, CursorOK, ApplyOpThrows, chainVars, poolVars, Changes
<1>8. CASE UpdateBalance
  <2>1. Head(todo) \in Changes /\ Tail(todo) \in Seq(Changes)
    <3>1. todo \in Seq(Changes) /\ todo # << >>
      BY <1>8 DEF UpdateBalance, TypeOK, Changes
    <3>2. QED
      BY <3>1, HeadTailProperties
  <2>2. balances' \in [Addresses -> [AssetIds -> Int]]
    <3> DEFINE c == Head(todo)
    <3>1. c.addr \in Addresses /\ c.asset \in AssetIds /\ c.delta \in Int
      BY <2>1 DEF Changes
    <3>2. balances \in [Addresses -> [AssetIds -> Int]]
      BY DEF TypeOK
    <3>3. balances' = [balances EXCEPT ![c.addr][c.asset] = @ + c.delta]
      BY <1>8 DEF UpdateBalance
    <3> HIDE DEF c
    <3>4. balances[c.addr][c.asset] + c.delta \in Int
      BY <3>1, <3>2
    <3>5. [balances[c.addr] EXCEPT ![c.asset] = @ + c.delta] \in [AssetIds -> Int]
      BY <3>1, <3>2, <3>4
    <3>6. QED
      BY <3>1, <3>2, <3>3, <3>5
  <2>3. QED
    BY <1>8, <2>1, <2>2 DEF TypeOK, CursorOK, UpdateBalance, poolVars, Changes, CurrentOps
<1>9. CASE UpdateBalanceThrows
  <2>1. PICK kind : Raise(kind)
    BY <1>9 DEF UpdateBalanceThrows
  <2>2. QED
    BY <1>9, <2>1, RaiseType DEF TypeOK, CursorOK, UpdateBalanceThrows, chainVars, poolVars, Changes
<1>10. CASE FinishOp
  <2>1. mempool[it] \in TxIds /\ CurrentOps[opi] \in Ops
    BY <1>10, CurrentOpsType, SMTT(60) DEF FinishOp, CursorOK, TypeOK
  <2>2. pubkeys' \in [Accounts -> PubKeys \cup {None}]
    BY <1>10, <2>1, OpFields DEF FinishOp, TypeOK
  <2>3. Receipt(CurrentOps[opi]) \in Status
    BY <2>1 DEF Receipt, TypeOK, Status
  <2>4. receipts' \in [TxIds -> Status]
    BY <1>10, <2>1, <2>3 DEF FinishOp, TypeOK
  <2>5. storage' \in [Contracts -> Contract]
    <3>1. storage \in [Contracts -> Contract]
      BY DEF TypeOK, Contract
    <3>2. CASE CurrentOps[opi].kind = "create"
      <4> DEFINE o    == CurrentOps[opi]
                 made == [storage EXCEPT ![o.contract].state = "NOT_INITED",
                                         ![o.contract].admin = o.caller]
      <4>1. o.contract \in Contracts /\ o.caller \in Addresses
        BY <2>1, <3>2, OpFields
      <4>2. storage' = made \/ storage' = storage
        BY <1>10, <3>2 DEF FinishOp
      <4> HIDE DEF o
      <4>3. made \in [Contracts -> Contract]
        BY <3>1, <4>1 DEF Contract
      <4>4. QED
        BY <3>1, <4>2, <4>3
    <3>3. CASE CurrentOps[opi].kind = "invoke"
      BY <1>10, <2>1, <3>1, <3>3, CallStorageType DEF FinishOp
    <3>4. CASE CurrentOps[opi].kind \notin {"create", "invoke"}
      BY <1>10, <3>1, <3>4 DEF FinishOp
    <3>5. QED
      BY <3>2, <3>3, <3>4
  <2>6. /\ pc' = "apply" /\ opi' = opi + 1
        /\ UNCHANGED <<assets, balances, contracts, poolVars, it, validTxs, todo>>
    BY <1>10 DEF FinishOp
  <2>7. TypeOK'
    BY <2>2, <2>4, <2>5, <2>6 DEF TypeOK, poolVars, Contract
  <2>8. CursorOK'
    BY <1>10, <2>6 DEF CursorOK, FinishOp, poolVars
  <2>9. QED
    BY <2>7, <2>8
<1>11. CASE IncludeTx
  <2>1. it \in 1..Len(mempool) /\ mempool[it] \in TxIds
    BY <1>11 DEF IncludeTx, CursorOK, TypeOK
  <2>2. RemoveAt(mempool, it) \in Seq(TxIds)
    BY <2>1, RemoveAtType DEF TypeOK
  <2>3. QED
    BY <1>11, <2>1, <2>2 DEF TypeOK, CursorOK, IncludeTx, chainVars
<1>12. CASE SealBlock
  BY <1>12 DEF TypeOK, CursorOK, SealBlock, chainVars
<1>13. CASE UNCHANGED vars
  BY <1>13 DEF TypeOK, CursorOK, vars, chainVars, poolVars, genVars, CurrentOps
<1>14. QED
  BY <1>1, <1>2, <1>3, <1>4, <1>5, <1>6, <1>7, <1>8, <1>9, <1>10, <1>11, <1>12, <1>13
     DEF Next, GenerateBlock

LEMMA ChainInvInit ==
  ASSUME Init
  PROVE  ChainInv
BY ChainAssumption DEF Init, ChainInv, TypeOK, CursorOK, Addresses, Status

(* The state of the node and the locals of generate_block keep their types *)
(* for any accounts, contracts, operations and number of transactions, and *)
(* whatever the class of fc::exception.                                    *)
THEOREM ChainTyping == Spec => []TypeOK
<1>1. Init => ChainInv
  BY ChainInvInit
<1>2. ChainInv /\ [Next]_vars => ChainInv'
  BY ChainInvInductive
<1>3. ChainInv => TypeOK
  BY DEF ChainInv
<1>4. QED
  BY <1>1, <1>2, <1>3, PTL DEF Spec

(* A call that is accepted leaves every book at zero or more: withdraw has *)
(* checked the book it charges, on_deposit_asset the sign of the deposit.  *)
LEMMA CallStorageNonNegative ==
  ASSUME TypeOK, NonNegative, NEW o \in Ops, o.kind = "invoke", Evaluate(o) = "ok",
         NEW c \in Contracts, NEW a \in Addresses, NEW s \in AssetIds
  PROVE  CallStorage(o)[c].books[a][s] >= 0
<1> DEFINE book(k, u, m) == storage[k].books[u][m]
<1>1. storage \in [Contracts -> Contract]
  BY DEF TypeOK, Contract
<1>2. /\ o.caller \in Addresses /\ o.contract \in Contracts /\ o.asset \in AssetIds
      /\ o.api \in Apis
      /\ ToInt64(o.deposit) \in Int /\ ToInt64(o.amount) \in Int
  BY OpFields, ToInt64Type
<1>3. ApiAccepts(o)
  BY DEF Evaluate, CallSucceeds
<1>4. book(c, a, s) \in Int /\ book(c, a, s) >= 0
  BY <1>1 DEF NonNegative, Contract
<1>5. /\ book(o.contract, o.caller, o.asset) \in Int
      /\ book(o.contract, o.caller, o.asset) >= 0
  BY <1>1, <1>2 DEF NonNegative, Contract
<1>6. ASSUME NEW n \in Int, n >= 0
      PROVE  [storage EXCEPT ![o.contract].books[o.caller][o.asset] = n][c].books[a][s] >= 0
  BY <1>1, <1>2, <1>4, <1>6 DEF Contract
<1>7. CASE o.api = "init_config"
  BY <1>1, <1>2, <1>4, <1>7 DEF CallStorage, Contract
<1>8. CASE o.api = "on_deposit_asset"
  <2>1. ToInt64(o.deposit) > 0
    BY <1>3, <1>8 DEF ApiAccepts
  <2>2. CallStorage(o) = [storage EXCEPT ![o.contract].books[o.caller][o.asset]
                            = book(o.contract, o.caller, o.asset) + ToInt64(o.deposit)]
    BY <1>1, <1>2, <1>8 DEF CallStorage, Contract
  <2>3. QED
    BY <1>2, <1>5, <1>6, <2>1, <2>2, SMTT(60)
<1>9. CASE o.api = "withdraw"
  <2>1. ToInt64(o.amount) <= book(o.contract, o.caller, o.asset)
    BY <1>3, <1>9 DEF ApiAccepts
  <2>2. CallStorage(o) = [storage EXCEPT ![o.contract].books[o.caller][o.asset]
                            = book(o.contract, o.caller, o.asset) - ToInt64(o.amount)]
    BY <1>1, <1>2, <1>9 DEF CallStorage, Contract
  <2>3. QED
    BY <1>2, <1>5, <1>6, <2>1, <2>2, SMTT(60)
<1>10. QED
  BY <1>2, <1>7, <1>8, <1>9 DEF Apis

(* NonNegative is preserved: balances change only in UpdateBalance, behind *)
(* its guard, and books only in FinishOp.                                  *)
LEMMA NonNegativeInductive ==
  ASSUME ChainInv, NonNegative, [Next]_vars
  PROVE  NonNegative'
<1>1. TypeOK /\ CursorOK
  BY DEF ChainInv
<1>2. CASE UNCHANGED <<balances, storage>>
  BY <1>2 DEF NonNegative
<1>3. CASE UpdateBalance
  <2> DEFINE c == Head(todo)
  <2>1. c.addr \in Addresses /\ c.asset \in AssetIds /\ c.delta \in Int
    <3>1. todo \in Seq(Changes) /\ todo # << >>
      BY <1>1, <1>3 DEF UpdateBalance, TypeOK, Changes
    <3>2. Head(todo) \in Changes
      BY <3>1, HeadTailProperties
    <3>3. QED
      BY <3>2 DEF Changes
  <2>2. balances \in [Addresses -> [AssetIds -> Int]]
    BY <1>1 DEF TypeOK
  <2>3. /\ balances' = [balances EXCEPT ![c.addr][c.asset] = @ + c.delta]
        /\ c.delta > 0 \/ - c.delta <= balances[c.addr][c.asset]
        /\ UNCHANGED storage
    BY <1>3 DEF UpdateBalance, CanUpdate
  <2> HIDE DEF c
  <2>4. /\ balances[c.addr][c.asset] \in Int
        /\ balances[c.addr][c.asset] >= 0
    BY <2>1, <2>2 DEF NonNegative
  <2>5. balances[c.addr][c.asset] + c.delta >= 0
    BY <2>1, <2>3, <2>4
  <2>6. ASSUME NEW a \in Addresses, NEW s \in AssetIds
        PROVE  balances'[a][s] >= 0
    BY <2>1, <2>2, <2>3, <2>5 DEF NonNegative
  <2>7. QED
    BY <2>3, <2>6 DEF NonNegative
<1>4. CASE FinishOp
  <2> DEFINE o == CurrentOps[opi]
  <2>1. o \in Ops
    BY <1>1, <1>4, CurrentOpsType, SMTT(60) DEF FinishOp, CursorOK, TypeOK
  <2>2. UNCHANGED balances
    BY <1>4 DEF FinishOp
  <2>3. ASSUME NEW c \in Contracts, NEW a \in Addresses, NEW s \in AssetIds
        PROVE  storage'[c].books[a][s] >= 0
    <3>1. storage \in [Contracts -> Contract] /\ storage[c].books[a][s] >= 0
      BY <1>1 DEF TypeOK, Contract, NonNegative
    <3>2. CASE o.kind = "create" /\ Evaluate(o) = "ok"
      <4>1. storage' = [storage EXCEPT ![o.contract].state = "NOT_INITED",
                                       ![o.contract].admin = o.caller]
        BY <1>4, <3>2 DEF FinishOp
      <4>2. QED
        BY <2>1, <3>1, <3>2, <4>1, OpFields DEF Contract
    <3>3. CASE o.kind = "invoke" /\ Evaluate(o) = "ok"
      <4>1. storage' = CallStorage(o)
        BY <1>4, <3>3 DEF FinishOp
      <4>2. QED
        BY <1>1, <2>1, <3>3, <4>1, CallStorageNonNegative
    <3>4. CASE o.kind \notin {"create", "invoke"} \/ Evaluate(o) # "ok"
      BY <1>4, <3>1, <3>4 DEF FinishOp
    <3>5. QED
      BY <3>2, <3>3, <3>4
  <2>4. QED
    BY <2>2, <2>3 DEF NonNegative
<1>5. QED
  BY <1>2, <1>3, <1>4
     DEF Next, GenerateBlock, AddAsset, Submit, StartBlock, EvaluateTx, EvaluateTxThrows,
         ApplyOp, ApplyOpThrows, UpdateBalanceThrows, IncludeTx, SealBlock, vars, chainVars

(* No account, contract or user's book is ever overdrawn, for any set of   *)
(* operations, in any order and with any failures in between.              *)
THEOREM ChainNonNegative == Spec => []NonNegative
<1>1. Init => NonNegative
  BY DEF Init, NonNegative
<1>2. NonNegative /\ ChainInv /\ [Next]_vars => NonNegative'
  BY NonNegativeInductive
<1>3. Init => ChainInv
  BY ChainInvInit
<1>4. ChainInv /\ [Next]_vars => ChainInv'
  BY ChainInvInductive
<1>5. QED
  BY <1>1, <1>2, <1>3, <1>4, PTL DEF Spec

----------------------------------------------------------------------------
(* Where the transactions are.                                             *)
QueueFacts ==
  /\ Len(blocks) \in Nat /\ Len(Ledger) = Len(blocks) + 1
  /\ Queue(0) = mempool
  /\ Queue(Len(blocks) + 1) = validTxs
  /\ \A b \in 1..Len(blocks) : Queue(b) = blocks[b]
  /\ \A b \in 0..Len(Ledger) : Queue(b) \in Seq(TxIds)
  /\ \A b \in 0..Len(Ledger) : b = 0 \/ b \in 1..Len(blocks) \/ b = Len(blocks) + 1

LEMMA QueueIs == TypeOK => QueueFacts
<1> SUFFICES ASSUME TypeOK PROVE QueueFacts
  OBVIOUS
<1>1. blocks \in Seq(Seq(TxIds)) /\ validTxs \in Seq(TxIds) /\ mempool \in Seq(TxIds)
  BY DEF TypeOK
<1>3. Len(blocks) \in Nat
  BY <1>1
<1>2. /\ Len(Ledger) = Len(blocks) + 1
      /\ \A b \in 1..Len(blocks) : Ledger[b] = blocks[b]
      /\ Ledger[Len(blocks) + 1] = validTxs
  <2>1. Append(blocks, validTxs) \in Seq(Seq(TxIds))
    BY <1>1
  <2>2. QED
    BY <1>1, <1>3, <2>1, AppendProperties DEF Ledger
<1>4. \A b \in 1..Len(blocks) : blocks[b] \in Seq(TxIds)
  BY <1>1
<1>5. Queue(0) = mempool
  BY DEF Queue
<1>6. Queue(Len(blocks) + 1) = validTxs
  BY <1>2, <1>3 DEF Queue
<1>7. \A b \in 1..Len(blocks) : Queue(b) = blocks[b]
  BY <1>2, <1>3 DEF Queue
<1>8. \A b \in 0..Len(Ledger) : b = 0 \/ b \in 1..Len(blocks) \/ b = Len(blocks) + 1
  BY <1>2, <1>3
<1>9. \A b \in 0..Len(Ledger) : Queue(b) \in Seq(TxIds)
  BY <1>1, <1>4, <1>5, <1>6, <1>7, <1>8
<1>10. QED
  BY <1>2, <1>3, <1>5, <1>6, <1>7, <1>8, <1>9 DEF QueueFacts

LEMMA QueueIsNext == TypeOK' => QueueFacts'
BY QueueIs, PTL

(* Erasing element i moves up those behind it.                             *)
LEMMA RemoveAtElements ==
  ASSUME NEW S, NEW s \in Seq(S), NEW i \in 1..Len(s)
  PROVE  \A j \in 1..Len(s) - 1 :
           RemoveAt(s, i)[j] = IF j < i THEN s[j] ELSE s[j + 1]
<1> DEFINE front == SubSeq(s, 1, i - 1)
           back  == SubSeq(s, i + 1, Len(s))
<1>0. Len(s) \in Nat
  BY LenProperties
<1>1. front \in Seq(S) /\ Len(front) = i - 1 /\ \A j \in 1..i - 1 : front[j] = s[j]
  BY SubSeqProperties, LenProperties
<1>2. back \in Seq(S) /\ Len(back) = Len(s) - i /\ \A j \in 1..Len(s) - i : back[j] = s[i + j]
  BY SubSeqProperties, LenProperties
<1>3. RemoveAt(s, i) = front \o back
  BY DEF RemoveAt
<1> HIDE DEF front, back
<1>4. \A j \in 1..Len(front) + Len(back) :
        (front \o back)[j] = IF j <= Len(front) THEN front[j] ELSE back[j - Len(front)]
  BY <1>1, <1>2, ConcatProperties, Zenon
<1>5. SUFFICES ASSUME NEW j \in 1..Len(s) - 1
               PROVE  RemoveAt(s, i)[j] = IF j < i THEN s[j] ELSE s[j + 1]
  OBVIOUS
<1>6. CASE j < i
  BY <1>0, <1>1, <1>2, <1>3, <1>4, <1>6
<1>7. CASE j >= i
  <2>1. j - (i - 1) \in 1..Len(s) - i /\ i + (j - (i - 1)) = j + 1
    BY <1>0, <1>7
  <2>2. back[j - (i - 1)] = s[j + 1]
    BY <1>2, <2>1
  <2>3. QED
    BY <1>0, <1>1, <1>2, <1>3, <1>4, <1>7, <2>2
<1>8. QED
  BY <1>0, <1>6, <1>7

(* Only submitted transactions are queued, and the block being built is    *)
(* empty while none is being built.                                        *)
HeldOnlySubmitted ==
  \A b \in 0..Len(Ledger) : \A i \in DOMAIN Queue(b) : txs[Queue(b)[i]] # << >>

NoneHalfBuilt == pc = "idle" => validTxs = << >>

(* A submitted transaction is in the mempool or in the ledger.             *)
HeldIfSubmitted ==
  \A t \in TxIds : txs[t] # << >> => \E b \in 0..Len(Ledger) : t \in ToSet(Queue(b))

PoolInv == NoTxTwice /\ HeldOnlySubmitted /\ NoneHalfBuilt

LEMMA PoolInvInit ==
  ASSUME Init
  PROVE  PoolInv /\ HeldIfSubmitted
<1>1. TypeOK
  BY ChainInvInit DEF ChainInv
<1>2. mempool = << >> /\ blocks = << << >> >> /\ validTxs = << >>
  BY DEF Init
<1>3. Len(blocks) = 1 /\ blocks[1] = << >>
  BY <1>2
<1>4. \A b \in 0..Len(Ledger) : Queue(b) = << >>
  <2>1. QueueFacts
    BY <1>1, QueueIs
  <2>2. \A b \in 1..Len(blocks) : blocks[b] = << >>
    BY <1>3
  <2>3. QED
    BY <1>2, <2>1, <2>2 DEF QueueFacts
<1>5. \A b \in 0..Len(Ledger) : DOMAIN Queue(b) = {}
  BY <1>4
<1>6. QED
  BY <1>2, <1>5 DEF Init, PoolInv, NoTxTwice, HeldOnlySubmitted, NoneHalfBuilt, HeldIfSubmitted

(* What the pool's invariants are about; a step that leaves these keeps    *)
(* them.                                                                   *)
LEMMA PoolUnchanged ==
  ASSUME UNCHANGED <<poolVars, validTxs>>
  PROVE  /\ NoTxTwice /\ HeldOnlySubmitted => NoTxTwice' /\ HeldOnlySubmitted'
         /\ HeldIfSubmitted => HeldIfSubmitted'
<1>1. UNCHANGED <<mempool, blocks, txs, validTxs>>
  BY DEF poolVars
<1>2. Ledger' = Ledger
  BY <1>1 DEF Ledger
<1>3. QED
  BY <1>1, <1>2 DEF NoTxTwice, HeldOnlySubmitted, HeldIfSubmitted, Queue

(* Each queue loses its transactions or keeps them.                        *)
LEMMA PoolShrinks ==
  ASSUME TypeOK, TypeOK', NoTxTwice, HeldOnlySubmitted, UNCHANGED poolVars, validTxs' = << >>
  PROVE  NoTxTwice' /\ HeldOnlySubmitted'
<1>1. UNCHANGED <<mempool, blocks, txs>>
  BY DEF poolVars
<1>2. QueueFacts /\ QueueFacts'
  BY QueueIs, QueueIsNext
<1>3. Len(Ledger)' = Len(Ledger)
  BY <1>1, <1>2 DEF QueueFacts
<1>4. ASSUME NEW b \in 0..Len(Ledger)
      PROVE  Queue(b)' = Queue(b) \/ DOMAIN Queue(b)' = {}
  <2>1. CASE b = 0
    BY <1>1, <1>2, <2>1 DEF QueueFacts
  <2>2. CASE b \in 1..Len(blocks)
    BY <1>1, <1>2, <2>2 DEF QueueFacts
  <2>3. CASE b = Len(blocks) + 1
    BY <1>1, <1>2, <2>3 DEF QueueFacts
  <2>4. QED
    BY <1>2, <2>1, <2>2, <2>3 DEF QueueFacts
<1>5. QED
  BY <1>1, <1>3, <1>4 DEF NoTxTwice, HeldOnlySubmitted

(* A new transaction enters at the end of the mempool.                     *)
LEMMA PoolSubmit ==
  ASSUME TypeOK, TypeOK', NoTxTwice, HeldOnlySubmitted,
         NEW t \in TxIds, NEW ops \in TxOps, Submit(t, ops)
  PROVE  NoTxTwice' /\ HeldOnlySubmitted' /\ (HeldIfSubmitted => HeldIfSubmitted')
<1>1. /\ txs[t] = << >> /\ txs' = [txs EXCEPT ![t] = ops]
      /\ mempool' = Append(mempool, t) /\ UNCHANGED <<blocks, validTxs>>
  BY DEF Submit, genVars
<1>2. QueueFacts /\ QueueFacts'
  BY QueueIs, QueueIsNext
<1>3. Len(Ledger)' = Len(Ledger) /\ Len(Ledger) \in Nat
  BY <1>1, <1>2 DEF QueueFacts
<1>4. \A b \in 1..Len(Ledger) : Queue(b)' = Queue(b)
  BY <1>1 DEF Queue, Ledger
<1>5. mempool \in Seq(TxIds) /\ txs \in [TxIds -> Seq(Ops)]
  BY DEF TypeOK
<1>6. /\ DOMAIN Queue(0)' = DOMAIN Queue(0) \cup {Len(mempool) + 1}
      /\ \A i \in DOMAIN Queue(0) : Queue(0)'[i] = Queue(0)[i]
      /\ Queue(0)'[Len(mempool) + 1] = t
      /\ Len(mempool) + 1 \notin DOMAIN Queue(0)
  <2>1. Queue(0) = mempool /\ Queue(0)' = Append(mempool, t)
    BY <1>1 DEF Queue
  <2>2. Len(mempool) \in Nat /\ DOMAIN mempool = 1..Len(mempool)
    BY <1>5
  <2>3. /\ DOMAIN Append(mempool, t) = 1..Len(mempool) + 1
        /\ \A i \in 1..Len(mempool) : Append(mempool, t)[i] = mempool[i]
        /\ Append(mempool, t)[Len(mempool) + 1] = t
    BY <1>5, <2>2
  <2>4. 1..Len(mempool) + 1 = 1..Len(mempool) \cup {Len(mempool) + 1}
    BY <2>2
  <2>5. DOMAIN Queue(0) = 1..Len(mempool) /\ DOMAIN Queue(0)' = 1..Len(mempool) + 1
    BY <2>1, <2>2, <2>3
  <2>6. \A i \in DOMAIN Queue(0) : Queue(0)'[i] = Queue(0)[i]
    BY <2>1, <2>2, <2>3
  <2>7. Queue(0)'[Len(mempool) + 1] = t
    BY <2>1, <2>3
  <2>8. Len(mempool) + 1 \notin DOMAIN Queue(0)
    BY <2>2, <2>5
  <2>9. QED
    BY <2>4, <2>5, <2>6, <2>7, <2>8
<1>7. ops # << >>
  <2>1. PICK n \in 1..MaxOps : ops \in [1..n -> Ops]
    BY DEF TxOps
  <2>2. 1 \in DOMAIN ops
    BY <2>1, ChainAssumption
  <2>3. QED
    BY <2>2
<1>8. ASSUME NEW b \in 0..Len(Ledger), NEW i \in DOMAIN Queue(b)'
      PROVE  \/ i \in DOMAIN Queue(b) /\ Queue(b)'[i] = Queue(b)[i]
             \/ b = 0 /\ i = Len(mempool) + 1 /\ Queue(b)'[i] = t
  BY <1>3, <1>4, <1>6
<1>9. ASSUME NEW b \in 0..Len(Ledger), NEW i \in DOMAIN Queue(b)
      PROVE  Queue(b)[i] # t /\ Queue(b)[i] \in TxIds
  BY <1>1, <1>2 DEF HeldOnlySubmitted, QueueFacts
<1>10. NoTxTwice'
  <2>1. SUFFICES ASSUME NEW b \in 0..Len(Ledger)', NEW c \in 0..Len(Ledger)',
                        NEW i \in DOMAIN Queue(b)', NEW j \in DOMAIN Queue(c)',
                        Queue(b)'[i] = Queue(c)'[j]
                 PROVE  b = c /\ i = j
    BY DEF NoTxTwice
  <2>2. b \in 0..Len(Ledger) /\ c \in 0..Len(Ledger)
    BY <1>3
  <2>3. CASE i \in DOMAIN Queue(b) /\ j \in DOMAIN Queue(c)
                /\ Queue(b)'[i] = Queue(b)[i] /\ Queue(c)'[j] = Queue(c)[j]
    <3>1. Queue(b)[i] = Queue(c)[j]
      BY <2>1, <2>3
    <3>2. QED
      BY <2>2, <2>3, <3>1, Zenon DEF NoTxTwice
  <2>4. CASE i \in DOMAIN Queue(b) /\ Queue(b)'[i] = Queue(b)[i] /\ Queue(c)'[j] = t
    BY <1>9, <2>1, <2>2, <2>4
  <2>5. CASE j \in DOMAIN Queue(c) /\ Queue(c)'[j] = Queue(c)[j] /\ Queue(b)'[i] = t
    BY <1>9, <2>1, <2>2, <2>5
  <2>6. CASE b = 0 /\ i = Len(mempool) + 1 /\ c = 0 /\ j = Len(mempool) + 1
    BY <2>6
  <2>7. /\ \/ i \in DOMAIN Queue(b) /\ Queue(b)'[i] = Queue(b)[i]
           \/ b = 0 /\ i = Len(mempool) + 1 /\ Queue(b)'[i] = t
        /\ \/ j \in DOMAIN Queue(c) /\ Queue(c)'[j] = Queue(c)[j]
           \/ c = 0 /\ j = Len(mempool) + 1 /\ Queue(c)'[j] = t
    BY <1>8, <2>1, <2>2
  <2>8. QED
    BY <2>3, <2>4, <2>5, <2>6, <2>7
<1>11. HeldOnlySubmitted'
  <2>1. SUFFICES ASSUME NEW b \in 0..Len(Ledger)', NEW i \in DOMAIN Queue(b)'
                 PROVE  txs'[Queue(b)'[i]] # << >>
    BY DEF HeldOnlySubmitted
  <2>2. b \in 0..Len(Ledger)
    BY <1>3
  <2>3. CASE i \in DOMAIN Queue(b) /\ Queue(b)'[i] = Queue(b)[i]
    <3>1. Queue(b)[i] # t /\ Queue(b)[i] \in TxIds /\ txs[Queue(b)[i]] # << >>
      BY <1>9, <2>2, <2>3 DEF HeldOnlySubmitted
    <3>2. QED
      BY <1>1, <1>5, <2>3, <3>1
  <2>4. CASE Queue(b)'[i] = t
    BY <1>1, <1>5, <1>7, <2>4
  <2>5. QED
    BY <1>8, <2>2, <2>3, <2>4
<1>12. ASSUME HeldIfSubmitted, NEW u \in TxIds, txs'[u] # << >>
       PROVE  \E b \in 0..Len(Ledger)' : u \in ToSet(Queue(b)')
  <2>1. CASE u = t
    <3>1. t \in ToSet(Queue(0)')
      BY <1>6 DEF ToSet
    <3>2. QED
      BY <1>3, <2>1, <3>1
  <2>2. CASE u # t
    <3>1. PICK b \in 0..Len(Ledger) : u \in ToSet(Queue(b))
      BY <1>1, <1>5, <1>12, <2>2 DEF HeldIfSubmitted
    <3>2. PICK i \in DOMAIN Queue(b) : Queue(b)[i] = u
      BY <3>1 DEF ToSet
    <3>3. i \in DOMAIN Queue(b)' /\ Queue(b)'[i] = u
      BY <1>3, <1>4, <1>6, <3>2
    <3>4. u \in ToSet(Queue(b)')
      BY <3>3 DEF ToSet
    <3>5. QED
      BY <1>3, <3>4
  <2>3. QED
    BY <2>1, <2>2
<1>13. HeldIfSubmitted => HeldIfSubmitted'
  BY <1>12 DEF HeldIfSubmitted
<1>14. QED
  BY <1>10, <1>11, <1>13

(* The iterator's transaction moves from the mempool to the end of the     *)
(* block being built; sb, si is where an element was before.               *)
LEMMA PoolInclude ==
  ASSUME TypeOK, TypeOK', NoTxTwice, HeldOnlySubmitted, it \in 1..Len(mempool), IncludeTx
  PROVE  NoTxTwice' /\ HeldOnlySubmitted' /\ (HeldIfSubmitted => HeldIfSubmitted')
<1>1. /\ mempool' = RemoveAt(mempool, it) /\ validTxs' = Append(validTxs, mempool[it])
      /\ UNCHANGED <<blocks, txs>>
  BY DEF IncludeTx
<1>2. QueueFacts /\ QueueFacts'
  BY QueueIs, QueueIsNext
<1>3. Len(Ledger)' = Len(Ledger) /\ Len(Ledger) = Len(blocks) + 1 /\ Len(blocks) \in Nat
  BY <1>1, <1>2 DEF QueueFacts
<1>4. mempool \in Seq(TxIds) /\ validTxs \in Seq(TxIds) /\ Len(mempool) \in Nat
      /\ Len(validTxs) \in Nat
  BY DEF TypeOK
<1>0. PICK last, n, k : last = Len(blocks) + 1 /\ n = Len(validTxs) + 1 /\ k = it
  OBVIOUS
<1> DEFINE sb(b, i) == IF b = last /\ i = n THEN 0 ELSE b
           si(b, i) == IF b = last /\ i = n THEN k
                       ELSE IF b = 0 /\ i >= k THEN i + 1 ELSE i
<1>5. /\ Queue(0) = mempool /\ Queue(last) = validTxs
      /\ Queue(0)' = RemoveAt(mempool, k) /\ Queue(last)' = Append(validTxs, mempool[k])
      /\ \A b \in 1..Len(blocks) : Queue(b)' = Queue(b)
  <2>1. last = Len(blocks)' + 1
    BY <1>0, <1>1
  <2>2. /\ Queue(0) = mempool /\ Queue(last) = validTxs
        /\ Queue(0)' = mempool' /\ Queue(last)' = validTxs'
    BY <1>0, <1>2, <2>1 DEF QueueFacts
  <2>3. ASSUME NEW b \in 1..Len(blocks)
        PROVE  Queue(b) = blocks[b] /\ Queue(b)' = blocks[b]
    BY <1>1, <1>2 DEF QueueFacts
  <2>4. QED
    BY <1>0, <1>1, <2>2, <2>3
<1>6. /\ DOMAIN Queue(0) = 1..Len(mempool) /\ DOMAIN Queue(0)' = 1..Len(mempool) - 1
      /\ \A i \in 1..Len(mempool) - 1 :
           Queue(0)'[i] = IF i < k THEN Queue(0)[i] ELSE Queue(0)[i + 1]
  <2>1. /\ RemoveAt(mempool, k) \in Seq(TxIds)
        /\ Len(RemoveAt(mempool, k)) = Len(mempool) - 1
        /\ \A i \in 1..Len(mempool) - 1 :
             RemoveAt(mempool, k)[i] = IF i < k THEN mempool[i] ELSE mempool[i + 1]
    BY <1>0, <1>4, RemoveAtType, RemoveAtElements
  <2>2. DOMAIN RemoveAt(mempool, k) = 1..Len(mempool) - 1 /\ DOMAIN mempool = 1..Len(mempool)
    BY <1>4, <2>1
  <2>3. QED
    BY <1>5, <2>1, <2>2
<1>7. /\ DOMAIN Queue(last) = 1..Len(validTxs) /\ DOMAIN Queue(last)' = 1..Len(validTxs) + 1
      /\ \A i \in 1..Len(validTxs) : Queue(last)'[i] = Queue(last)[i]
      /\ Queue(last)'[n] = Queue(0)[k]
  <2>1. /\ DOMAIN validTxs = 1..Len(validTxs)
        /\ DOMAIN Append(validTxs, mempool[k]) = 1..Len(validTxs) + 1
        /\ \A i \in 1..Len(validTxs) : Append(validTxs, mempool[k])[i] = validTxs[i]
        /\ Append(validTxs, mempool[k])[n] = mempool[k]
    BY <1>0, <1>4
  <2>2. QED
    BY <1>5, <2>1
<1>8. \A b \in 0..Len(Ledger) : b = 0 \/ b \in 1..Len(blocks) \/ b = last
  BY <1>0, <1>3
<1>9. ASSUME NEW b \in 0..Len(Ledger), NEW i \in DOMAIN Queue(b)'
      PROVE  /\ sb(b, i) \in 0..Len(Ledger) /\ si(b, i) \in DOMAIN Queue(sb(b, i))
             /\ Queue(b)'[i] = Queue(sb(b, i))[si(b, i)]
             /\ b = 0 => i \in 1..Len(mempool) - 1
  <2>1. CASE b = 0
    <3>1. sb(b, i) = 0 /\ si(b, i) = IF i >= k THEN i + 1 ELSE i
      BY <1>0, <1>3, <2>1
    <3>2. i \in 1..Len(mempool) - 1 /\ k \in 1..Len(mempool)
      BY <1>0, <1>6, <2>1
    <3> HIDE DEF sb, si
    <3>3. CASE i >= k
      <4>1. sb(b, i) = 0 /\ si(b, i) = i + 1 /\ ~(i < k)
        BY <1>4, <3>1, <3>2, <3>3
      <4>2. Queue(0)'[i] = Queue(0)[i + 1] /\ i + 1 \in DOMAIN Queue(0)
        BY <1>4, <1>6, <3>2, <4>1
      <4>3. QED
        BY <1>3, <2>1, <3>2, <4>1, <4>2
    <3>4. CASE i < k
      <4>1. sb(b, i) = 0 /\ si(b, i) = i
        BY <1>4, <3>1, <3>2, <3>4
      <4>2. Queue(0)'[i] = Queue(0)[i] /\ i \in DOMAIN Queue(0)
        BY <1>4, <1>6, <3>2, <3>4
      <4>3. QED
        BY <1>3, <2>1, <3>2, <4>1, <4>2
    <3>5. QED
      BY <1>4, <3>2, <3>3, <3>4
  <2>2. CASE b \in 1..Len(blocks)
    <3>1. sb(b, i) = b /\ si(b, i) = i
      BY <1>0, <1>3, <2>2
    <3>2. QED
      BY <1>3, <1>5, <2>2, <3>1
  <2>3. CASE b = last
    <3>1. i \in 1..Len(validTxs) + 1
      BY <1>7, <2>3
    <3>2. CASE i = n
      <4>1. sb(b, i) = 0 /\ si(b, i) = k
        BY <2>3, <3>2
      <4>2. QED
        BY <1>0, <1>3, <1>6, <1>7, <2>3, <3>2, <4>1
    <3>3. CASE i # n
      <4>1. sb(b, i) = b /\ si(b, i) = i
        BY <1>0, <1>3, <2>3, <3>3
      <4>2. i \in 1..Len(validTxs)
        BY <1>0, <1>4, <3>1, <3>3
      <4>3. QED
        BY <1>0, <1>3, <1>7, <2>3, <4>1, <4>2
    <3>4. QED
      BY <3>2, <3>3
  <2>4. QED
    BY <1>8, <2>1, <2>2, <2>3
<1>10. NoTxTwice'
  <2>1. SUFFICES ASSUME NEW b \in 0..Len(Ledger)', NEW c \in 0..Len(Ledger)',
                        NEW i \in DOMAIN Queue(b)', NEW j \in DOMAIN Queue(c)',
                        Queue(b)'[i] = Queue(c)'[j]
                 PROVE  b = c /\ i = j
    BY DEF NoTxTwice
  <2>2. b \in 0..Len(Ledger) /\ c \in 0..Len(Ledger)
    BY <1>3
  <2>3. Queue(sb(b, i))[si(b, i)] = Queue(sb(c, j))[si(c, j)]
    BY <1>9, <2>1, <2>2
  <2>4. sb(b, i) = sb(c, j) /\ si(b, i) = si(c, j)
    <3> HIDE DEF sb, si
    <3> QED
      BY <1>9, <2>2, <2>3 DEF NoTxTwice
  <2>5. b = 0 => i \in Int
    BY <1>9, <2>2
  <2>6. c = 0 => j \in Int
    BY <1>9, <2>2
  <2>7. QED
    BY <1>0, <1>3, <1>4, <2>2, <2>4, <2>5, <2>6
<1>11. HeldOnlySubmitted'
  <2>1. SUFFICES ASSUME NEW b \in 0..Len(Ledger)', NEW i \in DOMAIN Queue(b)'
                 PROVE  txs[Queue(b)'[i]] # << >>
    BY <1>1 DEF HeldOnlySubmitted
  <2>2. QED
    <3> HIDE DEF sb, si
    <3> QED
      BY <1>3, <1>9, <2>1 DEF HeldOnlySubmitted
<1>12. ASSUME NEW b \in 0..Len(Ledger), NEW j \in DOMAIN Queue(b)
       PROVE  \E c \in 0..Len(Ledger)' : Queue(b)[j] \in ToSet(Queue(c)')
  <2>1. CASE b = 0 /\ j < k
    <3>1. j \in DOMAIN Queue(0)' /\ Queue(0)'[j] = Queue(b)[j]
      BY <1>0, <1>4, <1>6, <2>1
    <3>2. QED
      BY <1>3, <2>1, <3>1 DEF ToSet
  <2>2. CASE b = 0 /\ j = k
    <3>1. n \in DOMAIN Queue(last)' /\ Queue(last)'[n] = Queue(b)[j]
      BY <1>0, <1>4, <1>7, <2>2
    <3>2. last \in 0..Len(Ledger)'
      BY <1>0, <1>3
    <3>3. QED
      BY <3>1, <3>2 DEF ToSet
  <2>3. CASE b = 0 /\ j > k
    <3>1. j - 1 \in 1..Len(mempool) - 1 /\ ~(j - 1 < k) /\ (j - 1) + 1 = j
      BY <1>0, <1>4, <1>6, <2>3
    <3>2. j - 1 \in DOMAIN Queue(0)' /\ Queue(0)'[j - 1] = Queue(b)[j]
      BY <1>6, <2>3, <3>1
    <3>3. QED
      BY <1>3, <2>3, <3>2 DEF ToSet
  <2>4. CASE b \in 1..Len(blocks)
    BY <1>3, <1>5, <2>4 DEF ToSet
  <2>5. CASE b = last
    <3>1. j \in DOMAIN Queue(last)' /\ Queue(last)'[j] = Queue(b)[j]
      BY <1>0, <1>4, <1>7, <2>5
    <3>2. QED
      BY <1>3, <2>5, <3>1 DEF ToSet
  <2>6. QED
    BY <1>0, <1>4, <1>6, <1>8, <2>1, <2>2, <2>3, <2>4, <2>5
<1>13. HeldIfSubmitted => HeldIfSubmitted'
  <2> SUFFICES ASSUME HeldIfSubmitted, NEW t \in TxIds, txs[t] # << >>
               PROVE  \E c \in 0..Len(Ledger)' : t \in ToSet(Queue(c)')
    BY <1>1 DEF HeldIfSubmitted
  <2>1. PICK b \in 0..Len(Ledger) : t \in ToSet(Queue(b))
    BY DEF HeldIfSubmitted
  <2>2. PICK j \in DOMAIN Queue(b) : Queue(b)[j] = t
    BY <2>1 DEF ToSet
  <2>3. QED
    BY <1>12, <2>2
<1>14. QED
  BY <1>10, <1>11, <1>13

(* Sealing moves nothing: the block being built is the last, a new empty   *)
(* one follows it.                                                         *)
LEMMA PoolSeal ==
  ASSUME TypeOK, TypeOK', NoTxTwice, HeldOnlySubmitted, SealBlock
  PROVE  NoTxTwice' /\ HeldOnlySubmitted' /\ (HeldIfSubmitted => HeldIfSubmitted')
<1>1. blocks' = Append(blocks, validTxs) /\ validTxs' = << >> /\ UNCHANGED <<mempool, txs>>
  BY DEF SealBlock
<1>2. QueueFacts /\ QueueFacts'
  BY QueueIs, QueueIsNext
<1>3. Len(Ledger)' = Len(Ledger) + 1 /\ Len(Ledger) = Len(blocks) + 1 /\ Len(blocks) \in Nat
      /\ blocks' = Ledger
  BY <1>1, <1>2 DEF QueueFacts, Ledger
<1>4. ASSUME NEW b \in 0..Len(Ledger)
      PROVE  Queue(b)' = Queue(b)
  <2>1. CASE b = 0
    BY <1>1, <2>1 DEF Queue
  <2>2. CASE b \in 1..Len(Ledger)
    <3>1. Queue(b)' = Ledger[b]
      BY <1>2, <1>3, <2>2 DEF QueueFacts
    <3>2. QED
      BY <1>3, <2>2, <3>1 DEF Queue
  <2>3. QED
    BY <1>3, <2>1, <2>2
<1>5. ASSUME NEW b, b = Len(Ledger) + 1
      PROVE  DOMAIN Queue(b)' = {}
  <2>1. b = Len(blocks)' + 1
    BY <1>3, <1>5
  <2>2. Queue(b)' = << >>
    BY <1>1, <1>2, <2>1 DEF QueueFacts
  <2>3. QED
    BY <2>2
<1>6. \A b \in 0..Len(Ledger)' : b \in 0..Len(Ledger) \/ b = Len(Ledger) + 1
  BY <1>3
<1>7. NoTxTwice' /\ HeldOnlySubmitted'
  BY <1>1, <1>4, <1>5, <1>6 DEF NoTxTwice, HeldOnlySubmitted
<1>8. 0..Len(Ledger) \subseteq 0..Len(Ledger)'
  BY <1>3
<1>9. HeldIfSubmitted => HeldIfSubmitted'
  BY <1>1, <1>4, <1>8 DEF HeldIfSubmitted
<1>10. QED
  BY <1>7, <1>9

(* An exception leaves the queues alone, or drops the block being built    *)
(* when it is one generate_block does not catch.                           *)
LEMMA RaiseQueues ==
  ASSUME NEW kind, Raise(kind)
  PROVE  /\ \/ UNCHANGED validTxs /\ pc' = "scan"
            \/ validTxs' = << >> /\ ~ FcIsStd
         /\ pc' \in {"idle", "scan"}
BY Zenon DEF Raise

LEMMA PoolInvInductive ==
  ASSUME ChainInv, ChainInv', PoolInv, [Next]_vars
  PROVE  PoolInv' /\ (FcIsStd /\ HeldIfSubmitted => HeldIfSubmitted')
<1>0. TypeOK /\ TypeOK' /\ CursorOK /\ NoTxTwice /\ HeldOnlySubmitted /\ NoneHalfBuilt
  BY DEF ChainInv, PoolInv
<1>1. CASE UNCHANGED <<poolVars, validTxs>> /\ (pc' = "idle" => pc = "idle")
  BY <1>0, <1>1, PoolUnchanged DEF PoolInv, NoneHalfBuilt
<1>2. ASSUME NEW kind, Raise(kind), UNCHANGED poolVars
      PROVE  PoolInv' /\ (FcIsStd /\ HeldIfSubmitted => HeldIfSubmitted')
  <2>1. CASE UNCHANGED validTxs /\ pc' = "scan"
    BY <1>0, <1>2, <2>1, PoolUnchanged DEF PoolInv, NoneHalfBuilt
  <2>2. CASE validTxs' = << >> /\ ~ FcIsStd
    BY <1>0, <1>2, <2>2, PoolShrinks DEF PoolInv, NoneHalfBuilt
  <2>3. QED
    BY <1>2, <2>1, <2>2, RaiseQueues
<1>3. ASSUME NEW t \in TxIds, NEW ops \in TxOps, Submit(t, ops)
      PROVE  PoolInv' /\ (FcIsStd /\ HeldIfSubmitted => HeldIfSubmitted')
  <2>1. UNCHANGED <<pc, validTxs>>
    BY <1>3 DEF Submit, genVars
  <2>2. QED
    BY <1>0, <1>3, <2>1, PoolSubmit DEF PoolInv, NoneHalfBuilt
<1>4. CASE StartBlock
  <2>1. validTxs = << >> /\ validTxs' = << >> /\ UNCHANGED poolVars
    BY <1>0, <1>4 DEF StartBlock, NoneHalfBuilt
  <2>2. QED
    BY <1>0, <2>1, PoolUnchanged DEF PoolInv, NoneHalfBuilt
<1>5. CASE IncludeTx
  <2>1. it \in 1..Len(mempool) /\ pc' = "scan"
    BY <1>0, <1>5 DEF IncludeTx, CursorOK, TypeOK
  <2>2. QED
    BY <1>0, <1>5, <2>1, PoolInclude DEF PoolInv, NoneHalfBuilt
<1>6. CASE SealBlock
  <2>1. validTxs' = << >>
    BY <1>6 DEF SealBlock
  <2>2. QED
    BY <1>0, <1>6, <2>1, PoolSeal DEF PoolInv, NoneHalfBuilt
<1>7. CASE EvaluateTxThrows \/ ApplyOpThrows \/ UpdateBalanceThrows
  <2>1. \E kind : Raise(kind) /\ UNCHANGED poolVars
    BY <1>7 DEF EvaluateTxThrows, ApplyOpThrows, UpdateBalanceThrows
  <2>2. QED
    BY <1>2, <2>1
<1>8. ASSUME NEW a \in AssetIds, AddAsset(a)
      PROVE  PoolInv' /\ (FcIsStd /\ HeldIfSubmitted => HeldIfSubmitted')
  BY <1>1, <1>8 DEF AddAsset, genVars
<1>9. CASE EvaluateTx \/ ApplyOp \/ UpdateBalance \/ FinishOp \/ UNCHANGED vars
  BY <1>1, <1>9 DEF EvaluateTx, ApplyOp, UpdateBalance, FinishOp, vars, genVars
<1>10. QED
  BY <1>3, <1>4, <1>5, <1>6, <1>7, <1>8, <1>9 DEF Next, GenerateBlock

(* No transaction is queued twice, neither in two blocks nor in a block    *)
(* and in the mempool, for any number of transactions and blocks and       *)
(* wherever exceptions leave generate_block.                               *)
THEOREM ChainNoTxTwice == Spec => []NoTxTwice
<1>1. Init => ChainInv /\ PoolInv
  BY ChainInvInit, PoolInvInit
<1>2. ChainInv /\ PoolInv /\ [Next]_vars => ChainInv' /\ PoolInv'
  BY ChainInvInductive, PoolInvInductive
<1>3. PoolInv => NoTxTwice
  BY DEF PoolInv
<1>4. QED
  BY <1>1, <1>2, <1>3, PTL DEF Spec

(* When generate_block catches every exception of its evaluators, none is  *)
(* lost either: a submitted transaction is in the mempool or in a block.   *)
THEOREM ChainEachTxOnce ==
  ASSUME FcIsStd
  PROVE  Spec => []EachTxOnce
<1>1. Init => ChainInv /\ PoolInv /\ HeldIfSubmitted
  BY ChainInvInit, PoolInvInit
<1>2. ChainInv /\ PoolInv /\ HeldIfSubmitted /\ [Next]_vars
        => ChainInv' /\ PoolInv' /\ HeldIfSubmitted'
  BY ChainInvInductive, PoolInvInductive
<1>3. PoolInv /\ HeldIfSubmitted => EachTxOnce
  BY DEF PoolInv, HeldIfSubmitted, EachTxOnce
<1>4. QED
  BY <1>1, <1>2, <1>3, PTL DEF Spec

----------------------------------------------------------------------------
(* Receipts.  An exception of a second operation would leave the receipt   *)
(* of the first, and one that generate_block does not catch those of the   *)
(* block it drops: hence transactions of one operation, as the RPCs make   *)
(* them, and fc exceptions that are caught.                                *)
OneOp == \A t \in TxIds : txs[t] # << >> => Len(txs[t]) = 1

Busy(t) == pc \in {"apply", "update"} /\ t = mempool[it]

Settled(t) == (receipts[t] # "none") <=> (t \in Included /\ CallsContract(txs[t]))

(* The receipt of the transaction being applied is written by its last     *)
(* operation.                                                              *)
BusyReceipt ==
  pc \in {"apply", "update"} =>
    IF opi > Len(CurrentOps)
    THEN (receipts[mempool[it]] # "none") <=> CallsContract(CurrentOps)
    ELSE opi = 1 /\ receipts[mempool[it]] = "none"

ReceiptInv == OneOp /\ BusyReceipt /\ (\A t \in TxIds : Busy(t) \/ Settled(t))

(* The ledger is what the queues but the first hold.                       *)
LEMMA IncludedIs ==
  ASSUME TypeOK
  PROVE  Included = {t \in TxIds : \E b \in 1..Len(Ledger) : t \in ToSet(Queue(b))}
<1>1. QueueFacts
  BY QueueIs
<1>2. DOMAIN Ledger = 1..Len(Ledger)
  BY DEF Ledger, TypeOK
<1>3. \A b \in 1..Len(Ledger) : Queue(b) = Ledger[b]
  BY <1>1 DEF Queue, QueueFacts
<1>4. \A b \in 1..Len(Ledger) : ToSet(Queue(b)) \subseteq TxIds
  BY <1>1 DEF QueueFacts, ToSet
<1>5. QED
  BY <1>2, <1>3, <1>4 DEF Included

(* A transaction of the mempool is not in the ledger.                      *)
LEMMA PooledNotIncluded ==
  ASSUME TypeOK, NoTxTwice, NEW i \in 1..Len(mempool)
  PROVE  mempool[i] \in TxIds /\ mempool[i] \notin Included
<1>1. QueueFacts
  BY QueueIs
<1>2. i \in DOMAIN Queue(0) /\ Queue(0)[i] = mempool[i] /\ mempool[i] \in TxIds
  BY <1>1 DEF QueueFacts, TypeOK
<1>3. ASSUME NEW b \in 1..Len(Ledger), NEW j \in DOMAIN Queue(b)
      PROVE  Queue(b)[j] # mempool[i]
  <2>1. 0 \in 0..Len(Ledger) /\ b \in 0..Len(Ledger) /\ b # 0
    BY <1>1 DEF QueueFacts
  <2>2. QED
    BY <1>2, <2>1 DEF NoTxTwice
<1>4. QED
  BY <1>2, <1>3, IncludedIs DEF ToSet

(* Inclusion adds the iterator's transaction to the ledger, sealing none.  *)
LEMMA IncludedNext ==
  ASSUME TypeOK
  PROVE  /\ UNCHANGED <<blocks, validTxs>> => Included' = Included
         /\ SealBlock => Included' = Included
         /\ IncludeTx /\ it \in 1..Len(mempool) => Included' = Included \cup {mempool[it]}
<1>1. blocks \in Seq(Seq(TxIds)) /\ validTxs \in Seq(TxIds)
  BY DEF TypeOK
<1> DEFINE in(w) == UNION {ToSet(w[b]) : b \in DOMAIN w}
<1>2. ASSUME NEW v \in Seq(TxIds), NEW bs \in Seq(Seq(TxIds))
      PROVE  in(Append(bs, v)) = in(bs) \cup ToSet(v)
  <2>1. /\ Len(bs) \in Nat /\ DOMAIN bs = 1..Len(bs)
        /\ DOMAIN Append(bs, v) = 1..Len(bs) + 1
        /\ Append(bs, v)[Len(bs) + 1] = v
        /\ \A b \in 1..Len(bs) : Append(bs, v)[b] = bs[b]
    BY <1>2
  <2>2. 1..Len(bs) + 1 = 1..Len(bs) \cup {Len(bs) + 1}
    BY <2>1
  <2> DEFINE w == Append(bs, v)
  <2> HIDE DEF w
  <2>3. QED
    BY <2>1, <2>2 DEF w
<1>3. UNCHANGED <<blocks, validTxs>> => Included' = Included
  BY DEF Included, Ledger
<1>0. Included = in(Append(blocks, validTxs)) /\ Included' = in(Append(blocks', validTxs'))
  BY DEF Included, Ledger
<1> HIDE DEF in
<1>4. ASSUME SealBlock
      PROVE  Included' = Included
  <2>1. blocks' = Append(blocks, validTxs) /\ validTxs' = << >>
    BY <1>4 DEF SealBlock
  <2>2. blocks' \in Seq(Seq(TxIds)) /\ << >> \in Seq(TxIds)
    BY <1>1, <2>1
  <2>3. Included' = in(blocks') \cup ToSet(<< >>)
    BY <1>0, <1>2, <2>1, <2>2
  <2>4. ToSet(<< >>) = {}
    BY DEF ToSet
  <2>5. QED
    BY <1>0, <2>1, <2>3, <2>4
<1>5. ASSUME IncludeTx, it \in 1..Len(mempool)
      PROVE  Included' = Included \cup {mempool[it]}
  <2>1. validTxs' = Append(validTxs, mempool[it]) /\ blocks' = blocks
    BY <1>5 DEF IncludeTx
  <2>2. mempool[it] \in TxIds
    BY <1>5 DEF TypeOK
  <2>3. ToSet(validTxs') = ToSet(validTxs) \cup {mempool[it]} /\ validTxs' \in Seq(TxIds)
    <3>1. /\ Len(validTxs) \in Nat /\ DOMAIN validTxs = 1..Len(validTxs)
          /\ DOMAIN validTxs' = 1..Len(validTxs) + 1
          /\ validTxs'[Len(validTxs) + 1] = mempool[it]
          /\ \A i \in 1..Len(validTxs) : validTxs'[i] = validTxs[i]
          /\ validTxs' \in Seq(TxIds)
      BY <1>1, <2>1, <2>2
    <3>2. 1..Len(validTxs) + 1 = 1..Len(validTxs) \cup {Len(validTxs) + 1}
      BY <3>1
    <3>3. QED
      BY <3>1, <3>2 DEF ToSet
  <2>4. /\ Included = in(blocks) \cup ToSet(validTxs)
        /\ Included' = in(blocks) \cup ToSet(validTxs')
    BY <1>0, <1>1, <1>2, <2>1, <2>3
  <2>5. QED
    BY <2>3, <2>4
<1>6. QED
  BY <1>3, <1>4, <1>5

LEMMA ReceiptInvInit ==
  ASSUME Init
  PROVE  ReceiptInv
<1>1. TypeOK /\ QueueFacts
  BY ChainInvInit, QueueIs DEF ChainInv
<1>2. \A b \in 1..Len(Ledger) : ToSet(Queue(b)) = {}
  <2>1. Len(blocks) = 1 /\ blocks[1] = << >> /\ validTxs = << >>
    BY DEF Init
  <2>2. \A b \in 1..Len(Ledger) : Queue(b) = << >>
    BY <1>1, <2>1 DEF QueueFacts
  <2>3. QED
    BY <2>2 DEF ToSet
<1>3. Included = {}
  BY <1>1, <1>2, IncludedIs
<1>4. QED
  BY <1>3 DEF Init, ReceiptInv, OneOp, BusyReceipt, Settled

(* A step keeps what is settled of the transactions it does not apply.     *)
LEMMA SettledKept ==
  ASSUME TypeOK, UNCHANGED <<receipts, txs>>, Included' = Included, NEW t \in TxIds, Settled(t)
  PROVE  Settled(t)'
BY DEF Settled

LEMMA ReceiptInvInductive ==
  ASSUME FcIsStd, MaxOps = 1, ChainInv, ChainInv', PoolInv, ReceiptInv, [Next]_vars
  PROVE  ReceiptInv'
<1>0. /\ TypeOK /\ TypeOK' /\ CursorOK /\ NoTxTwice /\ HeldOnlySubmitted /\ NoneHalfBuilt
      /\ OneOp /\ BusyReceipt /\ \A t \in TxIds : Busy(t) \/ Settled(t)
  BY DEF ChainInv, PoolInv, ReceiptInv
<1>1. ASSUME UNCHANGED <<receipts, txs, mempool, blocks, validTxs>>,
             UNCHANGED <<pc, it, opi>> \/ (pc \in {"idle", "scan"} /\ pc' \in {"idle", "scan"})
      PROVE  ReceiptInv'
  <2>1. Included' = Included
    BY <1>0, <1>1, IncludedNext
  <2>2. OneOp'
    BY <1>0, <1>1 DEF OneOp
  <2>3. BusyReceipt'
    BY <1>0, <1>1 DEF BusyReceipt, CurrentOps
  <2>4. \A t \in TxIds : Busy(t)' \/ Settled(t)'
    BY <1>0, <1>1, <2>1 DEF Busy, Settled
  <2>5. QED
    BY <2>2, <2>3, <2>4 DEF ReceiptInv
(* What applying a transaction starts from: nothing is known of it yet.    *)
<1>2. ASSUME it \in 1..Len(mempool)
      PROVE  /\ mempool[it] \in TxIds /\ mempool[it] \notin Included
             /\ Len(CurrentOps) = 1 /\ CurrentOps = txs[mempool[it]]
             /\ CurrentOps \in Seq(Ops)
  <2>1. mempool[it] \in TxIds /\ mempool[it] \notin Included
    BY <1>0, <1>2, PooledNotIncluded
  <2>2. QueueFacts
    BY <1>0, QueueIs
  <2>3. 0 \in 0..Len(Ledger) /\ it \in DOMAIN Queue(0) /\ Queue(0)[it] = mempool[it]
    <3>1. Queue(0) = mempool /\ 0 \in 0..Len(Ledger)
      BY <2>2 DEF QueueFacts
    <3>2. mempool \in Seq(TxIds)
      BY <1>0 DEF TypeOK
    <3>3. QED
      BY <1>2, <3>1, <3>2
  <2>4. txs[mempool[it]] # << >>
    BY <1>0, <2>3 DEF HeldOnlySubmitted
  <2>5. QED
    BY <1>0, <2>1, <2>4 DEF OneOp, CurrentOps, TypeOK
<1>3. ASSUME NEW kind, Raise(kind), UNCHANGED <<chainVars, poolVars>>, it <= Len(mempool),
             pc # "scan" => opi <= Len(CurrentOps), pc # "idle"
      PROVE  ReceiptInv'
  <2>1. UNCHANGED <<validTxs, receipts, txs, mempool, blocks>> /\ pc' = "scan"
    BY <1>0, <1>3, RaiseQueues DEF chainVars, poolVars
  <2>2. it \in 1..Len(mempool)
    BY <1>0, <1>3 DEF TypeOK
  <2>3. Included' = Included
    BY <1>0, <2>1, IncludedNext
  <2>4. ASSUME NEW t \in TxIds
        PROVE  Settled(t)
    <3>1. CASE Busy(t)
      <4>1. receipts[t] = "none" /\ t \notin Included
        BY <1>0, <1>2, <1>3, <2>2, <3>1 DEF Busy, BusyReceipt, TypeOK
      <4>2. QED
        BY <4>1 DEF Settled
    <3>2. QED
      BY <1>0, <3>1
  <2>5. OneOp' /\ BusyReceipt'
    BY <1>0, <2>1 DEF OneOp, BusyReceipt
  <2>6. QED
    BY <1>0, <2>1, <2>3, <2>4, <2>5, SettledKept DEF ReceiptInv
<1>4. ASSUME NEW t \in TxIds, NEW ops \in TxOps, Submit(t, ops)
      PROVE  ReceiptInv'
  <2>1. /\ txs[t] = << >> /\ txs' = [txs EXCEPT ![t] = ops] /\ pc = "idle" /\ pc' = "idle"
        /\ UNCHANGED <<receipts, blocks, validTxs>>
    BY <1>4 DEF Submit, genVars, chainVars
  <2>2. Included' = Included
    BY <1>0, <2>1, IncludedNext
  <2>3. Len(ops) = 1
    <3>1. PICK n \in 1..MaxOps : ops \in [1..n -> Ops]
      BY DEF TxOps
    <3>2. n = 1
      BY <3>1
    <3>3. QED
      BY <3>1, <3>2
  <2>4. OneOp'
    BY <1>0, <2>1, <2>3 DEF OneOp, TypeOK
  <2>5. t \notin Included
    <3>1. QueueFacts
      BY <1>0, QueueIs
    <3>2. \A b \in 1..Len(Ledger) : b \in 0..Len(Ledger)
      BY <3>1 DEF QueueFacts
    <3>3. \A b \in 1..Len(Ledger) : t \notin ToSet(Queue(b))
      BY <1>0, <2>1, <3>2 DEF HeldOnlySubmitted, ToSet
    <3>4. QED
      BY <1>0, <3>3, IncludedIs
  <2>6. ASSUME NEW u \in TxIds
        PROVE  Settled(u)'
    <3>1. Settled(u)
      BY <1>0, <2>1 DEF Busy
    <3>2. u # t => txs'[u] = txs[u]
      BY <1>0, <2>1 DEF TypeOK
    <3>3. QED
      BY <2>1, <2>2, <2>5, <3>1, <3>2 DEF Settled
  <2>7. BusyReceipt'
    BY <2>1 DEF BusyReceipt
  <2>8. QED
    BY <2>4, <2>6, <2>7 DEF ReceiptInv
<1>5. CASE StartBlock
  <2>1. validTxs' = validTxs
    BY <1>0, <1>5 DEF StartBlock, NoneHalfBuilt
  <2>2. QED
    BY <1>1, <1>5, <2>1 DEF StartBlock, chainVars, poolVars
<1>6. CASE EvaluateTx
  <2>1. /\ pc = "scan" /\ pc' = "apply" /\ opi' = 1 /\ it \in 1..Len(mempool)
        /\ UNCHANGED <<receipts, txs, mempool, blocks, validTxs, it>>
    BY <1>0, <1>6 DEF EvaluateTx, chainVars, poolVars, TypeOK
  <2>2. Included' = Included
    BY <1>0, <2>1, IncludedNext
  <2>3. \A t \in TxIds : Settled(t)
    BY <1>0, <2>1 DEF Busy
  <2>4. receipts[mempool[it]] = "none"
    BY <1>2, <2>1, <2>3 DEF Settled
  <2>5. BusyReceipt'
    <3>1. Len(CurrentOps)' = 1
      BY <1>2, <2>1 DEF CurrentOps
    <3>2. opi' = 1 /\ receipts'[mempool'[it']] = "none" /\ ~ (opi' > Len(CurrentOps)')
      BY <2>1, <2>4, <3>1
    <3>3. QED
      BY <3>2 DEF BusyReceipt
  <2>6. OneOp' /\ \A t \in TxIds : Settled(t)'
    BY <1>0, <2>1, <2>2, <2>3, SettledKept DEF OneOp
  <2>7. QED
    BY <2>5, <2>6 DEF ReceiptInv
<1>7. CASE ApplyOp \/ UpdateBalance
  <2>1. /\ UNCHANGED <<receipts, txs, mempool, blocks, validTxs, it, opi>>
        /\ pc \in {"apply", "update"} /\ pc' = "update"
    BY <1>7 DEF ApplyOp, UpdateBalance, poolVars
  <2>2. Included' = Included
    BY <1>0, <2>1, IncludedNext
  <2>3. OneOp' /\ BusyReceipt' /\ \A t \in TxIds : Busy(t)' \/ Settled(t)'
    BY <1>0, <2>1, <2>2 DEF OneOp, BusyReceipt, CurrentOps, Busy, Settled
  <2>4. QED
    BY <2>3 DEF ReceiptInv
<1>8. CASE FinishOp
  <2> DEFINE cur == mempool[it]
             o   == CurrentOps[opi]
  <2>1. /\ pc = "update" /\ pc' = "apply" /\ opi' = opi + 1
        /\ receipts' = [receipts EXCEPT ![cur] = Receipt(o)]
        /\ UNCHANGED <<txs, mempool, blocks, validTxs, it>>
    BY <1>8 DEF FinishOp, poolVars
  <2>2. it \in 1..Len(mempool) /\ opi <= Len(CurrentOps)
    BY <1>0, <2>1 DEF CursorOK, TypeOK
  <2>3. Len(CurrentOps) = 1 /\ cur \in TxIds /\ cur \notin Included
    BY <1>2, <2>2
  <2>4. opi = 1 /\ receipts[cur] = "none"
    BY <1>0, <2>1, <2>2, <2>3 DEF BusyReceipt, TypeOK
  <2>5. Included' = Included
    BY <1>0, <2>1, IncludedNext
  <2>6. receipts'[cur] = Receipt(o) /\ \A t \in TxIds \ {cur} : receipts'[t] = receipts[t]
    BY <1>0, <2>1, <2>3 DEF TypeOK
  <2>7. (Receipt(o) # "none") <=> o.kind \in {"create", "invoke"}
    BY <2>4 DEF Receipt
  <2>8. CallsContract(CurrentOps) <=> o.kind \in {"create", "invoke"}
    BY <2>3, <2>4 DEF CallsContract
  <2>9. BusyReceipt'
    <3>1. CurrentOps' = CurrentOps /\ mempool'[it'] = cur
      BY <2>1 DEF CurrentOps
    <3>2. (receipts'[cur] # "none") <=> CallsContract(CurrentOps)
      BY <2>6, <2>7, <2>8
    <3>3. opi' > Len(CurrentOps)
      BY <2>1, <2>3, <2>4
    <3>4. CallsContract(CurrentOps)' <=> CallsContract(CurrentOps)
      BY <3>1 DEF CallsContract
    <3>5. opi' > Len(CurrentOps)'
      BY <3>1, <3>3
    <3>6. (receipts'[mempool'[it']] # "none") <=> CallsContract(CurrentOps)'
      BY <3>1, <3>2, <3>4
    <3>7. QED
      BY <3>5, <3>6 DEF BusyReceipt
  <2>10. OneOp'
    BY <1>0, <2>1 DEF OneOp
  <2>11. ASSUME NEW t \in TxIds
         PROVE  Busy(t)' \/ Settled(t)'
    <3>1. CASE t = cur
      BY <2>1, <3>1 DEF Busy
    <3>2. CASE t # cur
      BY <1>0, <2>1, <2>5, <2>6, <3>2 DEF Busy, Settled
    <3>3. QED
      BY <3>1, <3>2
  <2>12. QED
    BY <2>9, <2>10, <2>11 DEF ReceiptInv
<1>9. CASE IncludeTx
  <2>1. /\ pc = "apply" /\ pc' = "scan" /\ opi > Len(CurrentOps)
        /\ UNCHANGED <<receipts, txs, blocks>>
    BY <1>9 DEF IncludeTx, chainVars
  <2>2. it \in 1..Len(mempool)
    BY <1>0, <2>1 DEF CursorOK, TypeOK
  <2>3. Included' = Included \cup {mempool[it]}
    BY <1>0, <1>9, <2>2, IncludedNext
  <2>4. (receipts[mempool[it]] # "none") <=> CallsContract(txs[mempool[it]])
    BY <1>0, <1>2, <2>1, <2>2 DEF BusyReceipt
  <2>5. \A t \in TxIds : Settled(t)'
    BY <1>0, <2>1, <2>3, <2>4 DEF Busy, Settled
  <2>6. OneOp' /\ BusyReceipt'
    BY <1>0, <2>1 DEF OneOp, BusyReceipt
  <2>7. QED
    BY <2>5, <2>6 DEF ReceiptInv
<1>10. CASE SealBlock
  <2>1. pc = "scan" /\ pc' = "idle" /\ UNCHANGED <<receipts, txs>>
    BY <1>10 DEF SealBlock, chainVars
  <2>2. Included' = Included
    BY <1>0, <1>10, IncludedNext
  <2>3. OneOp' /\ BusyReceipt' /\ \A t \in TxIds : Settled(t)'
    BY <1>0, <2>1, <2>2, SettledKept DEF OneOp, BusyReceipt, Busy
  <2>4. QED
    BY <2>3 DEF ReceiptInv
<1>11. CASE EvaluateTxThrows \/ ApplyOpThrows \/ UpdateBalanceThrows
  <2>1. /\ \E kind : Raise(kind)
        /\ UNCHANGED <<chainVars, poolVars>>
        /\ it <= Len(mempool) /\ pc # "idle" /\ (pc # "scan" => opi <= Len(CurrentOps))
    BY <1>0, <1>11 DEF EvaluateTxThrows, ApplyOpThrows, UpdateBalanceThrows, CursorOK
  <2>2. QED
    BY <1>3, <2>1
<1>12. ASSUME NEW a \in AssetIds, AddAsset(a)
       PROVE  ReceiptInv'
  BY <1>1, <1>12 DEF AddAsset, genVars, poolVars
<1>13. CASE UNCHANGED vars
  BY <1>1, <1>13 DEF vars, chainVars, poolVars, genVars
<1>14. QED
  BY <1>4, <1>5, <1>6, <1>7, <1>8, <1>9, <1>10, <1>11, <1>12, <1>13 DEF Next, GenerateBlock

(* For transactions of one operation, however many, a receipt says what    *)
(* the chain holds: whatever calls fail, run short of gas or are refused   *)
(* between two balance updates.                                            *)
THEOREM ChainReceiptsMatch ==
  ASSUME FcIsStd, MaxOps = 1
  PROVE  Spec => []ReceiptsMatchChain
<1>1. Init => ChainInv /\ PoolInv /\ ReceiptInv
  BY ChainInvInit, PoolInvInit, ReceiptInvInit
<1>2. ChainInv /\ PoolInv /\ ReceiptInv /\ [Next]_vars => ChainInv' /\ PoolInv' /\ ReceiptInv'
  BY ChainInvInductive, PoolInvInductive, ReceiptInvInductive
<1>3. ReceiptInv => ReceiptsMatchChain
  BY DEF ReceiptInv, ReceiptsMatchChain, BetweenTxs, Busy, Settled
<1>4. QED
  BY <1>1, <1>2, <1>3, PTL DEF Spec
-----------------------------------------------------------------------------
(***************************************************************************)
(* Money.  The balance updates of an operation are written one by one and  *)
(* may be refused, so both invariants say what the updates still pending   *)
(* will bring.                                                             *)
(***************************************************************************)

(* What the proofs need of the operations: calls come from accounts, and a *)
(* mint to a contract is no negative number once it is an int64_t.         *)
PlainOps ==
  \A o \in Ops :
    /\ o.kind = "invoke" => o.caller \in Accounts
    /\ o.kind = "mint" /\ o.addr \in Contracts => ToInt64(o.amount) >= 0

CurrentOp == CurrentOps[opi]

(* The pending update at position i, as far as it touches an asset, or an  *)
(* address and an asset.                                                   *)
MoveOf(i, s)    == IF i <= Len(todo) /\ todo[i].asset = s THEN todo[i].delta ELSE 0
DeltaOf(i, a, s) == IF i <= Len(todo) /\ todo[i].addr = a THEN MoveOf(i, s) ELSE 0
Pending(a, s)   == DeltaOf(1, a, s) + DeltaOf(2, a, s)

(* What the contract's books change by when the operation finishes.        *)
Due(o, c, s) ==
  IF o.kind = "invoke" /\ Evaluate(o) = "ok" /\ c = o.contract /\ s = o.asset
  THEN CASE o.api = "on_deposit_asset" -> ToInt64(o.deposit)
         [] o.api = "withdraw"         -> - ToInt64(o.amount)
         [] OTHER                      -> 0
  ELSE 0

Solvent == \A c \in Contracts, s \in AssetIds : balances[c][s] >= Owed(c, s)

Gains(from) == \A i \in 1..Len(todo) : i >= from => todo[i].delta > 0

PendingSolvent ==
  /\ \A c \in Contracts, s \in AssetIds :
       balances[c][s] + Pending(c, s) >= Owed(c, s) + Due(CurrentOp, c, s)
  /\ Solvent \/ Gains(1)

(* A contract is debited before nothing but credits.                       *)
DebitsFirst ==
  \A i \in 1..Len(todo) : todo[i].addr \in Contracts /\ todo[i].delta <= 0 => Gains(i + 1)

SolventInv ==
  IF pc = "update" THEN Len(todo) <= 2 /\ PendingSolvent /\ DebitsFirst ELSE Solvent

----------------------------------------------------------------------------
(* Owed sums integers.                                                     *)
LEMMA OwedType ==
  ASSUME TypeOK, NEW c \in Contracts, NEW s \in AssetIds
  PROVE  Owed(c, s) \in Int
<1>1. [a \in Addresses |-> storage[c].books[a][s]] \in [Addresses -> Int]
  BY DEF TypeOK
<1>2. QED
  BY <1>1, BooksType, ChainAssumption DEF Owed

LEMMA PendingType ==
  ASSUME TypeOK, NEW a \in Addresses, NEW s \in AssetIds
  PROVE  /\ MoveOf(1, s) \in Int /\ MoveOf(2, s) \in Int
         /\ DeltaOf(1, a, s) \in Int /\ DeltaOf(2, a, s) \in Int
         /\ Pending(a, s) \in Int
         /\ todo = << >> => Pending(a, s) = 0 /\ MoveOf(1, s) = 0 /\ MoveOf(2, s) = 0
<1>1. todo \in Seq(Changes) /\ Len(todo) \in Nat
  BY DEF TypeOK, Changes
<1>2. \A i \in 1..Len(todo) : todo[i].delta \in Int
  <2>1. \A i \in 1..Len(todo) : todo[i] \in Changes
    BY <1>1
  <2>2. \A x \in Changes : x.delta \in Int
    BY DEF Changes
  <2>3. QED
    BY <2>1, <2>2
<1>3. QED
  BY <1>1, <1>2 DEF MoveOf, DeltaOf, Pending

MoveTypes == \A s \in AssetIds : MoveOf(1, s) \in Int /\ MoveOf(2, s) \in Int

LEMMA MoveTyped == TypeOK => MoveTypes
<1>1. SUFFICES ASSUME TypeOK, NEW s \in AssetIds
               PROVE  MoveOf(1, s) \in Int /\ MoveOf(2, s) \in Int
  BY DEF MoveTypes
<1>2. todo \in Seq(Changes) /\ Len(todo) \in Nat
  BY <1>1 DEF TypeOK, Changes
<1>3. \A i \in 1..Len(todo) : todo[i] \in Changes
  BY <1>2
<1>4. \A x \in Changes : x.delta \in Int
  BY DEF Changes
<1>5. QED
  BY <1>2, <1>3, <1>4 DEF MoveOf

LEMMA MoveTypesNext == TypeOK' => MoveTypes'
BY MoveTyped, PTL

MoneyTypes ==
  \A s \in AssetIds :
    /\ \A c \in Contracts : Owed(c, s) \in Int
    /\ \A a \in Addresses : balances[a][s] \in Int /\ Pending(a, s) \in Int

LEMMA MoneyTyped == TypeOK => MoneyTypes
<1>1. TypeOK => \A a \in Addresses, s \in AssetIds : balances[a][s] \in Int
  BY DEF TypeOK
<1>2. QED
  BY <1>1, OwedType, PendingType DEF MoneyTypes

LEMMA MoneyTypedNext == TypeOK' => MoneyTypes'
BY MoneyTyped, PTL

(* After the head is written, the second update is the first.              *)
LEMMA PendingNext ==
  ASSUME TypeOK, TypeOK', UpdateBalance, Len(todo) <= 2
  PROVE  /\ Len(todo') = Len(todo) - 1 /\ Len(todo) \in Nat
         /\ \A i \in 1..Len(todo) - 1 : todo'[i] = todo[i + 1]
         /\ \A s \in AssetIds : MoveOf(1, s)' = MoveOf(2, s) /\ MoveOf(2, s)' = 0
         /\ \A a \in Addresses, s \in AssetIds :
              DeltaOf(1, a, s)' = DeltaOf(2, a, s) /\ DeltaOf(2, a, s)' = 0
         /\ Head(todo) = todo[1] /\ 1 <= Len(todo)
         /\ todo[1] \in Changes
<1>1. todo \in Seq(Changes) /\ Len(todo) \in Nat /\ todo # << >>
  BY DEF TypeOK, Changes, UpdateBalance
<1>2. /\ Head(todo) = todo[1] /\ 1 <= Len(todo) /\ todo[1] \in Changes
      /\ Len(Tail(todo)) = Len(todo) - 1
      /\ \A i \in 1..Len(todo) - 1 : Tail(todo)[i] = todo[i + 1]
  BY <1>1
<1>3. todo' = Tail(todo)
  BY DEF UpdateBalance
<1>4. /\ Len(todo') = Len(todo) - 1
      /\ \A i \in 1..Len(todo) - 1 : todo'[i] = todo[i + 1]
  BY <1>2, <1>3
<1>5. /\ 1 <= Len(todo') <=> 2 <= Len(todo)
      /\ ~ (2 <= Len(todo'))
      /\ 2 <= Len(todo) => todo'[1] = todo[2]
  <2>1. 2 <= Len(todo) => 1 \in 1..Len(todo) - 1
    BY <1>1
  <2>2. QED
    BY <1>1, <1>4, <2>1
<1>6. \A s \in AssetIds : MoveOf(1, s)' = MoveOf(2, s) /\ MoveOf(2, s)' = 0
  BY <1>5 DEF MoveOf
<1>7. \A a \in Addresses, s \in AssetIds :
        DeltaOf(1, a, s)' = DeltaOf(2, a, s) /\ DeltaOf(2, a, s)' = 0
  BY <1>5, <1>6 DEF DeltaOf
<1>8. QED
  BY <1>1, <1>2, <1>4, <1>6, <1>7

(* The updates of an operation, for plain operations.                      *)
LEMMA UpdatesPlain ==
  ASSUME TypeOK, PlainOps, NEW o \in Ops, ~ Throws(o)
  PROVE  \/ /\ o.kind \in {"register", "create"} \/ (o.kind = "invoke" /\ Evaluate(o) # "ok")
               \/ (o.kind = "invoke" /\ o.api = "init_config")
            /\ Updates(o) = << >>
         \/ /\ o.kind = "mint"
            /\ Updates(o) = <<Change(o.addr, o.asset, ToInt64(o.amount))>>
            /\ o.addr \in Contracts => ToInt64(o.amount) >= 0
         \/ /\ o.kind = "transfer" /\ o.from \in Accounts /\ o.to \in Accounts
            /\ balances[o.from][o.asset] >= ToInt64(o.amount)
            /\ Updates(o) = <<Change(o.to, o.asset, ToInt64(o.amount)),
                              Change(o.from, o.asset, - ToInt64(o.amount))>>
         \/ /\ o.kind = "invoke" /\ Evaluate(o) = "ok" /\ o.api = "on_deposit_asset"
            /\ o.caller \in Accounts /\ ToInt64(o.deposit) > 0
            /\ LET debit  == Change(o.caller, o.asset, - ToInt64(o.deposit))
                   credit == Change(o.contract, o.asset, ToInt64(o.deposit))
               IN  Updates(o) \in {<<debit, credit>>, <<credit, debit>>}
         \/ /\ o.kind = "invoke" /\ Evaluate(o) = "ok" /\ o.api = "withdraw"
            /\ o.caller \in Accounts /\ ToInt64(o.amount) > 0
            /\ ToInt64(o.amount) <= storage[o.contract].books[o.caller][o.asset]
            /\ LET debit  == Change(o.contract, o.asset, - ToInt64(o.amount))
                   credit == Change(o.caller, o.asset, ToInt64(o.amount))
               IN  Updates(o) \in {<<debit, credit>>, <<credit, debit>>}
<1>1. CASE o.kind \in {"register", "create"} \/ (o.kind = "invoke" /\ Evaluate(o) # "ok")
  BY <1>1 DEF Updates
<1>2. CASE o.kind = "mint"
  BY <1>2 DEF Updates, PlainOps
<1>3. CASE o.kind = "transfer"
  <2>1. /\ o.from \in Addresses \ Contracts /\ o.to \in Addresses \ Contracts
        /\ balances[o.from][o.asset] >= ToInt64(o.amount)
    BY <1>3, OpFields DEF Throws, Evaluate
  <2>2. QED
    BY <1>3, <2>1 DEF Updates, Addresses
<1>4. CASE o.kind = "invoke" /\ Evaluate(o) = "ok"
  <2>1. /\ o.caller \in Accounts /\ o.contract \in Contracts /\ o.caller # o.contract
        /\ o.caller \notin Contracts /\ o.api \in Apis
    BY <1>4, OpFields, ChainAssumption DEF PlainOps
  <2>2. ApiAccepts(o)
    BY <1>4 DEF Evaluate, CallSucceeds
  <2>3. Updates(o) = CallChanges(o)
    BY <1>4 DEF Updates
  <2>4. CASE o.api = "init_config"
    BY <1>4, <2>3, <2>4 DEF CallChanges
  <2>5. CASE o.api = "on_deposit_asset"
    <3>1. ToInt64(o.deposit) > 0
      BY <2>2, <2>5 DEF ApiAccepts
    <3>2. QED
      BY <1>4, <2>1, <2>3, <2>5, <3>1 DEF CallChanges, ContractTransfer
  <2>6. CASE o.api = "withdraw"
    <3>1. ToInt64(o.amount) > 0
          /\ ToInt64(o.amount) <= storage[o.contract].books[o.caller][o.asset]
      BY <2>2, <2>6 DEF ApiAccepts
    <3>2. QED
      BY <1>4, <2>1, <2>3, <2>6, <3>1 DEF CallChanges, ContractTransfer
  <2>7. QED
    BY <2>1, <2>4, <2>5, <2>6 DEF Apis
<1>5. QED
  BY <1>1, <1>2, <1>3, <1>4, OpFields

(* Evaluation of an operation that is no transfer does not look at         *)
(* balances, so Due is the same until the operation finishes.              *)
LEMMA DueKept ==
  ASSUME UNCHANGED <<assets, contracts, storage>>, NEW o, NEW c, NEW s
  PROVE  Due(o, c, s)' = Due(o, c, s)
BY DEF Due, Evaluate, CallSucceeds, ApiAccepts

LEMMA DueType ==
  ASSUME NEW o \in Ops, NEW c \in Contracts, NEW s \in AssetIds
  PROVE  Due(o, c, s) \in Int
<1>1. CASE o.kind = "invoke"
  <2>1. ToInt64(o.deposit) \in Int /\ ToInt64(o.amount) \in Int
    BY <1>1, OpFields, ToInt64Type
  <2>2. QED
    BY <2>1 DEF Due
<1>2. CASE o.kind # "invoke"
  BY <1>2 DEF Due
<1>3. QED
  BY <1>1, <1>2

(* Writing the head of todo.                                               *)
LEMMA BalanceNext ==
  ASSUME TypeOK, TypeOK', UpdateBalance, Len(todo) <= 2,
         NEW a \in Addresses, NEW s \in AssetIds
  PROVE  /\ balances[a][s] \in Int
         /\ balances'[a][s] = balances[a][s] + DeltaOf(1, a, s)
<1>1. /\ balances' = [balances EXCEPT ![todo[1].addr][todo[1].asset] = @ + todo[1].delta]
      /\ todo[1] \in Changes /\ 1 <= Len(todo)
  BY PendingNext DEF UpdateBalance
<1>2. balances \in [Addresses -> [AssetIds -> Int]]
  BY DEF TypeOK
<1>3. todo[1].addr \in Addresses /\ todo[1].asset \in AssetIds /\ todo[1].delta \in Int
  BY <1>1 DEF Changes
<1>4. DeltaOf(1, a, s) = IF todo[1].addr = a /\ todo[1].asset = s THEN todo[1].delta ELSE 0
  BY <1>1 DEF DeltaOf, MoveOf
<1>5. balances'[a][s] = IF todo[1].addr = a /\ todo[1].asset = s
                        THEN balances[a][s] + todo[1].delta ELSE balances[a][s]
  BY <1>1, <1>2, <1>3
<1>6. QED
  BY <1>2, <1>3, <1>4, <1>5

(* An operation's updates come to what it will book, and debit a contract  *)
(* before nothing but credits.                                             *)
LEMMA ApplySolvent ==
  ASSUME TypeOK, TypeOK', CursorOK, PlainOps, Solvent, ApplyOp
  PROVE  SolventInv'
<1>0. PICK o : o = CurrentOp
  OBVIOUS
<1>1. /\ pc' = "update" /\ ~ Throws(o) /\ todo' = Updates(o)
      /\ UNCHANGED <<balances, storage, assets, txs, mempool, it, opi>>
      /\ contracts' = IF o.kind = "create" /\ Evaluate(o) = "ok"
                      THEN [contracts EXCEPT ![o.contract] = o.caller] ELSE contracts
  BY <1>0 DEF ApplyOp, poolVars, CurrentOp
<1>2. o \in Ops
  BY <1>0, CurrentOpsType, SMTT(60) DEF ApplyOp, CursorOK, TypeOK, CurrentOp
<1>3. CurrentOp' = o
  BY <1>0, <1>1 DEF CurrentOp, CurrentOps
<1>4. Solvent'
  BY <1>1 DEF Solvent, Owed
<1>5. ASSUME NEW c \in Contracts, NEW s \in AssetIds
      PROVE  Due(o, c, s)' = Due(o, c, s)
  <2>1. CASE o.kind = "create"
    BY <2>1 DEF Due
  <2>2. CASE o.kind # "create"
    BY <1>1, <2>2, DueKept
  <2>3. QED
    BY <2>1, <2>2
<1>6. Len(todo') <= 2 /\ DebitsFirst'
      /\ \A c \in Contracts, s \in AssetIds : Pending(c, s)' >= Due(o, c, s)
  <2>0. o.kind = "invoke" => /\ o.contract \in Contracts /\ o.asset \in AssetIds
                             /\ ToInt64(o.deposit) \in Int /\ ToInt64(o.amount) \in Int
    BY <1>2, OpFields, ToInt64Type
  <2>1. CASE todo' = << >> /\ (o.kind \in {"register", "create"} \/ (o.kind = "invoke" /\
               (Evaluate(o) # "ok" \/ o.api = "init_config")))
    <3>1. \A c \in Contracts, s \in AssetIds : Pending(c, s)' = 0 /\ Due(o, c, s) = 0
      BY <2>1 DEF Pending, DeltaOf, MoveOf, Due
    <3>2. QED
      BY <2>1, <3>1 DEF DebitsFirst
  <2>2. CASE /\ o.kind = "mint"
             /\ todo' = <<Change(o.addr, o.asset, ToInt64(o.amount))>>
             /\ o.addr \in Contracts => ToInt64(o.amount) >= 0
    <3>1. ToInt64(o.amount) \in Int
      BY <1>2, <2>2, OpFields, ToInt64Type
    <3>2. Len(todo') = 1 /\ todo'[1] = Change(o.addr, o.asset, ToInt64(o.amount))
      BY <2>2
    <3>3. \A c \in Contracts, s \in AssetIds : Pending(c, s)' >= 0 /\ Due(o, c, s) = 0
      BY <2>2, <3>1, <3>2 DEF Pending, DeltaOf, MoveOf, Due, Change
    <3>4. QED
      BY <3>2, <3>3 DEF DebitsFirst, Gains
  <2>3. ASSUME NEW x, NEW y, todo' = <<x, y>>
        PROVE  /\ Len(todo') = 2 /\ todo'[1] = x /\ todo'[2] = y
               /\ (x.addr \in Contracts /\ x.delta <= 0 => y.delta > 0) => DebitsFirst'
    <3>1. Len(todo') = 2 /\ todo'[1] = x /\ todo'[2] = y
      BY <2>3
    <3>2. QED
      BY <3>1 DEF DebitsFirst, Gains
  <2>4. CASE /\ o.kind = "transfer" /\ o.from \in Accounts /\ o.to \in Accounts
             /\ todo' = <<Change(o.to, o.asset, ToInt64(o.amount)),
                          Change(o.from, o.asset, - ToInt64(o.amount))>>
    <3>1. o.to \notin Contracts /\ o.from \notin Contracts
      BY <2>4, ChainAssumption
    <3>2. \A c \in Contracts, s \in AssetIds : Pending(c, s)' = 0 /\ Due(o, c, s) = 0
      BY <2>3, <2>4, <3>1 DEF Pending, DeltaOf, MoveOf, Due, Change
    <3>3. QED
      BY <2>3, <2>4, <3>1, <3>2 DEF Change
  <2>5. CASE /\ o.kind = "invoke" /\ Evaluate(o) = "ok" /\ o.api = "on_deposit_asset"
             /\ o.caller \in Accounts /\ ToInt64(o.deposit) > 0
             /\ LET debit  == Change(o.caller, o.asset, - ToInt64(o.deposit))
                    credit == Change(o.contract, o.asset, ToInt64(o.deposit))
                IN  todo' = <<debit, credit>> \/ todo' = <<credit, debit>>
    <3>1. o.caller \notin Contracts
      BY <2>5, ChainAssumption
    <3>2. \A c \in Contracts, s \in AssetIds : Pending(c, s)' = Due(o, c, s)
      BY <2>0, <2>3, <2>5, <3>1 DEF Pending, DeltaOf, MoveOf, Due, Change
    <3>3. ToInt64(o.deposit) \in Int /\ ~ (ToInt64(o.deposit) <= 0)
      BY <2>0, <2>5
    <3>4. DebitsFirst' /\ Len(todo') = 2
      BY <2>3, <2>5, <3>1, <3>3 DEF Change
    <3>5. \A c \in Contracts, s \in AssetIds : Due(o, c, s) \in Int
      BY <1>2, DueType
    <3>6. QED
      BY <3>2, <3>4, <3>5
  <2>6. CASE /\ o.kind = "invoke" /\ Evaluate(o) = "ok" /\ o.api = "withdraw"
             /\ o.caller \in Accounts /\ ToInt64(o.amount) > 0
             /\ LET debit  == Change(o.contract, o.asset, - ToInt64(o.amount))
                    credit == Change(o.caller, o.asset, ToInt64(o.amount))
                IN  todo' = <<debit, credit>> \/ todo' = <<credit, debit>>
    <3>1. o.caller \notin Contracts
      BY <2>6, ChainAssumption
    <3>2. \A c \in Contracts, s \in AssetIds : Pending(c, s)' = Due(o, c, s)
      BY <2>0, <2>3, <2>6, <3>1 DEF Pending, DeltaOf, MoveOf, Due, Change
    <3>4. DebitsFirst' /\ Len(todo') = 2
      BY <2>3, <2>6, <3>1 DEF Change
    <3>5. \A c \in Contracts, s \in AssetIds : Due(o, c, s) \in Int
      BY <1>2, DueType
    <3>6. QED
      BY <3>2, <3>4, <3>5
  <2>7. QED
    BY <1>1, <1>2, <2>1, <2>2, <2>4, <2>5, <2>6, UpdatesPlain
<1>7. ASSUME NEW c \in Contracts, NEW s \in AssetIds
      PROVE  (balances[c][s] + Pending(c, s) >= Owed(c, s) + Due(CurrentOp, c, s))'
  <2>1. balances'[c][s] \in Int /\ Owed(c, s)' \in Int /\ Pending(c, s)' \in Int
        /\ Due(o, c, s) \in Int
    <3>1. c \in Addresses
      BY DEF Addresses
    <3>2. MoneyTypes'
      BY MoneyTypedNext
    <3>3. QED
      BY <1>2, <3>1, <3>2, DueType DEF MoneyTypes
  <2>2. balances'[c][s] >= Owed(c, s)' /\ Pending(c, s)' >= Due(o, c, s)
    BY <1>4, <1>6 DEF Solvent
  <2>3. Due(CurrentOp, c, s)' = Due(o, c, s)
    BY <1>3, <1>5
  <2>4. QED
    BY <2>1, <2>2, <2>3
<1>8. QED
  BY <1>1, <1>4, <1>6, <1>7 DEF SolventInv, PendingSolvent

(* Writing one update keeps what balances and pending updates come to; a   *)
(* debit of a contract is followed by nothing that can be refused.         *)
LEMMA UpdateSolvent ==
  ASSUME TypeOK, TypeOK', CursorOK, SolventInv, UpdateBalance
  PROVE  SolventInv'
<1>1. /\ pc = "update" /\ pc' = "update"
      /\ UNCHANGED <<contracts, storage, assets, txs, mempool, it, opi>>
  BY DEF UpdateBalance, poolVars
<1>2. Len(todo) <= 2 /\ PendingSolvent /\ DebitsFirst
  BY <1>1 DEF SolventInv
<1>3. /\ Len(todo') = Len(todo) - 1 /\ Len(todo) \in Nat /\ 1 <= Len(todo)
      /\ \A i \in 1..Len(todo) - 1 : todo'[i] = todo[i + 1]
      /\ todo[1] \in Changes
  BY <1>2, PendingNext
<1>4. PICK o : o = CurrentOp
  OBVIOUS
<1>5. CurrentOp' = o
  BY <1>1, <1>4 DEF CurrentOp, CurrentOps
<1>6. MoneyTypes /\ MoneyTypes'
  BY MoneyTyped, MoneyTypedNext
<1>7. ASSUME NEW c \in Contracts, NEW s \in AssetIds
      PROVE  /\ (balances[c][s] + Pending(c, s) >= Owed(c, s) + Due(CurrentOp, c, s))'
             /\ balances'[c][s] = balances[c][s] + DeltaOf(1, c, s)
             /\ Owed(c, s)' = Owed(c, s)
  <2>0. c \in Addresses
    BY DEF Addresses
  <2>1. /\ balances[c][s] \in Int /\ balances'[c][s] = balances[c][s] + DeltaOf(1, c, s)
    BY <1>2, <2>0, BalanceNext
  <2>2. /\ Pending(c, s) = DeltaOf(1, c, s) + DeltaOf(2, c, s)
        /\ Pending(c, s)' = DeltaOf(2, c, s) + 0
        /\ DeltaOf(1, c, s) \in Int /\ DeltaOf(2, c, s) \in Int
    <3>1. DeltaOf(1, c, s)' = DeltaOf(2, c, s) /\ DeltaOf(2, c, s)' = 0
      BY <1>2, <2>0, PendingNext
    <3>2. DeltaOf(1, c, s) \in Int /\ DeltaOf(2, c, s) \in Int
      BY <2>0, PendingType
    <3>3. QED
      BY <3>1, <3>2 DEF Pending
  <2>3. Owed(c, s)' = Owed(c, s)
    BY <1>1 DEF Owed
  <2>4. Due(CurrentOp, c, s)' = Due(CurrentOp, c, s)
    <3>1. Due(o, c, s)' = Due(o, c, s)
      BY <1>1, DueKept
    <3>2. QED
      BY <1>4, <1>5, <3>1
  <2>5. balances[c][s] + Pending(c, s) >= Owed(c, s) + Due(CurrentOp, c, s)
    BY <1>2 DEF PendingSolvent
  <2>6. balances'[c][s] + Pending(c, s)' = balances[c][s] + Pending(c, s)
    BY <2>1, <2>2
  <2>7. QED
    BY <2>1, <2>3, <2>4, <2>5, <2>6
<1>8. (Solvent \/ Gains(1))'
  <2>1. CASE Gains(1)
    <3>1. \A i \in 1..Len(todo') : todo'[i].delta > 0
      BY <1>3, <2>1 DEF Gains
    <3>2. QED
      BY <3>1 DEF Gains
  <2>2. CASE Solvent /\ todo[1].addr \in Contracts /\ todo[1].delta <= 0
    <3>1. Gains(1 + 1)
      BY <1>2, <1>3, <2>2 DEF DebitsFirst
    <3>2. \A i \in 1..Len(todo') : todo'[i].delta > 0
      BY <1>3, <3>1 DEF Gains
    <3>3. QED
      BY <3>2 DEF Gains
  <2>3. CASE Solvent /\ (todo[1].addr \notin Contracts \/ todo[1].delta > 0)
    <3>1. ASSUME NEW c \in Contracts, NEW s \in AssetIds
          PROVE  balances'[c][s] >= Owed(c, s)'
      <4>1. DeltaOf(1, c, s) >= 0 /\ DeltaOf(1, c, s) \in Int
        BY <1>3, <2>3 DEF DeltaOf, MoveOf, Changes
      <4>2. balances[c][s] \in Int /\ Owed(c, s) \in Int
        BY <1>6 DEF MoneyTypes, Addresses
      <4>3. balances[c][s] >= Owed(c, s)
        BY <2>3 DEF Solvent
      <4>4. QED
        BY <1>7, <4>1, <4>2, <4>3
    <3>2. QED
      BY <3>1 DEF Solvent
  <2>4. todo[1].delta \in Int
    BY <1>3 DEF Changes
  <2>5. QED
    BY <1>2, <2>1, <2>2, <2>3, <2>4 DEF PendingSolvent
<1>9. DebitsFirst'
  <2>1. SUFFICES ASSUME NEW i \in 1..Len(todo'), todo'[i].addr \in Contracts,
                        todo'[i].delta <= 0, NEW j \in 1..Len(todo'), j >= i + 1
                 PROVE  todo'[j].delta > 0
    BY DEF DebitsFirst, Gains
  <2>2. i + 1 \in 1..Len(todo) /\ j + 1 \in 1..Len(todo) /\ j + 1 >= (i + 1) + 1
    BY <1>3, <2>1
  <2>3. todo'[i] = todo[i + 1] /\ todo'[j] = todo[j + 1]
    BY <1>3, <2>1
  <2>4. Gains((i + 1) + 1)
    BY <1>2, <2>1, <2>2, <2>3 DEF DebitsFirst
  <2>5. QED
    BY <2>2, <2>3, <2>4 DEF Gains
<1>10. Len(todo') <= 2
  BY <1>2, <1>3
<1>11. QED
  BY <1>1, <1>7, <1>8, <1>9, <1>10 DEF SolventInv, PendingSolvent

(* An update is refused while the contracts are solvent, if at all.        *)
LEMMA RefusedSolvent ==
  ASSUME TypeOK, SolventInv, UpdateBalanceThrows
  PROVE  SolventInv'
<1>1. /\ pc = "update" /\ todo # << >> /\ ~ CanUpdate(Head(todo))
      /\ UNCHANGED <<chainVars, poolVars>> /\ \E kind : Raise(kind)
  BY DEF UpdateBalanceThrows
<1>2. todo \in Seq(Changes)
  BY DEF TypeOK, Changes
<1>3. 1 \in 1..Len(todo) /\ Head(todo) = todo[1] /\ ~ (todo[1].delta > 0)
  BY <1>1, <1>2 DEF CanUpdate
<1>4. ~ Gains(1)
  BY <1>3 DEF Gains
<1>5. Solvent
  BY <1>1, <1>4 DEF SolventInv, PendingSolvent
<1>6. pc' \in {"idle", "scan"}
  BY <1>1, RaiseQueues
<1>7. Solvent'
  BY <1>1, <1>5 DEF Solvent, Owed, chainVars
<1>8. QED
  BY <1>6, <1>7 DEF SolventInv

(* A call books what is due: the entry of its caller and no other.         *)
LEMMA CallBooks ==
  ASSUME TypeOK, NEW o \in Ops, o.kind = "invoke", Evaluate(o) = "ok",
         NEW c \in Contracts, NEW s \in AssetIds
  PROVE  SumFunction([a \in Addresses |-> CallStorage(o)[c].books[a][s]])
           = Owed(c, s) + Due(o, c, s)
<1>1. storage \in [Contracts -> Contract]
  BY DEF TypeOK, Contract
<1>2. /\ o.caller \in Addresses /\ o.contract \in Contracts /\ o.asset \in AssetIds
      /\ o.api \in Apis
      /\ ToInt64(o.deposit) \in Int /\ ToInt64(o.amount) \in Int
  BY OpFields, ToInt64Type
<1> DEFINE f == [a \in Addresses |-> storage[c].books[a][s]]
           h == [a \in Addresses |-> CallStorage(o)[c].books[a][s]]
<1>3. f \in [Addresses -> Int]
  BY <1>1 DEF Contract
<1>4. ASSUME NEW n \in Int, c = o.contract, s = o.asset,
             CallStorage(o) = [storage EXCEPT ![o.contract].books[o.caller][o.asset] = @ + n]
      PROVE  Raised(f, h, o.caller, n)
  <2>1. \A a \in Addresses : CallStorage(o)[c].books[a][s]
          = IF a = o.caller THEN storage[c].books[a][s] + n ELSE storage[c].books[a][s]
    BY <1>1, <1>2, <1>4, SMTT(60) DEF Contract
  <2>2. QED
    BY <1>2, <2>1 DEF Raised
<1>5. ASSUME NEW n, c # o.contract \/ s # o.asset,
             CallStorage(o) = [storage EXCEPT ![o.contract].books[o.caller][o.asset] = n]
      PROVE  h = f
  <2>1. \A a \in Addresses : CallStorage(o)[c].books[a][s] = storage[c].books[a][s]
    BY <1>1, <1>2, <1>5, SMTT(60) DEF Contract
  <2>2. QED
    BY <2>1
<1>6. CASE o.api = "init_config"
  <2>1. \A a \in Addresses : CallStorage(o)[c].books[a][s] = storage[c].books[a][s]
    BY <1>1, <1>2, <1>6 DEF CallStorage, Contract
  <2>2. h = f /\ Due(o, c, s) = 0
    BY <1>6, <2>1 DEF Due
  <2>3. SumFunction(f) \in Int
    BY <1>3, BooksType, ChainAssumption
  <2>4. QED
    BY <2>2, <2>3 DEF Owed
<1>7. ASSUME NEW n \in Int, o.api \in {"on_deposit_asset", "withdraw"},
             n = IF o.api = "withdraw" THEN - ToInt64(o.amount) ELSE ToInt64(o.deposit)
      PROVE  SumFunction(h) = SumFunction(f) + Due(o, c, s)
  <2>1. CallStorage(o) = [storage EXCEPT ![o.contract].books[o.caller][o.asset] = @ + n]
    <3>1. storage[o.contract].books[o.caller][o.asset] \in Int
      BY <1>1, <1>2 DEF Contract
    <3>2. CASE o.api = "on_deposit_asset"
      BY <1>7, <3>2 DEF CallStorage
    <3>3. CASE o.api = "withdraw"
      <4>1. storage[o.contract].books[o.caller][o.asset] - ToInt64(o.amount)
              = storage[o.contract].books[o.caller][o.asset] + n
        BY <1>2, <1>7, <3>1, <3>3
      <4>2. QED
        BY <1>1, <1>2, <3>3, <4>1 DEF CallStorage, Contract
    <3>4. QED
      BY <1>7, <3>2, <3>3
  <2>2. CASE c = o.contract /\ s = o.asset
    <3>1. Due(o, c, s) = n
      BY <1>7, <2>2 DEF Due
    <3>2. Raised(f, h, o.caller, n)
      BY <1>4, <1>7, <2>1, <2>2
    <3> HIDE DEF f, h
    <3>3. QED
      BY <1>2, <1>3, <1>7, <3>1, <3>2, BooksAdd, ChainAssumption
  <2>3. CASE c # o.contract \/ s # o.asset
    <3>1. Due(o, c, s) = 0
      BY <2>3 DEF Due
    <3>2. h = f
      BY <1>1, <1>2, <1>5, <2>1, <2>3 DEF Contract
    <3>3. SumFunction(f) \in Int
      BY <1>3, BooksType, ChainAssumption
    <3>4. QED
      BY <3>1, <3>2, <3>3
  <2>4. QED
    BY <2>2, <2>3
<1>8. CASE o.api \in {"on_deposit_asset", "withdraw"}
  <2>1. SumFunction(h) = SumFunction(f) + Due(o, c, s)
    <3> HIDE DEF f, h
    <3> QED
      BY <1>2, <1>7, <1>8
  <2>2. QED
    BY <2>1 DEF Owed
<1>9. QED
  BY <1>2, <1>6, <1>8 DEF Apis

(* Finishing an operation changes the books by what is due.                *)
LEMMA OwedNext ==
  ASSUME TypeOK, CursorOK, FinishOp, NEW c \in Contracts, NEW s \in AssetIds
  PROVE  Owed(c, s)' = Owed(c, s) + Due(CurrentOp, c, s)
<1>0. PICK o : o = CurrentOp
  OBVIOUS
<1>1. storage' =
        IF o.kind = "create" /\ Evaluate(o) = "ok"
          THEN [storage EXCEPT ![o.contract].state = "NOT_INITED",
                               ![o.contract].admin = o.caller]
        ELSE IF o.kind = "invoke" /\ Evaluate(o) = "ok" THEN CallStorage(o)
        ELSE storage
  BY <1>0 DEF FinishOp, CurrentOp
<1>2. o \in Ops
  BY <1>0, CurrentOpsType, SMTT(60) DEF FinishOp, CursorOK, TypeOK, CurrentOp
<1>3. Owed(c, s) \in Int
  BY OwedType
<1>4. Owed(c, s)' = SumFunction([a \in Addresses |-> storage'[c].books[a][s]])
  BY DEF Owed
<1>5. storage \in [Contracts -> Contract]
  BY DEF TypeOK, Contract
<1>6. CASE o.kind = "invoke" /\ Evaluate(o) = "ok"
  <2>1. storage' = CallStorage(o)
    BY <1>1, <1>6
  <2>2. QED
    BY <1>0, <1>2, <1>4, <1>6, <2>1, CallBooks
<1>7. CASE ~ (o.kind = "invoke" /\ Evaluate(o) = "ok")
  <2>1. Due(o, c, s) = 0
    BY <1>7 DEF Due
  <2>2. \A a \in Addresses : storage'[c].books[a][s] = storage[c].books[a][s]
    BY <1>1, <1>2, <1>5, <1>7, OpFields DEF Contract
  <2>3. [a \in Addresses |-> storage'[c].books[a][s]]
          = [a \in Addresses |-> storage[c].books[a][s]]
    BY <2>2
  <2>4. Owed(c, s)' = Owed(c, s)
    BY <1>4, <2>3 DEF Owed
  <2>5. QED
    BY <1>0, <1>3, <2>1, <2>4
<1>8. QED
  BY <1>6, <1>7

LEMMA FinishSolvent ==
  ASSUME TypeOK, TypeOK', CursorOK, SolventInv, FinishOp
  PROVE  SolventInv'
<1>1. pc = "update" /\ pc' = "apply" /\ todo = << >> /\ balances' = balances
  BY DEF FinishOp
<1>2. PendingSolvent
  BY <1>1 DEF SolventInv
<1>3. ASSUME NEW c \in Contracts, NEW s \in AssetIds
      PROVE  balances'[c][s] >= Owed(c, s)'
  <2>0. c \in Addresses
    BY DEF Addresses
  <2>1. Pending(c, s) = 0
    BY <1>1, <2>0, PendingType
  <2>2. balances[c][s] \in Int
    BY <2>0 DEF TypeOK
  <2>3. balances[c][s] + Pending(c, s) >= Owed(c, s) + Due(CurrentOp, c, s)
    BY <1>2 DEF PendingSolvent
  <2>4. QED
    BY <1>1, <2>1, <2>2, <2>3, OwedNext
<1>4. QED
  BY <1>1, <1>3 DEF SolventInv, Solvent

LEMMA SolventInductive ==
  ASSUME PlainOps, ChainInv, ChainInv', SolventInv, [Next]_vars
  PROVE  SolventInv'
<1>0. TypeOK /\ TypeOK' /\ CursorOK
  BY DEF ChainInv
<1>1. CASE UNCHANGED <<balances, storage>> /\ pc # "update" /\ pc' # "update"
  BY <1>1 DEF SolventInv, Solvent, Owed
<1>2. CASE ApplyOp
  BY <1>0, <1>2, ApplySolvent DEF SolventInv, ApplyOp
<1>3. CASE UpdateBalance
  BY <1>0, <1>3, UpdateSolvent
<1>4. CASE UpdateBalanceThrows
  BY <1>0, <1>4, RefusedSolvent
<1>5. CASE FinishOp
  BY <1>0, <1>5, FinishSolvent
<1>6. CASE EvaluateTxThrows \/ ApplyOpThrows
  <2>1. pc # "update" /\ UNCHANGED chainVars /\ \E kind : Raise(kind)
    BY <1>6 DEF EvaluateTxThrows, ApplyOpThrows
  <2>2. QED
    BY <1>1, <2>1, RaiseQueues DEF chainVars
<1>7. CASE (\E a \in AssetIds : AddAsset(a)) \/ (\E t \in TxIds, ops \in TxOps : Submit(t, ops))
           \/ StartBlock \/ EvaluateTx \/ IncludeTx \/ SealBlock
  <2>1. UNCHANGED <<balances, storage>> /\ pc # "update" /\ pc' # "update"
    BY <1>7 DEF AddAsset, Submit, StartBlock, EvaluateTx, IncludeTx, SealBlock, chainVars, genVars
  <2>2. QED
    BY <1>1, <2>1
<1>8. CASE UNCHANGED vars
  <2>1. CurrentOps' = CurrentOps /\ CurrentOp' = CurrentOp
    BY <1>8 DEF CurrentOps, CurrentOp, vars, poolVars, genVars
  <2>2. PICK o : o = CurrentOp
    OBVIOUS
  <2>3. \A c, s : Due(o, c, s)' = Due(o, c, s)
    BY <1>8, DueKept DEF vars, chainVars
  <2>4. \A c, s : Due(CurrentOp, c, s)' = Due(CurrentOp, c, s)
    BY <2>1, <2>2, <2>3
  <2>5. UNCHANGED <<balances, storage, pc, todo>>
    BY <1>8 DEF vars, chainVars, genVars
  <2>6. \A c, s : Pending(c, s)' = Pending(c, s) /\ Owed(c, s)' = Owed(c, s)
    BY <2>5 DEF Pending, DeltaOf, MoveOf, Owed
  <2>7. (Solvent' <=> Solvent) /\ (Gains(1)' <=> Gains(1)) /\ (DebitsFirst' <=> DebitsFirst)
    BY <2>5, <2>6 DEF Solvent, Gains, DebitsFirst
  <2>8. PendingSolvent' <=> PendingSolvent
    BY <2>4, <2>5, <2>6, <2>7 DEF PendingSolvent
  <2>9. QED
    BY <2>5, <2>7, <2>8 DEF SolventInv
<1>9. QED
  BY <1>2, <1>3, <1>4, <1>5, <1>6, <1>7, <1>8 DEF Next, GenerateBlock

LEMMA OwedInit ==
  ASSUME Init, NEW c \in Contracts, NEW s \in AssetIds
  PROVE  Owed(c, s) = 0
<1> DEFINE f == [a \in Addresses |-> storage[c].books[a][s]]
<1>1. f \in [Addresses -> Int] /\ \A a \in Addresses : f[a] = 0
  BY DEF Init
<1>2. SumFunction(f) = 0
  <2> HIDE DEF f
  <2> QED
    BY <1>1, BooksZero, ChainAssumption
<1>3. QED
  BY <1>2 DEF Owed

LEMMA SolventInit ==
  ASSUME Init
  PROVE  SolventInv
<1>1. \A c \in Contracts, s \in AssetIds : Owed(c, s) = 0
  BY OwedInit
<1>2. QED
  BY <1>1 DEF Init, SolventInv, Solvent, Addresses

(* Whatever transactions fail, wherever they fail, and in whatever order   *)
(* debits and credits are written: a contract called by accounts holds at  *)
(* least what its books owe, so no withdrawal within the books is refused. *)
THEOREM ChainSolvency ==
  ASSUME PlainOps
  PROVE  Spec => []Solvency
<1>1. Init => ChainInv /\ SolventInv
  BY ChainInvInit, SolventInit
<1>2. ChainInv /\ SolventInv /\ [Next]_vars => ChainInv' /\ SolventInv'
  BY ChainInvInductive, SolventInductive
<1>3. SolventInv => Solvency
  BY DEF SolventInv, Solvency, Solvent, BetweenTxs
<1>4. QED
  BY <1>1, <1>2, <1>3, PTL DEF Spec

----------------------------------------------------------------------------
(* Conservation of claims.  As for receipts, a transaction has one         *)
(* operation and fc exceptions are caught.                                 *)
Claims(s) == Held(s) + Booked(s)
Even      == \A s \in AssetIds : Claims(s) = IncludedMint(s)

(* What the pending update at position i brings the accounts, and what the *)
(* books of all contracts change by when the operation finishes.           *)
Brings(i, s) == IF i <= Len(todo) /\ todo[i].addr \in Accounts THEN MoveOf(i, s) ELSE 0
DueInAll(o, s) ==
  IF o.kind = "invoke" /\ Evaluate(o) = "ok" /\ s = o.asset
  THEN CASE o.api = "on_deposit_asset" -> ToInt64(o.deposit)
         [] o.api = "withdraw"         -> - ToInt64(o.amount)
         [] OTHER                      -> 0
  ELSE 0

(* Claims, the updates still pending and the books still due come to what  *)
(* the transaction mints.  The first update may be refused, for nothing is *)
(* changed; the second only if the first has not touched an account.       *)
PendingEven ==
  /\ \A s \in AssetIds :
       Claims(s) + Brings(1, s) + Brings(2, s) + DueInAll(CurrentOp, s)
         = IncludedMint(s) + MintedIn(CurrentOps, s)
  /\ Even \/ \A i \in 1..Len(todo) : CanUpdate(todo[i])
  /\ Len(todo) = 2 =>
       /\ Even
       /\ \/ todo[1].addr \notin Accounts
          \/ todo[2].delta > 0
          \/ - todo[2].delta <= balances[todo[2].addr][todo[2].asset]
                                + DeltaOf(1, todo[2].addr, todo[2].asset)

EvenInv ==
  /\ pc = "update" => Len(todo) <= 2 /\ PendingEven
  /\ pc = "apply" =>
       IF opi > Len(CurrentOps)
       THEN \A s \in AssetIds : Claims(s) = IncludedMint(s) + MintedIn(CurrentOps, s)
       ELSE Even
  /\ pc \in {"idle", "scan"} => Even

LEMMA MintedType ==
  ASSUME NEW ops \in Seq(Ops), NEW s \in AssetIds
  PROVE  MintedIn(ops, s) \in Int
<1> DEFINE f == [i \in DOMAIN ops |->
                   IF ops[i].kind = "mint" /\ ops[i].addr \in Accounts /\ ops[i].asset = s
                   THEN ToInt64(ops[i].amount) ELSE 0]
<1>1. DOMAIN ops = 1..Len(ops) /\ Len(ops) \in Nat /\ \A i \in DOMAIN ops : ops[i] \in Ops
  OBVIOUS
<1>2. f \in [DOMAIN ops -> Int]
  BY <1>1, OpFields, ToInt64Type
<1>3. IsFiniteSet(DOMAIN ops)
  BY <1>1, FS_Interval
<1>4. QED
  BY <1>2, <1>3, BooksType DEF MintedIn

LEMMA MintedOne ==
  ASSUME NEW ops \in Seq(Ops), Len(ops) = 1, NEW s \in AssetIds
  PROVE  MintedIn(ops, s)
           = IF ops[1].kind = "mint" /\ ops[1].addr \in Accounts /\ ops[1].asset = s
             THEN ToInt64(ops[1].amount) ELSE 0
<1> DEFINE f == [i \in DOMAIN ops |->
                   IF ops[i].kind = "mint" /\ ops[i].addr \in Accounts /\ ops[i].asset = s
                   THEN ToInt64(ops[i].amount) ELSE 0]
<1>0. PICK d : d = {1}
  OBVIOUS
<1> DEFINE z == [i \in d |-> 0]
<1>1. DOMAIN ops = {1} /\ ops[1] \in Ops
  OBVIOUS
<1>2. f[1] \in Int
      /\ f[1] = IF ops[1].kind = "mint" /\ ops[1].addr \in Accounts /\ ops[1].asset = s
                THEN ToInt64(ops[1].amount) ELSE 0
  BY <1>1, OpFields, ToInt64Type
<1>3. z \in [d -> Int] /\ (\A i \in d : z[i] = 0) /\ IsFiniteSet(d) /\ 1 \in d
  <2>1. IsFiniteSet(d)
    BY <1>0, FS_Singleton
  <2>2. QED
    BY <1>0, <2>1
<1>4. Raised(z, f, 1, f[1])
  BY <1>0, <1>1, <1>2 DEF Raised
<1>5. MintedIn(ops, s) = SumFunction(f)
  BY DEF MintedIn
<1> HIDE DEF f, z
<1>6. SumFunction(z) = 0
  BY <1>3, BooksZero
<1>7. SumFunction(f) = SumFunction(z) + f[1]
  BY <1>2, <1>3, <1>4, BooksAdd
<1>8. QED
  BY <1>2, <1>5, <1>6, <1>7

LEMMA FiniteParts == IsFiniteSet(Accounts) /\ IsFiniteSet(Contracts)
<1>1. Accounts \subseteq Addresses /\ Contracts \subseteq Addresses
  BY DEF Addresses
<1>2. QED
  BY <1>1, FS_Subset, ChainAssumption

LEMMA EvenTypes ==
  ASSUME TypeOK, NEW s \in AssetIds
  PROVE  /\ Held(s) \in Int /\ Booked(s) \in Int /\ Claims(s) \in Int
         /\ IncludedMint(s) \in Int
         /\ [t \in TxIds |-> IF t \in Included THEN MintedIn(txs[t], s) ELSE 0] \in [TxIds -> Int]
<1>1. [a \in Accounts |-> balances[a][s]] \in [Accounts -> Int]
  BY DEF TypeOK, Addresses
<1>2. [c \in Contracts |-> Owed(c, s)] \in [Contracts -> Int]
  BY OwedType
<1>3. \A t \in TxIds : MintedIn(txs[t], s) \in Int
  BY MintedType DEF TypeOK
<1>4. [t \in TxIds |-> IF t \in Included THEN MintedIn(txs[t], s) ELSE 0] \in [TxIds -> Int]
  BY <1>3
<1>5. Held(s) \in Int /\ Booked(s) \in Int
  BY <1>1, <1>2, FiniteParts, BooksType DEF Held, Booked
<1>6. QED
  BY <1>4, <1>5, BooksType, ChainAssumption DEF Claims, IncludedMint

LEMMA EvenInit ==
  ASSUME Init
  PROVE  EvenInv
<1>1. SUFFICES ASSUME NEW s \in AssetIds
               PROVE  Held(s) = 0 /\ Booked(s) = 0 /\ IncludedMint(s) = 0
  <2>1. Even
    BY <1>1 DEF Even, Claims
  <2>2. QED
    BY <2>1 DEF EvenInv, Init
<1> DEFINE f == [a \in Accounts |-> balances[a][s]]
           g == [c \in Contracts |-> Owed(c, s)]
           h == [t \in TxIds |-> IF t \in Included THEN MintedIn(txs[t], s) ELSE 0]
<1>2. f \in [Accounts -> Int] /\ \A a \in Accounts : f[a] = 0
  BY DEF Init, Addresses
<1>3. TypeOK /\ ReceiptInv
  BY ChainInvInit, ReceiptInvInit DEF ChainInv
<1>4. h \in [TxIds -> Int]
  BY <1>3, EvenTypes
<1>5. \A t \in TxIds : t \notin Included
  <2>1. QueueFacts
    BY <1>3, QueueIs
  <2>2. Len(blocks) = 1 /\ blocks[1] = << >> /\ validTxs = << >>
    BY DEF Init
  <2>3. \A b \in 1..Len(Ledger) : Queue(b) = << >>
    BY <2>1, <2>2 DEF QueueFacts
  <2>4. \A b \in 1..Len(Ledger) : ToSet(Queue(b)) = {}
    BY <2>3 DEF ToSet
  <2>5. QED
    BY <1>3, <2>4, IncludedIs
<1>6. \A t \in TxIds : h[t] = 0
  BY <1>5
<1>7. g \in [Contracts -> Int] /\ \A c \in Contracts : g[c] = 0
  BY OwedInit
<1>8. Held(s) = SumFunction(f) /\ Booked(s) = SumFunction(g) /\ IncludedMint(s) = SumFunction(h)
  BY DEF Held, Booked, IncludedMint
<1> HIDE DEF f, g, h
<1>9. QED
  BY <1>2, <1>4, <1>6, <1>7, <1>8, FiniteParts, BooksZero, ChainAssumption

LEMMA BringsTyped ==
  ASSUME TypeOK, NEW s \in AssetIds
  PROVE  Brings(1, s) \in Int /\ Brings(2, s) \in Int
BY MoveTyped DEF Brings, MoveTypes

LEMMA BringsTypedNext ==
  TypeOK' => \A s \in AssetIds : Brings(1, s)' \in Int /\ Brings(2, s)' \in Int
BY MoveTypesNext DEF Brings, MoveTypes

LEMMA DueInAllType ==
  ASSUME NEW o \in Ops, NEW s \in AssetIds
  PROVE  DueInAll(o, s) \in Int
<1>1. CASE o.kind = "invoke"
  <2>1. ToInt64(o.deposit) \in Int /\ ToInt64(o.amount) \in Int
    BY <1>1, OpFields, ToInt64Type
  <2>2. QED
    BY <2>1 DEF DueInAll
<1>2. CASE o.kind # "invoke"
  BY <1>2 DEF DueInAll
<1>3. QED
  BY <1>1, <1>2

(* As for Due: evaluation of a call does not look at balances.             *)
LEMMA DueInAllKept ==
  ASSUME UNCHANGED <<assets, contracts, storage>>, NEW o, NEW s
  PROVE  DueInAll(o, s)' = DueInAll(o, s)
BY DEF DueInAll, Evaluate, CallSucceeds, ApiAccepts

(* Writing the head of todo moves what accounts hold by what it brings.    *)
LEMMA ClaimsNext ==
  ASSUME TypeOK, TypeOK', UpdateBalance, Len(todo) <= 2, NEW s \in AssetIds
  PROVE  Claims(s)' = Claims(s) + Brings(1, s)
<1> DEFINE f == [a \in Accounts |-> balances[a][s]]
           h == [a \in Accounts |-> balances'[a][s]]
<1>1. f \in [Accounts -> Int]
  BY DEF TypeOK, Addresses
<1>2. 1 <= Len(todo) /\ todo[1] \in Changes
  BY PendingNext
<1>3. PICK u : u = todo[1].addr
  OBVIOUS
<1>4. \A a \in Accounts : DeltaOf(1, a, s) = IF a = u THEN MoveOf(1, s) ELSE 0
  BY <1>2, <1>3 DEF DeltaOf
<1>5. \A a \in Accounts : balances[a][s] \in Int
                          /\ balances'[a][s] = balances[a][s] + DeltaOf(1, a, s)
  <2>1. \A a \in Accounts : a \in Addresses
    BY DEF Addresses
  <2>2. QED
    BY <2>1, BalanceNext
<1>6. Brings(1, s) \in Int
  BY BringsTyped
<1>7. Booked(s)' = Booked(s)
  BY DEF UpdateBalance, Booked, Owed
<1>8. Held(s) = SumFunction(f) /\ Held(s)' = SumFunction(h)
  BY DEF Held
<1>9. SumFunction(h) = SumFunction(f) + Brings(1, s)
  <2>1. CASE u \in Accounts
    <3>1. Brings(1, s) = MoveOf(1, s)
      BY <1>2, <1>3, <2>1 DEF Brings
    <3>2. Raised(f, h, u, Brings(1, s))
      BY <1>4, <1>5, <1>6, <2>1, <3>1 DEF Raised
    <3> HIDE DEF f, h
    <3>3. QED
      BY <1>1, <1>6, <2>1, <3>2, FiniteParts, BooksAdd
  <2>2. CASE u \notin Accounts
    <3>1. Brings(1, s) = 0
      BY <1>2, <1>3, <2>2 DEF Brings
    <3>2. \A a \in Accounts : balances'[a][s] = balances[a][s]
      BY <1>4, <1>5, <2>2
    <3>3. h = f
      BY <3>2
    <3>4. SumFunction(f) \in Int
      <4> HIDE DEF f
      <4> QED
        BY <1>1, FiniteParts, BooksType
    <3>5. QED
      BY <3>1, <3>3, <3>4
  <2>3. QED
    BY <2>1, <2>2
<1>10. Held(s) \in Int /\ Booked(s) \in Int
  BY EvenTypes
<1>11. QED
  BY <1>6, <1>7, <1>8, <1>9, <1>10 DEF Claims

(* Finishing an operation moves the books of all contracts by what is due. *)
LEMMA BookedNext ==
  ASSUME TypeOK, CursorOK, FinishOp, NEW s \in AssetIds
  PROVE  Booked(s)' = Booked(s) + DueInAll(CurrentOp, s)
<1>0. PICK o : o = CurrentOp
  OBVIOUS
<1> DEFINE f == [c \in Contracts |-> Owed(c, s)]
           h == [c \in Contracts |-> Owed(c, s)']
<1>1. o \in Ops
  BY <1>0, CurrentOpsType, SMTT(60) DEF FinishOp, CursorOK, TypeOK, CurrentOp
<1>2. f \in [Contracts -> Int]
  BY OwedType
<1>3. \A c \in Contracts : Owed(c, s) \in Int /\ Owed(c, s)' = Owed(c, s) + Due(o, c, s)
  BY <1>0, OwedType, OwedNext
<1>4. Booked(s) = SumFunction(f) /\ Booked(s)' = SumFunction(h)
  BY DEF Booked
<1>5. DueInAll(o, s) \in Int
  BY <1>1, DueInAllType
<1>6. CASE o.kind = "invoke"
  <2>1. o.contract \in Contracts
    BY <1>1, <1>6, OpFields
  <2>2. \A c \in Contracts : Due(o, c, s) = IF c = o.contract THEN DueInAll(o, s) ELSE 0
    BY <1>6 DEF Due, DueInAll
  <2>3. Raised(f, h, o.contract, DueInAll(o, s))
    BY <1>3, <1>5, <2>1, <2>2 DEF Raised
  <2> HIDE DEF f, h
  <2>4. QED
    BY <1>0, <1>2, <1>4, <1>5, <2>1, <2>3, FiniteParts, BooksAdd
<1>7. CASE o.kind # "invoke"
  <2>1. DueInAll(o, s) = 0 /\ \A c \in Contracts : Due(o, c, s) = 0
    BY <1>7 DEF Due, DueInAll
  <2>2. \A c \in Contracts : Owed(c, s)' = Owed(c, s)
    BY <1>3, <2>1
  <2>3. h = f
    BY <2>2
  <2>4. Booked(s) \in Int
    BY EvenTypes
  <2>5. QED
    BY <1>0, <1>4, <2>1, <2>3, <2>4
<1>8. QED
  BY <1>6, <1>7

(* Including a transaction adds what it mints; one that was not included   *)
(* may be submitted or fail.                                               *)
LEMMA IncludedMintNext ==
  ASSUME TypeOK, TypeOK', NEW s \in AssetIds, \A t \in Included : txs'[t] = txs[t]
  PROVE  /\ Included' = Included => IncludedMint(s)' = IncludedMint(s)
         /\ \A t \in TxIds \ Included :
              Included' = Included \cup {t} /\ txs'[t] = txs[t]
                => IncludedMint(s)' = IncludedMint(s) + MintedIn(txs[t], s)
<1> DEFINE f == [t \in TxIds |-> IF t \in Included THEN MintedIn(txs[t], s) ELSE 0]
           h == [t \in TxIds |-> IF t \in Included' THEN MintedIn(txs'[t], s) ELSE 0]
<1>1. f \in [TxIds -> Int]
  BY EvenTypes
<1>2. IncludedMint(s) = SumFunction(f) /\ IncludedMint(s)' = SumFunction(h)
  BY DEF IncludedMint, MintedIn
<1>3. ASSUME Included' = Included
      PROVE  h = f
  BY <1>3
<1>4. ASSUME NEW t \in TxIds \ Included, Included' = Included \cup {t}, txs'[t] = txs[t]
      PROVE  Raised(f, h, t, MintedIn(txs[t], s)) /\ MintedIn(txs[t], s) \in Int
  <2>1. MintedIn(txs[t], s) \in Int
    BY MintedType DEF TypeOK
  <2>2. h[t] = MintedIn(txs[t], s) /\ f[t] = 0
    BY <1>4
  <2>3. \A u \in TxIds \ {t} : h[u] = f[u]
    BY <1>4
  <2>4. QED
    BY <2>1, <2>2, <2>3 DEF Raised
<1> HIDE DEF f, h
<1>5. QED
  BY <1>1, <1>2, <1>3, <1>4, BooksAdd, ChainAssumption

(* What a contract owes one user it owes in all.                           *)
LEMMA OwesEach ==
  ASSUME TypeOK, NonNegative, NEW c \in Contracts, NEW a \in Addresses, NEW s \in AssetIds
  PROVE  storage[c].books[a][s] <= Owed(c, s)
<1> DEFINE f == [u \in Addresses |-> storage[c].books[u][s]]
<1>1. f \in [Addresses -> Nat]
  <2>1. \A u \in Addresses : storage[c].books[u][s] \in Int /\ storage[c].books[u][s] >= 0
    BY DEF TypeOK, NonNegative
  <2>2. QED
    BY <2>1
<1>2. f[a] = storage[c].books[a][s] /\ Owed(c, s) = SumFunction(f)
  BY DEF Owed
<1> HIDE DEF f
<1>3. QED
  BY <1>1, <1>2, BooksMember, ChainAssumption

(* The updates of an operation and its books come to what it mints, and    *)
(* the second update is covered: a transfer has looked at the balance, a   *)
(* contract is solvent; or the first was a contract's.                     *)
LEMMA ApplyEven ==
  ASSUME TypeOK, TypeOK', CursorOK, PlainOps, Solvent,
         NonNegative, Even, Len(CurrentOps) = 1, opi = 1, ApplyOp
  PROVE  EvenInv'
<1>0. PICK o : o = CurrentOp
  OBVIOUS
<1>1. /\ pc' = "update" /\ ~ Throws(o) /\ todo' = Updates(o)
      /\ UNCHANGED <<assets, balances, storage, blocks, validTxs, txs, mempool, it, opi>>
      /\ o.kind # "create" => contracts' = contracts
  BY <1>0 DEF ApplyOp, poolVars, CurrentOp
<1>2. o \in Ops /\ CurrentOps \in Seq(Ops) /\ o = CurrentOps[1]
  <2>1. it <= Len(mempool)
    BY DEF ApplyOp, CursorOK
  <2>2. CurrentOps \in Seq(Ops)
    BY <2>1, CurrentOpsType
  <2>3. o = CurrentOps[1]
    BY <1>0 DEF CurrentOp
  <2>4. PICK ops : ops = CurrentOps
    OBVIOUS
  <2>5. ops \in Seq(Ops) /\ Len(ops) = 1
    BY <2>2, <2>4
  <2>6. ops[1] \in Ops
    BY <2>5
  <2>7. QED
    BY <2>2, <2>3, <2>4, <2>6
<1>3. CurrentOps' = CurrentOps /\ CurrentOp' = o
  BY <1>0, <1>1 DEF CurrentOps, CurrentOp
<1>4. \A s \in AssetIds : Claims(s)' = Claims(s) /\ IncludedMint(s)' = IncludedMint(s)
  <2>1. Included' = Included
    BY <1>1 DEF Included, Ledger
  <2>2. QED
    BY <1>1, <2>1 DEF Claims, Held, Booked, Owed, IncludedMint
<1> DEFINE Mints(s) == IF o.kind = "mint" /\ o.addr \in Accounts /\ o.asset = s
                       THEN ToInt64(o.amount) ELSE 0
<1>5. ASSUME NEW s \in AssetIds
      PROVE  /\ MintedIn(CurrentOps, s)' = Mints(s)
             /\ DueInAll(CurrentOp, s)' = DueInAll(o, s)
  <2>1. MintedIn(CurrentOps, s) = Mints(s)
    BY <1>2, MintedOne
  <2>2. MintedIn(CurrentOps, s)' = MintedIn(CurrentOps, s)
    BY <1>3 DEF MintedIn
  <2>3. DueInAll(o, s)' = DueInAll(o, s)
    <3>1. CASE o.kind = "create"
      BY <3>1 DEF DueInAll
    <3>2. CASE o.kind # "create"
      BY <1>1, <3>2, DueInAllKept
    <3>3. QED
      BY <3>1, <3>2
  <2>4. DueInAll(CurrentOp, s)' = DueInAll(o, s)'
    BY <1>3 DEF DueInAll
  <2>5. QED
    BY <2>1, <2>2, <2>3, <2>4
<1> DEFINE Covered == (Len(todo) = 2 =>
             \/ todo[1].addr \notin Accounts
             \/ todo[2].delta > 0
             \/ - todo[2].delta <= balances[todo[2].addr][todo[2].asset]
                                   + DeltaOf(1, todo[2].addr, todo[2].asset))'
           Come    == \A s \in AssetIds :
             Brings(1, s)' + Brings(2, s)' + DueInAll(o, s) = Mints(s)
<1>6. Len(todo') <= 2 /\ Come /\ Covered
  <2>0. o.kind = "invoke" => /\ o.contract \in Contracts /\ o.contract \notin Accounts
                             /\ o.asset \in AssetIds
                             /\ ToInt64(o.deposit) \in Int /\ ToInt64(o.amount) \in Int
    BY <1>2, OpFields, ToInt64Type, ChainAssumption
  <2>1. CASE todo' = << >> /\ (o.kind \in {"register", "create"} \/ (o.kind = "invoke" /\
               (Evaluate(o) # "ok" \/ o.api = "init_config")))
    <3>1. \A s \in AssetIds : DueInAll(o, s) = 0 /\ Mints(s) = 0
      BY <2>1 DEF DueInAll
    <3>2. \A s \in AssetIds : Brings(1, s)' = 0 /\ Brings(2, s)' = 0
      BY <2>1 DEF Brings, MoveOf
    <3>3. QED
      BY <2>1, <3>1, <3>2
  <2>2. CASE o.kind = "mint" /\ todo' = <<Change(o.addr, o.asset, ToInt64(o.amount))>>
    <3>1. ToInt64(o.amount) \in Int
      BY <1>2, <2>2, OpFields, ToInt64Type
    <3>2. Len(todo') = 1 /\ todo'[1] = Change(o.addr, o.asset, ToInt64(o.amount))
      BY <2>2
    <3>3. \A s \in AssetIds : Brings(1, s)' = Mints(s) /\ Brings(2, s)' = 0
      BY <2>2, <3>2 DEF Brings, MoveOf, Change
    <3>4. \A s \in AssetIds : DueInAll(o, s) = 0 /\ Mints(s) \in Int
      BY <2>2, <3>1 DEF DueInAll
    <3> HIDE DEF Mints
    <3>5. Come
      BY <3>3, <3>4
    <3>6. QED
      BY <3>2, <3>5
  <2>3. ASSUME NEW x \in Addresses, NEW y \in Addresses, NEW s \in AssetIds, NEW n \in Int,
               todo' = <<Change(x, s, n), Change(y, s, - n)>>
        PROVE  /\ Len(todo') = 2 /\ todo'[1] = Change(x, s, n) /\ todo'[2] = Change(y, s, - n)
               /\ \A z \in AssetIds :
                    /\ Brings(1, z)' = IF x \in Accounts /\ s = z THEN n ELSE 0
                    /\ Brings(2, z)' = IF y \in Accounts /\ s = z THEN - n ELSE 0
               /\ \/ x \notin Accounts
                  \/ - n > 0
                  \/ n <= balances[y][s] + (IF x = y THEN n ELSE 0)
                 => Covered
    <3>1. Len(todo') = 2 /\ todo'[1] = Change(x, s, n) /\ todo'[2] = Change(y, s, - n)
      BY <2>3
    <3>2. \A z \in AssetIds :
            /\ Brings(1, z)' = IF x \in Accounts /\ s = z THEN n ELSE 0
            /\ Brings(2, z)' = IF y \in Accounts /\ s = z THEN - n ELSE 0
      BY <3>1 DEF Brings, MoveOf, Change
    <3>3. /\ todo'[1].addr = x
          /\ todo'[2].addr = y /\ todo'[2].asset = s /\ todo'[2].delta = - n
      BY <3>1 DEF Change
    <3>4. DeltaOf(1, y, s)' = IF x = y THEN n ELSE 0
      BY <3>1 DEF DeltaOf, MoveOf, Change
    <3>5. DeltaOf(1, todo[2].addr, todo[2].asset)' = DeltaOf(1, y, s)'
      BY <3>3 DEF DeltaOf, MoveOf
    <3>6. (\/ x \notin Accounts
           \/ - n > 0
           \/ n <= balances[y][s] + (IF x = y THEN n ELSE 0)) => Covered
      BY <1>1, <2>3, <3>3, <3>4, <3>5
    <3>7. QED
      BY <3>1, <3>2, <3>6
  <2>4. CASE /\ o.kind = "transfer" /\ o.from \in Accounts /\ o.to \in Accounts
             /\ balances[o.from][o.asset] >= ToInt64(o.amount)
             /\ todo' = <<Change(o.to, o.asset, ToInt64(o.amount)),
                          Change(o.from, o.asset, - ToInt64(o.amount))>>
    <3>1. PICK n \in Int : n = ToInt64(o.amount)
      BY <1>2, <2>4, OpFields, ToInt64Type
    <3>2. o.from \in Addresses /\ o.to \in Addresses /\ o.asset \in AssetIds
      BY <1>2, <2>4, OpFields DEF Addresses
    <3>3. PICK m \in Int : m = balances[o.from][o.asset] /\ m >= 0 /\ m >= n
      <4>1. balances[o.from][o.asset] \in Int
        BY <3>2 DEF TypeOK
      <4>2. balances[o.from][o.asset] >= 0
        BY <3>2 DEF NonNegative
      <4>3. balances[o.from][o.asset] >= n
        BY <2>4, <3>1
      <4>4. QED
        BY <4>1, <4>2, <4>3
    <3>4. n <= balances[o.from][o.asset] + (IF o.to = o.from THEN n ELSE 0)
      BY <3>3
    <3>5. todo' = <<Change(o.to, o.asset, n), Change(o.from, o.asset, - n)>>
      BY <2>4, <3>1
    <3> HIDE DEF Covered
    <3>6. Covered /\ Len(todo') = 2
      BY <2>3, <3>2, <3>4, <3>5
    <3>7. \A z \in AssetIds : /\ Brings(1, z)' = IF o.asset = z THEN n ELSE 0
                             /\ Brings(2, z)' = IF o.asset = z THEN - n ELSE 0
      BY <2>3, <2>4, <3>2, <3>5
    <3>8. \A z \in AssetIds : DueInAll(o, z) = 0 /\ Mints(z) = 0
      BY <2>4 DEF DueInAll
    <3> HIDE DEF Mints
    <3>9. Come
      BY <3>7, <3>8
    <3>10. QED
      BY <3>6, <3>9
  <2>5. ASSUME NEW n \in Int, n > 0, o.kind = "invoke", Evaluate(o) = "ok",
               o.caller \in Accounts,
               \/ /\ n = ToInt64(o.deposit) /\ o.api = "on_deposit_asset"
                  /\ \/ todo' = <<Change(o.caller, o.asset, - n), Change(o.contract, o.asset, n)>>
                     \/ todo' = <<Change(o.contract, o.asset, n), Change(o.caller, o.asset, - n)>>
               \/ /\ n = ToInt64(o.amount) /\ o.api = "withdraw"
                  /\ n <= balances[o.contract][o.asset]
                  /\ \/ todo' = <<Change(o.contract, o.asset, - n), Change(o.caller, o.asset, n)>>
                     \/ todo' = <<Change(o.caller, o.asset, n), Change(o.contract, o.asset, - n)>>
        PROVE  Len(todo') = 2 /\ Come /\ Covered
    <3>1. /\ o.caller \in Addresses /\ o.contract \in Addresses /\ o.asset \in AssetIds
          /\ o.contract \notin Accounts /\ o.caller # o.contract
      BY <2>0, <2>5 DEF Addresses
    <3>2. \A z \in AssetIds : Mints(z) = 0
      BY <2>5
    <3>3. - n \in Int /\ - (- n) = n
      OBVIOUS
    <3> HIDE DEF Covered, Mints
    <3>4. CASE todo' = <<Change(o.caller, o.asset, - n), Change(o.contract, o.asset, n)>>
               /\ o.api = "on_deposit_asset" /\ n = ToInt64(o.deposit)
      <4>1. Covered /\ Len(todo') = 2
            /\ \A z \in AssetIds : /\ Brings(1, z)' = IF o.asset = z THEN - n ELSE 0
                                  /\ Brings(2, z)' = 0
        BY <2>3, <2>5, <3>1, <3>3, <3>4
      <4>2. \A z \in AssetIds : DueInAll(o, z) = IF o.asset = z THEN n ELSE 0
        BY <2>5, <3>4 DEF DueInAll
      <4>3. QED
        BY <3>2, <4>1, <4>2
    <3>5. CASE todo' = <<Change(o.contract, o.asset, n), Change(o.caller, o.asset, - n)>>
               /\ o.api = "on_deposit_asset" /\ n = ToInt64(o.deposit)
      <4>1. Covered /\ Len(todo') = 2
            /\ \A z \in AssetIds : /\ Brings(1, z)' = 0
                                  /\ Brings(2, z)' = IF o.asset = z THEN - n ELSE 0
        BY <2>3, <2>5, <3>1, <3>5
      <4>2. \A z \in AssetIds : DueInAll(o, z) = IF o.asset = z THEN n ELSE 0
        BY <2>5, <3>5 DEF DueInAll
      <4>3. QED
        BY <3>2, <4>1, <4>2
    <3>6. CASE todo' = <<Change(o.contract, o.asset, - n), Change(o.caller, o.asset, n)>>
               /\ o.api = "withdraw" /\ n = ToInt64(o.amount)
      <4>1. Covered /\ Len(todo') = 2
            /\ \A z \in AssetIds : /\ Brings(1, z)' = 0
                                  /\ Brings(2, z)' = IF o.asset = z THEN n ELSE 0
        BY <2>3, <2>5, <3>1, <3>3, <3>6
      <4>2. \A z \in AssetIds : DueInAll(o, z) = IF o.asset = z THEN - n ELSE 0
        BY <2>5, <3>6 DEF DueInAll
      <4>3. QED
        BY <3>2, <4>1, <4>2
    <3>7. CASE todo' = <<Change(o.caller, o.asset, n), Change(o.contract, o.asset, - n)>>
               /\ o.api = "withdraw" /\ n = ToInt64(o.amount)
               /\ n <= balances[o.contract][o.asset]
      <4>1. n <= balances[o.contract][o.asset] + (IF o.caller = o.contract THEN n ELSE 0)
        <5>1. balances[o.contract][o.asset] \in Int
          BY <3>1 DEF TypeOK
        <5>2. QED
          BY <3>1, <3>7, <5>1
      <4>2. Covered /\ Len(todo') = 2
            /\ \A z \in AssetIds : /\ Brings(1, z)' = IF o.asset = z THEN n ELSE 0
                                  /\ Brings(2, z)' = 0
        BY <2>3, <2>5, <3>1, <3>7, <4>1
      <4>3. \A z \in AssetIds : DueInAll(o, z) = IF o.asset = z THEN - n ELSE 0
        BY <2>5, <3>7 DEF DueInAll
      <4>4. QED
        BY <3>2, <4>2, <4>3
    <3>8. QED
      BY <2>5, <3>4, <3>5, <3>6, <3>7
  <2>6. CASE /\ o.kind = "invoke" /\ Evaluate(o) = "ok" /\ o.api = "on_deposit_asset"
             /\ o.caller \in Accounts /\ ToInt64(o.deposit) > 0
             /\ LET debit  == Change(o.caller, o.asset, - ToInt64(o.deposit))
                    credit == Change(o.contract, o.asset, ToInt64(o.deposit))
                IN  todo' \in {<<debit, credit>>, <<credit, debit>>}
    <3>1. PICK n \in Int : n = ToInt64(o.deposit)
      BY <2>0, <2>6
    <3>2. \/ todo' = <<Change(o.caller, o.asset, - n), Change(o.contract, o.asset, n)>>
          \/ todo' = <<Change(o.contract, o.asset, n), Change(o.caller, o.asset, - n)>>
      BY <2>6, <3>1
    <3>3. n > 0
      BY <2>6, <3>1
    <3> HIDE DEF Come, Covered
    <3>4. Len(todo') = 2 /\ Come /\ Covered
      BY <2>5, <2>6, <3>1, <3>2, <3>3
    <3>5. QED
      BY <3>4
  <2>7. CASE /\ o.kind = "invoke" /\ Evaluate(o) = "ok" /\ o.api = "withdraw"
             /\ o.caller \in Accounts /\ ToInt64(o.amount) > 0
             /\ ToInt64(o.amount) <= storage[o.contract].books[o.caller][o.asset]
             /\ LET debit  == Change(o.contract, o.asset, - ToInt64(o.amount))
                    credit == Change(o.caller, o.asset, ToInt64(o.amount))
                IN  todo' \in {<<debit, credit>>, <<credit, debit>>}
    <3>1. PICK n \in Int : n = ToInt64(o.amount)
      BY <2>0, <2>7
    <3>2. o.caller \in Addresses /\ o.contract \in Addresses
      BY <2>0, <2>7 DEF Addresses
    <3>3. PICK owed \in Int : owed = Owed(o.contract, o.asset)
      BY <2>0, <2>7, OwedType
    <3>4. PICK m \in Int : m = balances[o.contract][o.asset]
      BY <2>0, <2>7, <3>2 DEF TypeOK
    <3>5. owed <= m
      BY <2>0, <2>7, <3>3, <3>4 DEF Solvent
    <3>6. PICK k \in Int : k = storage[o.contract].books[o.caller][o.asset]
      <4>1. storage \in [Contracts -> Contract]
        BY DEF TypeOK, Contract
      <4>2. storage[o.contract].books[o.caller][o.asset] \in Int
        BY <2>0, <2>7, <3>2, <4>1 DEF Contract
      <4>3. QED
        BY <4>2
    <3>7. k <= owed
      BY <2>0, <2>7, <3>2, <3>3, <3>6, OwesEach
    <3>8. n <= m
      BY <2>7, <3>1, <3>5, <3>6, <3>7
    <3>9. \/ todo' = <<Change(o.contract, o.asset, - n), Change(o.caller, o.asset, n)>>
          \/ todo' = <<Change(o.caller, o.asset, n), Change(o.contract, o.asset, - n)>>
      BY <2>7, <3>1
    <3>10. n > 0
      BY <2>7, <3>1
    <3>11. n <= balances[o.contract][o.asset]
      BY <3>4, <3>8
    <3> HIDE DEF Come, Covered
    <3>12. Len(todo') = 2 /\ Come /\ Covered
      BY <2>5, <2>7, <3>1, <3>9, <3>10, <3>11
    <3>13. QED
      BY <3>12
  <2>8. QED
    <3> HIDE DEF Come, Covered
    <3>1. QED
      BY <1>1, <1>2, <2>1, <2>2, <2>4, <2>6, <2>7, UpdatesPlain
<1>7. Even'
  BY <1>4 DEF Even
<1>8. ASSUME NEW s \in AssetIds
      PROVE  (Claims(s) + Brings(1, s) + Brings(2, s) + DueInAll(CurrentOp, s)
                = IncludedMint(s) + MintedIn(CurrentOps, s))'
  <2>1. Claims(s) = IncludedMint(s) /\ Claims(s) \in Int
    BY EvenTypes DEF Even
  <2>2. Brings(1, s)' + Brings(2, s)' + DueInAll(o, s) = Mints(s)
    BY <1>6
  <2>3. Brings(1, s)' \in Int /\ Brings(2, s)' \in Int /\ DueInAll(o, s) \in Int
    BY <1>2, BringsTypedNext, DueInAllType
  <2> HIDE DEF Mints
  <2>4. QED
    BY <1>4, <1>5, <2>1, <2>2, <2>3
<1>9. PendingEven'
  BY <1>6, <1>7, <1>8 DEF PendingEven
<1>10. QED
  BY <1>1, <1>6, <1>9 DEF EvenInv

LEMMA UpdateEven ==
  ASSUME TypeOK, TypeOK', CursorOK, EvenInv, UpdateBalance
  PROVE  EvenInv'
<1>1. /\ pc = "update" /\ pc' = "update"
      /\ UNCHANGED <<assets, contracts, storage, blocks, validTxs, txs, mempool, it, opi>>
  BY DEF UpdateBalance, poolVars
<1>2. Len(todo) <= 2 /\ PendingEven
  BY <1>1 DEF EvenInv
<1>3. /\ Len(todo') = Len(todo) - 1 /\ Len(todo) \in Nat /\ 1 <= Len(todo)
      /\ \A i \in 1..Len(todo) - 1 : todo'[i] = todo[i + 1]
  BY <1>2, PendingNext
<1>4. ASSUME NEW s \in AssetIds
      PROVE  /\ (Claims(s) + Brings(1, s) + Brings(2, s) + DueInAll(CurrentOp, s)
                    = IncludedMint(s) + MintedIn(CurrentOps, s))'
             /\ Claims(s)' = Claims(s) + Brings(1, s)
             /\ IncludedMint(s)' = IncludedMint(s)
  <2>1. Brings(1, s)' = Brings(2, s) /\ Brings(2, s)' = 0
    <3>1. MoveOf(1, s)' = MoveOf(2, s) /\ MoveOf(2, s)' = 0
      BY <1>2, PendingNext
    <3>2. /\ 1 <= Len(todo') <=> 2 <= Len(todo)
          /\ ~ (2 <= Len(todo'))
          /\ 2 <= Len(todo) => todo'[1] = todo[2]
      <4>1. 2 <= Len(todo) => 1 \in 1..Len(todo) - 1
        BY <1>3
      <4>2. QED
        BY <1>2, <1>3, <4>1
    <3>3. QED
      BY <3>1, <3>2 DEF Brings
  <2>2. Claims(s)' = Claims(s) + Brings(1, s)
    BY <1>2, ClaimsNext
  <2>3. Brings(1, s) \in Int /\ Brings(2, s) \in Int /\ Claims(s) \in Int
    BY BringsTyped, EvenTypes
  <2>4. IncludedMint(s)' = IncludedMint(s) /\ MintedIn(CurrentOps, s)' = MintedIn(CurrentOps, s)
    BY <1>1 DEF IncludedMint, Included, Ledger, MintedIn, CurrentOps
  <2>5. DueInAll(CurrentOp, s)' = DueInAll(CurrentOp, s) /\ DueInAll(CurrentOp, s) \in Int
    <3>1. PICK o : o = CurrentOp
      OBVIOUS
    <3>2. CurrentOp' = o
      BY <1>1, <3>1 DEF CurrentOp, CurrentOps
    <3>3. DueInAll(o, s)' = DueInAll(o, s)
      BY <1>1, DueInAllKept
    <3>4. o \in Ops
      BY <1>1, <3>1, CurrentOpsType, SMTT(60) DEF CursorOK, TypeOK, CurrentOp
    <3>5. DueInAll(o, s) \in Int
      BY <3>4, DueInAllType
    <3>6. DueInAll(CurrentOp, s)' = DueInAll(o, s)'
      BY <3>2 DEF DueInAll
    <3>7. QED
      BY <3>1, <3>3, <3>5, <3>6
  <2>6. Claims(s) + Brings(1, s) + Brings(2, s) + DueInAll(CurrentOp, s)
          = IncludedMint(s) + MintedIn(CurrentOps, s)
    BY <1>2 DEF PendingEven
  <2>7. QED
    BY <2>1, <2>2, <2>3, <2>4, <2>5, <2>6
<1>5. (Even \/ \A i \in 1..Len(todo) : CanUpdate(todo[i]))'
  <2>1. CASE Len(todo) = 1
    BY <1>3, <2>1
  <2>2. CASE Len(todo) = 2 /\ todo[1].addr \in Accounts
    <3>1. Len(todo') = 1 /\ todo'[1] = todo[2] /\ todo[2] \in Changes
      <4>1. todo \in Seq(Changes)
        BY DEF TypeOK, Changes
      <4>2. QED
        BY <1>3, <2>2, <4>1
    <3>2. PICK a, s : a = todo[2].addr /\ s = todo[2].asset
      OBVIOUS
    <3>3. a \in Addresses /\ s \in AssetIds /\ todo[2].delta \in Int
      BY <3>1, <3>2 DEF Changes
    <3>4. balances'[a][s] = balances[a][s] + DeltaOf(1, a, s)
      BY <1>2, <3>3, BalanceNext
    <3>5. todo[2].delta > 0 \/ - todo[2].delta <= balances[a][s] + DeltaOf(1, a, s)
      BY <1>2, <2>2, <3>2 DEF PendingEven
    <3>6. CanUpdate(todo[1])'
      BY <3>1, <3>2, <3>4, <3>5 DEF CanUpdate
    <3>7. QED
      BY <3>1, <3>6
  <2>3. CASE Len(todo) = 2 /\ todo[1].addr \notin Accounts
    <3>1. Even
      BY <1>2, <2>3 DEF PendingEven
    <3>2. ASSUME NEW s \in AssetIds
          PROVE  Claims(s)' = IncludedMint(s)'
      <4>1. Brings(1, s) = 0
        BY <2>3 DEF Brings
      <4>2. Claims(s) = IncludedMint(s) /\ Claims(s) \in Int
        BY <3>1, EvenTypes DEF Even
      <4>3. QED
        BY <1>4, <4>1, <4>2
    <3>3. QED
      BY <3>2 DEF Even
  <2>4. QED
    BY <1>2, <1>3, <2>1, <2>2, <2>3
<1>6. Len(todo') <= 2 /\ Len(todo') # 2
  <2>1. PICK n \in Nat : n = Len(todo) /\ n <= 2
    BY <1>2, <1>3
  <2>2. PICK m \in Int : m = Len(todo')
    BY <1>3, <2>1
  <2>3. m = n - 1
    BY <1>3, <2>1, <2>2
  <2>4. m <= 2 /\ m # 2
    BY <2>1, <2>2, <2>3
  <2>5. QED
    BY <2>2, <2>4
<1>7. PendingEven'
  BY <1>4, <1>5, <1>6 DEF PendingEven
<1>8. QED
  BY <1>1, <1>6, <1>7 DEF EvenInv

(* A refused update is the first of its operation, or the first one has    *)
(* touched no account.                                                     *)
LEMMA RefusedEven ==
  ASSUME TypeOK, EvenInv, UpdateBalanceThrows
  PROVE  Even
<1>1. pc = "update" /\ todo # << >> /\ ~ CanUpdate(Head(todo))
  BY DEF UpdateBalanceThrows
<1>2. todo \in Seq(Changes)
  BY DEF TypeOK, Changes
<1>3. 1 \in 1..Len(todo) /\ Head(todo) = todo[1]
  BY <1>1, <1>2
<1>4. QED
  BY <1>1, <1>3 DEF EvenInv, PendingEven

(* Claims and mints stay what they are.                                    *)
LEMMA EvenKept ==
  ASSUME TypeOK, TypeOK', UNCHANGED <<balances, storage>>, Included' = Included,
         \A t \in Included : txs'[t] = txs[t]
  PROVE  /\ \A s \in AssetIds : Claims(s)' = Claims(s) /\ IncludedMint(s)' = IncludedMint(s)
         /\ Even => Even'
<1>1. ASSUME NEW s \in AssetIds
      PROVE  Claims(s)' = Claims(s) /\ IncludedMint(s)' = IncludedMint(s)
  BY IncludedMintNext DEF Claims, Held, Booked, Owed
<1>2. QED
  BY <1>1 DEF Even

LEMMA EvenInductive ==
  ASSUME FcIsStd, MaxOps = 1, PlainOps,
         ChainInv, ChainInv', PoolInv, ReceiptInv, SolventInv, NonNegative, EvenInv, [Next]_vars
  PROVE  EvenInv'
<1>0. /\ TypeOK /\ TypeOK' /\ CursorOK /\ NoTxTwice /\ HeldOnlySubmitted /\ NoneHalfBuilt
      /\ OneOp /\ BusyReceipt
  BY DEF ChainInv, PoolInv, ReceiptInv
<1>1. ASSUME UNCHANGED <<balances, storage, blocks, validTxs, txs>>, Even, pc' \in {"idle", "scan"}
      PROVE  EvenInv'
  <2>1. Included' = Included
    BY <1>0, <1>1, IncludedNext
  <2>2. Even'
    BY <1>0, <1>1, <2>1, EvenKept
  <2>3. QED
    BY <1>1, <2>2 DEF EvenInv
(* The transaction applied has one operation.                              *)
<1>2. ASSUME pc \in {"apply", "update"} \/ EvaluateTx
      PROVE  /\ it \in 1..Len(mempool) /\ mempool[it] \in TxIds /\ mempool[it] \notin Included
             /\ Len(CurrentOps) = 1 /\ CurrentOps = txs[mempool[it]] /\ CurrentOps \in Seq(Ops)
  <2>1. it \in 1..Len(mempool)
    BY <1>0, <1>2 DEF CursorOK, TypeOK, EvaluateTx
  <2>2. mempool[it] \in TxIds /\ mempool[it] \notin Included
    BY <1>0, <2>1, PooledNotIncluded
  <2>3. QueueFacts
    BY <1>0, QueueIs
  <2>4. 0 \in 0..Len(Ledger) /\ it \in DOMAIN Queue(0) /\ Queue(0)[it] = mempool[it]
    <3>1. Queue(0) = mempool /\ 0 \in 0..Len(Ledger)
      BY <2>3 DEF QueueFacts
    <3>2. mempool \in Seq(TxIds)
      BY <1>0 DEF TypeOK
    <3>3. QED
      BY <2>1, <3>1, <3>2
  <2>5. txs[mempool[it]] # << >>
    BY <1>0, <2>4 DEF HeldOnlySubmitted
  <2>6. QED
    BY <1>0, <2>1, <2>2, <2>5 DEF OneOp, CurrentOps, TypeOK
<1>3. ASSUME NEW t \in TxIds, NEW ops \in TxOps, Submit(t, ops)
      PROVE  EvenInv'
  <2>1. /\ txs[t] = << >> /\ txs' = [txs EXCEPT ![t] = ops] /\ pc = "idle" /\ pc' = "idle"
        /\ UNCHANGED <<balances, storage, blocks, validTxs>>
    BY <1>3 DEF Submit, genVars, chainVars
  <2>2. Included' = Included
    BY <1>0, <2>1, IncludedNext
  <2>3. t \notin Included
    <3>1. QueueFacts
      BY <1>0, QueueIs
    <3>2. \A b \in 1..Len(Ledger) : b \in 0..Len(Ledger)
      BY <3>1 DEF QueueFacts
    <3>3. \A b \in 1..Len(Ledger) : t \notin ToSet(Queue(b))
      BY <1>0, <2>1, <3>2 DEF HeldOnlySubmitted, ToSet
    <3>4. QED
      BY <1>0, <3>3, IncludedIs
  <2>4. \A u \in Included : txs'[u] = txs[u]
    <3>1. Included \subseteq TxIds
      BY <1>0, IncludedIs
    <3>2. QED
      BY <1>0, <2>1, <2>3, <3>1 DEF TypeOK
  <2>5. Even'
    BY <1>0, <2>1, <2>2, <2>4, EvenKept DEF EvenInv
  <2>6. QED
    BY <2>1, <2>5 DEF EvenInv
<1>4. CASE StartBlock
  <2>1. /\ pc = "idle" /\ pc' = "scan" /\ validTxs' = validTxs
        /\ UNCHANGED <<balances, storage, blocks, txs>>
    BY <1>0, <1>4 DEF StartBlock, NoneHalfBuilt, chainVars, poolVars
  <2>2. QED
    BY <1>1, <2>1 DEF EvenInv
<1>5. CASE EvaluateTx
  <2>1. /\ pc = "scan" /\ pc' = "apply" /\ opi' = 1
        /\ UNCHANGED <<balances, storage, txs, mempool, blocks, validTxs, it>>
    BY <1>5 DEF EvaluateTx, chainVars, poolVars
  <2>2. Included' = Included
    BY <1>0, <2>1, IncludedNext
  <2>3. Even'
    BY <1>0, <2>1, <2>2, EvenKept DEF EvenInv
  <2>4. Len(CurrentOps)' = 1
    BY <1>2, <1>5, <2>1 DEF CurrentOps
  <2>5. ~ (opi' > Len(CurrentOps)')
    BY <2>1, <2>4
  <2>6. QED
    BY <2>1, <2>3, <2>5 DEF EvenInv
<1>6. CASE ApplyOp
  <2>1. pc = "apply" /\ opi <= Len(CurrentOps)
    BY <1>6 DEF ApplyOp
  <2>2. Len(CurrentOps) = 1 /\ ~ (opi > Len(CurrentOps)) /\ opi = 1
    <3>1. Len(CurrentOps) = 1
      BY <1>2, <2>1
    <3>2. opi \in Nat \ {0}
      BY <1>0 DEF TypeOK
    <3>3. QED
      BY <2>1, <3>1, <3>2
  <2>3. Even /\ Solvent
    BY <2>1, <2>2 DEF EvenInv, SolventInv
  <2>4. QED
    BY <1>0, <1>6, <2>2, <2>3, ApplyEven
<1>7. CASE UpdateBalance
  BY <1>0, <1>7, UpdateEven
<1>8. CASE UpdateBalanceThrows
  <2>1. UNCHANGED <<chainVars, poolVars>> /\ \E kind : Raise(kind)
    BY <1>8 DEF UpdateBalanceThrows
  <2>2. UNCHANGED validTxs /\ pc' = "scan"
    BY <2>1, RaiseQueues
  <2>3. QED
    BY <1>0, <1>1, <1>8, <2>1, <2>2, RefusedEven DEF chainVars, poolVars
<1>9. CASE EvaluateTxThrows \/ ApplyOpThrows
  <2>1. /\ pc = "scan" \/ (pc = "apply" /\ opi <= Len(CurrentOps))
        /\ UNCHANGED <<chainVars, poolVars>> /\ \E kind : Raise(kind)
    BY <1>9 DEF EvaluateTxThrows, ApplyOpThrows
  <2>2. UNCHANGED validTxs /\ pc' = "scan"
    BY <2>1, RaiseQueues
  <2>3. Even
    <3>1. CASE pc = "scan"
      BY <3>1 DEF EvenInv
    <3>2. CASE pc = "apply" /\ opi <= Len(CurrentOps)
      <4>1. ~ (opi > Len(CurrentOps))
        BY <1>0, <1>2, <3>2 DEF TypeOK
      <4>2. QED
        BY <3>2, <4>1 DEF EvenInv
    <3>3. QED
      BY <2>1, <3>1, <3>2
  <2>4. QED
    BY <1>1, <2>1, <2>2, <2>3 DEF chainVars, poolVars
<1>10. CASE FinishOp
  <2>1. /\ pc = "update" /\ pc' = "apply" /\ todo = << >> /\ opi' = opi + 1
        /\ UNCHANGED <<balances, blocks, validTxs, txs, mempool, it>>
    BY <1>10 DEF FinishOp, poolVars
  <2>2. PendingEven
    BY <2>1 DEF EvenInv
  <2>3. Included' = Included
    BY <1>0, <2>1, IncludedNext
  <2>4. ASSUME NEW s \in AssetIds
        PROVE  (Claims(s) = IncludedMint(s) + MintedIn(CurrentOps, s))'
    <3>1. Claims(s) + Brings(1, s) + Brings(2, s) + DueInAll(CurrentOp, s)
            = IncludedMint(s) + MintedIn(CurrentOps, s)
      BY <2>2 DEF PendingEven
    <3>2. /\ Brings(1, s) = 0 /\ Brings(2, s) = 0
          /\ Held(s) \in Int /\ Booked(s) \in Int /\ DueInAll(CurrentOp, s) \in Int
      <4>1. CurrentOp \in Ops
        BY <1>0, <1>10, CurrentOpsType, SMTT(60) DEF FinishOp, CursorOK, TypeOK, CurrentOp
      <4>2. PICK o : o = CurrentOp
        OBVIOUS
      <4>3. DueInAll(o, s) \in Int
        BY <4>1, <4>2, DueInAllType
      <4>4. QED
        BY <1>0, <2>1, <4>2, <4>3, EvenTypes DEF Brings
    <3>3. IncludedMint(s)' = IncludedMint(s)
      BY <1>0, <2>1, <2>3, IncludedMintNext
    <3>6. Held(s)' = Held(s) /\ Booked(s)' = Booked(s) + DueInAll(CurrentOp, s)
      BY <1>0, <1>10, <2>1, BookedNext DEF Held
    <3>7. Claims(s)' = Claims(s) + DueInAll(CurrentOp, s)
      BY <3>2, <3>6 DEF Claims
    <3>8. Claims(s) \in Int
      BY <3>2 DEF Claims
    <3>4. MintedIn(CurrentOps, s)' = MintedIn(CurrentOps, s)
      BY <2>1 DEF MintedIn, CurrentOps
    <3>5. QED
      BY <3>1, <3>2, <3>3, <3>4, <3>7, <3>8
  <2>5. opi' > Len(CurrentOps)'
    <3>1. Len(CurrentOps)' = 1
      <4>1. Len(CurrentOps) = 1
        BY <1>2, <2>1
      <4>2. QED
        BY <2>1, <4>1 DEF CurrentOps
    <3>2. opi \in Nat \ {0}
      BY <1>0 DEF TypeOK
    <3>3. QED
      BY <2>1, <3>1, <3>2
  <2>6. QED
    BY <2>1, <2>4, <2>5 DEF EvenInv
<1>11. CASE IncludeTx
  <2>1. /\ pc = "apply" /\ pc' = "scan" /\ opi > Len(CurrentOps)
        /\ UNCHANGED <<balances, storage, txs, blocks>>
    BY <1>11 DEF IncludeTx, chainVars
  <2>2. /\ it \in 1..Len(mempool) /\ mempool[it] \in TxIds /\ mempool[it] \notin Included
        /\ CurrentOps = txs[mempool[it]]
    BY <1>2, <2>1
  <2>3. Included' = Included \cup {mempool[it]}
    BY <1>0, <1>11, <2>2, IncludedNext
  <2>4. ASSUME NEW s \in AssetIds
        PROVE  Claims(s)' = IncludedMint(s)'
    <3>1. Claims(s)' = Claims(s)
      BY <2>1 DEF Claims, Held, Booked, Owed
    <3>2. Claims(s) = IncludedMint(s) + MintedIn(CurrentOps, s)
      BY <2>1 DEF EvenInv
    <3>3. IncludedMint(s)' = IncludedMint(s) + MintedIn(txs[mempool[it]], s)
      BY <1>0, <2>1, <2>2, <2>3, IncludedMintNext
    <3>4. QED
      BY <2>2, <3>1, <3>2, <3>3
  <2>5. QED
    BY <2>1, <2>4 DEF EvenInv, Even
<1>12. CASE SealBlock
  <2>1. pc = "scan" /\ pc' = "idle" /\ UNCHANGED <<balances, storage, txs>>
    BY <1>12 DEF SealBlock, chainVars
  <2>2. Included' = Included
    BY <1>0, <1>12, IncludedNext
  <2>3. Even'
    BY <1>0, <2>1, <2>2, EvenKept DEF EvenInv
  <2>4. QED
    BY <2>1, <2>3 DEF EvenInv
<1>13. ASSUME NEW a \in AssetIds, AddAsset(a)
       PROVE  EvenInv'
  <2>1. pc = "idle" /\ pc' = "idle" /\ UNCHANGED <<balances, storage, txs, blocks, validTxs>>
    BY <1>13 DEF AddAsset, genVars, poolVars
  <2>2. QED
    BY <1>1, <2>1 DEF EvenInv
<1>14. CASE UNCHANGED vars
  <2>1. UNCHANGED <<assets, contracts, storage, balances, txs, mempool, blocks, validTxs,
                    pc, it, opi, todo>>
    BY <1>14 DEF vars, chainVars, poolVars, genVars
  <2>2. CurrentOps' = CurrentOps /\ CurrentOp' = CurrentOp /\ Included' = Included
    BY <2>1 DEF CurrentOps, CurrentOp, Included, Ledger
  <2>3. \A s \in AssetIds :
          /\ Claims(s)' = Claims(s) /\ IncludedMint(s)' = IncludedMint(s)
          /\ MintedIn(CurrentOps, s)' = MintedIn(CurrentOps, s)
          /\ Brings(1, s)' = Brings(1, s) /\ Brings(2, s)' = Brings(2, s)
    BY <2>1, <2>2 DEF Claims, Held, Booked, Owed, IncludedMint, MintedIn, Brings, MoveOf
  <2>4. DeltaOf(1, todo[2].addr, todo[2].asset)' = DeltaOf(1, todo[2].addr, todo[2].asset)
    BY <2>1 DEF DeltaOf, MoveOf
  <2>5. \A i \in 1..Len(todo) : CanUpdate(todo[i])' <=> CanUpdate(todo[i])
    BY <2>1 DEF CanUpdate
  <2>6. Even' <=> Even
    BY <2>3 DEF Even
  <2>7. \A s \in AssetIds : DueInAll(CurrentOp, s)' = DueInAll(CurrentOp, s)
    <3>1. PICK o : o = CurrentOp
      OBVIOUS
    <3>2. \A s : DueInAll(o, s)' = DueInAll(o, s)
      BY <2>1, DueInAllKept
    <3>3. \A s : DueInAll(CurrentOp, s)' = DueInAll(o, s)'
      BY <2>2, <3>1 DEF DueInAll
    <3>4. QED
      BY <3>1, <3>2, <3>3
  <2>8. PendingEven' <=> PendingEven
    BY <2>1, <2>3, <2>4, <2>5, <2>6, <2>7 DEF PendingEven
  <2>9. QED
    BY <2>1, <2>2, <2>3, <2>6, <2>8 DEF EvenInv
<1>15. QED
  BY <1>3, <1>4, <1>5, <1>6, <1>7, <1>8, <1>9, <1>10, <1>11, <1>12, <1>13, <1>14
     DEF Next, GenerateBlock

(* Transactions of one operation, called by accounts: what accounts hold   *)
(* or are owed in the books of contracts comes from mints that are in a    *)
(* block, and all of those are there, however many transactions fail,      *)
(* wherever, and in whatever order debits and credits are written.         *)
THEOREM ChainClaimsConserved ==
  ASSUME FcIsStd, MaxOps = 1, PlainOps
  PROVE  Spec => []ClaimsConserved
<1> DEFINE Inv == ChainInv /\ PoolInv /\ ReceiptInv /\ SolventInv /\ NonNegative /\ EvenInv
<1>1. Init => Inv
  BY ChainInvInit, PoolInvInit, ReceiptInvInit, SolventInit, EvenInit DEF Init, NonNegative
<1>2. Inv /\ [Next]_vars => Inv'
  BY ChainInvInductive, PoolInvInductive, ReceiptInvInductive, SolventInductive,
     NonNegativeInductive, EvenInductive
<1>3. Inv => ClaimsConserved
  BY DEF EvenInv, Even, Claims, ClaimsConserved, BetweenTxs
<1>4. QED
  BY <1>1, <1>2, <1>3, PTL DEF Spec
================================================================================
