----------------------------- MODULE MCSimpleChain -----------------------------
(* Instances of SimpleChain for TLC.                                       *)
EXTENDS SimpleChain, TLC

CONSTANTS a1, a2, c1, core, gold, k1, t1, t2, t3, t4, t5

MCAccounts  == {a1, a2}
MCContracts == {c1}
MCAssetIds  == {core}
MCAssetIds2 == {core, gold}
MCPubKeys   == {k1}

(* c1 begins with CON, the accounts with SPL (config.h:20-21).             *)
MCRank      == [a \in Addresses |-> CASE a = c1 -> 1 [] a = a1 -> 2 [] a = a2 -> 3]

Register(a)       == [kind |-> "register", addr |-> a, key |-> k1]
Mint(a, n)        == [kind |-> "mint", addr |-> a, asset |-> core, amount |-> n]
Transfer(a, b, n) == [kind |-> "transfer", from |-> a, to |-> b, asset |-> core, amount |-> n]
Create(a, gas)    == [kind |-> "create", caller |-> a, contract |-> c1, gas |-> gas]
Invoke(a, api, n, d, gas) ==
  [kind |-> "invoke", caller |-> a, contract |-> c1, api |-> api, asset |-> core,
   amount |-> n, deposit |-> d, gas |-> gas]
InitConfig(a)  == Invoke(a, "init_config", 0, 0, TRUE)
Deposit(a, n)  == Invoke(a, "on_deposit_asset", 0, n, TRUE)
Withdraw(a, n) == Invoke(a, "withdraw", n, 0, TRUE)

(* One operation of every kind, a deposit that may exceed its caller's     *)
(* balance, a withdrawal that may exceed its caller's books.               *)
CoreOps == {Register(a2), Mint(a1, 2), Transfer(a1, a2, 1), Create(a1, TRUE), InitConfig(a1),
            Deposit(a1, 2), Withdraw(a1, 1)}

(* For transactions of two operations: the second sees the first's effects *)
(* when it is applied, not when it is evaluated: a creation runs short of  *)
(* gas, and so does a call that only gets that far once the contract is    *)
(* there.                                                                  *)
BatchOps == {Mint(a1, 2), Create(a1, TRUE), Create(a1, FALSE), InitConfig(a1),
             Invoke(a1, "init_config", 0, 0, FALSE), Deposit(a1, 2), Withdraw(a1, 2)}

(* With calls that run short of gas once the contract exists, which fail   *)
(* for good or for a while in front of others.                             *)
ChainOps == CoreOps \cup {Mint(a1, 1), Invoke(a1, "init_config", 0, 0, FALSE)}

MCTxIds4 == {t1, t2, t3, t4}
MCTxIds5 == {t1, t2, t3, t4, t5}

(* The runs begin after two blocks in which a1 created and set up the      *)
(* contract, a state that is reached from Init; the operations may create  *)
(* it again.                                                               *)
ReadyInit ==
  /\ assets    = {CoreAsset}
  /\ pubkeys   = [a \in Accounts |-> None]
  /\ balances  = [a \in Addresses |-> [s \in AssetIds |-> 0]]
  /\ contracts = [c \in Contracts |-> a1]
  /\ storage   = [c \in Contracts |->
                   [state |-> "COMMON", admin |-> a1,
                    books |-> [a \in Addresses |-> [s \in AssetIds |-> 0]]]]
  /\ receipts  = [t \in TxIds |-> IF t \in {t1, t2} THEN "ok" ELSE "none"]
  /\ txs       = [t \in TxIds |-> IF t = t1 THEN <<Create(a1, TRUE)>>
                                  ELSE IF t = t2 THEN <<InitConfig(a1)>> ELSE <<>>]
  /\ mempool   = <<>>
  /\ blocks    = << <<>>, <<t1>>, <<t2>> >>
  /\ pc        = "idle"
  /\ it        = 1
  /\ validTxs  = <<>>
  /\ opi       = 1
  /\ todo      = <<>>

(* Hashes are fresh, so the transactions may be named in the order of their *)
(* submission.  Unlike symmetry this is sound for liveness.                 *)
TxOrder == <<t1, t2, t3, t4, t5>>
InOrder ==
  \A i \in 2 .. Cardinality(TxIds) : txs[TxOrder[i]] # <<>> => txs[TxOrder[i - 1]] # <<>>
OrderedSpec == ReadyInit /\ [][Next /\ InOrder']_vars /\ WF_vars(GenerateBlock)
================================================================================
