------------------------------ MODULE NativeToken ------------------------------
(***************************************************************************)
(* The native token contract (native_token_contract.cpp): one contract's   *)
(* storage and the calls that change it.  A call that throws changes       *)
(* nothing, so each action is a call that returns.                         *)
(*                                                                         *)
(* Balances live in the fast map "users", where an emptied entry is        *)
(* written as null and a missing one reads as null; allowances live in one *)
(* CBOR map per owner in "allowed", where a used-up entry is erased and    *)
(* the number of entries is limited.                                       *)
(***************************************************************************)
EXTENDS Integers, FiniteSets, Functions

CONSTANTS
    Users,          \* addresses
    Amounts,        \* integers clients send: any int64_t that std::stoll returns
    MaxApprovals,   \* entries allowed in one owner's map (1000 in the code)
    Null            \* the CBOR null

ASSUME TokenAssumption ==
  /\ IsFiniteSet(Users)
  /\ Amounts \subseteq Int
  /\ MaxApprovals \in Nat
  /\ Null \notin Int \cup Users

VARIABLES
    invoker,    \* caller of the latest call that returned
    state,      \* "none" before the contract exists, "NOT_INITED", "COMMON"
    admin,      \* creator of the contract
    supply,     \* total supply
    users,      \* fast map users: balance or null
    allowed     \* fast map allowed: spender |-> amount, per owner

vars == <<invoker, state, admin, supply, users, allowed>>

Init ==
  /\ invoker = Null
  /\ state   = "none"
  /\ admin   = Null
  /\ supply  = 0
  /\ users   = [u \in Users |-> Null]
  /\ allowed = [u \in Users |-> [s \in {} |-> 0]]

(* init, called once by the create operation.                              *)
InitApi(caller) ==
  /\ invoker' = caller
  /\ state = "none"
  /\ state'  = "NOT_INITED"
  /\ admin'  = caller
  /\ supply' = 0
  /\ UNCHANGED <<users, allowed>>

(* init_token: the admin sets the supply and owns all of it.               *)
InitToken(caller, amount) ==
  /\ invoker' = caller
  /\ caller = admin
  /\ state = "NOT_INITED"
  /\ amount > 0
  /\ state'  = "COMMON"
  /\ supply' = amount
  /\ users'  = [users EXCEPT ![caller] = amount]
  /\ UNCHANGED <<admin, allowed>>

(* A stored value that is not an integer counts as zero.                   *)
AsBalance(value) == IF value \in Int THEN value ELSE 0

(* get_balance_of_user                                                     *)
BalanceOf(u) == AsBalance(users[u])

(* Variant that fails: the receiver is read before the sender is written.  *)
MutMoved(from, to, amount) ==
  LET remain  == BalanceOf(from) - amount
      debited == [users EXCEPT ![from] = IF remain > 0 THEN remain ELSE Null]
  IN  [debited EXCEPT ![to] = BalanceOf(to) + amount]

(* The two writes of transfer and transferFrom; the receiver's balance is  *)
(* read after the sender's was written.                                    *)
Moved(from, to, amount) ==
  LET remain  == BalanceOf(from) - amount
      debited == [users EXCEPT ![from] = IF remain > 0 THEN remain ELSE Null]
  IN  [debited EXCEPT ![to] = AsBalance(debited[to]) + amount]

Transfer(caller, to, amount) ==
  /\ invoker' = caller
  /\ state = "COMMON"
  /\ amount > 0
  /\ BalanceOf(caller) >= amount
  /\ users' = Moved(caller, to, amount)
  /\ UNCHANGED <<state, admin, supply, allowed>>

(* A CBOR map with one entry set.                                          *)
With(map, key, value) == [k \in DOMAIN map \cup {key} |-> IF k = key THEN value ELSE map[k]]

Approve(caller, spender, amount) ==
  /\ invoker' = caller
  /\ state = "COMMON"
  /\ amount > 0
  /\ LET data == With(allowed[caller], spender, amount) IN
       /\ Cardinality(DOMAIN data) <= MaxApprovals
       /\ allowed' = [allowed EXCEPT ![caller] = data]
  /\ UNCHANGED <<state, admin, supply, users>>

(* Variants that fail: the remainder is stored even when it is zero; the   *)
(* allowance is not charged.                                               *)
MutCharged(data, spender, amount) == With(data, spender, data[spender] - amount)
MutUncharged(data, spender, amount) == data

(* The owner's map after the spender has used part of its entry; an entry  *)
(* that reaches zero is erased.                                            *)
Charged(data, spender, amount) ==
  IF data[spender] - amount = 0 THEN Restrict(data, DOMAIN data \ {spender})
  ELSE With(data, spender, data[spender] - amount)

TransferFrom(caller, from, to, amount) ==
  /\ invoker' = caller
  /\ state = "COMMON"
  /\ amount > 0
  /\ BalanceOf(from) >= amount
  /\ caller \in DOMAIN allowed[from]
  /\ allowed[from][caller] >= amount
  /\ users'   = Moved(from, to, amount)
  /\ allowed' = [allowed EXCEPT ![from] = Charged(allowed[from], caller, amount)]
  /\ UNCHANGED <<state, admin, supply>>

Next ==
  \/ \E caller \in Users : InitApi(caller)
  \/ \E caller \in Users, amount \in Amounts : InitToken(caller, amount)
  \/ \E caller, to \in Users, amount \in Amounts : Transfer(caller, to, amount)
  \/ \E caller, spender \in Users, amount \in Amounts : Approve(caller, spender, amount)
  \/ \E caller, from, to \in Users, amount \in Amounts :
       TransferFrom(caller, from, to, amount)

Spec == Init /\ [][Next]_vars

----------------------------------------------------------------------------
(* Types of the contract's storage.                                        *)
TypeOK ==
  /\ invoker \in Users \cup {Null}
  /\ state \in {"none", "NOT_INITED", "COMMON"}
  /\ admin \in Users \cup {Null}
  /\ supply \in Int
  /\ users \in [Users -> Int \cup {Null}]
  /\ DOMAIN allowed = Users
  /\ \A u \in Users :
       DOMAIN allowed[u] \subseteq Users /\ allowed[u] \in [DOMAIN allowed[u] -> Int]

(* The holders' balances always add up to the supply: no transfer, not     *)
(* even to oneself, makes or loses a unit.                                 *)
SupplyConserved == SumFunction([u \in Users |-> BalanceOf(u)]) = supply

(* Every entry that is stored says something: balances and allowances      *)
(* that reach zero are gone, so no owner's map fills up with spent ones.   *)
NoEmptyEntries ==
  \A u \in Users :
    /\ users[u] # Null => users[u] > 0
    /\ \A s \in DOMAIN allowed[u] : allowed[u][s] > 0

(* No owner ever holds more approvals than the limit.                      *)
ApprovalsBounded == \A u \in Users : Cardinality(DOMAIN allowed[u]) <= MaxApprovals

(* What is stored of a user stays small, however balances and allowances   *)
(* are used up and come back.                                              *)
BooksTidy == NoEmptyEntries /\ ApprovalsBounded

(* The contract keeps the promise of TokenLedger: reading null and missing *)
(* entries as zero, each call is one step of the ledger or none.           *)
Allowance(u, s) == IF s \in DOMAIN allowed[u] THEN allowed[u][s] ELSE 0

Ledger == INSTANCE TokenLedger
            WITH actor     <- invoker,
                 None      <- Null,
                 balance   <- [u \in Users |-> BalanceOf(u)],
                 allowance <- [u \in Users |-> [s \in Users |-> Allowance(u, s)]]

KeepsLedger == Ledger!Spec
================================================================================
