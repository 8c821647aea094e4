--------------------------- MODULE NativeTokenProofs ---------------------------
(***************************************************************************)
(* Proofs about the native token contract: typing, no empty entries, the   *)
(* bound on approvals, that balances add up to the supply, and that the    *)
(* contract implements TokenLedger.                                        *)
(***************************************************************************)
EXTENDS NativeToken, Sums, FiniteSetTheorems, TLAPS

(* Before init_token nothing has been issued.                              *)
IssuedOnce ==
  /\ state = "COMMON" => supply > 0
  /\ state # "COMMON" => supply = 0 /\ \A u \in Users : users[u] = Null
  /\ state = "none" => admin = Null

(* One owner's map of approvals, and the types of the storage.             *)
Approvals == UNION { [spenders -> Int] : spenders \in SUBSET Users }

StorageTypes ==
  /\ invoker \in Users \cup {Null}
  /\ state \in {"none", "NOT_INITED", "COMMON"}
  /\ admin \in Users \cup {Null}
  /\ supply \in Int
  /\ users \in [Users -> Int \cup {Null}]
  /\ allowed \in [Users -> Approvals]

TokenInv == StorageTypes /\ IssuedOnce

(* Setting one entry of a map keeps it a map of approvals.                 *)
LEMMA WithType ==
  ASSUME NEW map \in Approvals, NEW key \in Users, NEW value \in Int
  PROVE  /\ With(map, key, value) \in Approvals
         /\ DOMAIN With(map, key, value) = DOMAIN map \cup {key}
         /\ With(map, key, value)[key] = value
         /\ \A k \in DOMAIN map \ {key} : With(map, key, value)[k] = map[k]
<1>1. PICK S \in SUBSET Users : map \in [S -> Int]
  BY DEF Approvals
<1>2. With(map, key, value) \in [S \cup {key} -> Int]
  BY <1>1 DEF With
<1>3. S \cup {key} \in SUBSET Users
  BY <1>1
<1>4. QED
  BY <1>1, <1>2, <1>3 DEF Approvals, With

(* Charging an entry keeps the map one of approvals, changes that entry    *)
(* only and leaves it absent when it reaches zero.                         *)
LEMMA ChargedType ==
  ASSUME NEW data \in Approvals, NEW spender \in DOMAIN data, NEW amount \in Int
  PROVE  /\ Charged(data, spender, amount) \in Approvals
         /\ data[spender] = amount
              => DOMAIN Charged(data, spender, amount) = DOMAIN data \ {spender}
         /\ data[spender] # amount
              => DOMAIN Charged(data, spender, amount) = DOMAIN data
         /\ data[spender] # amount
              => Charged(data, spender, amount)[spender] = data[spender] - amount
         /\ \A k \in DOMAIN data :
              k # spender => Charged(data, spender, amount)[k] = data[k]
<1>1. PICK S \in SUBSET Users : data \in [S -> Int]
  BY DEF Approvals
<1>2. data[spender] \in Int /\ spender \in Users /\ DOMAIN data = S
  BY <1>1
<1>3. CASE data[spender] = amount
  <2>1. Charged(data, spender, amount) = [k \in S \ {spender} |-> data[k]]
    BY <1>2, <1>3 DEF Charged, Restrict
  <2>2. Charged(data, spender, amount) \in [S \ {spender} -> Int]
    BY <1>1, <2>1
  <2>3. S \ {spender} \in SUBSET Users
    OBVIOUS
  <2>4. QED
    BY <1>2, <1>3, <2>1, <2>2, <2>3 DEF Approvals
<1>4. CASE data[spender] # amount
  <2>1. Charged(data, spender, amount) = With(data, spender, data[spender] - amount)
    BY <1>2, <1>4 DEF Charged
  <2>2. DOMAIN data \cup {spender} = DOMAIN data
    OBVIOUS
  <2> DEFINE left == data[spender] - amount
  <2>3. left \in Int
    BY <1>2
  <2> HIDE DEF left
  <2>4. /\ With(data, spender, left) \in Approvals
        /\ DOMAIN With(data, spender, left) = DOMAIN data \cup {spender}
        /\ With(data, spender, left)[spender] = left
        /\ \A k \in DOMAIN data \ {spender} : With(data, spender, left)[k] = data[k]
    <3>1. spender \in Users
      BY <1>2
    <3>2. QED
      BY <2>3, <3>1, WithType
  <2>5. Charged(data, spender, amount) = With(data, spender, left)
    BY <2>1 DEF left
  <2>6. QED
    BY <1>4, <2>2, <2>4, <2>5 DEF left
<1>5. QED
  BY <1>3, <1>4

LEMMA ChargedOthers ==
  ASSUME NEW data \in Approvals, NEW spender \in DOMAIN data, NEW amount \in Int,
         NEW k \in DOMAIN data, k # spender
  PROVE  k \in DOMAIN Charged(data, spender, amount)
         /\ Charged(data, spender, amount)[k] = data[k]
BY DEF Charged, Restrict, With

(* The two writes of a transfer, entry by entry.                           *)
LEMMA MovedEntries ==
  ASSUME StorageTypes, NEW from \in Users, NEW to \in Users, NEW amount \in Int,
         amount > 0, BalanceOf(from) >= amount
  PROVE  /\ Moved(from, to, amount) \in [Users -> Int \cup {Null}]
         /\ \A u \in Users :
              AsBalance(Moved(from, to, amount)[u]) =
                IF from = to THEN BalanceOf(u)
                ELSE IF u = from THEN BalanceOf(from) - amount
                ELSE IF u = to THEN BalanceOf(to) + amount
                ELSE BalanceOf(u)
         /\ NoEmptyEntries =>
              \A u \in Users : Moved(from, to, amount)[u] # Null
                                 => Moved(from, to, amount)[u] > 0
<1> DEFINE remain  == BalanceOf(from) - amount
           debited == [users EXCEPT ![from] = IF remain > 0 THEN remain ELSE Null]
<1>1. users \in [Users -> Int \cup {Null}] /\ Null \notin Int
  BY TokenAssumption DEF StorageTypes
<1>2. \A u \in Users : BalanceOf(u) \in Int
  BY <1>1 DEF BalanceOf, AsBalance
<1>3. remain \in Int /\ remain >= 0
  BY <1>2
<1>4. /\ debited \in [Users -> Int \cup {Null}]
      /\ AsBalance(debited[from]) = remain
      /\ \A u \in Users \ {from} : debited[u] = users[u]
  BY <1>1, <1>3 DEF AsBalance
<1>5. Moved(from, to, amount) = [debited EXCEPT ![to] = AsBalance(debited[to]) + amount]
  BY DEF Moved
<1> HIDE DEF debited, remain
<1>6. /\ AsBalance(debited[to]) \in Int
      /\ AsBalance(debited[to]) = IF from = to THEN remain ELSE BalanceOf(to)
  BY <1>2, <1>3, <1>4 DEF AsBalance, BalanceOf
<1>7. AsBalance(debited[to]) + amount \in Int
  BY <1>6
<1>8. /\ Moved(from, to, amount) \in [Users -> Int \cup {Null}]
      /\ Moved(from, to, amount)[to] = AsBalance(debited[to]) + amount
      /\ \A u \in Users \ {to} : Moved(from, to, amount)[u] = debited[u]
  BY <1>4, <1>5, <1>7
<1>9. ASSUME NEW u \in Users
      PROVE  AsBalance(Moved(from, to, amount)[u]) =
                IF from = to THEN BalanceOf(u)
                ELSE IF u = from THEN BalanceOf(from) - amount
                ELSE IF u = to THEN BalanceOf(to) + amount
                ELSE BalanceOf(u)
  <2>1. CASE u = to
    <3>1. AsBalance(Moved(from, to, amount)[u]) = AsBalance(debited[to]) + amount
      BY <1>7, <1>8, <2>1 DEF AsBalance
    <3>2. QED
      BY <1>2, <1>6, <2>1, <3>1 DEF remain
  <2>2. CASE u # to /\ u = from
    BY <1>4, <1>8, <2>2 DEF remain
  <2>3. CASE u # to /\ u # from
    BY <1>4, <1>8, <2>3 DEF BalanceOf
  <2>4. QED
    BY <2>1, <2>2, <2>3
<1>10. ASSUME NoEmptyEntries, NEW u \in Users, Moved(from, to, amount)[u] # Null
       PROVE  Moved(from, to, amount)[u] > 0
  <2>1. \A v \in Users : BalanceOf(v) >= 0
    BY <1>1, <1>10 DEF NoEmptyEntries, BalanceOf, AsBalance
  <2>2. CASE u = to
    BY <1>3, <1>6, <1>8, <2>1, <2>2
  <2>3. CASE u # to /\ u = from
    <3>1. debited[from] = IF remain > 0 THEN remain ELSE Null
      BY <1>1 DEF debited
    <3>2. QED
      BY <1>3, <1>8, <1>10, <2>3, <3>1
  <2>4. CASE u # to /\ u # from
    BY <1>4, <1>8, <1>10, <2>4 DEF NoEmptyEntries
  <2>5. QED
    BY <2>2, <2>3, <2>4
<1>11. QED
  BY <1>8, <1>9, <1>10

(* The contract's storage keeps its types, and the issue happens once.     *)
LEMMA TokenInvInductive ==
  ASSUME TokenInv, [Next]_vars
  PROVE  TokenInv'
<1> USE DEF TokenInv
<1>0. Null \notin Int \cup Users /\ Amounts \subseteq Int
  BY TokenAssumption
<1>1. ASSUME NEW caller \in Users, InitApi(caller)
      PROVE  TokenInv'
  BY <1>1 DEF InitApi, StorageTypes, IssuedOnce
<1>2. ASSUME NEW caller \in Users, NEW amount \in Amounts, InitToken(caller, amount)
      PROVE  TokenInv'
  BY <1>0, <1>2 DEF InitToken, StorageTypes, IssuedOnce
<1>3. ASSUME NEW caller \in Users, NEW to \in Users, NEW amount \in Amounts,
             Transfer(caller, to, amount)
      PROVE  TokenInv'
  <2>1. users' \in [Users -> Int \cup {Null}]
    BY <1>0, <1>3, MovedEntries DEF Transfer
  <2>2. QED
    BY <1>3, <2>1 DEF Transfer, StorageTypes, IssuedOnce
<1>4. ASSUME NEW caller \in Users, NEW spender \in Users, NEW amount \in Amounts,
             Approve(caller, spender, amount)
      PROVE  TokenInv'
  <2>1. With(allowed[caller], spender, amount) \in Approvals
    BY <1>0, WithType DEF StorageTypes
  <2>2. allowed' \in [Users -> Approvals]
    BY <1>4, <2>1 DEF Approve, StorageTypes
  <2>3. QED
    BY <1>4, <2>2 DEF Approve, StorageTypes, IssuedOnce
<1>5. ASSUME NEW caller \in Users, NEW from \in Users, NEW to \in Users,
             NEW amount \in Amounts, TransferFrom(caller, from, to, amount)
      PROVE  TokenInv'
  <2>1. users' \in [Users -> Int \cup {Null}]
    BY <1>0, <1>5, MovedEntries DEF TransferFrom
  <2>2. Charged(allowed[from], caller, amount) \in Approvals
    BY <1>0, <1>5, ChargedType DEF TransferFrom, StorageTypes
  <2>3. allowed' \in [Users -> Approvals]
    BY <1>5, <2>2 DEF TransferFrom, StorageTypes
  <2>4. QED
    BY <1>5, <2>1, <2>3 DEF TransferFrom, StorageTypes, IssuedOnce
<1>6. CASE UNCHANGED vars
  BY <1>6 DEF vars, StorageTypes, IssuedOnce
<1>7. QED
  BY <1>1, <1>2, <1>3, <1>4, <1>5, <1>6 DEF Next

LEMMA TokenInvInit ==
  ASSUME Init
  PROVE  TokenInv
<1>1. [s \in {} |-> 0] \in [{} -> Int] /\ {} \in SUBSET Users
  OBVIOUS
<1>2. [s \in {} |-> 0] \in Approvals
  BY <1>1 DEF Approvals
<1>3. QED
  BY <1>2 DEF Init, TokenInv, StorageTypes, IssuedOnce

LEMMA TokenInvHolds == Spec => []TokenInv
<1>1. TokenInv /\ [Next]_vars => TokenInv'
  BY TokenInvInductive
<1>2. QED
  BY <1>1, TokenInvInit, PTL DEF Spec

(* The contract's storage is well typed for any users and amounts.         *)
THEOREM TokenTyping == Spec => []TypeOK
<1>1. TokenInv => TypeOK
  BY DEF TokenInv, StorageTypes, TypeOK, Approvals
<1>2. QED
  BY <1>1, TokenInvHolds, PTL

(* No call leaves an entry of zero or less, of balances or of approvals.   *)
THEOREM TokenNoEmptyEntries == Spec => []NoEmptyEntries
<1>1. Init => NoEmptyEntries
  BY DEF Init, NoEmptyEntries
<1>2. ASSUME TokenInv, NoEmptyEntries, [Next]_vars
      PROVE  NoEmptyEntries'
  <2>0. StorageTypes /\ Null \notin Int /\ Amounts \subseteq Int
    BY <1>2, TokenAssumption DEF TokenInv
  <2>1. ASSUME NEW caller \in Users, NEW amount \in Amounts, InitToken(caller, amount)
        PROVE  NoEmptyEntries'
    BY <1>2, <2>0, <2>1 DEF InitToken, NoEmptyEntries, StorageTypes
  <2>2. ASSUME NEW caller \in Users, NEW to \in Users, NEW amount \in Amounts,
               Transfer(caller, to, amount)
        PROVE  NoEmptyEntries'
    <3>1. \A u \in Users : users'[u] # Null => users'[u] > 0
      BY <1>2, <2>0, <2>2, MovedEntries DEF Transfer
    <3>2. QED
      BY <1>2, <2>2, <3>1 DEF Transfer, NoEmptyEntries
  <2>3. ASSUME NEW caller \in Users, NEW spender \in Users, NEW amount \in Amounts,
               Approve(caller, spender, amount)
        PROVE  NoEmptyEntries'
    <3> DEFINE data == With(allowed[caller], spender, amount)
    <3>1. allowed[caller] \in Approvals /\ amount \in Int /\ amount > 0
      BY <2>0, <2>3 DEF StorageTypes, Approve
    <3>2. \A s \in DOMAIN data : data[s] > 0
      <4>1. /\ DOMAIN data = DOMAIN allowed[caller] \cup {spender}
            /\ data[spender] = amount
            /\ \A k \in DOMAIN allowed[caller] \ {spender} : data[k] = allowed[caller][k]
        BY <2>3, <3>1, WithType, ZenonT(60)
      <4> HIDE DEF data
      <4>2. \A k \in DOMAIN allowed[caller] : allowed[caller][k] > 0
        BY <1>2 DEF NoEmptyEntries
      <4>3. QED
        BY <3>1, <4>1, <4>2
    <3>3. allowed' = [allowed EXCEPT ![caller] = data] /\ UNCHANGED users
      BY <2>3 DEF Approve
    <3> HIDE DEF data
    <3>4. QED
      BY <1>2, <2>0, <3>2, <3>3 DEF NoEmptyEntries, StorageTypes
  <2>4. ASSUME NEW caller \in Users, NEW from \in Users, NEW to \in Users,
               NEW amount \in Amounts, TransferFrom(caller, from, to, amount)
        PROVE  NoEmptyEntries'
    <3> DEFINE data == Charged(allowed[from], caller, amount)
    <3>1. \A u \in Users : users'[u] # Null => users'[u] > 0
      BY <1>2, <2>0, <2>4, MovedEntries DEF TransferFrom
    <3>2. /\ allowed[from] \in Approvals /\ amount \in Int
          /\ caller \in DOMAIN allowed[from] /\ allowed[from][caller] >= amount
      BY <2>0, <2>4 DEF StorageTypes, TransferFrom
    <3>3. \A s \in DOMAIN allowed[from] : allowed[from][s] \in Int /\ allowed[from][s] > 0
      BY <1>2, <3>2 DEF NoEmptyEntries, Approvals
    <3>4. \A s \in DOMAIN data : data[s] > 0
      <4>1. allowed[from][caller] = amount => DOMAIN data = DOMAIN allowed[from] \ {caller}
        BY <3>2, ChargedType, ZenonT(60)
      <4>2. allowed[from][caller] # amount
              => DOMAIN data = DOMAIN allowed[from] /\ data[caller] = allowed[from][caller] - amount
        BY <3>2, ChargedType, ZenonT(60)
      <4>3. ASSUME NEW k \in DOMAIN allowed[from], k # caller
            PROVE  data[k] = allowed[from][k]
        BY <3>2, <4>3, ChargedOthers
      <4> HIDE DEF data
      <4>4. QED
        BY <3>2, <3>3, <4>1, <4>2, <4>3
    <3>5. allowed' = [allowed EXCEPT ![from] = data]
      BY <2>4 DEF TransferFrom
    <3> HIDE DEF data
    <3>6. QED
      BY <1>2, <2>0, <3>1, <3>4, <3>5 DEF NoEmptyEntries, StorageTypes
  <2>5. CASE UNCHANGED <<users, allowed>>
    BY <1>2, <2>5 DEF NoEmptyEntries
  <2>6. QED
    BY <1>2, <2>1, <2>2, <2>3, <2>4, <2>5 DEF Next, InitApi, vars
<1>3. TokenInv /\ NoEmptyEntries /\ [Next]_vars => NoEmptyEntries'
  BY <1>2
<1>4. QED
  BY <1>1, <1>3, TokenInvHolds, PTL DEF Spec

(* The bound on approvals with the finiteness it needs.                    *)
ApprovalsInv ==
  \A u \in Users : /\ IsFiniteSet(DOMAIN allowed[u])
                   /\ Cardinality(DOMAIN allowed[u]) <= MaxApprovals

(* No owner ever has more approvals than the limit, however approvals and  *)
(* their use alternate.                                                    *)
THEOREM TokenApprovalsBounded == Spec => []ApprovalsBounded
<1>1. Init => ApprovalsInv
  BY FS_EmptySet, TokenAssumption DEF Init, ApprovalsInv
<1>2. ASSUME TokenInv, ApprovalsInv, [Next]_vars
      PROVE  ApprovalsInv'
  <2>0. StorageTypes /\ Amounts \subseteq Int /\ MaxApprovals \in Nat
    BY <1>2, TokenAssumption DEF TokenInv
  <2>1. ASSUME NEW caller \in Users, NEW spender \in Users, NEW amount \in Amounts,
               Approve(caller, spender, amount)
        PROVE  ApprovalsInv'
    <3> DEFINE data == With(allowed[caller], spender, amount)
    <3>1. /\ allowed' = [allowed EXCEPT ![caller] = data]
          /\ Cardinality(DOMAIN data) <= MaxApprovals
      BY <2>1 DEF Approve
    <3>2. DOMAIN data = DOMAIN allowed[caller] \cup {spender}
      BY <2>0, WithType DEF StorageTypes
    <3>3. IsFiniteSet(DOMAIN data)
      BY <1>2, <3>2, FS_AddElement DEF ApprovalsInv
    <3> HIDE DEF data
    <3>4. QED
      BY <1>2, <2>0, <3>1, <3>3 DEF ApprovalsInv, StorageTypes
  <2>2. ASSUME NEW caller \in Users, NEW from \in Users, NEW to \in Users,
               NEW amount \in Amounts, TransferFrom(caller, from, to, amount)
        PROVE  ApprovalsInv'
    <3> DEFINE data == Charged(allowed[from], caller, amount)
    <3>1. /\ allowed' = [allowed EXCEPT ![from] = data]
          /\ caller \in DOMAIN allowed[from]
      BY <2>2 DEF TransferFrom
    <3>2. \/ DOMAIN data = DOMAIN allowed[from] \ {caller}
          \/ DOMAIN data = DOMAIN allowed[from]
      <4>1. allowed[from] \in Approvals /\ amount \in Int
        BY <2>0 DEF StorageTypes
      <4>2. allowed[from][caller] = amount => DOMAIN data = DOMAIN allowed[from] \ {caller}
        BY <3>1, <4>1, ChargedType, ZenonT(60)
      <4>3. allowed[from][caller] # amount
              => DOMAIN data = DOMAIN allowed[from] /\ data[caller] = allowed[from][caller] - amount
        BY <3>1, <4>1, ChargedType, ZenonT(60)
      <4>4. QED
        BY <4>2, <4>3
    <3>3. /\ IsFiniteSet(DOMAIN allowed[from])
          /\ Cardinality(DOMAIN allowed[from]) \in Nat
          /\ Cardinality(DOMAIN allowed[from]) <= MaxApprovals
      BY <1>2, FS_CardinalityType DEF ApprovalsInv
    <3>4. IsFiniteSet(DOMAIN data) /\ Cardinality(DOMAIN data) <= MaxApprovals
      <4> HIDE DEF data
      <4>1. CASE DOMAIN data = DOMAIN allowed[from]
        BY <3>3, <4>1
      <4>2. CASE DOMAIN data = DOMAIN allowed[from] \ {caller}
        <5>1. /\ IsFiniteSet(DOMAIN data)
              /\ Cardinality(DOMAIN data) = Cardinality(DOMAIN allowed[from]) - 1
          BY <3>1, <3>3, <4>2, FS_RemoveElement
        <5>2. QED
          BY <2>0, <3>3, <5>1
      <4>3. QED
        BY <3>2, <4>1, <4>2
    <3> HIDE DEF data
    <3>5. QED
      BY <1>2, <2>0, <3>1, <3>4 DEF ApprovalsInv, StorageTypes
  <2>3. CASE UNCHANGED allowed
    BY <1>2, <2>3 DEF ApprovalsInv
  <2>4. QED
    BY <1>2, <2>1, <2>2, <2>3 DEF Next, InitApi, InitToken, Transfer, vars
<1>3. TokenInv /\ ApprovalsInv /\ [Next]_vars => ApprovalsInv'
  BY <1>2
<1>4. ApprovalsInv => ApprovalsBounded
  BY DEF ApprovalsInv, ApprovalsBounded
<1>5. QED
  BY <1>1, <1>3, <1>4, TokenInvHolds, PTL DEF Spec

(* The ledger's view of the contract's storage.                            *)
Balances   == [u \in Users |-> BalanceOf(u)]
Allowances == [u \in Users |-> [s \in Users |-> Allowance(u, s)]]

(* A transfer in storage is a move in the ledger.                          *)
LEMMA MovedIsMove ==
  ASSUME StorageTypes, NEW from \in Users, NEW to \in Users, NEW amount \in Int,
         amount > 0, BalanceOf(from) >= amount, users' = Moved(from, to, amount)
  PROVE  Ledger!Move(from, to, amount)
<1>1. \A u \in Users : BalanceOf(u) \in Int
  BY DEF StorageTypes, BalanceOf, AsBalance
<1>2. \A u \in Users :
        BalanceOf(u)' = IF from = to THEN BalanceOf(u)
                        ELSE IF u = from THEN BalanceOf(from) - amount
                        ELSE IF u = to THEN BalanceOf(to) + amount
                        ELSE BalanceOf(u)
  BY MovedEntries DEF BalanceOf
<1>3. Balances' = IF from = to THEN Balances
                  ELSE [Balances EXCEPT ![from] = @ - amount, ![to] = @ + amount]
  BY <1>1, <1>2 DEF Balances
<1>4. QED
  BY <1>1, <1>3 DEF Ledger!Move, Balances

(* The balances of all users always add up to the supply that was issued.  *)
THEOREM TokenSupplyConserved == Spec => []SupplyConserved
<1>0. SupplyConserved <=> SumFunction(Balances) = supply
  BY DEF SupplyConserved, Balances
<1>1. Init => SupplyConserved
  <2> SUFFICES ASSUME Init PROVE SumFunction(Balances) = supply
    BY <1>0
  <2>1. Balances \in [Users -> Int] /\ (\A u \in Users : Balances[u] = 0) /\ supply = 0
    BY TokenAssumption DEF Init, Balances, BalanceOf, AsBalance
  <2>2. QED
    BY <2>1, TokenAssumption, BooksZero
<1>2. ASSUME TokenInv, SupplyConserved, [Next]_vars
      PROVE  SupplyConserved'
  <2>0. /\ StorageTypes /\ Amounts \subseteq Int /\ Null \notin Int
        /\ Balances \in [Users -> Int] /\ SumFunction(Balances) = supply
    BY <1>0, <1>2, TokenAssumption DEF TokenInv, StorageTypes, Balances, BalanceOf, AsBalance
  <2> SUFFICES SumFunction(Balances') = supply'
    BY DEF SupplyConserved, Balances
  <2>1. CASE UNCHANGED <<users, supply>>
    <3>1. Balances' = Balances
      BY <2>1 DEF Balances, BalanceOf
    <3>2. QED
      BY <2>0, <2>1, <3>1
  <2>2. ASSUME NEW caller \in Users, InitApi(caller)
        PROVE  UNCHANGED <<users, supply>>
    BY <1>2, <2>2 DEF InitApi, TokenInv, IssuedOnce
  <2>3. ASSUME NEW caller \in Users, NEW amount \in Amounts, InitToken(caller, amount)
        PROVE  SumFunction(Balances') = supply'
    <3>1. /\ amount \in Int /\ supply = 0 /\ supply' = amount
          /\ \A u \in Users : users[u] = Null
          /\ users' = [users EXCEPT ![caller] = amount]
      BY <1>2, <2>0, <2>3 DEF InitToken, TokenInv, IssuedOnce
    <3>2. Raised(Balances, Balances', caller, amount)
      BY <2>0, <3>1 DEF Balances, BalanceOf, AsBalance, StorageTypes, Raised
    <3>3. SumFunction(Balances') = SumFunction(Balances) + amount
      BY <2>0, <3>1, <3>2, TokenAssumption, BooksAdd
    <3>4. QED
      BY <2>0, <3>1, <3>3
  <2>4. ASSUME NEW from \in Users, NEW to \in Users, NEW amount \in Amounts, amount > 0,
               BalanceOf(from) >= amount, users' = Moved(from, to, amount), supply' = supply
        PROVE  SumFunction(Balances') = supply'
    <3>1. \A u \in Users :
            BalanceOf(u)' = IF from = to THEN BalanceOf(u)
                            ELSE IF u = from THEN BalanceOf(from) - amount
                            ELSE IF u = to THEN BalanceOf(to) + amount
                            ELSE BalanceOf(u)
      BY <2>0, <2>4, MovedEntries DEF BalanceOf
    <3>2. DOMAIN Balances' = Users /\ \A u \in Users : Balances'[u] = BalanceOf(u)'
      BY DEF Balances
    <3>3. \A u \in Users : Balances[u] = BalanceOf(u)
      BY DEF Balances
    <3>4. \A u \in Users :
            Balances'[u] = IF from = to THEN Balances[u]
                           ELSE IF u = from THEN Balances[u] - amount
                           ELSE IF u = to THEN Balances[u] + amount
                           ELSE Balances[u]
      BY <3>1, <3>2, <3>3
    <3>5. SumFunction(Balances') = SumFunction(Balances)
      <4> DEFINE f == Balances
                 h == Balances'
      <4>1. f \in [Users -> Int] /\ amount \in Int
        BY <2>0
      <4>2. Shifted(f, h, from, to, amount)
        BY <3>2, <3>4 DEF Shifted, Balances
      <4>3. IsFiniteSet(Users)
        BY TokenAssumption
      <4> HIDE DEF f, h
      <4>4. SumFunction(h) = SumFunction(f)
        BY <4>1, <4>2, <4>3, BooksMove
      <4>5. QED
        BY <4>4 DEF f, h
    <3>6. QED
      BY <2>0, <2>4, <3>5
  <2>5. QED
    BY <1>2, <2>1, <2>2, <2>3, <2>4 DEF Next, Transfer, Approve, TransferFrom, vars
<1>3. TokenInv /\ SupplyConserved /\ [Next]_vars => SupplyConserved'
  BY <1>2
<1>4. QED
  BY <1>1, <1>3, TokenInvHolds, PTL DEF Spec

(* Nothing useless is ever stored, and no owner's map outgrows the limit.  *)
THEOREM TokenBooksTidy == Spec => []BooksTidy
<1>1. NoEmptyEntries /\ ApprovalsBounded => BooksTidy
  BY DEF BooksTidy
<1>2. QED
  BY <1>1, TokenNoEmptyEntries, TokenApprovalsBounded, PTL

(* The contract implements the ledger: every call that returns is one step *)
(* of the ledger on the balances and allowances read from storage.         *)
THEOREM TokenKeepsLedger == Spec => KeepsLedger
<1>1. Init => Ledger!Init
  BY TokenAssumption DEF Init, Ledger!Init, BalanceOf, AsBalance, Allowance
<1>2. ASSUME TokenInv, [Next]_vars
      PROVE  [Ledger!Next]_(Ledger!vars)
  <2>0. StorageTypes /\ Amounts \subseteq Int /\ Null \notin Int
    BY <1>2, TokenAssumption DEF TokenInv
  <2>1. ASSUME NEW caller \in Users, InitApi(caller)
        PROVE  Ledger!Create(caller)
    BY <1>2, <2>1 DEF InitApi, TokenInv, IssuedOnce, Ledger!Create, BalanceOf, Allowance
  <2>2. ASSUME NEW caller \in Users, NEW amount \in Amounts, InitToken(caller, amount)
        PROVE  Ledger!Issue(caller, amount)
    <3>1. /\ supply = 0 /\ amount > 0 /\ supply' = amount /\ amount \in Int
          /\ users' = [users EXCEPT ![caller] = amount]
          /\ UNCHANGED allowed
      BY <1>2, <2>0, <2>2 DEF InitToken, TokenInv, IssuedOnce
    <3>2. \A u \in Users : BalanceOf(u) = 0
      BY <1>2, <2>0, <2>2 DEF InitToken, TokenInv, IssuedOnce, BalanceOf, AsBalance
    <3>3. \A u \in Users : BalanceOf(u)' = IF u = caller THEN amount ELSE 0
      BY <2>0, <3>1, <3>2 DEF BalanceOf, AsBalance, StorageTypes
    <3>4. Balances' = [Balances EXCEPT ![caller] = @ + amount]
      <4>1. Balances[caller] + amount = amount /\ \A u \in Users : Balances[u] = 0
        BY <3>1, <3>2 DEF Balances
      <4>2. \A u \in Users : Balances'[u] = IF u = caller THEN amount ELSE 0
        BY <3>3 DEF Balances
      <4>3. DOMAIN Balances = Users /\ DOMAIN Balances' = Users
        BY DEF Balances
      <4>4. QED
        BY <4>1, <4>2, <4>3 DEF Balances
    <3>5. UNCHANGED Allowances
      BY <3>1 DEF Allowances, Allowance
    <3>6. QED
      BY <2>2, <3>1, <3>4, <3>5 DEF InitToken, Ledger!Issue, Balances, Allowances
  <2>3. ASSUME NEW caller \in Users, NEW to \in Users, NEW amount \in Amounts,
               Transfer(caller, to, amount)
        PROVE  Ledger!Transfer(caller, to, amount)
    <3>1. Ledger!Move(caller, to, amount)
      BY <2>0, <2>3, MovedIsMove DEF Transfer
    <3>2. supply > 0 /\ UNCHANGED <<supply, allowed>>
      BY <1>2, <2>3 DEF Transfer, TokenInv, IssuedOnce
    <3>3. UNCHANGED Allowances
      BY <3>2 DEF Allowances, Allowance
    <3>4. QED
      BY <2>3, <3>1, <3>2, <3>3 DEF Transfer, Ledger!Transfer, Allowances
  <2>4. ASSUME NEW caller \in Users, NEW spender \in Users, NEW amount \in Amounts,
               Approve(caller, spender, amount)
        PROVE  Ledger!Approve(caller, spender, amount)
    <3>1. /\ supply > 0 /\ amount > 0 /\ UNCHANGED <<supply, users>>
          /\ allowed' = [allowed EXCEPT ![caller] = With(allowed[caller], spender, amount)]
      BY <1>2, <2>4 DEF Approve, TokenInv, IssuedOnce
    <3>2. UNCHANGED Balances
      BY <3>1 DEF Balances, BalanceOf
    <3>3. \A u, s \in Users :
            Allowance(u, s)' = IF u = caller /\ s = spender THEN amount ELSE Allowance(u, s)
      BY <2>0, <3>1 DEF Allowance, StorageTypes, With
    <3>4. Allowances' = [Allowances EXCEPT ![caller][spender] = amount]
      BY <3>3 DEF Allowances
    <3>5. QED
      BY <2>4, <3>1, <3>2, <3>4 DEF Approve, Ledger!Approve, Balances, Allowances
  <2>5. ASSUME NEW caller \in Users, NEW from \in Users, NEW to \in Users,
               NEW amount \in Amounts, TransferFrom(caller, from, to, amount)
        PROVE  Ledger!TransferFrom(caller, from, to, amount)
    <3>1. Ledger!Move(from, to, amount)
      BY <2>0, <2>5, MovedIsMove DEF TransferFrom
    <3>2. /\ supply > 0 /\ UNCHANGED supply
          /\ caller \in DOMAIN allowed[from] /\ amount <= allowed[from][caller]
          /\ allowed[from] \in Approvals /\ amount \in Int
          /\ allowed' = [allowed EXCEPT ![from] = Charged(allowed[from], caller, amount)]
      BY <1>2, <2>0, <2>5 DEF TransferFrom, TokenInv, IssuedOnce, StorageTypes, Approvals
    <3>3. allowed[from][caller] \in Int
      BY <3>2 DEF Approvals
    <3>4. Allowance(from, caller)' = Allowance(from, caller) - amount
      <4> DEFINE data == Charged(allowed[from], caller, amount)
      <4>1. allowed'[from] = data
        BY <2>0, <3>2 DEF StorageTypes
      <4>2. CASE allowed[from][caller] = amount
        <5>1. allowed[from][caller] = amount => DOMAIN data = DOMAIN allowed[from] \ {caller}
          BY <3>2, ChargedType, ZenonT(60)
        <5>2. caller \notin DOMAIN data
          BY <4>2, <5>1
        <5>3. Allowance(from, caller)' = 0 /\ Allowance(from, caller) = amount
          BY <3>2, <4>1, <4>2, <5>2 DEF Allowance
        <5>4. QED
          BY <3>2, <5>3
      <4>3. CASE allowed[from][caller] # amount
        <5>1. caller \in DOMAIN data /\ data[caller] = allowed[from][caller] - amount
          BY <3>2, <4>3, ChargedType, ZenonT(60)
        <5>2. QED
          BY <3>2, <4>1, <5>1 DEF Allowance
      <4>4. QED
        BY <4>2, <4>3
    <3>5. ASSUME NEW u \in Users, NEW s \in Users, u # from \/ s # caller
          PROVE  Allowance(u, s)' = Allowance(u, s)
      BY <2>0, <3>2, <3>5 DEF Allowance, StorageTypes, Charged, With, Restrict
    <3>6. Allowances' = [Allowances EXCEPT ![from][caller] = @ - amount]
      BY <3>4, <3>5 DEF Allowances
    <3>7. amount <= Allowance(from, caller)
      BY <3>2 DEF Allowance
    <3>8. QED
      BY <2>5, <3>1, <3>2, <3>6, <3>7 DEF TransferFrom, Ledger!TransferFrom, Allowances
  <2>6. CASE UNCHANGED vars
    BY <2>6 DEF vars, Ledger!vars, BalanceOf, Allowance
  <2>7. QED
    BY <1>2, <2>1, <2>2, <2>3, <2>4, <2>5, <2>6 DEF Next, Ledger!Next
<1>3. TokenInv /\ [Next]_vars => [Ledger!Next]_(Ledger!vars)
  BY <1>2
<1>4. QED
  BY <1>1, <1>3, TokenInvHolds, PTL DEF Spec, KeepsLedger, Ledger!Spec
================================================================================
