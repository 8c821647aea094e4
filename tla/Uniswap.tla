-------------------------------- MODULE Uniswap --------------------------------
(***************************************************************************)
(* The native liquidity pool contract (native_uniswap_contract.cpp).  The  *)
(* class derives from token_native_contract: the shares of the pool are    *)
(* the balances of that token, which holders transfer and approve as in    *)
(* NativeToken.  Users deposit the two assets into books, add liquidity    *)
(* from the books and get shares for it, or exchange one asset for the     *)
(* other against the pool.  A call that throws changes nothing, so each    *)
(* action is a call that returns.                                          *)
(*                                                                         *)
(* The symbols of the two assets are abstracted to 1 and 2.  safe_number   *)
(* quotients keep Scale units after the point and are truncated; amounts   *)
(* are small enough to fit them and int64_t.                               *)
(***************************************************************************)
EXTENDS Integers, FiniteSets, Functions

CONSTANTS
    Users,          \* addresses
    Creator,        \* address the contract is created by
    Amounts,        \* liquidity tokens that holders transfer, approve and destroy
    AssetAmounts,   \* asset amounts in the arguments of calls
    Deposits,       \* the amounts users deposit or sell: [user, asset, amount]
    MinAmounts,     \* the pairs of minimal amounts an admin may set
    FeeRates,       \* the fee rates an admin may set, in units of 1 / Scale
    Expiries,       \* block numbers at which a call expires
    MaxApprovals,   \* entries allowed in one owner's map of allowances
    MaxAssetAmount, \* MAX_ASSET_AMOUNT (4 * 10^15 in the code)
    MintFactor,     \* tokens per unit of asset 1 in the first addition (1000)
    Scale,          \* units of a safe_number (10^16)
    MaxHeld,        \* bound: what chain, pool and a user's book may hold of an asset
    MaxSupply,      \* bound: liquidity tokens
    MaxHead,        \* bound: number of the head block
    Null            \* the CBOR null

Assets   == 1 .. 2
Other(s) == 3 - s

ASSUME UniswapAssumption ==
  /\ IsFiniteSet(Users)
  /\ Creator \in Users
  /\ Amounts \subseteq Int /\ AssetAmounts \subseteq Int
  /\ Deposits \subseteq [user : Users, asset : Assets, amount : Int]
  /\ MinAmounts \subseteq [Assets -> Int]
  /\ FeeRates \subseteq 0 .. (Scale - 1)
  /\ Expiries \subseteq Int
  /\ MaxApprovals \in Nat /\ MaxAssetAmount \in Nat /\ MaxHeld \in Nat
  /\ MaxSupply \in Nat /\ MaxHead \in Nat
  /\ MintFactor \in Nat \ {0} /\ Scale \in Nat \ {0}
  /\ Null \notin Int \cup Users

VARIABLES
    invoker, state, admin, supply, users, allowed,  \* as in NativeToken
    feeRate,    \* fee_rate
    minAdd,     \* min_asset1_amount and min_asset2_amount
    pool,       \* asset_1_pool_amount and asset_2_pool_amount
    bal,        \* the users' books: integer or null
    held,       \* balances of the contract's address on the chain
    head        \* head_block_num

tokenVars == <<invoker, state, admin, supply, users, allowed>>
swapVars  == <<feeRate, minAdd, pool, bal, held, head>>
vars      == <<tokenVars, swapVars>>

Token == INSTANCE NativeToken

Init ==
  /\ Token!Init
  /\ feeRate = 0
  /\ minAdd  = [s \in Assets |-> 0]
  /\ pool    = [s \in Assets |-> 0]
  /\ bal     = [u \in Users |-> [s \in Assets |-> Null]]
  /\ held    = [s \in Assets |-> 0]
  /\ head    = 0

(* init                                                                    *)
InitApi(caller) == Token!InitApi(caller) /\ UNCHANGED swapVars

(* init_config: the admin sets fee rate and minimal amounts.               *)
InitConfig(caller, rate, min) ==
  /\ invoker' = caller
  /\ caller = admin
  /\ state = "NOT_INITED"
  /\ \A s \in Assets : min[s] > 0
  /\ state'   = "COMMON"
  /\ feeRate' = rate
  /\ minAdd'  = min
  /\ UNCHANGED <<admin, supply, users, allowed, pool, bal, held, head>>

SetMinAddAmount(caller, min) ==
  /\ invoker' = caller
  /\ caller = admin
  /\ state = "COMMON"
  /\ \A s \in Assets : min[s] > 0
  /\ minAdd' = min
  /\ UNCHANGED <<state, admin, supply, users, allowed, feeRate, pool, bal, held, head>>

(* A block is generated.                                                   *)
Tick ==
  /\ head < MaxHead
  /\ head' = head + 1
  /\ UNCHANGED <<tokenVars, feeRate, minAdd, pool, bal, held>>

----------------------------------------------------------------------------
AsBalance(value) == Token!AsBalance(value)

(* A quotient and a product of safe_numbers, in units of 1 / Scale.        *)
Quotient(n, d) == (n * Scale) \div d
ToInt(q)       == q \div Scale

(* Variants that fail: what a depositor pays of asset 2 is rounded down;   *)
(* a removal is rounded up.                                                *)
MutAsset2For(x, most) == IF pool[1] = 0 \/ pool[2] = 0 THEN most ELSE ToInt(Quotient(x * pool[2], pool[1]))
MutReturned(tokens) == [s \in Assets |-> (tokens * pool[s] + supply - 1) \div supply]

(* What x of asset 1 costs in asset 2: the pool's price, rounded up; all   *)
(* of the most the caller gives when the pool is empty.                    *)
Asset2For(x, most) ==
  LET cost == Quotient(x * pool[2], pool[1]) IN
  IF pool[1] = 0 \/ pool[2] = 0 THEN most
  ELSE IF ToInt(cost) * Scale = cost THEN ToInt(cost) ELSE ToInt(cost) + 1

(* Liquidity tokens for x of asset 1.                                      *)
TokensFor(x) ==
  IF supply = 0 THEN x * MintFactor ELSE ToInt(Quotient(x * supply, pool[1]))

(* What destroying tokens gives back: all of the pool for all tokens, or   *)
(* the quota, truncated first and multiplied then.                         *)
Returned(tokens) ==
  IF tokens = supply THEN pool
  ELSE [s \in Assets |-> ToInt(Quotient(tokens, supply) * pool[s])]

(* Variant that fails: no minimal fee.                                     *)
MutFeeOf(amount) == (amount * feeRate + Scale - 1) \div Scale

(* The fee of an exchange: rounded up, at least 1.                         *)
FeeOf(amount) ==
  LET fee == (amount * feeRate + Scale - 1) \div Scale IN
  IF fee <= 0 THEN 1 ELSE fee

GetInputPrice(input, inputReserve, outputReserve) ==
  ToInt(Quotient(input * outputReserve, inputReserve + input))

(* Pools and supply are all empty or all not.                              *)
Unified(p, tokens) ==
  \/ p[1] = 0 /\ p[2] = 0 /\ tokens = 0
  \/ p[1] # 0 /\ p[2] # 0 /\ tokens # 0

WithTokens(user, delta) == [users EXCEPT ![user] = Token!BalanceOf(user) + delta]

----------------------------------------------------------------------------
(* on_deposit_asset without a parameter: the amount goes to the books.     *)
Deposit(caller, asset, amount) ==
  /\ invoker' = caller
  /\ state = "COMMON"
  /\ amount > 0
  /\ held[asset] + amount <= MaxHeld
  /\ AsBalance(bal[caller][asset]) + amount <= MaxHeld
  /\ bal'  = [bal EXCEPT ![caller][asset] = AsBalance(@) + amount]
  /\ held' = [held EXCEPT ![asset] = @ + amount]
  /\ UNCHANGED <<state, admin, supply, users, allowed, feeRate, minAdd, pool, head>>

(* on_deposit_asset with a parameter: the amount is sold for the other     *)
(* asset, at least `want' of it, which the contract pays out.              *)
Exchange(caller, asset, amount, want, expiry) ==
  LET get  == GetInputPrice(amount - FeeOf(amount), pool[asset], pool[Other(asset)])
      next == [pool EXCEPT ![asset] = @ + amount, ![Other(asset)] = @ - get]
  IN
  /\ invoker' = caller
  /\ state = "COMMON"
  /\ amount > 0 /\ want > 0
  /\ head < expiry
  /\ \A s \in Assets : pool[s] > 0
  /\ amount > FeeOf(amount)
  /\ want < pool[Other(asset)]
  /\ get > 0 /\ want <= get
  /\ \A s \in Assets : next[s] > 0
  /\ \A s \in Assets : next[s] <= MaxHeld
  /\ held[asset] + amount <= MaxHeld
  /\ get <= held[Other(asset)]
  /\ pool' = next
  /\ held' = [held EXCEPT ![asset] = @ + amount, ![Other(asset)] = @ - get]
  /\ UNCHANGED <<state, admin, supply, users, allowed, feeRate, minAdd, bal, head>>

(* addLiquidity: an emptied book stays in the map as 0.                    *)
AddLiquidity(caller, x, most, expiry) ==
  LET y      == Asset2For(x, most)
      tokens == TokensFor(x)
  IN
  /\ invoker' = caller
  /\ state = "COMMON"
  /\ x > 0 /\ most > 0
  /\ head < expiry
  /\ x >= minAdd[1] /\ most >= minAdd[2]
  /\ y <= most
  /\ \A s \in Assets : bal[caller][s] # Null
  /\ x <= bal[caller][1] /\ y <= bal[caller][2]
  /\ Unified(pool, supply)
  /\ tokens > 0
  /\ pool[1] + x <= MaxAssetAmount
  /\ pool[2] + y <= MaxHeld /\ supply + tokens <= MaxSupply
  /\ bal'    = [bal EXCEPT ![caller][1] = @ - x, ![caller][2] = @ - y]
  /\ pool'   = [pool EXCEPT ![1] = @ + x, ![2] = @ + y]
  /\ supply' = supply + tokens
  /\ users'  = WithTokens(caller, tokens)
  /\ UNCHANGED <<state, admin, allowed, feeRate, minAdd, held, head>>

(* Variant that fails: the book of asset 1 is overwritten.                 *)
MutBooksAfterRemoval(user, back) ==
  [bal EXCEPT ![user][1] = back[1],
              ![user][2] = (IF @ = Null THEN 0 ELSE bal[user][1]) + back[2]]

(* The books removeLiquidity writes: when the user has a book of asset 2,  *)
(* its new value starts from the balance of asset 1.                       *)
BooksAfterRemoval(user, back) ==
  [bal EXCEPT ![user][1] = AsBalance(@) + back[1],
              ![user][2] = (IF @ = Null THEN 0 ELSE bal[user][1]) + back[2]]

(* removeLiquidity: reading a null book of asset 1 as the balance of       *)
(* asset 2 throws.                                                         *)
RemoveLiquidity(caller, tokens, least, expiry) ==
  LET back == Returned(tokens)
      rest == [s \in Assets |-> pool[s] - back[s]]
  IN
  /\ invoker' = caller
  /\ state = "COMMON"
  /\ tokens > 0 /\ \A s \in Assets : least[s] >= 0
  /\ head < expiry
  /\ tokens <= Token!BalanceOf(caller)
  /\ supply > 0 /\ \A s \in Assets : pool[s] > 0
  /\ \A s \in Assets : least[s] <= pool[s] /\ least[s] <= back[s]
  /\ bal[caller][1] = Null => bal[caller][2] = Null
  /\ Unified(rest, supply - tokens)
  /\ bal'    = BooksAfterRemoval(caller, back)
  /\ bal'[caller][2] <= MaxHeld
  /\ pool'   = rest
  /\ supply' = supply - tokens
  /\ users'  = WithTokens(caller, - tokens)
  /\ UNCHANGED <<state, admin, allowed, feeRate, minAdd, held, head>>

(* withdraw: an emptied book is written as null.  The chain refuses a      *)
(* payment the contract's address does not cover.                          *)
Withdraw(caller, asset, amount) ==
  /\ invoker' = caller
  /\ state = "COMMON"
  /\ amount > 0
  /\ bal[caller][asset] # Null
  /\ amount <= bal[caller][asset]
  /\ amount <= held[asset]
  /\ bal'  = [bal EXCEPT ![caller][asset] = IF @ = amount THEN Null ELSE @ - amount]
  /\ held' = [held EXCEPT ![asset] = @ - amount]
  /\ UNCHANGED <<state, admin, supply, users, allowed, feeRate, minAdd, pool, head>>

(* The calls inherited from the token contract.                            *)
TokenCall ==
  /\ \E caller, user \in Users, amount \in Amounts :
       \/ Token!Transfer(caller, user, amount)
       \/ Token!Approve(caller, user, amount)
       \/ \E to \in Users : Token!TransferFrom(caller, user, to, amount)
  /\ UNCHANGED swapVars

Next ==
  \/ InitApi(Creator)
  \/ \E caller \in Users, rate \in FeeRates, min \in MinAmounts : InitConfig(caller, rate, min)
  \/ \E caller \in Users, min \in MinAmounts : SetMinAddAmount(caller, min)
  \/ Tick
  \/ TokenCall
  \/ \E d \in Deposits : Deposit(d.user, d.asset, d.amount)
  \/ \E d \in Deposits, want \in AssetAmounts, expiry \in Expiries :
       Exchange(d.user, d.asset, d.amount, want, expiry)
  \/ \E caller \in Users, x, most \in AssetAmounts, expiry \in Expiries :
       AddLiquidity(caller, x, most, expiry)
  \/ \E caller \in Users, tokens \in Amounts, least \in [Assets -> AssetAmounts],
        expiry \in Expiries : RemoveLiquidity(caller, tokens, least, expiry)
  \/ \E caller \in Users, s \in Assets, amount \in AssetAmounts : Withdraw(caller, s, amount)

Spec == Init /\ [][Next]_vars

----------------------------------------------------------------------------
(* Types of the contract's storage and of what it holds.                   *)
TypeOK ==
  /\ Token!TypeOK
  /\ feeRate \in 0 .. (Scale - 1)
  /\ minAdd \in [Assets -> Int]
  /\ pool \in [Assets -> Nat]
  /\ bal \in [Users -> [Assets -> Int \cup {Null}]]
  /\ held \in [Assets -> Int]
  /\ head \in 0 .. MaxHead

(* The liquidity tokens users hold add up to the supply, whatever order    *)
(* minting, destroying and transfers of tokens come in.                    *)
SupplyConserved == SumFunction([u \in Users |-> Token!BalanceOf(u)]) = supply

(* The pool is never half empty, and no removal of liquidity can make it   *)
(* so: "internal error, pool 0 when supply is not 0" is never thrown.      *)
PoolUnified ==
  /\ Unified(pool, supply)
  /\ \A tokens \in 1 .. supply, s \in Assets :
       tokens < supply => Returned(tokens)[s] < pool[s]

(* No call lowers what a liquidity token stands for: the geometric mean of *)
(* the pools per token, through every rounding of additions, removals and  *)
(* exchanges.                                                              *)
ShareValueKept ==
  [][supply > 0 /\ supply' > 0
       => pool[1] * pool[2] * supply' * supply' <= pool'[1] * pool'[2] * supply * supply]_vars

(* An exchange always leaves the pool richer, at fee rate 0 too.           *)
ExchangePays ==
  [][supply > 0 /\ supply' = supply /\ pool' # pool
       => pool[1] * pool[2] < pool'[1] * pool'[2]]_vars

(* What the contract holds of an asset is the pool and the users' books.   *)
Book(s) == [u \in Users |-> AsBalance(bal[u][s])]

Accounted(s) == held[s] = pool[s] + SumFunction(Book(s))

(* Asset 1 is accounted for to the last unit.                              *)
Asset1Accounted == Accounted(1)

(* Shares and money are both accounted for.                                *)
BooksAddUp == SupplyConserved /\ Asset1Accounted
================================================================================
