-------------------------------- MODULE Exchange --------------------------------
(***************************************************************************)
(* The native exchange contract (native_exchange_contract.cpp).  Users     *)
(* deposit assets, sign orders off chain, and a relayer submits matches: a *)
(* taker's fill and the makers' fills against it.                          *)
(*                                                                         *)
(* fillOrder checks and books the fills one after the other in the call's  *)
(* pending storage changes, which the later fills read; it returns, and    *)
(* the changes are written, only if every fill is accepted and the totals  *)
(* agree.  It is modelled fill by fill, with the pending changes in        *)
(* `pending'; nothing else runs during a call.                             *)
(***************************************************************************)
EXTENDS Integers, Sequences, FiniteSets, SequencesExt

CONSTANTS
    Users,          \* addresses
    Assets,         \* asset symbols
    Orders,         \* ids of the signed orders
    OrderOf,        \* the signed content of each order
    Matches,        \* the matches relayers submit: sequences of fills, taker first
    Deposits,       \* the deposits users make: [user, asset, amount]
    Withdrawals,    \* the withdrawals users ask for
    Creator,        \* address the contract is created by
    FeeReceivers,   \* the fee receivers the admin may name
    MinFees,        \* the minimal fees the admin may set: [asset, fee]
    FeeUnit,        \* denominator of an order's fee percentage
    Pow64,          \* number of values of int64_t (2^64 in the code)
    MaxNet,         \* bound: deposits less withdrawals of a user in one asset
    MaxNow,         \* bound: block time
    None            \* no value: null, no relayer, no pending call

OrderInfo ==
  [owner : Users, type : {"buy", "sell"}, purchaseAsset : Assets, purchaseNum : Int,
   payAsset : Assets, payNum : Int, fee : Nat, relayer : Users \cup {None}, expiredAt : Nat]

Fill == [order : Orders, getNum : Int, spentNum : Int]

ASSUME ExchangeAssumption ==
  /\ IsFiniteSet(Users) /\ IsFiniteSet(Orders)
  /\ OrderOf \in [Orders -> OrderInfo]
  /\ Matches \subseteq Seq(Fill)
  /\ FeeUnit \in Nat \ {0}
  /\ Pow64 \in Nat \ {0, 1}
  /\ Creator \in Users
  /\ FeeReceivers \subseteq Users
  /\ MinFees \subseteq [asset : Assets, fee : Nat]
  /\ Deposits \cup Withdrawals \subseteq [user : Users, asset : Assets, amount : Int]
  /\ MaxNow \in Nat
  /\ None \notin Int \cup Users

VARIABLES
    state,          \* "NOT_INITED" or "COMMON"
    admin,          \* creator of the contract
    feeReceiver,    \* receiver of the fees of orders without a relayer
    minFee,         \* minimal fee per asset
    bal,            \* fast map of the users' balances: integer or null
    info,           \* stored state of each order
    net,            \* what each user has deposited less what it withdrew
    reported,       \* orders named in a CancelOrders event
    now,            \* time of the latest block
    match,          \* the match being filled, <<>> when none
    pos,            \* index of its next fill
    pending         \* storage changes of that call: [bal, info]

config   == <<state, admin, feeReceiver, minFee>>
fillVars == <<match, pos, pending>>
vars     == <<config, bal, info, net, reported, now, fillVars>>

Untouched == [kind |-> "none", spent |-> 0, got |-> 0]
Canceled  == [kind |-> "canceled", spent |-> 0, got |-> 0]

(* int64_t arithmetic.                                                     *)
Half    == Pow64 \div 2
Wrap(n) == ((n + Half) % Pow64) - Half

AsBalance(value) == IF value = None THEN 0 ELSE value

Init ==
  /\ state = "NOT_INITED"
  /\ admin = Creator
  /\ feeReceiver = None
  /\ minFee   = [s \in Assets |-> 0]
  /\ bal      = [u \in Users |-> [s \in Assets |-> None]]
  /\ info     = [o \in Orders |-> Untouched]
  /\ net      = [u \in Users |-> [s \in Assets |-> 0]]
  /\ reported = {}
  /\ now      = 0
  /\ match    = <<>>
  /\ pos      = 1
  /\ pending  = None

Idle == match = <<>>

(* init_config: the admin names the fee receiver.                          *)
InitConfig(caller, receiver) ==
  /\ Idle
  /\ caller = admin
  /\ state = "NOT_INITED"
  /\ feeReceiver' = receiver
  /\ state' = "COMMON"
  /\ UNCHANGED <<admin, minFee, bal, info, net, reported, now, fillVars>>

SetMinFee(caller, asset, fee) ==
  /\ Idle
  /\ caller = admin
  /\ state = "COMMON"
  /\ minFee' = [minFee EXCEPT ![asset] = fee]
  /\ UNCHANGED <<state, admin, feeReceiver, bal, info, net, reported, now, fillVars>>

(* on_deposit_asset: the contract's own balance grows by the same amount.  *)
Deposit(user, asset, amount) ==
  /\ Idle
  /\ state = "COMMON"
  /\ amount > 0
  /\ net[user][asset] + amount <= MaxNet
  /\ bal' = [bal EXCEPT ![user][asset] = Wrap(AsBalance(@) + amount)]
  /\ net' = [net EXCEPT ![user][asset] = @ + amount]
  /\ UNCHANGED <<config, info, reported, now, fillVars>>

Withdraw(user, asset, amount) ==
  /\ Idle
  /\ state = "COMMON"
  /\ amount > 0
  /\ bal[user][asset] # None
  /\ amount <= bal[user][asset]
  /\ bal' = [bal EXCEPT ![user][asset] = IF @ = amount THEN None ELSE @ - amount]
  /\ net' = [net EXCEPT ![user][asset] = @ - amount]
  /\ UNCHANGED <<config, info, reported, now, fillVars>>

(* What cancelOrders stores for an order: the copy it marks as canceled is *)
(* dropped, and the stored map written back, when the order has a map.     *)
CanceledInfo(stored) == IF stored.kind = "none" THEN Canceled ELSE stored

(* cancelOrders skips the orders of others and those marked as canceled.   *)
CancelOrders(caller, orders) ==
  LET own == { o \in orders : OrderOf[o].owner = caller /\ info[o].kind # "canceled" } IN
  /\ Idle
  /\ state = "COMMON"
  /\ info' = [o \in Orders |-> IF o \in own THEN CanceledInfo(info[o]) ELSE info[o]]
  /\ reported' = reported \cup own
  /\ UNCHANGED <<config, bal, net, now, fillVars>>

(* A block is generated: get_chain_now moves on.                           *)
Tick ==
  /\ Idle
  /\ now < MaxNow
  /\ now' = now + 1
  /\ UNCHANGED <<config, bal, info, net, reported, fillVars>>

----------------------------------------------------------------------------
(* checkOrder, one fill against the pending storage.                       *)

(* The fee an order promises, and the one it pays: at least minFee.        *)
PromisedFee(f) == (f.spentNum * OrderOf[f.order].fee) \div FeeUnit
FeeOf(f) == LET least == minFee[OrderOf[f.order].payAsset] IN
            IF PromisedFee(f) < least THEN least ELSE PromisedFee(f)

FeeReceiverOf(o) == IF OrderOf[o].relayer = None THEN feeReceiver ELSE OrderOf[o].relayer

(* Variants that fail: what was spent before is forgotten; a canceled      *)
(* order may be filled.                                                    *)
MutRemaining(stored, o) == OrderOf[o].payNum
MutOpen(stored) == stored.kind \in {"none", "open", "canceled"}

(* What the owner is still willing to spend.                               *)
Remaining(stored, o) == OrderOf[o].payNum - stored.spent

Open(stored) == stored.kind \in {"none", "open"}

(* The fill gets at least what the order's price promises.                 *)
PriceKept(f) ==
  f.spentNum * OrderOf[f.order].purchaseNum <= f.getNum * OrderOf[f.order].payNum

(* The checks of checkOrder before it writes.                              *)
Accepts(p, f) ==
  LET o    == OrderOf[f.order]
      paid == p.bal[o.owner][o.payAsset]
  IN  /\ o.expiredAt > now
      /\ o.purchaseNum > 0 /\ o.payNum > 0 /\ f.getNum > 0 /\ f.spentNum > 0
      /\ f.spentNum <= o.payNum
      /\ PromisedFee(f) < minFee[o.payAsset] \/ PromisedFee(f) < f.spentNum
      /\ PriceKept(f)
      /\ paid # None
      /\ paid >= Wrap(f.spentNum + FeeOf(f))
      /\ Open(p.info[f.order])
      /\ Remaining(p.info[f.order], f.order) >= f.spentNum

(* A balance entry changed by delta, read from the pending storage.        *)
Moved(b, user, asset, delta) ==
  [b EXCEPT ![user][asset] = Wrap(AsBalance(@) + delta)]

(* Variant that fails: the fee receiver's balance is read before the       *)
(* owner's is written.                                                     *)
MutFilledBal(b, f) ==
  LET o    == OrderOf[f.order]
      r    == FeeReceiverOf(f.order)
      paid == Moved(b, o.owner, o.payAsset, - (f.spentNum + FeeOf(f)))
      got  == Moved(paid, o.owner, o.purchaseAsset, f.getNum)
  IN  [got EXCEPT ![r][o.payAsset] = Wrap(AsBalance(b[r][o.payAsset]) + FeeOf(f))]

(* The three balance writes of a fill, each reading the ones before it.    *)
FilledBal(b, f) ==
  LET o    == OrderOf[f.order]
      paid == Moved(b, o.owner, o.payAsset, - (f.spentNum + FeeOf(f)))
      got  == Moved(paid, o.owner, o.purchaseAsset, f.getNum)
  IN  IF FeeOf(f) > 0 THEN Moved(got, FeeReceiverOf(f.order), o.payAsset, FeeOf(f)) ELSE got

(* Variant that fails: only the amount spent is added up.                  *)
MutFilledInfo(i, f) ==
  [i EXCEPT ![f.order] = [kind  |-> "open",
                          spent |-> @.spent + f.spentNum,
                          got   |-> f.getNum]]

(* The stored order adds up its fills.                                     *)
FilledInfo(i, f) ==
  [i EXCEPT ![f.order] = [kind  |-> "open",
                          spent |-> @.spent + f.spentNum,
                          got   |-> Wrap(@.got + f.getNum)]]

----------------------------------------------------------------------------
(* fillOrder                                                               *)

(* The call's arguments are parsed; no fill is checked yet.                *)
StartFill(fills) ==
  /\ Idle
  /\ state = "COMMON"
  /\ match'   = fills
  /\ pos'     = 1
  /\ pending' = [bal |-> bal, info |-> info]
  /\ UNCHANGED <<config, bal, info, net, reported, now>>

(* A maker trades the taker's assets the other way round.                  *)
Opposite(taker, maker) ==
  /\ OrderOf[taker].purchaseAsset = OrderOf[maker].payAsset
  /\ OrderOf[taker].payAsset = OrderOf[maker].purchaseAsset
  /\ OrderOf[taker].type # OrderOf[maker].type

CheckOrder ==
  /\ pos <= Len(match)
  /\ LET f == match[pos] IN
       /\ Accepts(pending, f)
       /\ pos > 1 => Opposite(match[1].order, f.order)
       /\ pending' = [bal |-> FilledBal(pending.bal, f), info |-> FilledInfo(pending.info, f)]
  /\ pos' = pos + 1
  /\ UNCHANGED <<config, bal, info, net, reported, now, match>>

(* What the makers get is what the taker spends, and the other way round.  *)
TotalGot(fills)    == SumFunction([i \in 2 .. Len(fills) |-> fills[i].getNum])
TotalSpent(fills)  == SumFunction([i \in 2 .. Len(fills) |-> fills[i].spentNum])
TotalsAgree(fills) ==
  /\ Wrap(TotalGot(fills)) = fills[1].spentNum
  /\ Wrap(TotalSpent(fills)) = fills[1].getNum

EndFill ==
  /\ ~ Idle
  /\ pos > Len(match)
  /\ TotalsAgree(match)
  /\ bal'     = pending.bal
  /\ info'    = pending.info
  /\ match'   = <<>>
  /\ pos'     = 1
  /\ pending' = None
  /\ UNCHANGED <<config, net, reported, now>>

(* Any check of fillOrder throws: the pending changes are dropped.         *)
FillThrows ==
  /\ ~ Idle
  /\ IF pos <= Len(match)
       THEN \/ ~ Accepts(pending, match[pos])
            \/ pos > 1 /\ ~ Opposite(match[1].order, match[pos].order)
       ELSE ~ TotalsAgree(match)
  /\ match'   = <<>>
  /\ pos'     = 1
  /\ pending' = None
  /\ UNCHANGED <<config, bal, info, net, reported, now>>

Next ==
  \/ \E caller \in Users, receiver \in FeeReceivers : InitConfig(caller, receiver)
  \/ \E caller \in Users, m \in MinFees : SetMinFee(caller, m.asset, m.fee)
  \/ \E d \in Deposits : Deposit(d.user, d.asset, d.amount)
  \/ \E w \in Withdrawals : Withdraw(w.user, w.asset, w.amount)
  \/ \E caller \in Users, orders \in SUBSET Orders : CancelOrders(caller, orders)
  \/ Tick
  \/ \E fills \in Matches : StartFill(fills)
  \/ CheckOrder
  \/ EndFill
  \/ FillThrows

Spec == Init /\ [][Next]_vars

----------------------------------------------------------------------------
Balances == [Users -> [Assets -> Int \cup {None}]]
Stored   == [kind : {"none", "open", "canceled"}, spent : Int, got : Int]
Infos    == [Orders -> Stored]

(* Types of the contract's storage and of the pending call.                *)
TypeOK ==
  /\ state \in {"NOT_INITED", "COMMON"}
  /\ admin \in Users
  /\ feeReceiver \in Users \cup {None}
  /\ minFee \in [Assets -> Int]
  /\ bal \in Balances
  /\ info \in Infos
  /\ net \in [Users -> [Assets -> Int]]
  /\ reported \subseteq Orders
  /\ now \in Nat
  /\ match \in Seq(Fill)
  /\ pos \in Nat \ {0}
  /\ pending \in [bal : Balances, info : Infos] \cup {None}

(* The books add up to what the contract holds: whatever users, relayers   *)
(* and fee receivers coincide, a match moves money and makes none, and a   *)
(* match that fails halfway leaves no trace.                               *)
Solvency ==
  \A s \in Assets :
    SumFunction([u \in Users |-> AsBalance(bal[u][s])]) = SumFunction([u \in Users |-> net[u][s]])

(* No user's book goes below zero: the balance check covers spending and   *)
(* fee together.                                                           *)
NoOverdraft == \A u \in Users, s \in Assets : AsBalance(bal[u][s]) >= 0

(* Over all its partial fills, an order never spends more than its owner   *)
(* signed for and never gets less than the signed price for what it spent. *)
OrderLimits ==
  \A o \in Orders : info[o].kind = "open" =>
    /\ info[o].spent <= OrderOf[o].payNum
    /\ info[o].spent * OrderOf[o].purchaseNum <= info[o].got * OrderOf[o].payNum

(* Nobody pays what he does not have, or more than he signed for.          *)
SpendingCovered == NoOverdraft /\ OrderLimits

(* What the orders of a user got and spent in an asset.                    *)
Got(i, u, s)   == SumFunctionOnSet([o \in Orders |-> i[o].got],
                    { o \in Orders : OrderOf[o].owner = u /\ OrderOf[o].purchaseAsset = s })
Spent(i, u, s) == SumFunctionOnSet([o \in Orders |-> i[o].spent],
                    { o \in Orders : OrderOf[o].owner = u /\ OrderOf[o].payAsset = s })
Receivers      == {feeReceiver} \cup { OrderOf[o].relayer : o \in Orders }

(* Books b agree with the orders i: without fees, each user's book is what *)
(* it deposited and withdrew, plus what its orders got, less what they     *)
(* spent; fees only lower the book of a user that receives none.           *)
Reconciled(b, i) ==
  \A u \in Users, s \in Assets :
    LET traded == net[u][s] + Got(i, u, s) - Spent(i, u, s) IN
    /\ u \notin Receivers => AsBalance(b[u][s]) <= traded
    /\ u \in Receivers /\ (\A o \in Orders : OrderOf[o].owner # u)
         => AsBalance(b[u][s]) >= traded

(* Fills touch the books of the orders' owners only, and by what the       *)
(* orders record.                                                          *)
BooksReconcile == Reconciled(bal, info)

(* An order that was canceled before its first fill is never filled.       *)
CancelSticks ==
  [][\A o \in Orders : info[o].kind = "canceled" => info'[o] = info[o]]_vars
================================================================================
