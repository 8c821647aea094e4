----------------------------- MODULE ExchangeProofs -----------------------------
(***************************************************************************)
(* Proofs about the native exchange contract: typing, canceled orders, and *)
(* the money.                                                              *)
(*                                                                         *)
(* The contract adds int64_t values without a look at their range, and an  *)
(* addition that overflows is undefined behaviour.  The theorems about     *)
(* money are about the runs in which none does (NoOverflow).               *)
(* ExchangeNoOverflow shows that amounts small against 2^63 are enough.    *)
(***************************************************************************)
EXTENDS Exchange, Sums

(* int64_t arithmetic and balances stay integers.                          *)
LEMMA WrapType == \A n \in Int : Wrap(n) \in Int
<1>1. Pow64 \in Nat \ {0, 1}
  BY ExchangeAssumption
<1>2. Half \in Int
  BY <1>1 DEF Half
<1>3. \A k \in Int : k % Pow64 \in Int
  BY <1>1
<1>4. QED
  BY <1>2, <1>3 DEF Wrap

LEMMA MovedType ==
  ASSUME NEW b \in Balances, NEW u, NEW s, NEW delta \in Int
  PROVE  Moved(b, u, s, delta) \in Balances
<1>1. CASE u \in Users /\ s \in Assets
  <2>1. b[u][s] \in Int \cup {None}
    BY <1>1 DEF Balances
  <2>2. AsBalance(b[u][s]) \in Int
    BY <2>1 DEF AsBalance
  <2>3. Wrap(AsBalance(b[u][s]) + delta) \in Int
    BY <2>2, WrapType
  <2>4. QED
    BY <1>1, <2>3 DEF Moved, Balances
<1>2. CASE u \notin Users \/ s \notin Assets
  BY <1>2 DEF Moved, Balances
<1>3. QED
  BY <1>1, <1>2

LEMMA FeeType ==
  ASSUME NEW f \in Fill, minFee \in [Assets -> Int]
  PROVE  FeeOf(f) \in Int
<1>1. OrderOf[f.order] \in OrderInfo /\ f.spentNum \in Int
  BY ExchangeAssumption DEF Fill
<1>2. f.spentNum * OrderOf[f.order].fee \in Int
  BY <1>1 DEF OrderInfo
<1>3. FeeUnit \in Nat \ {0}
  BY ExchangeAssumption
<1>4. PromisedFee(f) \in Int
  BY <1>2, <1>3 DEF PromisedFee
<1>5. minFee[OrderOf[f.order].payAsset] \in Int
  BY <1>1 DEF OrderInfo
<1>6. QED
  BY <1>4, <1>5 DEF FeeOf

LEMMA FilledBalType ==
  ASSUME NEW b \in Balances, NEW f \in Fill, minFee \in [Assets -> Int]
  PROVE  FilledBal(b, f) \in Balances
<1> DEFINE o    == OrderOf[f.order]
           paid == Moved(b, o.owner, o.payAsset, - (f.spentNum + FeeOf(f)))
           got  == Moved(paid, o.owner, o.purchaseAsset, f.getNum)
<1>1. f.spentNum \in Int /\ f.getNum \in Int /\ FeeOf(f) \in Int
  BY FeeType DEF Fill
<1>2. - (f.spentNum + FeeOf(f)) \in Int
  BY <1>1
<1>3. paid \in Balances
  BY <1>2, MovedType
<1>4. got \in Balances
  <2> HIDE DEF paid
  <2> QED
    BY <1>1, <1>3, MovedType
<1>5. Moved(got, FeeReceiverOf(f.order), o.payAsset, FeeOf(f)) \in Balances
  <2> HIDE DEF got
  <2> QED
    BY <1>1, <1>4, MovedType
<1>6. QED
  BY <1>4, <1>5 DEF FilledBal

LEMMA FilledInfoType ==
  ASSUME NEW i \in Infos, NEW f \in Fill
  PROVE  /\ FilledInfo(i, f) \in Infos
         /\ \A o \in Orders : o # f.order => FilledInfo(i, f)[o] = i[o]
         /\ FilledInfo(i, f)[f.order] =
              [kind |-> "open", spent |-> i[f.order].spent + f.spentNum,
               got |-> Wrap(i[f.order].got + f.getNum)]
<1>1. f.order \in Orders /\ f.spentNum \in Int /\ f.getNum \in Int
  BY DEF Fill
<1>2. i[f.order] \in Stored
  BY <1>1 DEF Infos
<1>3. [kind |-> "open", spent |-> i[f.order].spent + f.spentNum,
       got |-> Wrap(i[f.order].got + f.getNum)] \in Stored
  BY <1>1, <1>2, WrapType DEF Stored
<1>4. QED
  BY <1>1, <1>3 DEF FilledInfo, Infos

----------------------------------------------------------------------------
(* An order that has no fill yet has spent and got nothing.                *)
NothingUnfilled(i) ==
  \A o \in Orders : i[o].kind = "none" => i[o].spent = 0 /\ i[o].got = 0

(* A pending call starts from the stored orders and leaves the canceled    *)
(* ones alone.                                                             *)
PendingKeepsCanceled ==
  \A o \in Orders : info[o].kind = "canceled" => pending.info[o] = info[o]

ExchangeInv ==
  /\ TypeOK
  /\ NothingUnfilled(info)
  /\ ~ Idle => /\ pending \in [bal : Balances, info : Infos]
               /\ NothingUnfilled(pending.info)
               /\ PendingKeepsCanceled

(* An accepted fill leaves an order that is open, which no order without a *)
(* fill and no canceled one is.                                            *)
LEMMA FillOpens ==
  ASSUME NEW p \in [bal : Balances, info : Infos], NEW f \in Fill, Accepts(p, f),
         NothingUnfilled(p.info)
  PROVE  /\ NothingUnfilled(FilledInfo(p.info, f))
         /\ p.info[f.order].kind # "canceled"
<1>1. /\ \A x \in Orders : x # f.order => FilledInfo(p.info, f)[x] = p.info[x]
      /\ FilledInfo(p.info, f)[f.order].kind = "open"
  <2>1. p.info \in Infos
    OBVIOUS
  <2>2. /\ \A x \in Orders : x # f.order => FilledInfo(p.info, f)[x] = p.info[x]
        /\ FilledInfo(p.info, f)[f.order] =
             [kind |-> "open", spent |-> p.info[f.order].spent + f.spentNum,
              got |-> Wrap(p.info[f.order].got + f.getNum)]
    BY <2>1, FilledInfoType, Zenon
  <2>3. QED
    BY <2>2
<1>2. NothingUnfilled(FilledInfo(p.info, f))
  BY <1>1 DEF NothingUnfilled
<1>3. QED
  BY <1>2 DEF Accepts, Open

LEMMA ExchangeInvInit ==
  ASSUME Init
  PROVE  ExchangeInv
<1>1. TypeOK
  BY ExchangeAssumption DEF Init, TypeOK, Balances, Infos, Stored, Untouched
<1>2. NothingUnfilled(info) /\ Idle
  BY DEF Init, NothingUnfilled, Untouched, Idle
<1>3. QED
  BY <1>1, <1>2 DEF ExchangeInv

(* Between calls only cancelOrders touches the stored orders.              *)
LEMMA IdleSteps ==
  ASSUME ExchangeInv, Idle, TypeOK', Idle',
         info' = info
  PROVE  ExchangeInv'
BY DEF ExchangeInv, NothingUnfilled, Idle

LEMMA InitConfigKeeps ==
  ASSUME ExchangeInv, NEW caller \in Users, NEW receiver \in FeeReceivers,
         InitConfig(caller, receiver)
  PROVE  ExchangeInv'
<1>1. TypeOK'
  BY ExchangeAssumption DEF ExchangeInv, InitConfig, TypeOK, fillVars
<1>2. QED
  BY <1>1, IdleSteps DEF InitConfig, fillVars, Idle

LEMMA SetMinFeeKeeps ==
  ASSUME ExchangeInv, NEW caller \in Users, NEW m \in MinFees,
         SetMinFee(caller, m.asset, m.fee)
  PROVE  ExchangeInv'
<1>1. m.asset \in Assets /\ m.fee \in Int
  BY ExchangeAssumption
<1>2. TypeOK'
  BY <1>1 DEF ExchangeInv, SetMinFee, TypeOK, fillVars
<1>3. QED
  BY <1>2, IdleSteps DEF SetMinFee, fillVars, Idle

LEMMA DepositKeeps ==
  ASSUME ExchangeInv, NEW d \in Deposits, Deposit(d.user, d.asset, d.amount)
  PROVE  ExchangeInv'
<1>1. d.user \in Users /\ d.asset \in Assets /\ d.amount \in Int
  BY ExchangeAssumption
<1>2. bal' \in Balances
  <2>1. bal' = Moved(bal, d.user, d.asset, d.amount)
    BY DEF Deposit, Moved
  <2>2. QED
    BY <1>1, <2>1, MovedType DEF ExchangeInv, TypeOK
<1>3. net' \in [Users -> [Assets -> Int]]
  BY <1>1, SMTT(60) DEF Deposit, ExchangeInv, TypeOK
<1>4. TypeOK'
  BY <1>2, <1>3 DEF ExchangeInv, Deposit, TypeOK, config, fillVars
<1>5. QED
  BY <1>4, IdleSteps DEF Deposit, fillVars, Idle

LEMMA WithdrawKeeps ==
  ASSUME ExchangeInv, NEW w \in Withdrawals, Withdraw(w.user, w.asset, w.amount)
  PROVE  ExchangeInv'
<1>1. w.user \in Users /\ w.asset \in Assets /\ w.amount \in Int
  BY ExchangeAssumption
<1>2. bal' \in Balances
  <2>1. bal[w.user][w.asset] \in Int
    BY <1>1 DEF ExchangeInv, TypeOK, Balances, Withdraw
  <2>2. QED
    BY <1>1, <2>1 DEF ExchangeInv, TypeOK, Balances, Withdraw
<1>3. net' \in [Users -> [Assets -> Int]]
  BY <1>1 DEF Withdraw, ExchangeInv, TypeOK
<1>4. TypeOK'
  BY <1>2, <1>3 DEF ExchangeInv, Withdraw, TypeOK, config, fillVars
<1>5. QED
  BY <1>4, IdleSteps DEF Withdraw, fillVars, Idle

LEMMA CancelOrdersKeeps ==
  ASSUME ExchangeInv, NEW caller \in Users, NEW orders \in SUBSET Orders,
         CancelOrders(caller, orders)
  PROVE  ExchangeInv'
<1>1. \A o \in Orders : info'[o] = info[o] \/ info'[o] = Canceled
  BY DEF CancelOrders, CanceledInfo
<1>2. Canceled \in Stored /\ Canceled.kind = "canceled"
  BY DEF Canceled, Stored
<1>3. info' \in Infos
  <2>1. \A o \in Orders : info'[o] \in Stored
    BY <1>1, <1>2 DEF ExchangeInv, TypeOK, Infos
  <2>2. info' = [o \in Orders |-> info'[o]]
    BY DEF CancelOrders
  <2>3. QED
    BY <2>1, <2>2 DEF Infos
<1>4. TypeOK'
  BY <1>3 DEF ExchangeInv, CancelOrders, TypeOK, config, fillVars
<1>5. NothingUnfilled(info)'
  BY <1>1, <1>2 DEF ExchangeInv, NothingUnfilled
<1>6. QED
  BY <1>4, <1>5 DEF ExchangeInv, CancelOrders, fillVars, Idle

LEMMA StartFillKeeps ==
  ASSUME ExchangeInv, NEW fills \in Matches, StartFill(fills)
  PROVE  ExchangeInv'
<1>1. fills \in Seq(Fill)
  BY ExchangeAssumption
<1>2. pending' \in [bal : Balances, info : Infos] /\ pending'.info = info
  BY DEF StartFill, ExchangeInv, TypeOK
<1>3. TypeOK'
  BY <1>1, <1>2 DEF ExchangeInv, StartFill, TypeOK, config
<1>4. NothingUnfilled(pending'.info)
  BY <1>2 DEF ExchangeInv
<1>5. NothingUnfilled(info)'
  BY DEF ExchangeInv, StartFill, NothingUnfilled
<1>6. PendingKeepsCanceled'
  BY <1>2 DEF PendingKeepsCanceled, StartFill
<1>7. NothingUnfilled(pending.info)'
  BY <1>4 DEF NothingUnfilled
<1>8. QED
  BY <1>2, <1>3, <1>5, <1>6, <1>7 DEF ExchangeInv

LEMMA CheckOrderKeeps ==
  ASSUME ExchangeInv, CheckOrder
  PROVE  ExchangeInv'
<1> DEFINE f == match[pos]
<1>1. f \in Fill /\ ~ Idle
  BY DEF CheckOrder, ExchangeInv, TypeOK, Idle
<1>2. /\ pending \in [bal : Balances, info : Infos] /\ minFee \in [Assets -> Int]
      /\ NothingUnfilled(pending.info)
      /\ PendingKeepsCanceled /\ Accepts(pending, f)
      /\ pending' = [bal |-> FilledBal(pending.bal, f), info |-> FilledInfo(pending.info, f)]
      /\ UNCHANGED <<config, bal, info, net, reported, now, match>> /\ pos' = pos + 1
  BY <1>1 DEF CheckOrder, ExchangeInv, TypeOK
<1> HIDE DEF f
<1>3. pending.bal \in Balances /\ pending.info \in Infos
  BY <1>2
<1>4. FilledBal(pending.bal, f) \in Balances
  BY <1>1, <1>2, <1>3, FilledBalType
<1>5. FilledInfo(pending.info, f) \in Infos
  BY <1>1, <1>3, FilledInfoType
<1>6. pending' \in [bal : Balances, info : Infos] /\ pending'.info = FilledInfo(pending.info, f)
  BY <1>2, <1>4, <1>5
<1>7. TypeOK'
  BY <1>2, <1>6 DEF ExchangeInv, TypeOK, config
<1>8. /\ NothingUnfilled(FilledInfo(pending.info, f))
      /\ pending.info[f.order].kind # "canceled"
  BY <1>1, <1>2, FillOpens
<1>9. NothingUnfilled(pending.info)'
  BY <1>6, <1>8 DEF NothingUnfilled
<1>10. NothingUnfilled(info)'
  BY <1>2 DEF ExchangeInv, NothingUnfilled
<1>11. PendingKeepsCanceled'
  <2>1. \A o \in Orders : o # f.order => pending'.info[o] = pending.info[o]
    <3>1. \A o \in Orders : o # f.order => FilledInfo(pending.info, f)[o] = pending.info[o]
      BY <1>1, <1>3, FilledInfoType, Zenon
    <3>2. QED
      BY <1>6, <3>1
  <2>2. QED
    BY <1>2, <1>8, <2>1 DEF PendingKeepsCanceled
<1>12. QED
  BY <1>6, <1>7, <1>9, <1>10, <1>11 DEF ExchangeInv

LEMMA EndFillKeeps ==
  ASSUME ExchangeInv, EndFill
  PROVE  /\ ExchangeInv'
         /\ \A o \in Orders : info[o].kind = "canceled" => info'[o] = info[o]
<1>1. /\ pending \in [bal : Balances, info : Infos]
      /\ NothingUnfilled(pending.info)
      /\ PendingKeepsCanceled
  BY DEF EndFill, ExchangeInv
<1>2. TypeOK' /\ Idle'
  BY <1>1 DEF ExchangeInv, TypeOK, EndFill, config, Idle
<1>3. NothingUnfilled(info)'
  BY <1>1 DEF EndFill, NothingUnfilled
<1>4. QED
  BY <1>1, <1>2, <1>3 DEF ExchangeInv, EndFill, PendingKeepsCanceled

LEMMA ExchangeInvInductive ==
  ASSUME ExchangeInv, [Next]_vars
  PROVE  ExchangeInv'
<1>1. ASSUME NEW caller \in Users, NEW receiver \in FeeReceivers, InitConfig(caller, receiver)
      PROVE  ExchangeInv'
  BY <1>1, InitConfigKeeps
<1>2. ASSUME NEW caller \in Users, NEW m \in MinFees, SetMinFee(caller, m.asset, m.fee)
      PROVE  ExchangeInv'
  BY <1>2, SetMinFeeKeeps
<1>3. ASSUME NEW d \in Deposits, Deposit(d.user, d.asset, d.amount)
      PROVE  ExchangeInv'
  BY <1>3, DepositKeeps
<1>4. ASSUME NEW w \in Withdrawals, Withdraw(w.user, w.asset, w.amount)
      PROVE  ExchangeInv'
  BY <1>4, WithdrawKeeps
<1>5. ASSUME NEW caller \in Users, NEW orders \in SUBSET Orders, CancelOrders(caller, orders)
      PROVE  ExchangeInv'
  BY <1>5, CancelOrdersKeeps
<1>6. ASSUME Tick
      PROVE  ExchangeInv'
  <2>1. TypeOK'
    BY <1>6 DEF ExchangeInv, TypeOK, Tick, config, fillVars
  <2>2. QED
    BY <1>6, <2>1, IdleSteps DEF Tick, fillVars, Idle
<1>7. ASSUME NEW fills \in Matches, StartFill(fills)
      PROVE  ExchangeInv'
  BY <1>7, StartFillKeeps
<1>8. CASE CheckOrder
  BY <1>8, CheckOrderKeeps
<1>9. CASE EndFill
  BY <1>9, EndFillKeeps
<1>10. CASE FillThrows
  <2>1. TypeOK' /\ Idle' /\ info' = info
    BY <1>10 DEF ExchangeInv, TypeOK, FillThrows, config, Idle
  <2>2. QED
    BY <2>1 DEF ExchangeInv, NothingUnfilled
<1>11. CASE UNCHANGED vars
  <2>1. UNCHANGED <<state, admin, feeReceiver, minFee, bal, info, net, reported, now,
                    match, pos, pending>>
    BY <1>11 DEF vars, config, fillVars
  <2>2. TypeOK'
    BY <2>1 DEF ExchangeInv, TypeOK
  <2>3. QED
    BY <2>1, <2>2 DEF ExchangeInv, NothingUnfilled, PendingKeepsCanceled, Idle
<1>12. QED
  BY <1>1, <1>2, <1>3, <1>4, <1>5, <1>6, <1>7, <1>8, <1>9, <1>10, <1>11 DEF Next

LEMMA ExchangeInvHolds == Spec => []ExchangeInv
<1>1. ExchangeInv /\ [Next]_vars => ExchangeInv'
  BY ExchangeInvInductive
<1>2. QED
  BY <1>1, ExchangeInvInit, PTL DEF Spec

(* The contract's storage and the pending call are well typed for any      *)
(* users, orders and matches.                                              *)
THEOREM ExchangeTyping == Spec => []TypeOK
<1>1. ExchangeInv => TypeOK
  BY DEF ExchangeInv
<1>2. QED
  BY <1>1, ExchangeInvHolds, PTL

(* An order that is marked as canceled is never filled, by no match that   *)
(* began before or after.                                                  *)
THEOREM ExchangeCancelSticks == Spec => CancelSticks
<1>1. ASSUME ExchangeInv, [Next]_vars
      PROVE  [\A o \in Orders : info[o].kind = "canceled" => info'[o] = info[o]]_vars
  <2>1. CASE EndFill
    BY <1>1, <2>1, EndFillKeeps
  <2>2. ASSUME NEW caller \in Users, NEW orders \in SUBSET Orders, CancelOrders(caller, orders)
        PROVE  \A o \in Orders : info[o].kind = "canceled" => info'[o] = info[o]
    BY <2>2 DEF CancelOrders
  <2>3. CASE UNCHANGED info
    BY <2>3
  <2>4. CASE UNCHANGED vars
    BY <2>4
  <2>5. QED
    BY <1>1, <2>1, <2>2, <2>3, <2>4 DEF Next, InitConfig, SetMinFee, Deposit, Withdraw, Tick,
       StartFill, CheckOrder, FillThrows
<1>2. ExchangeInv /\ [Next]_vars
        => [\A o \in Orders : info[o].kind = "canceled" => info'[o] = info[o]]_vars
  BY <1>1
<1>3. QED
  BY <1>2, ExchangeInvHolds, PTL DEF Spec, CancelSticks

----------------------------------------------------------------------------
(* Runs without overflow.                                                  *)

(* The values of int64_t.                                                  *)
Fits(n) == - Half <= n /\ n < Half

(* No addition of checkOrder overflows for the fill f: the amount to pay   *)
(* with its fee, the two credits, and what the order got so far.           *)
FillFits(p, f) ==
  LET o    == OrderOf[f.order]
      paid == Moved(p.bal, o.owner, o.payAsset, - (f.spentNum + FeeOf(f)))
      got  == Moved(paid, o.owner, o.purchaseAsset, f.getNum)
  IN  /\ Fits(f.spentNum + FeeOf(f))
      /\ Fits(AsBalance(paid[o.owner][o.purchaseAsset]) + f.getNum)
      /\ Fits(AsBalance(got[FeeReceiverOf(f.order)][o.payAsset]) + FeeOf(f))
      /\ Fits(p.info[f.order].got + f.getNum)

StepFits ==
  /\ \A d \in Deposits : Deposit(d.user, d.asset, d.amount) =>
       Fits(AsBalance(bal[d.user][d.asset]) + d.amount)
  /\ CheckOrder => FillFits(pending, match[pos])
  /\ EndFill => Fits(TotalGot(match)) /\ Fits(TotalSpent(match))

NoOverflow == [][StepFits]_vars

----------------------------------------------------------------------------
(* Arithmetic that does not overflow is exact.                             *)
LEMMA HalfPositive == Half \in Nat /\ Half > 0 /\ Half + Half <= Pow64
<1>1. Pow64 \in Nat \ {0, 1}
  BY ExchangeAssumption
<1>2. QED
  BY <1>1 DEF Half

LEMMA WrapFits == \A n \in Int : Fits(n) => Wrap(n) = n
<1>1. Pow64 \in Nat \ {0}
  BY ExchangeAssumption
<1>2. \A m, k \in Int : k > 0 /\ 0 <= m /\ m < k => m % k = m
  OBVIOUS
<1>3. QED
  BY <1>1, <1>2, HalfPositive DEF Fits, Wrap

(* Books c are the books b with one entry changed by d.                    *)
Changed(b, c, u, a, d) ==
  \A v \in Users, s \in Assets :
    AsBalance(c[v][s]) = AsBalance(b[v][s]) + (IF v = u /\ s = a THEN d ELSE 0)

LEMMA BookType ==
  ASSUME NEW b \in Balances, NEW u \in Users, NEW s \in Assets
  PROVE  AsBalance(b[u][s]) \in Int
BY DEF Balances, AsBalance

LEMMA MovedChanges ==
  ASSUME NEW b \in Balances, NEW u \in Users, NEW a \in Assets, NEW d \in Int,
         Fits(AsBalance(b[u][a]) + d)
  PROVE  Moved(b, u, a, d) \in Balances /\ Changed(b, Moved(b, u, a, d), u, a, d)
<1>1. AsBalance(b[u][a]) \in Int
  BY BookType
<1>2. Wrap(AsBalance(b[u][a]) + d) = AsBalance(b[u][a]) + d
  BY <1>1, WrapFits
<1>3. Moved(b, u, a, d) = [b EXCEPT ![u][a] = AsBalance(b[u][a]) + d]
  BY <1>2 DEF Moved
<1>4. AsBalance(AsBalance(b[u][a]) + d) = AsBalance(b[u][a]) + d
  BY <1>1, ExchangeAssumption DEF AsBalance
<1>5. ASSUME NEW v \in Users, NEW s \in Assets
      PROVE  AsBalance(Moved(b, u, a, d)[v][s])
               = AsBalance(b[v][s]) + (IF v = u /\ s = a THEN d ELSE 0)
  <2>1. AsBalance(b[v][s]) \in Int
    BY BookType
  <2>2. CASE v = u /\ s = a
    <3>1. Moved(b, u, a, d)[v][s] = AsBalance(b[u][a]) + d
      BY <1>3, <2>2 DEF Balances
    <3>2. QED
      BY <1>4, <2>2, <3>1
  <2>3. CASE ~ (v = u /\ s = a)
    <3>1. Moved(b, u, a, d)[v][s] = b[v][s]
      BY <1>3, <2>3 DEF Balances
    <3>2. QED
      BY <2>1, <2>3, <3>1
  <2>4. QED
    BY <2>2, <2>3
<1>6. QED
  BY <1>5, MovedType DEF Changed

(* What the users' books in an asset add up to.                            *)
Line(b, s) == [u \in Users |-> AsBalance(b[u][s])]
Booked(b, s) == SumFunction(Line(b, s))
Held(s) == SumFunction([u \in Users |-> net[u][s]])

LEMMA BookedType ==
  ASSUME NEW b \in Balances, NEW s \in Assets
  PROVE  Line(b, s) \in [Users -> Int] /\ Booked(b, s) \in Int
<1>1. Line(b, s) \in [Users -> Int]
  BY BookType DEF Line
<1>2. QED
  BY <1>1, BooksType, ExchangeAssumption DEF Booked

LEMMA ChangedBooked ==
  ASSUME NEW b \in Balances, NEW c \in Balances, NEW u \in Users, NEW a \in Assets,
         NEW d \in Int, Changed(b, c, u, a, d), NEW s \in Assets
  PROVE  Booked(c, s) = Booked(b, s) + (IF s = a THEN d ELSE 0)
<1> DEFINE e == IF s = a THEN d ELSE 0
<1>1. Line(b, s) \in [Users -> Int] /\ e \in Int
  BY BookedType
<1>2. Raised(Line(b, s), Line(c, s), u, e)
  <2>1. DOMAIN Line(b, s) = Users /\ DOMAIN Line(c, s) = Users
    BY DEF Line
  <2>2. AsBalance(c[u][s]) = AsBalance(b[u][s]) + e
    BY DEF Changed
  <2>3. \A x \in Users \ {u} : AsBalance(c[x][s]) = AsBalance(b[x][s])
    BY BookType DEF Changed
  <2>4. QED
    BY <2>1, <2>2, <2>3 DEF Raised, Line
<1> HIDE DEF e
<1>3. IsFiniteSet(Users)
  BY ExchangeAssumption
<1>4. Booked(c, s) = Booked(b, s) + e
  BY <1>1, <1>2, <1>3, BooksAdd DEF Booked
<1>5. QED
  BY <1>4 DEF e

----------------------------------------------------------------------------
(* One accepted fill.                                                      *)

(* Every book holds something between zero and the largest int64_t.        *)
Covered(b) == \A u \in Users, s \in Assets : 0 <= AsBalance(b[u][s]) /\ AsBalance(b[u][s]) < Half

LEMMA FillTypes ==
  ASSUME NEW f \in Fill, minFee \in [Assets -> Nat]
  PROVE  /\ f.order \in Orders /\ f.spentNum \in Int /\ f.getNum \in Int
         /\ OrderOf[f.order].owner \in Users
         /\ OrderOf[f.order].payAsset \in Assets /\ OrderOf[f.order].purchaseAsset \in Assets
         /\ FeeOf(f) \in Nat
<1>1. OrderOf[f.order] \in OrderInfo /\ f.spentNum \in Int
  BY ExchangeAssumption DEF Fill
<1>2. f.spentNum * OrderOf[f.order].fee \in Int
  BY <1>1 DEF OrderInfo
<1>3. FeeUnit \in Nat \ {0}
  BY ExchangeAssumption
<1>4. PromisedFee(f) \in Int
  BY <1>2, <1>3 DEF PromisedFee
<1>5. minFee[OrderOf[f.order].payAsset] \in Nat
  BY <1>1 DEF OrderInfo
<1>6. FeeOf(f) \in Nat
  BY <1>4, <1>5 DEF FeeOf
<1>7. QED
  BY <1>1, <1>6 DEF Fill, OrderInfo

(* What an accepted fill writes: the owner pays and gets, the receiver has *)
(* the fee, no book goes below zero, and the sum of the books changes by   *)
(* what is got less what is spent.                                         *)
LEMMA FilledBooks ==
  ASSUME NEW p \in [bal : Balances, info : Infos], NEW f \in Fill, minFee \in [Assets -> Nat],
         FeeReceiverOf(f.order) \in Users, Covered(p.bal), Accepts(p, f), FillFits(p, f),
         NEW c, c = FilledBal(p.bal, f)
  PROVE  LET o == OrderOf[f.order] IN
         /\ c \in Balances
         /\ Covered(c)
         /\ \A v \in Users, s \in Assets :
              AsBalance(c[v][s]) = AsBalance(p.bal[v][s])
                - (IF v = o.owner /\ s = o.payAsset THEN f.spentNum + FeeOf(f) ELSE 0)
                + (IF v = o.owner /\ s = o.purchaseAsset THEN f.getNum ELSE 0)
                + (IF v = FeeReceiverOf(f.order) /\ s = o.payAsset THEN FeeOf(f) ELSE 0)
         /\ \A s \in Assets :
              Booked(c, s) = Booked(p.bal, s) + (IF s = o.purchaseAsset THEN f.getNum ELSE 0)
                                              - (IF s = o.payAsset THEN f.spentNum ELSE 0)
<1> DEFINE o    == OrderOf[f.order]
           r    == FeeReceiverOf(f.order)
           fee  == FeeOf(f)
           b    == p.bal
           paid == Moved(b, o.owner, o.payAsset, - (f.spentNum + fee))
           got  == Moved(paid, o.owner, o.purchaseAsset, f.getNum)
           all  == Moved(got, r, o.payAsset, fee)
<1>1. /\ f.spentNum \in Int /\ f.getNum \in Int /\ fee \in Nat
      /\ o.owner \in Users /\ o.payAsset \in Assets /\ o.purchaseAsset \in Assets
  BY FillTypes
<1>2. b \in Balances
  OBVIOUS
<1>3. Half \in Nat /\ Half > 0
  BY HalfPositive
<1>4. f.spentNum > 0 /\ f.getNum > 0 /\ AsBalance(b[o.owner][o.payAsset]) >= f.spentNum + fee
  <2>1. f.spentNum > 0 /\ f.getNum > 0
    BY DEF Accepts
  <2>2. Fits(f.spentNum + fee)
    BY DEF FillFits
  <2>3. b[o.owner][o.payAsset] # None /\ b[o.owner][o.payAsset] >= Wrap(f.spentNum + fee)
    BY DEF Accepts
  <2>4. Wrap(f.spentNum + fee) = f.spentNum + fee
    BY <1>1, <2>2, WrapFits
  <2>5. QED
    BY <2>1, <2>3, <2>4 DEF AsBalance
<1>5. Fits(AsBalance(b[o.owner][o.payAsset]) + (- (f.spentNum + fee)))
  <2>1. /\ 0 <= AsBalance(b[o.owner][o.payAsset]) /\ AsBalance(b[o.owner][o.payAsset]) < Half
        /\ AsBalance(b[o.owner][o.payAsset]) \in Int
    BY <1>1, <1>2, BookType DEF Covered
  <2>2. QED
    BY <1>1, <1>3, <1>4, <2>1 DEF Fits
<1>6. paid \in Balances /\ Changed(b, paid, o.owner, o.payAsset, - (f.spentNum + fee))
  <2>1. - (f.spentNum + fee) \in Int
    BY <1>1
  <2> HIDE DEF b, o, fee
  <2>2. QED
    BY <1>1, <1>2, <1>5, <2>1, MovedChanges
<1>7. /\ Fits(AsBalance(paid[o.owner][o.purchaseAsset]) + f.getNum)
      /\ Fits(AsBalance(got[r][o.payAsset]) + fee)
  BY DEF FillFits
<1>8. got \in Balances /\ Changed(paid, got, o.owner, o.purchaseAsset, f.getNum)
  <2> HIDE DEF paid, o
  <2>1. QED
    BY <1>1, <1>6, <1>7, MovedChanges
<1>9. all \in Balances /\ Changed(got, all, r, o.payAsset, fee)
  <2> HIDE DEF got, o, r, fee
  <2>1. r \in Users /\ fee \in Int
    BY <1>1 DEF r
  <2>2. QED
    BY <1>1, <1>7, <1>8, <2>1, MovedChanges
<1>10. c \in Balances /\ Changed(got, c, r, o.payAsset, fee)
  <2>1. CASE fee > 0
    <3>1. c = all
      BY <2>1 DEF FilledBal
    <3>2. QED
      BY <1>9, <3>1
  <2>2. CASE fee = 0
    <3>1. c = got
      BY <2>2 DEF FilledBal
    <3> HIDE DEF got, fee, o, r
    <3>2. \A v \in Users, s \in Assets : AsBalance(got[v][s]) \in Int
      BY <1>8, BookType
    <3>3. QED
      BY <1>8, <2>2, <3>1, <3>2 DEF Changed
  <2>3. QED
    BY <1>1, <2>1, <2>2
<1> HIDE DEF paid, got, all, o, r, fee, b
<1>11. ASSUME NEW v \in Users, NEW s \in Assets
       PROVE  /\ AsBalance(b[v][s]) \in Int /\ 0 <= AsBalance(b[v][s])
              /\ AsBalance(b[v][s]) < Half
              /\ AsBalance(paid[v][s]) = AsBalance(b[v][s])
                   - (IF v = o.owner /\ s = o.payAsset THEN f.spentNum + fee ELSE 0)
              /\ AsBalance(got[v][s]) = AsBalance(paid[v][s])
                   + (IF v = o.owner /\ s = o.purchaseAsset THEN f.getNum ELSE 0)
              /\ AsBalance(c[v][s]) = AsBalance(got[v][s])
                   + (IF v = r /\ s = o.payAsset THEN fee ELSE 0)
  <2>1. AsBalance(b[v][s]) \in Int
    BY <1>2, BookType
  <2>2. 0 <= AsBalance(b[v][s]) /\ AsBalance(b[v][s]) < Half
    BY DEF Covered, b
  <2>3. AsBalance(paid[v][s]) = AsBalance(b[v][s])
          + (IF v = o.owner /\ s = o.payAsset THEN - (f.spentNum + fee) ELSE 0)
    BY <1>6 DEF Changed
  <2>4. AsBalance(got[v][s]) = AsBalance(paid[v][s])
          + (IF v = o.owner /\ s = o.purchaseAsset THEN f.getNum ELSE 0)
    BY <1>8 DEF Changed
  <2>5. AsBalance(c[v][s]) = AsBalance(got[v][s]) + (IF v = r /\ s = o.payAsset THEN fee ELSE 0)
    BY <1>10 DEF Changed
  <2>6. AsBalance(paid[v][s]) = AsBalance(b[v][s])
          - (IF v = o.owner /\ s = o.payAsset THEN f.spentNum + fee ELSE 0)
    BY <1>1, <2>1, <2>3
  <2>7. QED
    BY <2>1, <2>2, <2>4, <2>5, <2>6
<1>12. \A v \in Users, s \in Assets :
         AsBalance(c[v][s]) = AsBalance(b[v][s])
           - (IF v = o.owner /\ s = o.payAsset THEN f.spentNum + fee ELSE 0)
           + (IF v = o.owner /\ s = o.purchaseAsset THEN f.getNum ELSE 0)
           + (IF v = r /\ s = o.payAsset THEN fee ELSE 0)
  BY <1>11
<1>13. Covered(c)
  <2> SUFFICES ASSUME NEW v \in Users, NEW s \in Assets
               PROVE  0 <= AsBalance(c[v][s]) /\ AsBalance(c[v][s]) < Half
    BY DEF Covered
  <2>1. 0 <= AsBalance(paid[v][s]) /\ AsBalance(paid[v][s]) < Half /\ AsBalance(paid[v][s]) \in Int
    <3>1. CASE v = o.owner /\ s = o.payAsset
      <4>1. AsBalance(b[v][s]) >= f.spentNum + fee
        BY <1>4, <3>1 DEF b, o, fee
      <4>2. QED
        BY <1>1, <1>3, <1>4, <1>11, <3>1, <4>1
    <3>2. CASE ~ (v = o.owner /\ s = o.payAsset)
      BY <1>11, <3>2
    <3>3. QED
      BY <3>1, <3>2
  <2>2. 0 <= AsBalance(got[v][s]) /\ AsBalance(got[v][s]) < Half /\ AsBalance(got[v][s]) \in Int
    BY <1>1, <1>4, <1>7, <1>11, <2>1 DEF Fits
  <2>3. QED
    BY <1>1, <1>7, <1>11, <2>2 DEF Fits
<1>14. ASSUME NEW s \in Assets
       PROVE  Booked(c, s) = Booked(b, s) + (IF s = o.purchaseAsset THEN f.getNum ELSE 0)
                                          - (IF s = o.payAsset THEN f.spentNum ELSE 0)
  <2>1. Booked(b, s) \in Int
    BY <1>2, BookedType
  <2>2. Booked(paid, s) = Booked(b, s) + (IF s = o.payAsset THEN - (f.spentNum + fee) ELSE 0)
    <3>1. - (f.spentNum + fee) \in Int
      BY <1>1
    <3>2. QED
      BY <1>1, <1>2, <1>6, <3>1, ChangedBooked
  <2>3. Booked(got, s) = Booked(paid, s) + (IF s = o.purchaseAsset THEN f.getNum ELSE 0)
    BY <1>1, <1>6, <1>8, ChangedBooked
  <2>4. Booked(c, s) = Booked(got, s) + (IF s = o.payAsset THEN fee ELSE 0)
    <3>1. r \in Users /\ fee \in Int
      BY <1>1 DEF r
    <3>2. QED
      BY <1>1, <1>8, <1>10, <3>1, ChangedBooked
  <2>5. QED
    BY <1>1, <2>1, <2>2, <2>3, <2>4
<1>15. QED
  BY <1>10, <1>12, <1>13, <1>14 DEF o, r, fee, b
----------------------------------------------------------------------------
(* The limits of an order, for the stored orders or for those of a pending *)
(* call.                                                                   *)
WithinLimits(i) ==
  \A o \in Orders : i[o].kind = "open" =>
    /\ i[o].spent <= OrderOf[o].payNum
    /\ i[o].spent * OrderOf[o].purchaseNum <= i[o].got * OrderOf[o].payNum

(* What a fill stores when what the order got does not overflow.           *)
LEMMA FilledOrder ==
  ASSUME NEW i \in Infos, NEW f \in Fill, Fits(i[f.order].got + f.getNum)
  PROVE  LET o == f.order
             j == FilledInfo(i, f)
         IN  /\ \A x \in Orders : x # o => j[x] = i[x]
             /\ j[o].kind = "open"
             /\ j[o].spent = i[o].spent + f.spentNum
             /\ j[o].got = i[o].got + f.getNum
<1>1. f.order \in Orders /\ f.spentNum \in Int /\ f.getNum \in Int
  BY DEF Fill
<1>2. i[f.order].got \in Int
  BY <1>1 DEF Infos, Stored
<1>3. Wrap(i[f.order].got + f.getNum) = i[f.order].got + f.getNum
  BY <1>1, <1>2, WrapFits
<1>4. /\ \A x \in Orders : x # f.order => FilledInfo(i, f)[x] = i[x]
      /\ FilledInfo(i, f)[f.order] =
           [kind |-> "open", spent |-> i[f.order].spent + f.spentNum,
            got |-> Wrap(i[f.order].got + f.getNum)]
  BY FilledInfoType, Zenon
<1>5. QED
  BY <1>3, <1>4

(* One accepted fill keeps the order within what its owner signed.         *)
LEMMA FillKeepsLimits ==
  ASSUME NEW p \in [bal : Balances, info : Infos], NEW f \in Fill, Accepts(p, f),
         Fits(p.info[f.order].got + f.getNum), WithinLimits(p.info), NothingUnfilled(p.info)
  PROVE  WithinLimits(FilledInfo(p.info, f))
<1> DEFINE o == f.order
           s == p.info[o].spent
           g == p.info[o].got
           pn == OrderOf[o].purchaseNum
           yn == OrderOf[o].payNum
<1>1. o \in Orders /\ f.spentNum \in Int /\ f.getNum \in Int /\ p.info \in Infos
  BY DEF Fill
<1>2. s \in Int /\ g \in Int
  BY <1>1 DEF Infos, Stored
<1>3. pn \in Int /\ yn \in Int
  BY <1>1, ExchangeAssumption DEF OrderInfo
<1>4. p.info[o].kind \in {"none", "open"}
  BY DEF Accepts, Open
<1>5. f.spentNum * pn <= f.getNum * yn
  BY DEF Accepts, PriceKept
<1>6. s + f.spentNum <= yn
  BY <1>1, <1>2, <1>3 DEF Accepts, Remaining
<1>7. s * pn <= g * yn
  <2>1. CASE p.info[o].kind = "none"
    <3>1. s = 0 /\ g = 0
      BY <1>1, <2>1 DEF NothingUnfilled
    <3>2. QED
      BY <1>3, <3>1
  <2>2. CASE p.info[o].kind = "open"
    BY <1>1, <2>2 DEF WithinLimits
  <2>3. QED
    BY <1>4, <2>1, <2>2
<1>8. (s + f.spentNum) * pn <= (g + f.getNum) * yn
  <2>1. \A a, b, c \in Int : (a + b) * c = a * c + b * c
    OBVIOUS
  <2>2. (s + f.spentNum) * pn = s * pn + f.spentNum * pn
    BY <1>1, <1>2, <1>3, <2>1
  <2>3. (g + f.getNum) * yn = g * yn + f.getNum * yn
    BY <1>1, <1>2, <1>3, <2>1
  <2>4. \A a, b, c, d \in Int : a <= b /\ c <= d => a + c <= b + d
    OBVIOUS
  <2>5. /\ s * pn \in Int /\ f.spentNum * pn \in Int
        /\ g * yn \in Int /\ f.getNum * yn \in Int
    BY <1>1, <1>2, <1>3
  <2> HIDE DEF s, g, pn, yn
  <2>6. QED
    BY <1>5, <1>7, <2>2, <2>3, <2>4, <2>5
<1>9. /\ \A x \in Orders : x # o => FilledInfo(p.info, f)[x] = p.info[x]
      /\ FilledInfo(p.info, f)[o].kind = "open"
      /\ FilledInfo(p.info, f)[o].spent = s + f.spentNum
      /\ FilledInfo(p.info, f)[o].got = g + f.getNum
  BY <1>1, FilledOrder, Zenon
<1>10. QED
  <2> SUFFICES ASSUME NEW x \in Orders, FilledInfo(p.info, f)[x].kind = "open"
               PROVE  /\ FilledInfo(p.info, f)[x].spent <= OrderOf[x].payNum
                      /\ FilledInfo(p.info, f)[x].spent * OrderOf[x].purchaseNum
                           <= FilledInfo(p.info, f)[x].got * OrderOf[x].payNum
    BY DEF WithinLimits
  <2>1. CASE x = o
    BY <1>6, <1>8, <1>9, <2>1
  <2>2. CASE x # o
    BY <1>9, <2>2 DEF WithinLimits
  <2>3. QED
    BY <2>1, <2>2

(* The sum of a field of the orders in O, when one order's field grows.    *)
LEMMA OrderSum ==
  ASSUME NEW O \in SUBSET Orders, NEW g \in [Orders -> Int], NEW h \in [Orders -> Int],
         NEW x \in Orders, NEW d \in Int, h[x] = g[x] + d,
         \A y \in Orders : y # x => h[y] = g[y]
  PROVE  /\ SumFunctionOnSet(g, O) \in Int
         /\ SumFunctionOnSet(h, O) = SumFunctionOnSet(g, O) + (IF x \in O THEN d ELSE 0)
<1>1. IsFiniteSet(O) /\ \A y \in O : g[y] \in Int
  BY ExchangeAssumption, FS_Subset
<1>2. SumFunctionOnSet(g, O) \in Int
  BY <1>1, SumType
<1>3. CASE x \in O
  <2>1. h[x] \in Int /\ \A y \in O \ {x} : h[y] = g[y]
    OBVIOUS
  <2>2. SumFunctionOnSet(h, O) = SumFunctionOnSet(g, O) + (h[x] - g[x])
    BY <1>1, <1>3, <2>1, SumChange
  <2>3. QED
    BY <1>2, <1>3, <2>2
<1>4. CASE x \notin O
  <2>1. \A y \in O : g[y] = h[y]
    BY <1>4
  <2>2. SumFunctionOnSet(g, O) = SumFunctionOnSet(h, O)
    BY <1>1, <2>1, SumAgree
  <2>3. QED
    BY <1>2, <1>4, <2>2
<1>5. QED
  BY <1>2, <1>3, <1>4

LEMMA TradedType ==
  ASSUME NEW i \in Infos, NEW u, NEW s
  PROVE  Got(i, u, s) \in Int /\ Spent(i, u, s) \in Int
<1>1. \A o \in Orders : i[o].got \in Int /\ i[o].spent \in Int
  BY DEF Infos, Stored
<1> DEFINE G == { o \in Orders : OrderOf[o].owner = u /\ OrderOf[o].purchaseAsset = s }
           P == { o \in Orders : OrderOf[o].owner = u /\ OrderOf[o].payAsset = s }
<1>2. IsFiniteSet(G) /\ IsFiniteSet(P) /\ G \subseteq Orders /\ P \subseteq Orders
  BY ExchangeAssumption, FS_Subset
<1> HIDE DEF G, P
<1>3. SumFunctionOnSet([o \in Orders |-> i[o].got], G) \in Int
  BY <1>1, <1>2, SumType
<1>4. SumFunctionOnSet([o \in Orders |-> i[o].spent], P) \in Int
  BY <1>1, <1>2, SumType
<1>5. QED
  BY <1>3, <1>4 DEF G, P, Got, Spent

(* A fill adds to what its owner got and spent, and to nobody else's.      *)
LEMMA FilledTrades ==
  ASSUME NEW i \in Infos, NEW f \in Fill, Fits(i[f.order].got + f.getNum), NEW u, NEW s
  PROVE  LET o == OrderOf[f.order] IN
         /\ Got(FilledInfo(i, f), u, s) = Got(i, u, s)
              + (IF o.owner = u /\ o.purchaseAsset = s THEN f.getNum ELSE 0)
         /\ Spent(FilledInfo(i, f), u, s) = Spent(i, u, s)
              + (IF o.owner = u /\ o.payAsset = s THEN f.spentNum ELSE 0)
<1> DEFINE j == FilledInfo(i, f)
           x == f.order
           G == { o \in Orders : OrderOf[o].owner = u /\ OrderOf[o].purchaseAsset = s }
           P == { o \in Orders : OrderOf[o].owner = u /\ OrderOf[o].payAsset = s }
           gi == [o \in Orders |-> i[o].got]
           gj == [o \in Orders |-> j[o].got]
           si == [o \in Orders |-> i[o].spent]
           sj == [o \in Orders |-> j[o].spent]
<1>1. x \in Orders /\ f.spentNum \in Int /\ f.getNum \in Int
  BY DEF Fill
<1>2. /\ \A y \in Orders : y # x => j[y] = i[y]
      /\ j[x].spent = i[x].spent + f.spentNum
      /\ j[x].got = i[x].got + f.getNum
  BY FilledOrder, Zenon
<1>3. j \in Infos
  BY FilledInfoType
<1> HIDE DEF j, x
<1>4. /\ gi \in [Orders -> Int] /\ gj \in [Orders -> Int]
      /\ si \in [Orders -> Int] /\ sj \in [Orders -> Int]
  BY <1>3 DEF Infos, Stored
<1>5. /\ gj[x] = gi[x] + f.getNum /\ \A y \in Orders : y # x => gj[y] = gi[y]
      /\ sj[x] = si[x] + f.spentNum /\ \A y \in Orders : y # x => sj[y] = si[y]
  BY <1>1, <1>2
<1>6. G \in SUBSET Orders /\ P \in SUBSET Orders
  OBVIOUS
<1>7. (x \in G <=> OrderOf[x].owner = u /\ OrderOf[x].purchaseAsset = s)
      /\ (x \in P <=> OrderOf[x].owner = u /\ OrderOf[x].payAsset = s)
  BY <1>1
<1> HIDE DEF gi, gj, si, sj, G, P
<1>8. SumFunctionOnSet(gj, G) = SumFunctionOnSet(gi, G) + (IF x \in G THEN f.getNum ELSE 0)
  BY <1>1, <1>4, <1>5, <1>6, OrderSum
<1>9. SumFunctionOnSet(sj, P) = SumFunctionOnSet(si, P) + (IF x \in P THEN f.spentNum ELSE 0)
  BY <1>1, <1>4, <1>5, <1>6, OrderSum
<1>10. /\ Got(j, u, s) = Got(i, u, s)
            + (IF OrderOf[x].owner = u /\ OrderOf[x].purchaseAsset = s THEN f.getNum ELSE 0)
       /\ Spent(j, u, s) = Spent(i, u, s)
            + (IF OrderOf[x].owner = u /\ OrderOf[x].payAsset = s THEN f.spentNum ELSE 0)
  BY <1>7, <1>8, <1>9 DEF Got, Spent, gi, gj, si, sj, G, P
<1>11. QED
  BY <1>10 DEF j, x

(* One accepted fill leaves books that agree with the orders.              *)
LEMMA FillReconciles ==
  ASSUME NEW p \in [bal : Balances, info : Infos], NEW f \in Fill, minFee \in [Assets -> Nat],
         net \in [Users -> [Assets -> Int]],
         FeeReceiverOf(f.order) \in Users, Covered(p.bal), Accepts(p, f), FillFits(p, f),
         Reconciled(p.bal, p.info)
  PROVE  Reconciled(FilledBal(p.bal, f), FilledInfo(p.info, f))
<1> DEFINE o == OrderOf[f.order]
           r == FeeReceiverOf(f.order)
           b == p.bal
           i == p.info
           c == FilledBal(b, f)
           j == FilledInfo(i, f)
           fee == FeeOf(f)
<1>1. /\ f.order \in Orders /\ f.spentNum \in Int /\ f.getNum \in Int /\ fee \in Nat
      /\ b \in Balances /\ i \in Infos
  BY FillTypes
<1>2. r \in Receivers
  BY <1>1 DEF Receivers, FeeReceiverOf
<1>3. \A v \in Users, s \in Assets :
        AsBalance(c[v][s]) = AsBalance(b[v][s])
          - (IF v = o.owner /\ s = o.payAsset THEN f.spentNum + fee ELSE 0)
          + (IF v = o.owner /\ s = o.purchaseAsset THEN f.getNum ELSE 0)
          + (IF v = r /\ s = o.payAsset THEN fee ELSE 0)
  <2>1. PICK d : d = FilledBal(p.bal, f)
    OBVIOUS
  <2>2. \A v \in Users, s \in Assets :
          AsBalance(d[v][s]) = AsBalance(p.bal[v][s])
            - (IF v = OrderOf[f.order].owner /\ s = OrderOf[f.order].payAsset
                 THEN f.spentNum + FeeOf(f) ELSE 0)
            + (IF v = OrderOf[f.order].owner /\ s = OrderOf[f.order].purchaseAsset
                 THEN f.getNum ELSE 0)
            + (IF v = FeeReceiverOf(f.order) /\ s = OrderOf[f.order].payAsset
                 THEN FeeOf(f) ELSE 0)
    BY <2>1, FilledBooks
  <2>3. QED
    BY <2>1, <2>2
<1>4. Fits(i[f.order].got + f.getNum)
  BY DEF FillFits
<1> SUFFICES ASSUME NEW u \in Users, NEW s \in Assets
             PROVE  LET traded == net[u][s] + Got(j, u, s) - Spent(j, u, s) IN
                    /\ u \notin Receivers => AsBalance(c[u][s]) <= traded
                    /\ u \in Receivers /\ (\A x \in Orders : OrderOf[x].owner # u)
                         => AsBalance(c[u][s]) >= traded
  BY DEF Reconciled
<1>5. /\ Got(j, u, s) = Got(i, u, s)
            + (IF o.owner = u /\ o.purchaseAsset = s THEN f.getNum ELSE 0)
      /\ Spent(j, u, s) = Spent(i, u, s)
            + (IF o.owner = u /\ o.payAsset = s THEN f.spentNum ELSE 0)
  BY <1>1, <1>4, FilledTrades
<1>6. Got(i, u, s) \in Int /\ Spent(i, u, s) \in Int /\ net[u][s] \in Int /\ AsBalance(b[u][s]) \in Int
  BY <1>1, TradedType, BookType
<1>7. /\ u \notin Receivers => AsBalance(b[u][s]) <= net[u][s] + Got(i, u, s) - Spent(i, u, s)
      /\ u \in Receivers /\ (\A x \in Orders : OrderOf[x].owner # u)
           => AsBalance(b[u][s]) >= net[u][s] + Got(i, u, s) - Spent(i, u, s)
  BY DEF Reconciled
<1>8. AsBalance(c[u][s]) = AsBalance(b[u][s])
          - (IF u = o.owner /\ s = o.payAsset THEN f.spentNum + fee ELSE 0)
          + (IF u = o.owner /\ s = o.purchaseAsset THEN f.getNum ELSE 0)
          + (IF u = r /\ s = o.payAsset THEN fee ELSE 0)
  BY <1>3
<1> HIDE DEF o, r, b, i, c, j, fee
<1>9. CASE u \notin Receivers
  <2>1. u # r
    BY <1>2, <1>9
  <2>2. AsBalance(c[u][s]) <= net[u][s] + Got(j, u, s) - Spent(j, u, s)
    BY <1>1, <1>5, <1>6, <1>7, <1>8, <1>9, <2>1
  <2>3. QED
    BY <1>9, <2>2
<1>10. CASE u \in Receivers /\ (\A x \in Orders : OrderOf[x].owner # u)
  <2>1. u # o.owner
    BY <1>1, <1>10 DEF o
  <2>2. AsBalance(c[u][s]) >= net[u][s] + Got(j, u, s) - Spent(j, u, s)
    BY <1>1, <1>5, <1>6, <1>7, <1>8, <1>10, <2>1
  <2>3. QED
    BY <1>10, <2>2
<1>11. QED
  BY <1>9, <1>10
----------------------------------------------------------------------------
(* The inductive invariant.                                                *)

(* What the makers up to the n-th fill get and spend.                      *)
MakersGot(fills, n)   == SumFunction([i \in 2 .. n |-> fills[i].getNum])
MakersSpent(fills, n) == SumFunction([i \in 2 .. n |-> fills[i].spentNum])

LEMMA FillAt ==
  ASSUME NEW fills \in Seq(Fill), NEW n \in 1 .. Len(fills)
  PROVE  /\ fills[n] \in Fill /\ fills[n].order \in Orders
         /\ fills[n].getNum \in Int /\ fills[n].spentNum \in Int
<1>1. fills[n] \in Fill
  OBVIOUS
<1>2. QED
  BY <1>1 DEF Fill

LEMMA SumOfOneMore ==
  ASSUME NEW n \in Nat, n >= 2, NEW g \in [2 .. n -> Int], NEW h \in [2 .. (n - 1) -> Int],
         \A i \in 2 .. (n - 1) : h[i] = g[i]
  PROVE  SumFunction(h) \in Int /\ SumFunction(g) = SumFunction(h) + g[n]
<1>1. IsFiniteSet(2 .. n) /\ IsFiniteSet(2 .. (n - 1)) /\ n \in 2 .. n
  BY FS_Interval
<1>2. (2 .. n) \ {n} = 2 .. (n - 1)
  OBVIOUS
<1>3. SumFunctionOnSet(g, 2 .. n) = g[n] + SumFunctionOnSet(g, (2 .. n) \ {n})
  BY <1>1, SumRemove
<1>4. SumFunctionOnSet(h, 2 .. (n - 1)) = SumFunctionOnSet(g, 2 .. (n - 1))
  BY <1>1, SumAgree
<1>5. SumFunction(h) \in Int
  BY <1>1, BooksType
<1>6. g[n] \in Int /\ DOMAIN g = 2 .. n /\ DOMAIN h = 2 .. (n - 1)
  BY <1>1
<1>7. /\ SumFunction(g) = SumFunctionOnSet(g, 2 .. n)
      /\ SumFunction(h) = SumFunctionOnSet(h, 2 .. (n - 1))
  BY <1>6 DEF SumFunction
<1>8. SumFunction(g) = g[n] + SumFunction(h)
  BY <1>2, <1>3, <1>4, <1>7, Zenon
<1>9. QED
  BY <1>5, <1>6, <1>8

LEMMA MakersNone ==
  ASSUME NEW fills
  PROVE  MakersGot(fills, 1) = 0 /\ MakersSpent(fills, 1) = 0
<1>1. 2 .. 1 = {}
  OBVIOUS
<1>2. QED
  BY <1>1, SumEmpty DEF MakersGot, MakersSpent, SumFunction

LEMMA MakersNext ==
  ASSUME NEW fills \in Seq(Fill), NEW n \in 2 .. Len(fills)
  PROVE  /\ MakersGot(fills, n - 1) \in Int /\ MakersSpent(fills, n - 1) \in Int
         /\ MakersGot(fills, n) = MakersGot(fills, n - 1) + fills[n].getNum
         /\ MakersSpent(fills, n) = MakersSpent(fills, n - 1) + fills[n].spentNum
<1>1. n \in Nat /\ n >= 2
  OBVIOUS
<1>2. \A i \in 2 .. n : fills[i].getNum \in Int /\ fills[i].spentNum \in Int
  <2>1. \A i \in 2 .. n : i \in 1 .. Len(fills)
    OBVIOUS
  <2>2. QED
    BY <2>1, FillAt
<1>3. /\ [i \in 2 .. n |-> fills[i].getNum] \in [2 .. n -> Int]
      /\ [i \in 2 .. (n - 1) |-> fills[i].getNum] \in [2 .. (n - 1) -> Int]
      /\ [i \in 2 .. n |-> fills[i].spentNum] \in [2 .. n -> Int]
      /\ [i \in 2 .. (n - 1) |-> fills[i].spentNum] \in [2 .. (n - 1) -> Int]
  BY <1>2
<1>4. /\ MakersGot(fills, n - 1) \in Int
      /\ MakersGot(fills, n) = MakersGot(fills, n - 1) + fills[n].getNum
  <2> DEFINE g == [i \in 2 .. n |-> fills[i].getNum]
             h == [i \in 2 .. (n - 1) |-> fills[i].getNum]
  <2>1. g[n] = fills[n].getNum /\ \A i \in 2 .. (n - 1) : h[i] = g[i]
    OBVIOUS
  <2>2. g \in [2 .. n -> Int] /\ h \in [2 .. (n - 1) -> Int]
    BY <1>3
  <2>3. MakersGot(fills, n) = SumFunction(g) /\ MakersGot(fills, n - 1) = SumFunction(h)
    BY DEF MakersGot
  <2> HIDE DEF g, h
  <2>4. SumFunction(h) \in Int /\ SumFunction(g) = SumFunction(h) + g[n]
    BY <1>1, <2>1, <2>2, SumOfOneMore
  <2>5. QED
    BY <2>1, <2>3, <2>4
<1>5. /\ MakersSpent(fills, n - 1) \in Int
      /\ MakersSpent(fills, n) = MakersSpent(fills, n - 1) + fills[n].spentNum
  <2> DEFINE g == [i \in 2 .. n |-> fills[i].spentNum]
             h == [i \in 2 .. (n - 1) |-> fills[i].spentNum]
  <2>1. g[n] = fills[n].spentNum /\ \A i \in 2 .. (n - 1) : h[i] = g[i]
    OBVIOUS
  <2>2. g \in [2 .. n -> Int] /\ h \in [2 .. (n - 1) -> Int]
    BY <1>3
  <2>3. MakersSpent(fills, n) = SumFunction(g) /\ MakersSpent(fills, n - 1) = SumFunction(h)
    BY DEF MakersSpent
  <2> HIDE DEF g, h
  <2>4. SumFunction(h) \in Int /\ SumFunction(g) = SumFunction(h) + g[n]
    BY <1>1, <2>1, <2>2, SumOfOneMore
  <2>5. QED
    BY <2>1, <2>3, <2>4
<1>6. QED
  BY <1>4, <1>5

LEMMA MakersType ==
  ASSUME NEW fills \in Seq(Fill), NEW n \in 1 .. Len(fills)
  PROVE  MakersGot(fills, n) \in Int /\ MakersSpent(fills, n) \in Int
<1>1. CASE n = 1
  BY <1>1, MakersNone
<1>2. CASE n >= 2
  <2>1. n \in 2 .. Len(fills) /\ fills[n].getNum \in Int /\ fills[n].spentNum \in Int
    BY <1>2, FillAt
  <2>2. QED
    BY <2>1, MakersNext
<1>3. QED
  BY <1>1, <1>2

(* What the first n fills add to the books in asset s: the taker's fill    *)
(* and the makers', which trade the same two assets the other way round.   *)
Gain(fills, n, s) ==
  LET t == OrderOf[fills[1].order] IN
  IF n = 0 THEN 0
  ELSE (IF s = t.purchaseAsset THEN fills[1].getNum - MakersSpent(fills, n) ELSE 0)
         + (IF s = t.payAsset THEN MakersGot(fills, n) - fills[1].spentNum ELSE 0)

(* The fill number n of a match adds what it gets less what it spends.     *)
LEMMA GainNext ==
  ASSUME NEW fills \in Seq(Fill), NEW n \in 1 .. Len(fills), NEW s,
         n > 1 => Opposite(fills[1].order, fills[n].order)
  PROVE  LET o == OrderOf[fills[n].order] IN
         /\ Gain(fills, n - 1, s) \in Int
         /\ Gain(fills, n, s) = Gain(fills, n - 1, s)
              + (IF s = o.purchaseAsset THEN fills[n].getNum ELSE 0)
              - (IF s = o.payAsset THEN fills[n].spentNum ELSE 0)
<1>1. /\ fills[1].getNum \in Int /\ fills[1].spentNum \in Int
      /\ fills[n].getNum \in Int /\ fills[n].spentNum \in Int
  <2>1. 1 \in 1 .. Len(fills)
    OBVIOUS
  <2>2. QED
    BY <2>1, FillAt
<1>2. CASE n = 1
  <2>1. n - 1 = 0 /\ MakersGot(fills, n) = 0 /\ MakersSpent(fills, n) = 0
    BY <1>2, MakersNone
  <2>2. QED
    BY <1>1, <1>2, <2>1 DEF Gain
<1>3. CASE n > 1
  <2>1. /\ MakersGot(fills, n - 1) \in Int /\ MakersSpent(fills, n - 1) \in Int
        /\ MakersGot(fills, n) = MakersGot(fills, n - 1) + fills[n].getNum
        /\ MakersSpent(fills, n) = MakersSpent(fills, n - 1) + fills[n].spentNum
    BY <1>3, MakersNext
  <2>2. /\ OrderOf[fills[1].order].purchaseAsset = OrderOf[fills[n].order].payAsset
        /\ OrderOf[fills[1].order].payAsset = OrderOf[fills[n].order].purchaseAsset
    BY <1>3 DEF Opposite
  <2>3. n # 0 /\ n - 1 # 0
    BY <1>3
  <2>4. QED
    BY <1>1, <2>1, <2>2, <2>3, SMTT(30) DEF Gain
<1>4. QED
  BY <1>2, <1>3

(* A match whose totals agree adds nothing.                                *)
LEMMA GainOfAgreed ==
  ASSUME NEW fills \in Seq(Fill), fills # <<>>, TotalsAgree(fills),
         Fits(TotalGot(fills)), Fits(TotalSpent(fills)), NEW s
  PROVE  Gain(fills, Len(fills), s) = 0
<1>1. Len(fills) \in 1 .. Len(fills) /\ fills[1] \in Fill
  OBVIOUS
<1>2. MakersGot(fills, Len(fills)) \in Int /\ MakersSpent(fills, Len(fills)) \in Int
  BY <1>1, MakersType
<1>3. /\ MakersGot(fills, Len(fills)) = TotalGot(fills)
      /\ MakersSpent(fills, Len(fills)) = TotalSpent(fills)
  BY DEF MakersGot, MakersSpent, TotalGot, TotalSpent
<1>4. /\ MakersGot(fills, Len(fills)) = fills[1].spentNum
      /\ MakersSpent(fills, Len(fills)) = fills[1].getNum
  BY <1>2, <1>3, WrapFits DEF TotalsAgree
<1>5. QED
  BY <1>1, <1>2, <1>4 DEF Gain

(* Before the fee receiver is named nothing happens.                       *)
Started ==
  /\ minFee \in [Assets -> Nat]
  /\ state = "COMMON" => feeReceiver \in Users
  /\ state = "NOT_INITED" =>
       /\ Idle /\ feeReceiver = None
       /\ \A u \in Users, s \in Assets : AsBalance(bal[u][s]) = 0 /\ net[u][s] = 0

(* The stored books and orders are sound.                                  *)
BooksSound ==
  /\ Covered(bal) /\ WithinLimits(info) /\ Reconciled(bal, info)
  /\ \A s \in Assets : Booked(bal, s) = Held(s)

(* So are those of a pending call, up to the fills that are not balanced   *)
(* by others yet.                                                          *)
PendingSound ==
  ~ Idle =>
    /\ state = "COMMON"
    /\ pos \in 1 .. Len(match) + 1
    /\ Covered(pending.bal) /\ WithinLimits(pending.info)
    /\ Reconciled(pending.bal, pending.info)
    /\ \A s \in Assets : Booked(pending.bal, s) = Held(s) + Gain(match, pos - 1, s)

MoneyInv == Started /\ BooksSound /\ PendingSound
LEMMA MoneyInvInit ==
  ASSUME Init
  PROVE  MoneyInv
<1>1. \A u \in Users, s \in Assets : AsBalance(bal[u][s]) = 0 /\ net[u][s] = 0
  BY DEF Init, AsBalance
<1>2. Started
  <2>1. minFee \in [Assets -> Nat]
    BY DEF Init
  <2>2. QED
    BY <1>1, <2>1 DEF Started, Init, Idle
<1>3. Covered(bal)
  BY <1>1, HalfPositive DEF Covered
<1>4. WithinLimits(info)
  BY DEF Init, Untouched, WithinLimits
<1>5. \A s \in Assets : Booked(bal, s) = Held(s)
  <2> SUFFICES ASSUME NEW s \in Assets PROVE Booked(bal, s) = Held(s)
    OBVIOUS
  <2>1. Line(bal, s) = [u \in Users |-> net[u][s]]
    BY <1>1 DEF Line
  <2>2. QED
    BY <2>1 DEF Booked, Held
<1>6. Reconciled(bal, info)
  <2> SUFFICES ASSUME NEW u \in Users, NEW s \in Assets
               PROVE  Got(info, u, s) = 0 /\ Spent(info, u, s) = 0
    BY <1>1 DEF Reconciled
  <2> DEFINE G == { o \in Orders : OrderOf[o].owner = u /\ OrderOf[o].purchaseAsset = s }
             P == { o \in Orders : OrderOf[o].owner = u /\ OrderOf[o].payAsset = s }
  <2>1. IsFiniteSet(G) /\ IsFiniteSet(P)
    BY ExchangeAssumption, FS_Subset
  <2>2. /\ \A o \in G : [x \in Orders |-> info[x].got][o] = 0
        /\ \A o \in P : [x \in Orders |-> info[x].spent][o] = 0
    BY DEF Init, Untouched
  <2> HIDE DEF G, P
  <2>3. /\ SumFunctionOnSet([x \in Orders |-> info[x].got], G) = 0
        /\ SumFunctionOnSet([x \in Orders |-> info[x].spent], P) = 0
    BY <2>1, <2>2, SumZero
  <2>4. QED
    BY <2>3 DEF Got, Spent, G, P
<1>7. PendingSound
  BY DEF Init, PendingSound, Idle
<1>8. QED
  BY <1>2, <1>3, <1>4, <1>5, <1>6, <1>7 DEF MoneyInv, BooksSound

(* The trades of two sets of stored orders that spent and got the same.    *)
LEMMA SameTrades ==
  ASSUME NEW i, NEW j, \A o \in Orders : i[o].got = j[o].got /\ i[o].spent = j[o].spent
  PROVE  \A u, s : Got(i, u, s) = Got(j, u, s) /\ Spent(i, u, s) = Spent(j, u, s)
<1>1. /\ [o \in Orders |-> i[o].got] = [o \in Orders |-> j[o].got]
      /\ [o \in Orders |-> i[o].spent] = [o \in Orders |-> j[o].spent]
  OBVIOUS
<1>2. QED
  BY <1>1 DEF Got, Spent

(* Books and orders that do not change, whatever the call, stay sound.     *)
LEMMA BooksStay ==
  ASSUME BooksSound, UNCHANGED <<feeReceiver, bal, info, net>>
  PROVE  BooksSound'
<1>1. Covered(bal)' /\ WithinLimits(info)'
  BY DEF BooksSound, Covered, WithinLimits
<1>2. (\A s \in Assets : Booked(bal, s) = Held(s))'
  BY DEF BooksSound, Booked, Held, Line
<1>3. Reconciled(bal, info)'
  BY DEF BooksSound, Reconciled, Got, Spent, Receivers
<1>4. QED
  BY <1>1, <1>2, <1>3 DEF BooksSound

LEMMA InitConfigMoney ==
  ASSUME TypeOK, MoneyInv, NEW caller \in Users, NEW receiver \in FeeReceivers,
         InitConfig(caller, receiver)
  PROVE  MoneyInv'
<1>1. /\ state = "NOT_INITED" /\ state' = "COMMON" /\ feeReceiver' = receiver
      /\ UNCHANGED <<admin, minFee, bal, info, net, match>> /\ Idle
  BY DEF InitConfig, fillVars
<1>2. receiver \in Users /\ None \notin Users
  BY ExchangeAssumption
<1>3. Started'
  BY <1>1, <1>2 DEF MoneyInv, Started
<1>4. Covered(bal)' /\ WithinLimits(info)'
  BY <1>1 DEF MoneyInv, BooksSound, Covered, WithinLimits
<1>5. (\A s \in Assets : Booked(bal, s) = Held(s))'
  BY <1>1 DEF MoneyInv, BooksSound, Booked, Held, Line
<1>6. Reconciled(bal, info)'
  <2> SUFFICES ASSUME NEW u \in Users, NEW s \in Assets
               PROVE  /\ u \notin Receivers' =>
                           AsBalance(bal[u][s]) <= net[u][s] + Got(info, u, s) - Spent(info, u, s)
                      /\ u \in Receivers' /\ (\A o \in Orders : OrderOf[o].owner # u) =>
                           AsBalance(bal[u][s]) >= net[u][s] + Got(info, u, s) - Spent(info, u, s)
    BY <1>1 DEF Reconciled, Got, Spent
  <2>1. AsBalance(bal[u][s]) = 0 /\ net[u][s] = 0 /\ feeReceiver = None
    BY <1>1 DEF MoneyInv, Started
  <2>2. /\ u \notin Receivers =>
             AsBalance(bal[u][s]) <= net[u][s] + Got(info, u, s) - Spent(info, u, s)
    BY DEF MoneyInv, BooksSound, Reconciled
  <2>3. u \in Receivers => u \in Receivers'
    BY <1>1, <1>2, <2>1 DEF Receivers
  <2>4. ASSUME \A o \in Orders : OrderOf[o].owner # u
        PROVE  Got(info, u, s) = 0 /\ Spent(info, u, s) = 0
    <3>1. /\ { o \in Orders : OrderOf[o].owner = u /\ OrderOf[o].purchaseAsset = s } = {}
          /\ { o \in Orders : OrderOf[o].owner = u /\ OrderOf[o].payAsset = s } = {}
      BY <2>4
    <3>2. QED
      BY <3>1, SumEmpty DEF Got, Spent
  <2>5. QED
    BY <2>1, <2>2, <2>3, <2>4
<1>7. PendingSound'
  BY <1>1 DEF PendingSound, Idle
<1>8. QED
  BY <1>3, <1>4, <1>5, <1>6, <1>7 DEF MoneyInv, BooksSound

LEMMA SetMinFeeMoney ==
  ASSUME TypeOK, MoneyInv, NEW caller \in Users, NEW m \in MinFees,
         SetMinFee(caller, m.asset, m.fee)
  PROVE  MoneyInv'
<1>1. m.asset \in Assets /\ m.fee \in Nat
  BY ExchangeAssumption
<1>2. /\ minFee' = [minFee EXCEPT ![m.asset] = m.fee]
      /\ UNCHANGED <<state, feeReceiver, bal, info, net, match>> /\ Idle
  BY DEF SetMinFee, fillVars
<1>3. minFee' \in [Assets -> Nat]
  BY <1>1, <1>2 DEF MoneyInv, Started
<1>4. Started'
  BY <1>2, <1>3 DEF MoneyInv, Started, Idle
<1>5. BooksSound'
  BY <1>2, BooksStay DEF MoneyInv
<1>6. PendingSound'
  BY <1>2 DEF PendingSound, Idle
<1>7. QED
  BY <1>4, <1>5, <1>6 DEF MoneyInv

(* What a deposit or a withdrawal adds to a book it adds to the holdings.  *)
LEMMA BookAndHoldings ==
  ASSUME TypeOK, BooksSound, bal' \in Balances, info' = info, feeReceiver' = feeReceiver,
         NEW u \in Users, NEW a \in Assets, NEW d \in Int,
         Changed(bal, bal', u, a, d), net' = [net EXCEPT ![u][a] = @ + d]
  PROVE  /\ (\A s \in Assets : Booked(bal, s) = Held(s))'
         /\ Reconciled(bal, info)'
<1>1. /\ \A v \in Users, s \in Assets :
           /\ net[v][s] \in Int
           /\ net'[v][s] = net[v][s] + (IF v = u /\ s = a THEN d ELSE 0)
      /\ bal \in Balances
  BY DEF TypeOK
<1>2. ASSUME NEW s \in Assets
      PROVE  Booked(bal', s) = SumFunction([v \in Users |-> net'[v][s]])
  <2> DEFINE e == IF s = a THEN d ELSE 0
             n == [v \in Users |-> net[v][s]]
             m == [v \in Users |-> net'[v][s]]
  <2>1. Booked(bal', s) = Booked(bal, s) + e
    BY <1>1, ChangedBooked
  <2>2. n \in [Users -> Int] /\ e \in Int
    BY <1>1
  <2>3. Raised(n, m, u, e)
    BY <1>1 DEF Raised
  <2>4. SumFunction(m) = SumFunction(n) + e
    <3> HIDE DEF n, m, e
    <3>1. QED
      BY <2>2, <2>3, BooksAdd, ExchangeAssumption
  <2>5. Booked(bal, s) = SumFunction(n)
    BY DEF BooksSound, Held
  <2>6. QED
    BY <2>1, <2>4, <2>5
<1>3. (\A s \in Assets : Booked(bal, s) = Held(s))'
  BY <1>2 DEF Booked, Held, Line
<1>4. Reconciled(bal, info)'
  <2> SUFFICES ASSUME NEW v \in Users, NEW s \in Assets
               PROVE  /\ v \notin Receivers =>
                           AsBalance(bal'[v][s]) <= net'[v][s] + Got(info, v, s) - Spent(info, v, s)
                      /\ v \in Receivers /\ (\A o \in Orders : OrderOf[o].owner # v) =>
                           AsBalance(bal'[v][s]) >= net'[v][s] + Got(info, v, s) - Spent(info, v, s)
    BY DEF Reconciled, Got, Spent, Receivers
  <2>1. /\ v \notin Receivers =>
             AsBalance(bal[v][s]) <= net[v][s] + Got(info, v, s) - Spent(info, v, s)
        /\ v \in Receivers /\ (\A o \in Orders : OrderOf[o].owner # v) =>
             AsBalance(bal[v][s]) >= net[v][s] + Got(info, v, s) - Spent(info, v, s)
    BY DEF BooksSound, Reconciled
  <2>2. AsBalance(bal'[v][s]) = AsBalance(bal[v][s]) + (IF v = u /\ s = a THEN d ELSE 0)
    BY DEF Changed
  <2>3. /\ Got(info, v, s) \in Int /\ Spent(info, v, s) \in Int
        /\ AsBalance(bal[v][s]) \in Int /\ net[v][s] \in Int
    BY <1>1, TradedType, BookType DEF TypeOK
  <2>4. QED
    BY <1>1, <2>1, <2>2, <2>3
<1>5. QED
  BY <1>3, <1>4

LEMMA DepositMoney ==
  ASSUME TypeOK, MoneyInv, StepFits, NEW x \in Deposits, Deposit(x.user, x.asset, x.amount)
  PROVE  MoneyInv'
<1> DEFINE u == x.user
           a == x.asset
           d == x.amount
<1>1. u \in Users /\ a \in Assets /\ d \in Int
  BY ExchangeAssumption
<1>2. /\ Idle /\ state = "COMMON" /\ d > 0 /\ bal' = Moved(bal, u, a, d)
      /\ net' = [net EXCEPT ![u][a] = @ + d]
      /\ UNCHANGED <<state, feeReceiver, minFee, info, match>>
  BY DEF Deposit, Moved, config, fillVars
<1>3. Fits(AsBalance(bal[u][a]) + d)
  BY DEF StepFits
<1> HIDE DEF u, a, d
<1>4. bal \in Balances
  BY DEF TypeOK
<1>5. bal' \in Balances /\ Changed(bal, bal', u, a, d)
  BY <1>1, <1>2, <1>3, <1>4, MovedChanges
<1>6. BooksSound
  BY DEF MoneyInv
<1>7. /\ (\A s \in Assets : Booked(bal, s) = Held(s))'
      /\ Reconciled(bal, info)'
  BY <1>1, <1>2, <1>5, <1>6, BookAndHoldings
<1>8. Covered(bal)'
  <2>1. ASSUME NEW v \in Users, NEW s \in Assets
        PROVE  0 <= AsBalance(bal'[v][s]) /\ AsBalance(bal'[v][s]) < Half
    <3>1. AsBalance(bal'[v][s]) = AsBalance(bal[v][s]) + (IF v = u /\ s = a THEN d ELSE 0)
      BY <1>5 DEF Changed
    <3>2. /\ AsBalance(bal[v][s]) \in Int /\ 0 <= AsBalance(bal[v][s])
          /\ AsBalance(bal[v][s]) < Half
      BY <1>4, <1>6, BookType DEF BooksSound, Covered
    <3>3. QED
      BY <1>1, <1>2, <1>3, <3>1, <3>2, HalfPositive DEF Fits
  <2>2. QED
    BY <2>1 DEF Covered
<1>9. WithinLimits(info)'
  BY <1>2, <1>6 DEF BooksSound, WithinLimits
<1>10. Started'
  BY <1>2 DEF MoneyInv, Started
<1>11. PendingSound'
  BY <1>2 DEF PendingSound, Idle
<1>12. QED
  BY <1>7, <1>8, <1>9, <1>10, <1>11 DEF MoneyInv, BooksSound

LEMMA WithdrawMoney ==
  ASSUME TypeOK, MoneyInv, NEW x \in Withdrawals, Withdraw(x.user, x.asset, x.amount)
  PROVE  MoneyInv'
<1> DEFINE u == x.user
           a == x.asset
           n == x.amount
<1>1. u \in Users /\ a \in Assets /\ n \in Int
  BY ExchangeAssumption
<1>2. /\ Idle /\ state = "COMMON" /\ n > 0 /\ bal[u][a] # None /\ n <= bal[u][a]
      /\ bal' = [bal EXCEPT ![u][a] = IF @ = n THEN None ELSE @ - n]
      /\ net' = [net EXCEPT ![u][a] = @ - n]
      /\ UNCHANGED <<state, feeReceiver, minFee, info, match>>
  BY DEF Withdraw, config, fillVars
<1> HIDE DEF u, a, n
<1>3. bal \in Balances /\ net[u][a] \in Int
  BY <1>1 DEF TypeOK
<1>4. bal[u][a] \in Int /\ AsBalance(bal[u][a]) = bal[u][a]
  BY <1>1, <1>2, <1>3 DEF Balances, AsBalance
<1>5. bal' \in Balances
  BY <1>1, <1>2, <1>3, <1>4 DEF Balances
<1>6. Changed(bal, bal', u, a, - n)
  <2> SUFFICES ASSUME NEW v \in Users, NEW s \in Assets
               PROVE  AsBalance(bal'[v][s])
                        = AsBalance(bal[v][s]) + (IF v = u /\ s = a THEN - n ELSE 0)
    BY DEF Changed
  <2>1. CASE v = u /\ s = a
    <3>1. bal'[v][s] = IF bal[u][a] = n THEN None ELSE bal[u][a] - n
      BY <1>1, <1>2, <1>3, <2>1 DEF Balances
    <3>2. AsBalance(bal'[v][s]) = bal[u][a] - n
      BY <1>1, <1>4, <3>1, ExchangeAssumption DEF AsBalance
    <3>3. QED
      BY <1>1, <1>4, <2>1, <3>2
  <2>2. CASE ~ (v = u /\ s = a)
    <3>1. bal'[v][s] = bal[v][s]
      BY <1>1, <1>2, <1>3, <2>2 DEF Balances
    <3>2. QED
      BY <1>3, <2>2, <3>1, BookType
  <2>3. QED
    BY <2>1, <2>2
<1>7. BooksSound
  BY DEF MoneyInv
<1>8. - n \in Int /\ net' = [net EXCEPT ![u][a] = @ + (- n)]
  <2>1. net[u][a] + (- n) = net[u][a] - n
    BY <1>1, <1>3
  <2>2. net' = [net EXCEPT ![u][a] = net[u][a] + (- n)]
    BY <1>2, <2>1, Zenon
  <2>3. QED
    BY <1>1, <2>2
<1>9. /\ (\A s \in Assets : Booked(bal, s) = Held(s))'
      /\ Reconciled(bal, info)'
  BY <1>1, <1>2, <1>5, <1>6, <1>7, <1>8, BookAndHoldings
<1>10. Covered(bal)'
  <2>1. ASSUME NEW v \in Users, NEW s \in Assets
        PROVE  0 <= AsBalance(bal'[v][s]) /\ AsBalance(bal'[v][s]) < Half
    <3>1. AsBalance(bal'[v][s]) = AsBalance(bal[v][s]) + (IF v = u /\ s = a THEN - n ELSE 0)
      BY <1>6 DEF Changed
    <3>2. /\ AsBalance(bal[v][s]) \in Int /\ 0 <= AsBalance(bal[v][s])
          /\ AsBalance(bal[v][s]) < Half
      BY <1>3, <1>7, BookType DEF BooksSound, Covered
    <3>3. QED
      BY <1>1, <1>2, <1>4, <3>1, <3>2, HalfPositive
  <2>2. QED
    BY <2>1 DEF Covered
<1>11. WithinLimits(info)'
  BY <1>2, <1>7 DEF BooksSound, WithinLimits
<1>12. Started'
  BY <1>2 DEF MoneyInv, Started
<1>13. PendingSound'
  BY <1>2 DEF PendingSound, Idle
<1>14. QED
  BY <1>9, <1>10, <1>11, <1>12, <1>13 DEF MoneyInv, BooksSound

LEMMA CancelOrdersMoney ==
  ASSUME TypeOK, NothingUnfilled(info), MoneyInv, NEW caller \in Users,
         NEW orders \in SUBSET Orders, CancelOrders(caller, orders)
  PROVE  MoneyInv'
<1>1. /\ Idle /\ state = "COMMON"
      /\ UNCHANGED <<state, feeReceiver, minFee, bal, net, match>>
  BY DEF CancelOrders, config, fillVars
<1>2. \A o \in Orders :
        info'[o] = info[o] \/ (info[o].kind = "none" /\ info'[o] = Canceled)
  BY DEF CancelOrders, CanceledInfo
<1>3. \A o \in Orders : info'[o].got = info[o].got /\ info'[o].spent = info[o].spent
  BY <1>2 DEF NothingUnfilled, Canceled
<1>4. PICK i : i = info'
  OBVIOUS
<1>5. Reconciled(bal, info)'
  <2>1. \A u, s : Got(i, u, s) = Got(info, u, s) /\ Spent(i, u, s) = Spent(info, u, s)
    <3>1. \A o \in Orders : i[o].got = info[o].got /\ i[o].spent = info[o].spent
      BY <1>3, <1>4
    <3>2. QED
      BY <3>1, SameTrades
  <2>2. Reconciled(bal, i)
    BY <2>1 DEF MoneyInv, BooksSound, Reconciled
  <2>3. QED
    BY <1>1, <1>4, <2>2 DEF Reconciled, Got, Spent, Receivers
<1>6. WithinLimits(info)'
  BY <1>2 DEF MoneyInv, BooksSound, WithinLimits, Canceled
<1>7. Covered(bal)' /\ (\A s \in Assets : Booked(bal, s) = Held(s))'
  BY <1>1 DEF MoneyInv, BooksSound, Covered, Booked, Held, Line
<1>8. Started' /\ PendingSound'
  BY <1>1 DEF MoneyInv, Started, PendingSound, Idle
<1>9. QED
  BY <1>5, <1>6, <1>7, <1>8 DEF MoneyInv, BooksSound
LEMMA StartFillMoney ==
  ASSUME TypeOK, MoneyInv, NEW fills \in Matches, StartFill(fills)
  PROVE  MoneyInv'
<1>1. /\ Idle /\ state = "COMMON" /\ match' = fills /\ pos' = 1
      /\ pending' = [bal |-> bal, info |-> info]
      /\ UNCHANGED <<state, feeReceiver, minFee, bal, info, net>>
  BY DEF StartFill, config
<1>2. fills \in Seq(Fill)
  BY ExchangeAssumption
<1>3. Started' /\ BooksSound'
  <2>1. Started'
    BY <1>1 DEF MoneyInv, Started
  <2>2. BooksSound'
    BY <1>1, BooksStay DEF MoneyInv
  <2>3. QED
    BY <2>1, <2>2
<1>4. pending'.bal = bal' /\ pending'.info = info'
  BY <1>1
<1>5. Covered(pending.bal)' /\ WithinLimits(pending.info)' /\ Reconciled(pending.bal, pending.info)'
  BY <1>3, <1>4 DEF BooksSound, Covered, WithinLimits, Reconciled, Got, Spent
<1>6. (\A s \in Assets : Booked(pending.bal, s) = Held(s) + Gain(match, pos - 1, s))'
  <2> SUFFICES ASSUME NEW s \in Assets
               PROVE  Booked(bal', s) = Held(s)' + Gain(match', pos' - 1, s)
    BY <1>4 DEF Booked, Line, Gain, MakersGot, MakersSpent
  <2>1. Booked(bal', s) = Held(s)'
    BY <1>3 DEF BooksSound, Booked, Line
  <2>2. Gain(match', pos' - 1, s) = 0
    BY <1>1 DEF Gain
  <2>3. Booked(bal', s) \in Int
    BY <1>1, BookedType DEF TypeOK
  <2>4. QED
    BY <2>1, <2>2, <2>3
<1>7. pos' \in 1 .. Len(match') + 1
  BY <1>1, <1>2
<1>8. PendingSound'
  BY <1>1, <1>5, <1>6, <1>7 DEF PendingSound
<1>9. QED
  BY <1>3, <1>8 DEF MoneyInv

LEMMA CheckOrderMoney ==
  ASSUME TypeOK, pending \in [bal : Balances, info : Infos], NothingUnfilled(pending.info),
         MoneyInv, StepFits, CheckOrder
  PROVE  MoneyInv'
<1>1. ~ Idle /\ pos \in 1 .. Len(match) /\ match \in Seq(Fill)
  BY DEF CheckOrder, TypeOK, Idle
<1>2. PICK f \in Fill : f = match[pos]
  BY <1>1
<1>3. PICK p \in [bal : Balances, info : Infos] : p = pending
  OBVIOUS
<1>4. PICK c : c = FilledBal(p.bal, f)
  OBVIOUS
<1>5. PICK j : j = FilledInfo(p.info, f)
  OBVIOUS
<1>6. /\ Accepts(p, f) /\ FillFits(p, f)
      /\ pos > 1 => Opposite(match[1].order, f.order)
      /\ pending' = [bal |-> c, info |-> j] /\ pos' = pos + 1
      /\ UNCHANGED <<state, feeReceiver, minFee, bal, info, net, match>>
  BY <1>2, <1>3, <1>4, <1>5 DEF CheckOrder, StepFits, config
<1>7. /\ state = "COMMON" /\ minFee \in [Assets -> Nat] /\ feeReceiver \in Users
      /\ Covered(p.bal) /\ WithinLimits(p.info) /\ Reconciled(p.bal, p.info)
      /\ \A s \in Assets : Booked(p.bal, s) = Held(s) + Gain(match, pos - 1, s)
  BY <1>1, <1>3 DEF MoneyInv, Started, PendingSound
<1>8. FeeReceiverOf(f.order) \in Users
  <2>1. OrderOf[f.order] \in OrderInfo
    BY ExchangeAssumption DEF Fill
  <2>2. QED
    BY <1>7, <2>1 DEF OrderInfo, FeeReceiverOf
<1>9. /\ c \in Balances /\ Covered(c)
      /\ \A s \in Assets :
           Booked(c, s) = Booked(p.bal, s)
             + (IF s = OrderOf[f.order].purchaseAsset THEN f.getNum ELSE 0)
             - (IF s = OrderOf[f.order].payAsset THEN f.spentNum ELSE 0)
  BY <1>4, <1>6, <1>7, <1>8, FilledBooks
<1>10. WithinLimits(j)
  <2>1. Fits(p.info[f.order].got + f.getNum)
    BY <1>6 DEF FillFits
  <2>2. QED
    BY <1>3, <1>5, <1>6, <1>7, <2>1, FillKeepsLimits
<1>11. Reconciled(c, j)
  <2>1. net \in [Users -> [Assets -> Int]]
    BY DEF TypeOK
  <2>2. Reconciled(FilledBal(p.bal, f), FilledInfo(p.info, f))
    BY <1>6, <1>7, <1>8, <2>1, FillReconciles
  <2>3. QED
    BY <1>4, <1>5, <2>2
<1>12. pending'.bal = c /\ pending'.info = j
  BY <1>6
<1>13. Covered(pending.bal)' /\ WithinLimits(pending.info)' /\ Reconciled(pending.bal, pending.info)'
  <2>1. Covered(pending.bal)' /\ WithinLimits(pending.info)'
    BY <1>9, <1>10, <1>12 DEF Covered, WithinLimits
  <2>2. Reconciled(pending.bal, pending.info)'
    BY <1>6, <1>11, <1>12 DEF Reconciled, Got, Spent, Receivers
  <2>3. QED
    BY <2>1, <2>2
<1>14. (\A s \in Assets : Booked(pending.bal, s) = Held(s) + Gain(match, pos - 1, s))'
  <2> SUFFICES ASSUME NEW s \in Assets
               PROVE  Booked(c, s) = Held(s) + Gain(match, pos, s)
    <3>1. pos' - 1 = pos
      BY <1>1, <1>6
    <3>2. QED
      BY <1>6, <1>12, <3>1 DEF Booked, Line, Held, Gain, MakersGot, MakersSpent
  <2>1. pos \in 1 .. Len(match) /\ (pos > 1 => Opposite(match[1].order, match[pos].order))
    BY <1>1, <1>2, <1>6
  <2>2. /\ Gain(match, pos - 1, s) \in Int
        /\ Gain(match, pos, s) = Gain(match, pos - 1, s)
             + (IF s = OrderOf[f.order].purchaseAsset THEN f.getNum ELSE 0)
             - (IF s = OrderOf[f.order].payAsset THEN f.spentNum ELSE 0)
    BY <1>1, <1>2, <2>1, GainNext
  <2>3. Held(s) \in Int
    <3>1. [u \in Users |-> net[u][s]] \in [Users -> Int]
      BY DEF TypeOK
    <3>2. QED
      BY <3>1, BooksType, ExchangeAssumption DEF Held
  <2>4. Booked(p.bal, s) = Held(s) + Gain(match, pos - 1, s)
    BY <1>7
  <2>5. f.getNum \in Int /\ f.spentNum \in Int
    BY DEF Fill
  <2>6. QED
    BY <1>9, <2>2, <2>3, <2>4, <2>5
<1>15. pos' \in 1 .. Len(match') + 1
  BY <1>1, <1>6
<1>16. PendingSound'
  BY <1>6, <1>7, <1>13, <1>14, <1>15 DEF PendingSound
<1>17. Started'
  BY <1>6 DEF MoneyInv, Started, Idle
<1>18. BooksSound'
  BY <1>6, BooksStay DEF MoneyInv
<1>19. QED
  BY <1>16, <1>17, <1>18 DEF MoneyInv

LEMMA EndFillMoney ==
  ASSUME TypeOK, MoneyInv, StepFits, EndFill
  PROVE  MoneyInv'
<1>1. /\ ~ Idle /\ pos > Len(match) /\ TotalsAgree(match)
      /\ bal' = pending.bal /\ info' = pending.info /\ match' = <<>>
      /\ UNCHANGED <<state, feeReceiver, minFee, net>>
  BY DEF EndFill, config
<1>2. Fits(TotalGot(match)) /\ Fits(TotalSpent(match)) /\ match \in Seq(Fill) /\ match # <<>>
  BY <1>1 DEF StepFits, TypeOK, Idle
<1>3. /\ state = "COMMON" /\ pos \in 1 .. Len(match) + 1
      /\ Covered(pending.bal) /\ WithinLimits(pending.info)
      /\ Reconciled(pending.bal, pending.info)
      /\ \A s \in Assets : Booked(pending.bal, s) = Held(s) + Gain(match, pos - 1, s)
  BY <1>1 DEF MoneyInv, PendingSound
<1>4. pos - 1 = Len(match)
  BY <1>1, <1>2, <1>3
<1>5. \A s \in Assets : Booked(pending.bal, s) = Held(s)
  <2>1. ASSUME NEW s \in Assets PROVE Held(s) \in Int
    <3>1. [u \in Users |-> net[u][s]] \in [Users -> Int]
      BY DEF TypeOK
    <3>2. QED
      BY <3>1, BooksType, ExchangeAssumption DEF Held
  <2>2. QED
    BY <1>1, <1>2, <1>3, <1>4, <2>1, GainOfAgreed
<1>6. Covered(bal)' /\ WithinLimits(info)'
  BY <1>1, <1>3 DEF Covered, WithinLimits
<1>7. Reconciled(bal, info)'
  BY <1>1, <1>3 DEF Reconciled, Got, Spent, Receivers
<1>8. (\A s \in Assets : Booked(bal, s) = Held(s))'
  BY <1>1, <1>5 DEF Booked, Line, Held
<1>9. Started' /\ PendingSound'
  BY <1>1, <1>3 DEF MoneyInv, Started, PendingSound, Idle
<1>10. QED
  BY <1>6, <1>7, <1>8, <1>9 DEF MoneyInv, BooksSound

LEMMA MoneyInvInductive ==
  ASSUME ExchangeInv, MoneyInv, [Next]_vars, [StepFits]_vars
  PROVE  MoneyInv'
<1>1. /\ TypeOK /\ NothingUnfilled(info)
      /\ ~ Idle => pending \in [bal : Balances, info : Infos] /\ NothingUnfilled(pending.info)
  BY DEF ExchangeInv
<1>2. CASE UNCHANGED vars
  <2>1. UNCHANGED <<state, feeReceiver, minFee, bal, info, net, match, pos, pending>>
    BY <1>2 DEF vars, config, fillVars
  <2>2. Started' /\ BooksSound'
    <3>1. Started'
      BY <2>1 DEF MoneyInv, Started, Idle
    <3>2. BooksSound'
      BY <2>1, BooksStay DEF MoneyInv
    <3>3. QED
      BY <3>1, <3>2
  <2>3. PendingSound'
    BY <2>1 DEF MoneyInv, PendingSound, Idle, Covered, WithinLimits, Reconciled, Got, Spent,
       Receivers, Booked, Line, Held, Gain, MakersGot, MakersSpent
  <2>4. QED
    BY <2>2, <2>3 DEF MoneyInv
<1> SUFFICES ASSUME Next, StepFits
             PROVE  MoneyInv'
  BY <1>2
<1>3. ASSUME NEW caller \in Users, NEW receiver \in FeeReceivers, InitConfig(caller, receiver)
      PROVE  MoneyInv'
  BY <1>1, <1>3, InitConfigMoney
<1>4. ASSUME NEW caller \in Users, NEW m \in MinFees, SetMinFee(caller, m.asset, m.fee)
      PROVE  MoneyInv'
  BY <1>1, <1>4, SetMinFeeMoney
<1>5. ASSUME NEW d \in Deposits, Deposit(d.user, d.asset, d.amount)
      PROVE  MoneyInv'
  BY <1>1, <1>5, DepositMoney
<1>6. ASSUME NEW w \in Withdrawals, Withdraw(w.user, w.asset, w.amount)
      PROVE  MoneyInv'
  BY <1>1, <1>6, WithdrawMoney
<1>7. ASSUME NEW caller \in Users, NEW orders \in SUBSET Orders, CancelOrders(caller, orders)
      PROVE  MoneyInv'
  BY <1>1, <1>7, CancelOrdersMoney
<1>8. ASSUME Tick
      PROVE  MoneyInv'
  <2>1. UNCHANGED <<state, feeReceiver, minFee, bal, info, net, match>> /\ Idle
    BY <1>8 DEF Tick, config, fillVars
  <2>2. BooksSound'
    BY <2>1, BooksStay DEF MoneyInv
  <2>3. QED
    BY <2>1, <2>2 DEF MoneyInv, Started, PendingSound, Idle
<1>9. ASSUME NEW fills \in Matches, StartFill(fills)
      PROVE  MoneyInv'
  BY <1>1, <1>9, StartFillMoney
<1>10. CASE CheckOrder
  <2>1. ~ Idle
    BY <1>1, <1>10 DEF CheckOrder, TypeOK, Idle
  <2>2. QED
    BY <1>1, <1>10, <2>1, CheckOrderMoney
<1>11. CASE EndFill
  BY <1>1, <1>11, EndFillMoney
<1>12. CASE FillThrows
  <2>1. UNCHANGED <<state, feeReceiver, minFee, bal, info, net>> /\ ~ Idle /\ match' = <<>>
    BY <1>12 DEF FillThrows, config
  <2>2. BooksSound'
    BY <2>1, BooksStay DEF MoneyInv
  <2>3. state # "NOT_INITED"
    BY <2>1 DEF MoneyInv, Started
  <2>4. Started' /\ PendingSound'
    BY <2>1, <2>3 DEF MoneyInv, Started, PendingSound, Idle
  <2>5. QED
    BY <2>2, <2>4 DEF MoneyInv
<1>13. QED
  BY <1>3, <1>4, <1>5, <1>6, <1>7, <1>8, <1>9, <1>10, <1>11, <1>12 DEF Next

LEMMA MoneyInvHolds == Spec /\ NoOverflow => []MoneyInv
<1>1. ExchangeInv /\ MoneyInv /\ [Next]_vars /\ [StepFits]_vars => MoneyInv'
  BY MoneyInvInductive
<1>2. QED
  BY <1>1, MoneyInvInit, ExchangeInvHolds, PTL DEF Spec, NoOverflow

----------------------------------------------------------------------------
(* Whoever trades with whom, and wherever a match fails, the books add up  *)
(* to what the contract holds.                                             *)
THEOREM ExchangeSolvency == Spec /\ NoOverflow => []Solvency
<1>1. MoneyInv => Solvency
  BY DEF MoneyInv, BooksSound, Solvency, Booked, Held, Line
<1>2. QED
  BY <1>1, MoneyInvHolds, PTL

(* No book goes below zero, and over any number of partial fills no order  *)
(* spends more than was signed or trades below its price.                  *)
THEOREM ExchangeSpendingCovered == Spec /\ NoOverflow => []SpendingCovered
<1>1. MoneyInv => SpendingCovered
  BY DEF MoneyInv, BooksSound, Covered, WithinLimits, SpendingCovered, NoOverdraft, OrderLimits
<1>2. QED
  BY <1>1, MoneyInvHolds, PTL

(* A user's book is what it deposited, withdrew and traded, but for fees.  *)
THEOREM ExchangeBooksReconcile == Spec /\ NoOverflow => []BooksReconcile
<1>1. MoneyInv => BooksReconcile
  BY DEF MoneyInv, BooksSound, BooksReconcile
<1>2. QED
  BY <1>1, MoneyInvHolds, PTL

----------------------------------------------------------------------------
(* Amounts under which nothing overflows.                                  *)

(* A sum whose terms are at most those of another one.                     *)
LEMMA SumAtMost ==
  ASSUME NEW S, IsFiniteSet(S), NEW g, NEW h,
         \A x \in S : g[x] \in Int /\ h[x] \in Int /\ g[x] <= h[x]
  PROVE  SumFunctionOnSet(g, S) <= SumFunctionOnSet(h, S)
<1> DEFINE d == [x \in S |-> h[x] - g[x]]
<1>1. \A x \in S : d[x] \in Nat /\ h[x] = g[x] + d[x]
  OBVIOUS
<1> HIDE DEF d
<1>2. SumFunctionOnSet(d, S) \in Nat
  BY <1>1, SumNat
<1>3. SumFunctionOnSet(h, S) = SumFunctionOnSet(g, S) + SumFunctionOnSet(d, S)
  <2>1. \A x \in S : g[x] \in Int /\ d[x] \in Int /\ h[x] = g[x] + d[x]
    BY <1>1
  <2>2. QED
    BY <2>1, SumBoth
<1>4. SumFunctionOnSet(g, S) \in Int
  BY SumType
<1>5. QED
  BY <1>2, <1>3, <1>4

(* What all orders got and spent in an asset, and what they offer.         *)
Buyers(s)  == { o \in Orders : OrderOf[o].purchaseAsset = s }
Sellers(s) == { o \in Orders : OrderOf[o].payAsset = s }
AllGot(i, s)   == SumFunctionOnSet([o \in Orders |-> i[o].got], Buyers(s))
AllSpent(i, s) == SumFunctionOnSet([o \in Orders |-> i[o].spent], Sellers(s))
Offered(o) == IF OrderOf[o].payNum > 0 THEN OrderOf[o].payNum ELSE 0
Signed(s)  == SumFunctionOnSet([o \in Orders |-> Offered(o)], Sellers(s))
(* The most that users can have deposited in an asset.                     *)
Capital    == SumFunction([u \in Users |-> MaxNet])

(* No order, fill or minimal fee is about more than `most', and what is    *)
(* deposited or signed for in an asset, with the fills of one match, is    *)
(* less than 2^63.                                                         *)
Modest(most) ==
  /\ MaxNet \in Nat /\ Capital < Half /\ most + most < Half
  /\ \A o \in Orders : OrderOf[o].payNum <= most
  /\ \A m \in MinFees : m.fee <= most
  /\ \A fills \in Matches :
       /\ \A i \in 1 .. Len(fills) : fills[i].getNum <= most
       /\ Capital + Len(fills) * most < Half
       /\ \A s \in Assets : Signed(s) + Len(fills) * most < Half

(* An order without an open fill has spent and got nothing.                *)
FairTrades(i) ==
  \A o \in Orders : i[o].got >= 0 /\ (i[o].kind # "open" => i[o].spent = 0 /\ i[o].got = 0)

(* A call whose first n fills of these fills made b of the books and i of  *)
(* the orders.                                                             *)
FillsModest(most, fills, n, b, i) ==
  /\ FairTrades(i)
  /\ MakersGot(fills, n) \in 0 .. n * most
  /\ MakersSpent(fills, n) \in 0 .. n * most
  /\ \A s \in Assets :
       /\ AllGot(i, s) = AllSpent(i, s) + Gain(fills, n, s)
       /\ AllGot(i, s) <= Signed(s) + n * most
       /\ Booked(b, s) <= Capital + n * most

HoldingsModest(most) ==
  /\ \A u \in Users, s \in Assets : net[u][s] <= MaxNet
  /\ \A s \in Assets : minFee[s] <= most
TradesModest ==
  /\ FairTrades(info)
  /\ \A s \in Assets : AllGot(info, s) = AllSpent(info, s)
PendingModest(most) ==
  ~ Idle => match \in Matches /\ FillsModest(most, match, pos - 1, pending.bal, pending.info)

ModestInv(most) == HoldingsModest(most) /\ TradesModest /\ PendingModest(most)

LEMMA Multiples ==
  ASSUME NEW n \in Nat, NEW m \in Nat, NEW k \in Nat, n <= k
  PROVE  /\ n * m \in Nat /\ k * m \in Nat /\ (n + 1) * m = n * m + m
         /\ n * m <= k * m /\ 0 * m = 0
OBVIOUS

LEMMA TradesType ==
  ASSUME NEW i \in Infos, NEW s
  PROVE  /\ AllGot(i, s) \in Int /\ AllSpent(i, s) \in Int /\ Signed(s) \in Int
         /\ IsFiniteSet(Buyers(s)) /\ IsFiniteSet(Sellers(s))
         /\ Buyers(s) \subseteq Orders /\ Sellers(s) \subseteq Orders
         /\ \A o \in Orders : i[o].got \in Int /\ i[o].spent \in Int /\ Offered(o) \in Nat
                              /\ OrderOf[o].payNum \in Int
<1>1. \A o \in Orders : i[o].got \in Int /\ i[o].spent \in Int
  BY DEF Infos, Stored
<1>2. \A o \in Orders : OrderOf[o].payNum \in Int
  BY ExchangeAssumption DEF OrderInfo
<1>3. \A o \in Orders : Offered(o) \in Nat
  BY <1>2 DEF Offered
<1>4. IsFiniteSet(Buyers(s)) /\ IsFiniteSet(Sellers(s)) /\ Buyers(s) \subseteq Orders /\ Sellers(s) \subseteq Orders
  BY ExchangeAssumption, FS_Subset DEF Buyers, Sellers
<1>5. SumFunctionOnSet([o \in Orders |-> i[o].got], Buyers(s)) \in Int
  BY <1>1, <1>4, SumType
<1>6. SumFunctionOnSet([o \in Orders |-> i[o].spent], Sellers(s)) \in Int
  BY <1>1, <1>4, SumType
<1>7. SumFunctionOnSet([o \in Orders |-> Offered(o)], Sellers(s)) \in Int
  BY <1>3, <1>4, SumType
<1>8. QED
  BY <1>1, <1>2, <1>3, <1>4, <1>5, <1>6, <1>7 DEF AllGot, AllSpent, Signed

(* Orders within their limits spend no more than is signed for.            *)
LEMMA SpentSigned ==
  ASSUME NEW i \in Infos, FairTrades(i), WithinLimits(i), NEW s
  PROVE  AllSpent(i, s) <= Signed(s)
<1>1. ASSUME NEW o \in Sellers(s) PROVE i[o].spent \in Int /\ Offered(o) \in Int /\ i[o].spent <= Offered(o)
  <2>1. /\ o \in Orders /\ i[o].spent \in Int /\ Offered(o) \in Nat /\ OrderOf[o].payNum \in Int
    BY TradesType
  <2>2. i[o].kind = "open" => i[o].spent <= OrderOf[o].payNum
    BY <2>1 DEF WithinLimits
  <2>3. i[o].kind # "open" => i[o].spent = 0
    BY <2>1 DEF FairTrades
  <2>4. QED
    BY <2>1, <2>2, <2>3 DEF Offered
<1> DEFINE g == [o \in Orders |-> i[o].spent]
           h == [o \in Orders |-> Offered(o)]
<1>2. \A o \in Sellers(s) : g[o] \in Int /\ h[o] \in Int /\ g[o] <= h[o]
  BY <1>1, TradesType
<1> HIDE DEF g, h
<1>3. SumFunctionOnSet(g, Sellers(s)) <= SumFunctionOnSet(h, Sellers(s))
  BY <1>2, TradesType, SumAtMost
<1>4. QED
  BY <1>3 DEF AllSpent, Signed, g, h

(* No order got more than all orders that buy the asset did.               *)
LEMMA GotAtMost ==
  ASSUME NEW i \in Infos, FairTrades(i), NEW o \in Orders
  PROVE  i[o].got <= AllGot(i, OrderOf[o].purchaseAsset)
<1> DEFINE g == [x \in Orders |-> i[x].got]
           B == Buyers(OrderOf[o].purchaseAsset)
<1>1. IsFiniteSet(B) /\ o \in B /\ \A x \in B : g[x] \in Nat
  <2>1. \A x \in Orders : i[x].got \in Nat
    BY TradesType DEF FairTrades
  <2>2. QED
    BY <2>1, TradesType DEF Buyers
<1>2. g[o] = i[o].got
  OBVIOUS
<1>2a. AllGot(i, OrderOf[o].purchaseAsset) = SumFunctionOnSet(g, B)
  BY DEF AllGot
<1> HIDE DEF g, B
<1>3. SumFunctionOnSet(g, B) = g[o] + SumFunctionOnSet(g, B \ {o})
  BY <1>1, SumRemove
<1>4. SumFunctionOnSet(g, B \ {o}) \in Nat
  BY <1>1, SumNat, FS_Subset
<1>5. QED
  BY <1>1, <1>2, <1>2a, <1>3, <1>4

(* A book holds no more than all books in the asset do.                    *)
LEMMA BookAtMost ==
  ASSUME NEW b \in Balances, Covered(b), NEW u \in Users, NEW s \in Assets
  PROVE  AsBalance(b[u][s]) <= Booked(b, s)
<1>1. Line(b, s) \in [Users -> Nat] /\ Line(b, s)[u] = AsBalance(b[u][s])
  BY BookType DEF Line, Covered
<1>2. QED
  BY <1>1, BooksMember, ExchangeAssumption DEF Booked

LEMMA HeldAtMost ==
  ASSUME TypeOK, MaxNet \in Nat, NEW s \in Assets, \A u \in Users : net[u][s] <= MaxNet
  PROVE  Held(s) \in Int /\ Capital \in Nat /\ Held(s) <= Capital
<1> DEFINE g == [u \in Users |-> net[u][s]]
           h == [u \in Users |-> MaxNet]
<1>1. \A u \in Users : g[u] \in Int /\ h[u] \in Nat /\ g[u] <= h[u]
  BY DEF TypeOK
<1>2. DOMAIN g = Users /\ DOMAIN h = Users /\ IsFiniteSet(Users)
  BY ExchangeAssumption
<1>3. Held(s) = SumFunction(g) /\ Capital = SumFunction(h)
  BY DEF Held, Capital
<1> HIDE DEF g, h
<1>4. SumFunctionOnSet(g, Users) <= SumFunctionOnSet(h, Users)
  BY <1>1, <1>2, SumAtMost
<1>5. SumFunctionOnSet(g, Users) \in Int /\ SumFunctionOnSet(h, Users) \in Nat
  BY <1>1, <1>2, SumType, SumNat
<1>6. QED
  BY <1>2, <1>3, <1>4, <1>5 DEF SumFunction

(* Then no addition of an accepted fill overflows.                         *)
LEMMA FillStaysSmall ==
  ASSUME NEW most \in Nat, Modest(most), NEW fills \in Matches, NEW n \in Nat, n + 1 \in 1 .. Len(fills),
         NEW f \in Fill, f = fills[n + 1], NEW p \in [bal : Balances, info : Infos],
         FillsModest(most, fills, n, p.bal, p.info), Accepts(p, f), Covered(p.bal),
         minFee \in [Assets -> Nat], \A s \in Assets : minFee[s] <= most,
         FeeReceiverOf(f.order) \in Users
  PROVE  FillFits(p, f)
<1> DEFINE o    == OrderOf[f.order]
           r    == FeeReceiverOf(f.order)
           fee  == FeeOf(f)
           b    == p.bal
           paid == Moved(b, o.owner, o.payAsset, - (f.spentNum + fee))
           got  == Moved(paid, o.owner, o.purchaseAsset, f.getNum)
<1>1. /\ f.order \in Orders /\ f.spentNum \in Int /\ f.getNum \in Int /\ fee \in Nat
      /\ o.owner \in Users /\ o.payAsset \in Assets /\ o.purchaseAsset \in Assets
      /\ b \in Balances /\ p.info \in Infos /\ r \in Users
  BY FillTypes
<1>2. /\ 0 < f.spentNum /\ f.spentNum <= most /\ 0 < f.getNum /\ f.getNum <= most
  <2>1. o.payNum \in Int /\ o.payNum <= most
    BY <1>1, TradesType DEF Modest
  <2>2. 0 < f.spentNum /\ f.spentNum <= o.payNum /\ 0 < f.getNum
    BY DEF Accepts
  <2>3. f.getNum <= most
    BY DEF Modest
  <2>4. QED
    BY <1>1, <2>1, <2>2, <2>3
<1>3. fee <= most
  <2>1. PromisedFee(f) \in Int
    <3>1. OrderOf[f.order] \in OrderInfo /\ FeeUnit \in Nat \ {0}
      BY <1>1, ExchangeAssumption
    <3>2. f.spentNum * OrderOf[f.order].fee \in Int
      BY <1>1, <3>1 DEF OrderInfo
    <3>3. QED
      BY <3>1, <3>2 DEF PromisedFee
  <2>2. minFee[o.payAsset] \in Nat /\ minFee[o.payAsset] <= most
    BY <1>1
  <2>3. PromisedFee(f) < minFee[o.payAsset] \/ PromisedFee(f) < f.spentNum
    BY DEF Accepts
  <2>4. QED
    BY <1>1, <1>2, <2>1, <2>2, <2>3 DEF FeeOf
<1>4. PICK k \in Nat : k = n * most /\ Capital + k + most < Half
        /\ (\A s \in Assets : Signed(s) + k + most < Half) /\ Capital \in Int
  <2>1. Len(fills) \in Nat /\ n + 1 <= Len(fills) /\ fills \in Seq(Fill)
    BY ExchangeAssumption
  <2>2. n * most \in Nat /\ (n + 1) * most = n * most + most
    BY Multiples
  <2>3. (n + 1) * most <= Len(fills) * most /\ Len(fills) * most \in Nat
    <3>1. n + 1 \in Nat
      OBVIOUS
    <3>2. QED
      BY <2>1, <3>1, Multiples
  <2>4. Capital \in Int
    <3>1. [u \in Users |-> MaxNet] \in [Users -> Int]
      BY DEF Modest
    <3>2. QED
      BY <3>1, BooksType, ExchangeAssumption DEF Capital
  <2>5. Half \in Nat /\ \A s : Signed(s) \in Int
    BY <1>1, HalfPositive, TradesType
  <2>6. Capital + Len(fills) * most < Half /\ \A s \in Assets : Signed(s) + Len(fills) * most < Half
    BY DEF Modest
  <2>7. QED
    BY <2>2, <2>3, <2>4, <2>5, <2>6
<1>5. Half \in Nat /\ most + most < Half
  BY HalfPositive DEF Modest
<1>6. Fits(f.spentNum + fee)
  BY <1>1, <1>2, <1>3, <1>5 DEF Fits
<1>7. /\ AsBalance(b[o.owner][o.payAsset]) \in Int
      /\ f.spentNum + fee <= AsBalance(b[o.owner][o.payAsset])
      /\ AsBalance(b[o.owner][o.payAsset]) < Half
  <2>1. b[o.owner][o.payAsset] # None /\ b[o.owner][o.payAsset] >= Wrap(f.spentNum + fee)
    BY DEF Accepts
  <2>2. Wrap(f.spentNum + fee) = f.spentNum + fee
    BY <1>1, <1>6, WrapFits
  <2>3. AsBalance(b[o.owner][o.payAsset]) = b[o.owner][o.payAsset]
    BY <2>1 DEF AsBalance
  <2>4. QED
    BY <1>1, <2>1, <2>2, <2>3, BookType DEF Covered
<1>8. \A s \in Assets : Booked(b, s) \in Int /\ Booked(b, s) <= Capital + k
  BY <1>1, <1>4, BookedType DEF FillsModest
<1>9. /\ paid \in Balances
      /\ Changed(b, paid, o.owner, o.payAsset, - (f.spentNum + fee))
  <2>1. Fits(AsBalance(b[o.owner][o.payAsset]) + - (f.spentNum + fee))
    <3> HIDE DEF o, r, fee, b, paid, got
    <3>1. PICK x \in Int, y \in Nat : x = AsBalance(b[o.owner][o.payAsset]) /\ y = f.spentNum + fee
      BY <1>1, <1>2, <1>7
    <3>2. y <= x /\ x < Half
      BY <1>7, <3>1
    <3>3. Fits(x + - y)
      BY <1>5, <3>1, <3>2 DEF Fits
    <3>4. QED
      BY <3>1, <3>3
  <2>2. - (f.spentNum + fee) \in Int
    BY <1>1
  <2> HIDE DEF o, fee, b
  <2>3. QED
    BY <1>1, <2>1, <2>2, MovedChanges DEF paid
<1>10. Covered(paid)
  <2> SUFFICES ASSUME NEW u \in Users, NEW s \in Assets
               PROVE  0 <= AsBalance(paid[u][s]) /\ AsBalance(paid[u][s]) < Half
    BY DEF Covered
  <2>1. AsBalance(paid[u][s]) = AsBalance(b[u][s])
          + (IF u = o.owner /\ s = o.payAsset THEN - (f.spentNum + fee) ELSE 0)
    BY <1>9 DEF Changed
  <2>2. AsBalance(b[u][s]) \in Int /\ 0 <= AsBalance(b[u][s]) /\ AsBalance(b[u][s]) < Half
    BY <1>1, BookType DEF Covered
  <2> HIDE DEF o, r, fee, b, paid, got
  <2>3. CASE u = o.owner /\ s = o.payAsset
    BY <1>1, <1>2, <1>5, <1>7, <2>1, <2>2, <2>3
  <2>4. CASE ~ (u = o.owner /\ s = o.payAsset)
    BY <2>1, <2>2, <2>4
  <2>5. QED
    BY <2>3, <2>4
<1>11. \A s \in Assets : /\ Booked(paid, s) \in Int
                         /\ Booked(paid, s) = Booked(b, s) - (IF s = o.payAsset THEN f.spentNum + fee ELSE 0)
  <2> SUFFICES ASSUME NEW s \in Assets
               PROVE  /\ Booked(paid, s) \in Int
                      /\ Booked(paid, s) = Booked(b, s) - (IF s = o.payAsset THEN f.spentNum + fee ELSE 0)
    OBVIOUS
  <2>1. - (f.spentNum + fee) \in Int
    BY <1>1
  <2> HIDE DEF o, fee, b, paid
  <2>2. Booked(paid, s) = Booked(b, s) + (IF s = o.payAsset THEN - (f.spentNum + fee) ELSE 0)
    BY <1>1, <1>9, <2>1, ChangedBooked
  <2>3. QED
    BY <1>1, <1>8, <2>2
<1>12. Fits(AsBalance(paid[o.owner][o.purchaseAsset]) + f.getNum)
  <2>1. AsBalance(paid[o.owner][o.purchaseAsset]) <= Booked(paid, o.purchaseAsset)
        /\ AsBalance(paid[o.owner][o.purchaseAsset]) \in Int
        /\ 0 <= AsBalance(paid[o.owner][o.purchaseAsset])
    BY <1>1, <1>9, <1>10, BookAtMost, BookType DEF Covered
  <2>2. Booked(paid, o.purchaseAsset) <= Booked(b, o.purchaseAsset)
    <3> HIDE DEF o, r, fee, b, paid, got
    <3>1. CASE o.purchaseAsset = o.payAsset
      BY <1>1, <1>2, <1>8, <1>11, <3>1
    <3>2. CASE o.purchaseAsset # o.payAsset
      BY <1>1, <1>8, <1>11, <3>2
    <3>3. QED
      BY <3>1, <3>2
  <2> HIDE DEF o, r, fee, b, paid, got
  <2>3. PICK x \in Int, y \in Int, z \in Int :
          /\ x = AsBalance(paid[o.owner][o.purchaseAsset]) /\ y = Booked(paid, o.purchaseAsset)
          /\ z = Booked(b, o.purchaseAsset)
    BY <1>1, <1>8, <1>11, <2>1
  <2>4. 0 <= x /\ x <= y /\ y <= z /\ z <= Capital + k
    BY <1>1, <1>8, <2>1, <2>2, <2>3
  <2>5. Fits(x + f.getNum)
    <3>1. PICK g \in Int, j \in Int, m \in Int, w \in Int, a \in Int :
            g = f.getNum /\ j = k /\ m = most /\ w = Half /\ a = Capital
      BY <1>1, <1>4, <1>5
    <3>2. 0 <= x /\ x <= y /\ y <= z /\ z <= a + j /\ a + j + m < w /\ g <= m /\ 0 < g
      BY <1>2, <1>4, <2>4, <3>1
    <3>3. 0 <= x + g /\ x + g < w
      BY <3>2
    <3>4. Fits(x + g)
      BY <1>5, <3>1, <3>3 DEF Fits
    <3>5. QED
      BY <3>1, <3>4
  <2>6. QED
    BY <2>3, <2>5
<1>13. got \in Balances /\ Changed(paid, got, o.owner, o.purchaseAsset, f.getNum)
  <2> HIDE DEF o, paid
  <2>1. QED
    BY <1>1, <1>9, <1>12, MovedChanges DEF got
<1>14. Covered(got)
  <2> SUFFICES ASSUME NEW u \in Users, NEW s \in Assets
               PROVE  0 <= AsBalance(got[u][s]) /\ AsBalance(got[u][s]) < Half
    BY DEF Covered
  <2>1. AsBalance(got[u][s]) = AsBalance(paid[u][s])
          + (IF u = o.owner /\ s = o.purchaseAsset THEN f.getNum ELSE 0)
    BY <1>13 DEF Changed
  <2>2. AsBalance(paid[u][s]) \in Int /\ 0 <= AsBalance(paid[u][s]) /\ AsBalance(paid[u][s]) < Half
    BY <1>9, <1>10, BookType DEF Covered
  <2> HIDE DEF o, r, fee, b, paid, got
  <2>3. CASE u = o.owner /\ s = o.purchaseAsset
    <3>1. PICK x \in Int : x = AsBalance(paid[o.owner][o.purchaseAsset])
      BY <2>2, <2>3
    <3>2. 0 <= x /\ x + f.getNum < Half
      BY <1>12, <2>2, <2>3, <3>1 DEF Fits
    <3>3. QED
      BY <1>1, <1>2, <2>1, <2>3, <3>1, <3>2
  <2>4. CASE ~ (u = o.owner /\ s = o.purchaseAsset)
    BY <2>1, <2>2, <2>4
  <2>5. QED
    BY <2>3, <2>4
<1>15. Fits(AsBalance(got[r][o.payAsset]) + fee)
  <2>1. /\ AsBalance(got[r][o.payAsset]) <= Booked(got, o.payAsset)
        /\ AsBalance(got[r][o.payAsset]) \in Int /\ 0 <= AsBalance(got[r][o.payAsset])
    BY <1>1, <1>13, <1>14, BookAtMost, BookType DEF Covered
  <2>2. Booked(got, o.payAsset) = Booked(paid, o.payAsset)
          + (IF o.payAsset = o.purchaseAsset THEN f.getNum ELSE 0)
    <3> HIDE DEF o, paid, got
    <3>1. QED
      BY <1>1, <1>9, <1>13, ChangedBooked
  <2>3. Booked(paid, o.payAsset) = Booked(b, o.payAsset) - (f.spentNum + fee)
    BY <1>1, <1>11
  <2> HIDE DEF o, r, fee, b, paid, got
  <2>4. PICK x \in Int, y \in Int, z \in Int :
          /\ x = AsBalance(got[r][o.payAsset]) /\ y = Booked(got, o.payAsset)
          /\ z = Booked(b, o.payAsset)
    BY <1>1, <1>8, <1>13, <2>1, BookedType
  <2>5. y <= z - (f.spentNum + fee) + f.getNum
    <3>1. CASE o.payAsset = o.purchaseAsset
      BY <1>1, <2>2, <2>3, <2>4, <3>1
    <3>2. CASE o.payAsset # o.purchaseAsset
      BY <1>1, <1>2, <2>2, <2>3, <2>4, <3>2
    <3>3. QED
      BY <3>1, <3>2
  <2>6. 0 <= x /\ x <= y /\ z <= Capital + k
    BY <1>1, <1>8, <2>1, <2>4
  <2>7. Fits(x + fee)
    <3>1. PICK g \in Int, h \in Int, e \in Int :
            g = f.getNum /\ h = f.spentNum /\ e = fee /\ 0 < g /\ g <= most /\ 0 < h /\ 0 <= e
      BY <1>1, <1>2
    <3>2. y <= z - (h + e) + g
      BY <2>5, <3>1
    <3>3. PICK j \in Int, m \in Int, w \in Int, a \in Int : j = k /\ m = most /\ w = Half /\ a = Capital
      BY <1>4, <1>5
    <3>4. 0 <= x /\ x <= y /\ z <= a + j /\ a + j + m < w /\ g <= m
      BY <1>4, <2>6, <3>1, <3>3
    <3>5. 0 <= x + e /\ x + e < w
      <4>1. 0 < h /\ 0 <= e
        BY <3>1
      <4>2. QED
        BY <3>2, <3>4, <4>1
    <3>6. Fits(x + e)
      BY <1>5, <3>3, <3>5 DEF Fits
    <3>7. QED
      BY <3>1, <3>6
  <2>8. QED
    BY <2>4, <2>7
<1>16. Fits(p.info[f.order].got + f.getNum)
  <2>1. p.info[f.order].got <= AllGot(p.info, o.purchaseAsset) /\ 0 <= p.info[f.order].got
    BY <1>1, GotAtMost DEF FillsModest, FairTrades
  <2>2. AllGot(p.info, o.purchaseAsset) <= Signed(o.purchaseAsset) + k
    BY <1>1, <1>4 DEF FillsModest
  <2>3. p.info[f.order].got \in Int /\ AllGot(p.info, o.purchaseAsset) \in Int /\ Signed(o.purchaseAsset) \in Int
    BY <1>1, TradesType
  <2> HIDE DEF o, r, fee, b, paid, got
  <2>4. PICK x \in Int, y \in Int, z \in Int :
          x = p.info[f.order].got /\ y = AllGot(p.info, o.purchaseAsset) /\ z = Signed(o.purchaseAsset)
    BY <2>3
  <2>5. 0 <= x /\ x <= y /\ y <= z + k /\ z + k + most < Half
    BY <1>1, <1>4, <2>1, <2>2, <2>4
  <2>6. Fits(x + f.getNum)
    <3>1. PICK g \in Int : g = f.getNum /\ 0 < g /\ g <= most
      BY <1>1, <1>2
    <3>2. PICK j \in Int, m \in Int, w \in Int : j = k /\ m = most /\ w = Half
      BY <1>4, <1>5
    <3>3. 0 <= x /\ x <= y /\ y <= z + j /\ z + j + m < w /\ g <= m
      BY <2>5, <3>1, <3>2
    <3>4. 0 <= x + g /\ x + g < w
      <4>1. 0 < g
        BY <3>1
      <4>2. QED
        BY <3>3, <4>1
    <3>5. Fits(x + g)
      BY <1>5, <3>2, <3>4 DEF Fits
    <3>6. QED
      BY <3>1, <3>5
  <2>7. QED
    BY <2>4, <2>6
<1>17. QED
  BY <1>6, <1>12, <1>15, <1>16 DEF FillFits

(* Nor does any step.                                                      *)
LEMMA StepsFit ==
  ASSUME NEW most \in Nat, Modest(most), ExchangeInv, MoneyInv, ModestInv(most)
  PROVE  StepFits
<1>1. TypeOK /\ Half \in Nat /\ minFee \in [Assets -> Nat]
  BY HalfPositive DEF ExchangeInv, MoneyInv, Started
<1>2. ASSUME NEW d \in Deposits, Deposit(d.user, d.asset, d.amount)
      PROVE  Fits(AsBalance(bal[d.user][d.asset]) + d.amount)
  <2>1. d.user \in Users /\ d.asset \in Assets /\ d.amount \in Int
    BY ExchangeAssumption
  <2>2. d.amount > 0 /\ net[d.user][d.asset] + d.amount <= MaxNet
    BY <1>2 DEF Deposit
  <2>3. Booked(bal, d.asset) + d.amount <= Capital /\ Booked(bal, d.asset) \in Int /\ Capital \in Nat
    <3> DEFINE s == d.asset
               g == [u \in Users |-> net[u][s]]
               h == [u \in Users |-> IF u = d.user THEN net[u][s] + d.amount ELSE net[u][s]]
               c == [u \in Users |-> MaxNet]
    <3>1. \A u \in Users : g[u] \in Int /\ h[u] \in Int /\ c[u] \in Nat /\ h[u] <= c[u]
      BY <1>1, <2>1, <2>2 DEF TypeOK, ModestInv, HoldingsModest, Modest
    <3>2. Raised(g, h, d.user, d.amount)
      BY <2>1 DEF Raised
    <3>3. g \in [Users -> Int] /\ h \in [Users -> Int] /\ DOMAIN c = Users /\ DOMAIN h = Users /\ IsFiniteSet(Users)
      BY <3>1, ExchangeAssumption
    <3>4. Booked(bal, s) = SumFunction(g) /\ Capital = SumFunction(c)
      BY <2>1 DEF MoneyInv, BooksSound, Held, Capital
    <3> HIDE DEF g, h, c
    <3>5. SumFunction(h) = SumFunction(g) + d.amount /\ SumFunction(g) \in Int
      BY <2>1, <3>2, <3>3, BooksAdd, BooksType
    <3>6. SumFunction(h) <= SumFunction(c) /\ SumFunction(c) \in Nat
      <4>1. SumFunctionOnSet(h, Users) <= SumFunctionOnSet(c, Users)
        BY <3>1, <3>3, SumAtMost
      <4>2. SumFunctionOnSet(c, Users) \in Nat
        BY <3>1, <3>3, SumNat
      <4>3. QED
        BY <3>3, <4>1, <4>2 DEF SumFunction
    <3>7. QED
      BY <3>4, <3>5, <3>6
  <2>4. /\ AsBalance(bal[d.user][d.asset]) <= Booked(bal, d.asset)
        /\ AsBalance(bal[d.user][d.asset]) \in Int /\ 0 <= AsBalance(bal[d.user][d.asset])
    BY <1>1, <2>1, BookAtMost, BookType DEF TypeOK, MoneyInv, BooksSound, Covered
  <2>5. Capital < Half
    BY DEF Modest
  <2>6. QED
    BY <1>1, <2>1, <2>2, <2>3, <2>4, <2>5 DEF Fits
<1>3. ASSUME CheckOrder PROVE FillFits(pending, match[pos])
  <2>1. ~ Idle /\ pos \in 1 .. Len(match) /\ Accepts(pending, match[pos]) /\ match \in Seq(Fill)
    BY <1>1, <1>3 DEF CheckOrder, TypeOK, Idle
  <2>2. PICK n \in Nat : n = pos - 1 /\ n + 1 = pos
    BY <2>1
  <2>3. match[pos] \in Fill /\ pending \in [bal : Balances, info : Infos]
    BY <2>1, FillAt DEF ExchangeInv
  <2>4. /\ match \in Matches /\ FillsModest(most, match, n, pending.bal, pending.info)
        /\ \A s \in Assets : minFee[s] <= most
    BY <2>1, <2>2 DEF ModestInv, PendingModest, HoldingsModest
  <2>5. Covered(pending.bal) /\ state = "COMMON" /\ feeReceiver \in Users
    BY <2>1 DEF MoneyInv, PendingSound, Started
  <2>6. FeeReceiverOf(match[pos].order) \in Users
    <3>1. OrderOf[match[pos].order] \in OrderInfo
      BY <2>3, ExchangeAssumption DEF Fill
    <3>2. QED
      BY <2>5, <3>1 DEF OrderInfo, FeeReceiverOf
  <2>7. QED
    BY <1>1, <2>1, <2>2, <2>3, <2>4, <2>5, <2>6, FillStaysSmall
<1>4. ASSUME EndFill PROVE Fits(TotalGot(match)) /\ Fits(TotalSpent(match))
  <2>1. ~ Idle /\ pos > Len(match) /\ match \in Seq(Fill) /\ pos \in 1 .. Len(match) + 1
    BY <1>1, <1>4 DEF EndFill, TypeOK, MoneyInv, PendingSound
  <2>2. PICK n \in Nat : n = pos - 1 /\ n = Len(match)
    BY <2>1
  <2>3. match \in Matches /\ MakersGot(match, n) \in 0 .. n * most /\ MakersSpent(match, n) \in 0 .. n * most
    BY <2>1, <2>2 DEF ModestInv, PendingModest, FillsModest
  <2>4. TotalGot(match) = MakersGot(match, n) /\ TotalSpent(match) = MakersSpent(match, n)
    BY <2>2 DEF TotalGot, TotalSpent, MakersGot, MakersSpent
  <2>5. Capital \in Nat
    <3>1. [u \in Users |-> MaxNet] \in [Users -> Nat] /\ DOMAIN [u \in Users |-> MaxNet] = Users
      BY DEF Modest
    <3>2. SumFunctionOnSet([u \in Users |-> MaxNet], Users) \in Nat
      BY <3>1, SumNat, ExchangeAssumption
    <3>3. QED
      BY <3>1, <3>2 DEF Capital, SumFunction
  <2>6. Capital + n * most < Half /\ n * most \in Nat
    BY <2>2, <2>3, Multiples DEF Modest
  <2>7. QED
    BY <1>1, <2>3, <2>4, <2>5, <2>6 DEF Fits
<1>5. QED
  BY <1>2, <1>3, <1>4 DEF StepFits

(* An accepted fill adds to what all orders got and spent.                 *)
LEMMA FilledTotals ==
  ASSUME NEW i \in Infos, NEW f \in Fill, Fits(i[f.order].got + f.getNum), NEW s
  PROVE  LET o == OrderOf[f.order] IN
         /\ AllGot(FilledInfo(i, f), s) = AllGot(i, s) + (IF o.purchaseAsset = s THEN f.getNum ELSE 0)
         /\ AllSpent(FilledInfo(i, f), s) = AllSpent(i, s) + (IF o.payAsset = s THEN f.spentNum ELSE 0)
<1> DEFINE j == FilledInfo(i, f)
           x == f.order
           gi == [o \in Orders |-> i[o].got]
           gj == [o \in Orders |-> j[o].got]
           si == [o \in Orders |-> i[o].spent]
           sj == [o \in Orders |-> j[o].spent]
<1>1. x \in Orders /\ f.spentNum \in Int /\ f.getNum \in Int
  BY DEF Fill
<1>2. /\ \A y \in Orders : y # x => j[y] = i[y]
      /\ j[x].spent = i[x].spent + f.spentNum
      /\ j[x].got = i[x].got + f.getNum
  BY FilledOrder, Zenon
<1>3. j \in Infos
  BY FilledInfoType
<1> HIDE DEF j, x
<1>4. /\ gi \in [Orders -> Int] /\ gj \in [Orders -> Int]
      /\ si \in [Orders -> Int] /\ sj \in [Orders -> Int]
  BY <1>3 DEF Infos, Stored
<1>5. /\ gj[x] = gi[x] + f.getNum /\ \A y \in Orders : y # x => gj[y] = gi[y]
      /\ sj[x] = si[x] + f.spentNum /\ \A y \in Orders : y # x => sj[y] = si[y]
  BY <1>1, <1>2
<1>6. Buyers(s) \in SUBSET Orders /\ Sellers(s) \in SUBSET Orders
  BY DEF Buyers, Sellers
<1>7. (x \in Buyers(s) <=> OrderOf[x].purchaseAsset = s) /\ (x \in Sellers(s) <=> OrderOf[x].payAsset = s)
  BY <1>1 DEF Buyers, Sellers
<1> HIDE DEF gi, gj, si, sj
<1>8. SumFunctionOnSet(gj, Buyers(s)) = SumFunctionOnSet(gi, Buyers(s)) + (IF x \in Buyers(s) THEN f.getNum ELSE 0)
  BY <1>1, <1>4, <1>5, <1>6, OrderSum
<1>9. SumFunctionOnSet(sj, Sellers(s)) = SumFunctionOnSet(si, Sellers(s)) + (IF x \in Sellers(s) THEN f.spentNum ELSE 0)
  BY <1>1, <1>4, <1>5, <1>6, OrderSum
<1>10. /\ AllGot(j, s) = AllGot(i, s) + (IF OrderOf[x].purchaseAsset = s THEN f.getNum ELSE 0)
       /\ AllSpent(j, s) = AllSpent(i, s) + (IF OrderOf[x].payAsset = s THEN f.spentNum ELSE 0)
  BY <1>7, <1>8, <1>9 DEF AllGot, AllSpent, gi, gj, si, sj
<1>11. QED
  BY <1>10 DEF j, x

LEMMA NoMakers ==
  ASSUME NEW fills
  PROVE  MakersGot(fills, 0) = 0 /\ MakersSpent(fills, 0) = 0
<1>1. 2 .. 0 = {}
  OBVIOUS
<1>2. QED
  BY <1>1, SumEmpty DEF MakersGot, MakersSpent, SumFunction

LEMMA Grown == \A a, b, c, d, m \in Int : a <= b + c /\ d <= m => a + d <= b + (c + m)
OBVIOUS

LEMMA GrownRange == \A k, m \in Nat, d \in Int : \A a \in 0 .. k : 0 < d /\ d <= m => a + d \in 0 .. k + m
OBVIOUS

(* The next fill of a call keeps it small.                                 *)
LEMMA FillAdvances ==
  ASSUME NEW most \in Nat, Modest(most), NEW fills \in Matches, NEW n \in Nat, n + 1 \in 1 .. Len(fills),
         NEW f \in Fill, f = fills[n + 1], NEW p \in [bal : Balances, info : Infos],
         FillsModest(most, fills, n, p.bal, p.info), Accepts(p, f), Covered(p.bal), FillFits(p, f),
         minFee \in [Assets -> Nat], FeeReceiverOf(f.order) \in Users,
         n + 1 > 1 => Opposite(fills[1].order, f.order)
  PROVE  FillsModest(most, fills, n + 1, FilledBal(p.bal, f), FilledInfo(p.info, f))
<1> DEFINE o == OrderOf[f.order]
           i == p.info
           j == FilledInfo(i, f)
           b == p.bal
           c == FilledBal(b, f)
<1>1. /\ f.order \in Orders /\ f.spentNum \in Int /\ f.getNum \in Int
      /\ o.payAsset \in Assets /\ o.purchaseAsset \in Assets
      /\ b \in Balances /\ i \in Infos /\ fills \in Seq(Fill)
  BY FillTypes, ExchangeAssumption
<1>2. /\ 0 < f.spentNum /\ f.spentNum <= most /\ 0 < f.getNum /\ f.getNum <= most
  <2>1. o.payNum \in Int /\ o.payNum <= most
    BY <1>1, TradesType DEF Modest
  <2>2. 0 < f.spentNum /\ f.spentNum <= o.payNum /\ 0 < f.getNum
    BY DEF Accepts
  <2>3. f.getNum <= most
    BY DEF Modest
  <2>4. QED
    BY <1>1, <2>1, <2>2, <2>3
<1>3. PICK k \in Nat : k = n * most /\ (n + 1) * most = k + most /\ k + most \in Nat
  BY Multiples
<1>4. Fits(i[f.order].got + f.getNum)
  BY DEF FillFits
<1>5. FairTrades(j)
  <2>1. /\ \A x \in Orders : x # f.order => j[x] = i[x]
        /\ j[f.order].kind = "open" /\ j[f.order].got = i[f.order].got + f.getNum
    BY <1>4, FilledOrder, Zenon
  <2>2. i[f.order].got \in Int /\ i[f.order].got >= 0
    BY <1>1, TradesType DEF FillsModest, FairTrades
  <2> HIDE DEF j
  <2>3. j[f.order].got >= 0
    BY <1>1, <1>2, <2>1, <2>2
  <2>4. QED
    BY <2>1, <2>3 DEF FillsModest, FairTrades
<1>6. MakersGot(fills, n + 1) \in 0 .. (n + 1) * most /\ MakersSpent(fills, n + 1) \in 0 .. (n + 1) * most
  <2>1. CASE n = 0
    BY <1>3, <2>1, MakersNone
  <2>2. CASE n > 0
    <3>1. n + 1 \in 2 .. Len(fills) /\ n + 1 - 1 = n
      BY <1>1, <2>2
    <3>2. /\ MakersGot(fills, n + 1) = MakersGot(fills, n) + f.getNum
          /\ MakersSpent(fills, n + 1) = MakersSpent(fills, n) + f.spentNum
      BY <1>1, <3>1, MakersNext
    <3>3. MakersGot(fills, n) \in 0 .. k /\ MakersSpent(fills, n) \in 0 .. k
      BY <1>3 DEF FillsModest
    <3> HIDE DEF o, i, j, b, c
    <3>4. PICK g \in Int, h \in Int : g = f.getNum /\ h = f.spentNum
            /\ 0 < g /\ g <= most /\ 0 < h /\ h <= most
      BY <1>1, <1>2
    <3>5. MakersGot(fills, n) + g \in 0 .. k + most /\ MakersSpent(fills, n) + h \in 0 .. k + most
      BY <3>3, <3>4, GrownRange
    <3>6. QED
      BY <1>3, <3>2, <3>4, <3>5
  <2>3. QED
    BY <2>1, <2>2
<1>7. ASSUME NEW s \in Assets
      PROVE  /\ AllGot(j, s) = AllSpent(j, s) + Gain(fills, n + 1, s)
             /\ AllGot(j, s) <= Signed(s) + (n + 1) * most
             /\ Booked(c, s) <= Capital + (n + 1) * most
  <2>1. /\ AllGot(j, s) = AllGot(i, s) + (IF o.purchaseAsset = s THEN f.getNum ELSE 0)
        /\ AllSpent(j, s) = AllSpent(i, s) + (IF o.payAsset = s THEN f.spentNum ELSE 0)
    <3>1. PICK x \in Infos : x = p.info /\ Fits(x[f.order].got + f.getNum)
      BY <1>1, <1>4
    <3>2. /\ AllGot(FilledInfo(x, f), s) = AllGot(x, s)
              + (IF OrderOf[f.order].purchaseAsset = s THEN f.getNum ELSE 0)
          /\ AllSpent(FilledInfo(x, f), s) = AllSpent(x, s)
              + (IF OrderOf[f.order].payAsset = s THEN f.spentNum ELSE 0)
      <4> HIDE DEF o, i, j, b, c
      <4>1. QED
        BY <3>1, FilledTotals
    <3>3. QED
      BY <3>1, <3>2
  <2>2. /\ Gain(fills, n, s) \in Int
        /\ Gain(fills, n + 1, s) = Gain(fills, n, s)
             + (IF s = o.purchaseAsset THEN f.getNum ELSE 0)
             - (IF s = o.payAsset THEN f.spentNum ELSE 0)
    <3>1. n + 1 - 1 = n /\ (n + 1 > 1 => Opposite(fills[1].order, fills[n + 1].order))
      OBVIOUS
    <3>2. QED
      BY <1>1, <3>1, GainNext
  <2>3. Booked(c, s) = Booked(b, s) + (IF s = o.purchaseAsset THEN f.getNum ELSE 0)
                                    - (IF s = o.payAsset THEN f.spentNum ELSE 0)
    BY FilledBooks
  <2>4. /\ AllGot(i, s) \in Int /\ AllSpent(i, s) \in Int /\ Signed(s) \in Int
        /\ Booked(b, s) \in Int
    BY <1>1, TradesType, BookedType
  <2>5. Capital \in Int
    <3>1. [u \in Users |-> MaxNet] \in [Users -> Int]
      BY DEF Modest
    <3>2. QED
      BY <3>1, BooksType, ExchangeAssumption DEF Capital
  <2>6. /\ AllGot(i, s) = AllSpent(i, s) + Gain(fills, n, s)
        /\ AllGot(i, s) <= Signed(s) + k
        /\ Booked(b, s) <= Capital + k
    BY <1>3 DEF FillsModest
  <2> HIDE DEF o, i, j, b, c
  <2>7. PICK g \in Int, h \in Int : /\ g = (IF o.purchaseAsset = s THEN f.getNum ELSE 0)
                                   /\ h = (IF o.payAsset = s THEN f.spentNum ELSE 0)
                                   /\ g <= most /\ 0 <= h
    BY <1>1, <1>2
  <2>8. AllGot(j, s) = AllGot(i, s) + g /\ AllSpent(j, s) = AllSpent(i, s) + h
        /\ Gain(fills, n + 1, s) = Gain(fills, n, s) + g - h
        /\ Booked(c, s) = Booked(b, s) + g - h
    BY <2>1, <2>2, <2>3, <2>7
  <2>9. g <= most /\ 0 <= h
    BY <2>7
  <2>10. AllGot(j, s) = AllSpent(j, s) + Gain(fills, n + 1, s)
    BY <2>2, <2>4, <2>6, <2>8
  <2>11. AllGot(j, s) <= Signed(s) + (k + most) /\ Booked(c, s) <= Capital + (k + most)
    <3>1. k \in Int /\ most \in Int /\ g - h \in Int /\ g - h <= most
      BY <2>9
    <3>2. AllGot(i, s) + g <= Signed(s) + (k + most)
      BY <2>4, <2>6, <2>9, <3>1, Grown
    <3>3. Booked(b, s) + (g - h) <= Capital + (k + most)
      BY <2>4, <2>5, <2>6, <3>1, Grown
    <3>4. Booked(b, s) + g - h = Booked(b, s) + (g - h)
      BY <2>4
    <3>5. QED
      BY <2>8, <3>2, <3>3, <3>4
  <2>12. QED
    BY <1>3, <2>10, <2>11
<1>8. QED
  BY <1>5, <1>6, <1>7 DEF FillsModest

(* The inductive step.                                                     *)
LEMMA ModestInvInit ==
  ASSUME NEW most \in Nat, Modest(most), Init
  PROVE  ModestInv(most)
<1>1. /\ \A u \in Users, s \in Assets : net[u][s] = 0
      /\ \A s \in Assets : minFee[s] = 0
      /\ \A o \in Orders : info[o].kind = "none" /\ info[o].spent = 0 /\ info[o].got = 0
      /\ Idle
  BY DEF Init, Untouched, Idle
<1>2. HoldingsModest(most) /\ FairTrades(info) /\ PendingModest(most)
  BY <1>1 DEF HoldingsModest, FairTrades, PendingModest, Modest
<1>3. ASSUME NEW s \in Assets PROVE AllGot(info, s) = AllSpent(info, s)
  <2> DEFINE g == [o \in Orders |-> info[o].got]
             h == [o \in Orders |-> info[o].spent]
  <2>1. \A o \in Orders : g[o] = 0 /\ h[o] = 0
    BY <1>1
  <2>2. /\ IsFiniteSet(Buyers(s)) /\ IsFiniteSet(Sellers(s))
        /\ Buyers(s) \subseteq Orders /\ Sellers(s) \subseteq Orders
    BY ExchangeAssumption, FS_Subset DEF Buyers, Sellers
  <2> HIDE DEF g, h
  <2>3. SumFunctionOnSet(g, Buyers(s)) = 0 /\ SumFunctionOnSet(h, Sellers(s)) = 0
    BY <2>1, <2>2, SumZero
  <2>4. QED
    BY <2>3 DEF AllGot, AllSpent, g, h
<1>4. QED
  BY <1>2, <1>3 DEF ModestInv, TradesModest

LEMMA SameTotals ==
  ASSUME NEW i, NEW j, NEW s, \A o \in Orders : i[o].got = j[o].got /\ i[o].spent = j[o].spent
  PROVE  AllGot(i, s) = AllGot(j, s) /\ AllSpent(i, s) = AllSpent(j, s)
BY DEF AllGot, AllSpent

(* Holdings and fees stay within their bounds.                             *)
LEMMA HoldingsStay ==
  ASSUME NEW most \in Nat, Modest(most), TypeOK, HoldingsModest(most), [Next]_vars
  PROVE  HoldingsModest(most)'
<1>1. /\ \A u \in Users, s \in Assets : net[u][s] \in Int /\ net[u][s] <= MaxNet
      /\ \A s \in Assets : minFee[s] <= most
      /\ net \in [Users -> [Assets -> Int]] /\ minFee \in [Assets -> Int] /\ MaxNet \in Nat
  BY DEF TypeOK, HoldingsModest, Modest
<1>2. ASSUME NEW d \in Deposits, Deposit(d.user, d.asset, d.amount)
      PROVE  HoldingsModest(most)'
  <2>1. /\ net' = [net EXCEPT ![d.user][d.asset] = @ + d.amount] /\ minFee' = minFee
        /\ net[d.user][d.asset] + d.amount <= MaxNet
    BY <1>2 DEF Deposit, config
  <2>2. \A u \in Users, s \in Assets :
          net'[u][s] = IF u = d.user /\ s = d.asset THEN net[u][s] + d.amount ELSE net[u][s]
    BY <1>1, <2>1
  <2>3. QED
    BY <1>1, <2>1, <2>2 DEF HoldingsModest
<1>3. ASSUME NEW w \in Withdrawals, Withdraw(w.user, w.asset, w.amount)
      PROVE  HoldingsModest(most)'
  <2>1. /\ net' = [net EXCEPT ![w.user][w.asset] = @ - w.amount] /\ minFee' = minFee
        /\ w.amount > 0 /\ w.amount \in Int
    BY <1>3, ExchangeAssumption DEF Withdraw, config
  <2>2. \A u \in Users, s \in Assets :
          net'[u][s] = IF u = w.user /\ s = w.asset THEN net[u][s] - w.amount ELSE net[u][s]
    BY <1>1, <2>1
  <2>3. ASSUME NEW u \in Users, NEW s \in Assets PROVE net'[u][s] <= MaxNet
    <3>1. net[u][s] \in Int /\ net[u][s] <= MaxNet
      BY <1>1
    <3>2. QED
      BY <1>1, <2>1, <2>2, <3>1
  <2>4. QED
    BY <1>1, <2>1, <2>3 DEF HoldingsModest
<1>4. ASSUME NEW caller \in Users, NEW m \in MinFees, SetMinFee(caller, m.asset, m.fee)
      PROVE  HoldingsModest(most)'
  <2>1. minFee' = [minFee EXCEPT ![m.asset] = m.fee] /\ net' = net /\ m.fee <= most
    BY <1>4 DEF SetMinFee, Modest
  <2>2. QED
    BY <1>1, <2>1 DEF HoldingsModest
<1>5. CASE UNCHANGED <<net, minFee>>
  BY <1>5 DEF HoldingsModest
<1>6. QED
  BY <1>2, <1>3, <1>4, <1>5 DEF Next, vars, config, InitConfig, CancelOrders, Tick, StartFill,
     CheckOrder, EndFill, FillThrows

(* A call begins with no fill.                                             *)
LEMMA StartFillModest ==
  ASSUME NEW most \in Nat, Modest(most), TypeOK, MoneyInv, ModestInv(most),
         NEW fills \in Matches, StartFill(fills)
  PROVE  PendingModest(most)'
<1>1. /\ match' = fills /\ pos' = 1 /\ pending' = [bal |-> bal, info |-> info]
      /\ bal \in Balances /\ info \in Infos
  BY DEF StartFill, TypeOK
<1>2. FairTrades(info) /\ WithinLimits(info)
  BY DEF ModestInv, TradesModest, MoneyInv, BooksSound
<1>3. 0 * most = 0
  BY Multiples
<1>4. ASSUME NEW s \in Assets
      PROVE  /\ AllGot(info, s) = AllSpent(info, s) + Gain(fills, 0, s)
             /\ AllGot(info, s) <= Signed(s) + 0 * most
             /\ Booked(bal, s) <= Capital + 0 * most
  <2>1. AllGot(info, s) = AllSpent(info, s) /\ Gain(fills, 0, s) = 0
    BY DEF ModestInv, TradesModest, Gain
  <2>2. AllGot(info, s) \in Int /\ AllSpent(info, s) \in Int /\ Signed(s) \in Int
    BY <1>1, TradesType
  <2>3. AllSpent(info, s) <= Signed(s)
    BY <1>1, <1>2, SpentSigned
  <2>4. Booked(bal, s) = Held(s) /\ Held(s) \in Int /\ Capital \in Nat /\ Held(s) <= Capital
    BY HeldAtMost DEF MoneyInv, BooksSound, ModestInv, HoldingsModest, Modest
  <2>5. QED
    BY <1>3, <2>1, <2>2, <2>3, <2>4
<1>5. FillsModest(most, fills, 0, bal, info)
  BY <1>2, <1>3, <1>4, NoMakers DEF FillsModest
<1>6. match' \in Matches /\ pos' - 1 = 0 /\ pending'.bal = bal /\ pending'.info = info
  BY <1>1
<1>7. FillsModest(most, match', pos' - 1, pending'.bal, pending'.info)
  BY <1>1, <1>5, <1>6
<1>8. QED
  BY <1>6, <1>7 DEF PendingModest, FillsModest, AllGot, AllSpent, Booked, Line, Gain, MakersGot,
     MakersSpent, FairTrades

LEMMA CheckOrderModest ==
  ASSUME NEW most \in Nat, Modest(most), ExchangeInv, MoneyInv, ModestInv(most), StepFits, CheckOrder
  PROVE  PendingModest(most)'
<1>1. /\ TypeOK /\ ~ Idle /\ pos \in 1 .. Len(match) /\ match \in Seq(Fill)
  BY DEF ExchangeInv, CheckOrder, TypeOK, Idle
<1>2. PICK n \in Nat : n = pos - 1 /\ n + 1 = pos
  BY <1>1
<1>3. PICK f \in Fill : f = match[pos]
  BY <1>1
<1>4. PICK p \in [bal : Balances, info : Infos] : p = pending
  BY <1>1 DEF ExchangeInv
<1>5. /\ Accepts(p, f) /\ FillFits(p, f)
      /\ pos > 1 => Opposite(match[1].order, f.order)
      /\ pending' = [bal |-> FilledBal(p.bal, f), info |-> FilledInfo(p.info, f)]
      /\ pos' = pos + 1 /\ match' = match
  BY <1>3, <1>4 DEF CheckOrder, StepFits
<1>6. /\ match \in Matches /\ FillsModest(most, match, n, p.bal, p.info)
  BY <1>1, <1>2, <1>4 DEF ModestInv, PendingModest
<1>7. Covered(p.bal) /\ minFee \in [Assets -> Nat] /\ feeReceiver \in Users
  BY <1>1, <1>4 DEF MoneyInv, PendingSound, Started
<1>8. FeeReceiverOf(f.order) \in Users
  <2>1. OrderOf[f.order] \in OrderInfo
    BY ExchangeAssumption DEF Fill
  <2>2. QED
    BY <1>7, <2>1 DEF OrderInfo, FeeReceiverOf
<1>9. FillsModest(most, match, n + 1, FilledBal(p.bal, f), FilledInfo(p.info, f))
  BY <1>1, <1>2, <1>3, <1>5, <1>6, <1>7, <1>8, FillAdvances
<1>10. /\ pos' - 1 = n + 1 /\ match' = match
       /\ pending'.bal = FilledBal(p.bal, f) /\ pending'.info = FilledInfo(p.info, f)
  BY <1>1, <1>2, <1>5
<1>11. FillsModest(most, match', pos' - 1, pending'.bal, pending'.info)
  BY <1>9, <1>10
<1>12. QED
  BY <1>6, <1>10, <1>11 DEF PendingModest, FillsModest, AllGot, AllSpent, Booked, Line, Gain,
     MakersGot, MakersSpent, FairTrades

(* When the totals of a match agree, all orders got what all orders spent. *)
LEMMA EndFillModest ==
  ASSUME NEW most \in Nat, Modest(most), ExchangeInv, MoneyInv, ModestInv(most), StepFits, EndFill
  PROVE  TradesModest' /\ PendingModest(most)'
<1>1. /\ TypeOK /\ ~ Idle /\ match \in Seq(Fill) /\ match # <<>> /\ TotalsAgree(match)
      /\ pos > Len(match) /\ pos \in 1 .. Len(match) + 1
      /\ info' = pending.info /\ match' = <<>>
      /\ Fits(TotalGot(match)) /\ Fits(TotalSpent(match))
      /\ pending.info \in Infos
  BY DEF ExchangeInv, EndFill, TypeOK, Idle, MoneyInv, PendingSound, StepFits
<1>2. pos - 1 = Len(match)
  BY <1>1
<1>3. FillsModest(most, match, Len(match), pending.bal, pending.info)
  BY <1>1, <1>2 DEF ModestInv, PendingModest
<1>4. ASSUME NEW s \in Assets PROVE AllGot(pending.info, s) = AllSpent(pending.info, s)
  <2>1. Gain(match, Len(match), s) = 0
    BY <1>1, GainOfAgreed
  <2>2. QED
    BY <1>1, <1>3, <2>1, TradesType DEF FillsModest
<1>5. TradesModest'
  BY <1>1, <1>3, <1>4 DEF TradesModest, FillsModest, FairTrades, AllGot, AllSpent
<1>6. QED
  BY <1>1, <1>5 DEF PendingModest, Idle

LEMMA CancelOrdersModest ==
  ASSUME ExchangeInv, TradesModest, NEW caller \in Users, NEW orders \in SUBSET Orders,
         CancelOrders(caller, orders)
  PROVE  TradesModest'
<1>1. \A o \in Orders :
        info'[o] = info[o] \/ (info[o].kind = "none" /\ info'[o] = Canceled)
  BY DEF CancelOrders, CanceledInfo
<1>2. \A o \in Orders : info'[o].got = info[o].got /\ info'[o].spent = info[o].spent
  BY <1>1 DEF ExchangeInv, NothingUnfilled, Canceled
<1>3. FairTrades(info)'
  BY <1>1 DEF TradesModest, FairTrades, Canceled
<1>4. PICK i : i = info'
  OBVIOUS
<1>5. \A s : AllGot(i, s) = AllGot(info, s) /\ AllSpent(i, s) = AllSpent(info, s)
  <2>1. \A o \in Orders : i[o].got = info[o].got /\ i[o].spent = info[o].spent
    BY <1>2, <1>4
  <2>2. QED
    BY <2>1, SameTotals
<1>6. \A s \in Assets : AllGot(i, s) = AllSpent(i, s)
  BY <1>5 DEF TradesModest
<1>7. QED
  BY <1>3, <1>4, <1>6 DEF TradesModest, AllGot, AllSpent

LEMMA ModestInvInductive ==
  ASSUME NEW most \in Nat, Modest(most), ExchangeInv, MoneyInv, ModestInv(most), [Next]_vars
  PROVE  ModestInv(most)'
<1>1. TypeOK /\ StepFits
  BY StepsFit DEF ExchangeInv
<1>2. HoldingsModest(most)'
  BY <1>1, HoldingsStay DEF ModestInv
<1>3. ASSUME info' = info PROVE TradesModest'
  BY <1>3 DEF ModestInv, TradesModest, FairTrades, AllGot, AllSpent
<1>4. ASSUME Idle' PROVE PendingModest(most)'
  BY <1>4 DEF PendingModest
<1>5. ASSUME NEW caller \in Users, NEW orders \in SUBSET Orders, CancelOrders(caller, orders)
      PROVE  TradesModest' /\ PendingModest(most)'
  <2>1. Idle'
    BY <1>5 DEF CancelOrders, fillVars, Idle
  <2>2. QED
    BY <1>4, <1>5, <2>1, CancelOrdersModest DEF ModestInv
<1>6. ASSUME NEW fills \in Matches, StartFill(fills)
      PROVE  TradesModest' /\ PendingModest(most)'
  <2>1. info' = info
    BY <1>6 DEF StartFill
  <2>2. QED
    BY <1>1, <1>3, <1>6, <2>1, StartFillModest
<1>7. CASE CheckOrder
  <2>1. info' = info
    BY <1>7 DEF CheckOrder
  <2>2. QED
    BY <1>1, <1>2, <1>3, <1>7, <2>1, CheckOrderModest DEF ModestInv
<1>8. CASE EndFill
  BY <1>1, <1>2, <1>8, EndFillModest DEF ModestInv
<1>9. CASE FillThrows
  <2>1. info' = info /\ Idle'
    BY <1>9 DEF FillThrows, Idle
  <2>2. QED
    BY <1>2, <1>3, <1>4, <2>1 DEF ModestInv
<1>10. CASE UNCHANGED vars
  <2>1. info' = info /\ UNCHANGED <<match, pos, pending, bal>>
    BY <1>10 DEF vars, fillVars
  <2>2. PendingModest(most)'
    BY <2>1 DEF ModestInv, PendingModest, FillsModest, AllGot, AllSpent, Booked, Line, Gain,
       MakersGot, MakersSpent, FairTrades, Idle
  <2>3. QED
    BY <1>2, <1>3, <2>1, <2>2 DEF ModestInv
<1>11. ASSUME info' = info, UNCHANGED fillVars, Idle
       PROVE  TradesModest' /\ PendingModest(most)'
  <2>1. Idle'
    BY <1>11 DEF fillVars, Idle
  <2>2. QED
    BY <1>3, <1>4, <1>11, <2>1
<1>12. QED
  <2>1. ASSUME NEW caller \in Users, NEW receiver \in FeeReceivers, InitConfig(caller, receiver)
        PROVE  TradesModest' /\ PendingModest(most)'
    BY <1>11, <2>1 DEF InitConfig
  <2>2. ASSUME NEW caller \in Users, NEW m \in MinFees, SetMinFee(caller, m.asset, m.fee)
        PROVE  TradesModest' /\ PendingModest(most)'
    BY <1>11, <2>2 DEF SetMinFee
  <2>3. ASSUME NEW d \in Deposits, Deposit(d.user, d.asset, d.amount)
        PROVE  TradesModest' /\ PendingModest(most)'
    BY <1>11, <2>3 DEF Deposit
  <2>4. ASSUME NEW w \in Withdrawals, Withdraw(w.user, w.asset, w.amount)
        PROVE  TradesModest' /\ PendingModest(most)'
    BY <1>11, <2>4 DEF Withdraw
  <2>5. CASE Tick
    BY <1>2, <1>11, <2>5 DEF Tick, ModestInv
  <2>6. QED
    BY <1>2, <1>5, <1>6, <1>7, <1>8, <1>9, <1>10, <2>1, <2>2, <2>3, <2>4, <2>5 DEF Next, ModestInv

LEMMA ModestInvHolds ==
  ASSUME NEW most \in Nat, Modest(most)
  PROVE  Spec => [](ExchangeInv /\ MoneyInv /\ ModestInv(most))
<1>1. Init => MoneyInv /\ ModestInv(most)
  BY MoneyInvInit, ModestInvInit
<1>2. ExchangeInv /\ MoneyInv /\ ModestInv(most) /\ [Next]_vars => MoneyInv' /\ ModestInv(most)'
  <2>1. ASSUME ExchangeInv, MoneyInv, ModestInv(most), [Next]_vars PROVE MoneyInv' /\ ModestInv(most)'
    BY <2>1, StepsFit, MoneyInvInductive, ModestInvInductive
  <2>2. QED
    BY <2>1
<1>3. QED
  BY <1>1, <1>2, ExchangeInvHolds, PTL DEF Spec

(* With moderate amounts no addition of the contract leaves int64_t: the   *)
(* premise of the theorems about money holds (deposits, checkOrder and the *)
(* totals of fillOrder, native_exchange_contract.cpp).                     *)
THEOREM ExchangeNoOverflow ==
  ASSUME NEW most \in Nat, Modest(most)
  PROVE  Spec => NoOverflow
<1>1. ExchangeInv /\ MoneyInv /\ ModestInv(most) => StepFits
  BY StepsFit
<1>2. QED
  BY <1>1, ModestInvHolds, PTL DEF NoOverflow

(* So whoever trades, and whatever is filled, canceled or thrown halfway,   *)
(* the books add up, cover what is spent and agree with the orders.        *)
THEOREM ExchangeModestSafe ==
  ASSUME NEW most \in Nat, Modest(most)
  PROVE  Spec => [](Solvency /\ SpendingCovered /\ BooksReconcile)
<1>1. QED
  BY ExchangeNoOverflow, ExchangeSolvency, ExchangeSpendingCovered, ExchangeBooksReconcile, PTL
================================================================================
