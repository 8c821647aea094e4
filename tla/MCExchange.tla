------------------------------ MODULE MCExchange ------------------------------
(* Instances of Exchange for TLC: bob buys X with Y, alice sells X for Y.  *)
EXTENDS Exchange, TLC

CONSTANTS alice, bob, rita, X, Y, buy, sell1, sell2

MCUsers  == {alice, bob, rita}
MCAssets == {X, Y}
MCOrders == {buy, sell1, sell2}

Order(owner, type, pa, pn, ya, yn, fee, relayer, expiry) ==
  [owner |-> owner, type |-> type, purchaseAsset |-> pa, purchaseNum |-> pn,
   payAsset |-> ya, payNum |-> yn, fee |-> fee, relayer |-> relayer, expiredAt |-> expiry]

(* sell1 pays half of what it spends as a fee; the relayer of sell2 is its *)
(* owner, so that payer and fee receiver are one when a minimal fee is     *)
(* set.                                                                    *)
MCOrderOf == (buy   :> Order(bob,   "buy",  X, 3, Y, 3, 0, None,  2)) @@
             (sell1 :> Order(alice, "sell", Y, 2, X, 2, 1, None,  2)) @@
             (sell2 :> Order(alice, "sell", Y, 1, X, 2, 0, alice, 1))

F(o, get, spent) == [order |-> o, getNum |-> get, spentNum |-> spent]
Nums == 1 .. 3

(* One maker that mirrors the taker; two makers that share the taker's     *)
(* amounts, the same order twice included; totals that do not agree; two   *)
(* sellers.                                                                *)
Matches1 == { << F(buy, g, s), F(o, s, g) >> : g, s \in Nums, o \in {sell1, sell2} }
            \cup { << F(o, s, g), F(buy, g, s) >> : g, s \in 1 .. 2, o \in {sell1, sell2} }
Matches2 == { << F(buy, g1 + g2, s1 + s2), F(o, s1, g1), F(p, s2, g2) >> :
                g1, g2, s1, s2 \in 1 .. 2, o, p \in {sell1, sell2} }
BadMatches == { << F(buy, 2, 2), F(sell1, 2, 1) >>, << F(sell1, 1, 1), F(sell2, 1, 1) >> }
MCMatches == Matches1 \cup Matches2 \cup BadMatches

MCDeposits    == { [user |-> alice, asset |-> X, amount |-> 3],
                   [user |-> bob, asset |-> Y, amount |-> 3] }
MCWithdrawals == { [user |-> u, asset |-> s, amount |-> 1] : u \in {alice, bob}, s \in {Y} }
MCMinFees     == { [asset |-> X, fee |-> 1] }
MCReceivers   == {rita}
================================================================================
