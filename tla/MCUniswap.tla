------------------------------- MODULE MCUniswap -------------------------------
(* An instance of Uniswap for TLC.                                         *)
EXTENDS Uniswap, TLC

CONSTANTS u1, u2

TwoUsers == {u1, u2}

Pair(a, b) == [s \in Assets |-> IF s = 1 THEN a ELSE b]
OneMinimum == { Pair(1, 1) }

D(user, asset, amount) == [user |-> user, asset |-> asset, amount |-> amount]
\* u2 deposits one only, which bounds the pools the run reaches.
MixDeposits == { D(u1, s, n) : s \in Assets, n \in 1 .. 2 } \cup { D(u2, s, 1) : s \in Assets }
================================================================================
