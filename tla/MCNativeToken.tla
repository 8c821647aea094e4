----------------------------- MODULE MCNativeToken -----------------------------
(* An instance of NativeToken for TLC.                                     *)
EXTENDS NativeToken, TLC

CONSTANTS u1, u2, u3

MCUsers   == {u1, u2, u3}
MCAmounts == 0 .. 3
Symmetry  == Permutations(MCUsers)
================================================================================
