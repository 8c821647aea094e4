------------------------------ MODULE TokenLedger ------------------------------
(***************************************************************************)
(* What a token promises its holders: every unit is issued once, moves     *)
(* only from a holder who owns it, and on another's behalf only within     *)
(* what that holder has approved.  Who asks for a step is part of the      *)
(* state: only the owner may move or approve without an approval.          *)
(***************************************************************************)
EXTENDS Integers

CONSTANTS
    Users,      \* token holders
    Amounts,    \* integers that may be asked for
    None        \* nobody

VARIABLES
    actor,      \* who asked for the latest step, None at first
    supply,     \* units issued, 0 before the issue
    balance,    \* units of each holder
    allowance   \* allowance[owner][spender]: what spender may still move

vars == <<actor, supply, balance, allowance>>

Init ==
  /\ actor     = None
  /\ supply    = 0
  /\ balance   = [u \in Users |-> 0]
  /\ allowance = [u \in Users |-> [s \in Users |-> 0]]

(* The contract is created: nothing is issued yet.                         *)
Create(u) ==
  /\ supply = 0
  /\ actor' = u
  /\ UNCHANGED <<supply, balance, allowance>>

Issue(u, n) ==
  /\ supply = 0
  /\ actor' = u
  /\ n > 0
  /\ supply'  = n
  /\ balance' = [balance EXCEPT ![u] = @ + n]
  /\ UNCHANGED allowance

Move(from, to, n) ==
  /\ 0 < n /\ n <= balance[from]
  /\ balance' = IF from = to THEN balance
                ELSE [balance EXCEPT ![from] = @ - n, ![to] = @ + n]

Transfer(from, to, n) ==
  /\ supply > 0
  /\ actor' = from
  /\ Move(from, to, n)
  /\ UNCHANGED <<supply, allowance>>

Approve(owner, spender, n) ==
  /\ supply > 0
  /\ actor' = owner
  /\ n > 0
  /\ allowance' = [allowance EXCEPT ![owner][spender] = n]
  /\ UNCHANGED <<supply, balance>>

TransferFrom(spender, from, to, n) ==
  /\ supply > 0
  /\ actor' = spender
  /\ Move(from, to, n)
  /\ n <= allowance[from][spender]
  /\ allowance' = [allowance EXCEPT ![from][spender] = @ - n]
  /\ UNCHANGED supply

Next ==
  \/ \E u \in Users : Create(u)
  \/ \E u \in Users, n \in Amounts : Issue(u, n)
  \/ \E u, v \in Users, n \in Amounts :
       \/ Transfer(u, v, n)
       \/ Approve(u, v, n)
       \/ \E w \in Users : TransferFrom(u, v, w, n)

Spec == Init /\ [][Next]_vars
================================================================================
