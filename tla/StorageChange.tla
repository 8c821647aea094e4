------------------------------ MODULE StorageChange ------------------------------
(***************************************************************************)
(* One storage slot of a contract during calls of native contracts         *)
(* (native_contract_store::set_contract_storage, native_contract.cpp): the *)
(* call keeps its writes as a change [before, after, diff], whose `after'  *)
(* apply_pendings writes to the chain, or a failed call drops it.  Gas is  *)
(* charged for the size of the difference; patch and rollback of CborDiff  *)
(* are its two readers.                                                    *)
(***************************************************************************)
EXTENDS CborDiff

CONSTANTS
    Values,     \* the CBOR values contracts store in the slot
    NoChange    \* the call has not written the slot

VARIABLES
    stored,     \* the slot on the chain
    change      \* the pending change of the call under way

vars == <<stored, change>>

Init == stored \in Values /\ change = NoChange

(* Variant that fails: a second write of a call starts from the first one. *)
MutBefore == IF change = NoChange THEN stored ELSE change.after

(* The value a change starts from is read once per call.                   *)
Before == IF change = NoChange THEN stored ELSE change.before

SetContractStorage(value) ==
  /\ change' = [before |-> Before, after |-> value, diff |-> Diff(Before, value)]
  /\ UNCHANGED stored

(* apply_pendings                                                          *)
Apply ==
  /\ change # NoChange
  /\ stored' = change.after
  /\ change' = NoChange

(* The call fails: set_failed.                                             *)
Drop ==
  /\ change # NoChange
  /\ change' = NoChange
  /\ UNCHANGED stored

Next ==
  \/ \E value \in Values : SetContractStorage(value)
  \/ Apply
  \/ Drop

Spec == Init /\ [][Next]_vars

----------------------------------------------------------------------------
(* The difference is undefined for a call that leaves what it found, and   *)
(* for no other, so that no change of the chain is left out of the charge  *)
(* and no write that was undone in the same call is in it.                 *)
DiffSeesChange == change # NoChange => ((change.diff = Undefined) <=> (change.after = stored))

(* The modified elements of two arrays that are patched right: those whose *)
(* difference needs no start value, and those whose index among the edits  *)
(* is their own.                                                           *)
Aligned(a, b) ==
  \A i \in DOMAIN a \cap DOMAIN b :
    \/ a[i] = b[i]
    \/ a[i].t = "scalar" \/ a[i].t # b[i].t
    \/ \A j \in 1 .. i : a[j] # b[j]

(* Aligned arrays of which the first is longer by one element at most, and *)
(* any other two values.                                                   *)
Safe(a, b) == a.t = "array" /\ b.t = "array" => Aligned(a.a, b.a) /\ Len(a.a) <= Len(b.a) + 1

(* Patching gives the new value for scalars, for maps with any keys added, *)
(* deleted and changed at any depth, for changes of type, and for arrays   *)
(* that lose at most one element and are aligned.                          *)
SafePatchGivesNew ==
  change # NoChange /\ Safe(stored, change.after)
    => Patch(stored, change.diff) = change.after

(* Rolling back gives the old value in the same cases, for arrays when     *)
(* they gained at most one element.                                        *)
SafeRollbackGivesOld ==
  change # NoChange /\ Safe(change.after, stored)
    => Rollback(change.after, change.diff) = stored
================================================================================
