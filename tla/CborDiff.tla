-------------------------------- MODULE CborDiff --------------------------------
(***************************************************************************)
(* Differences of CBOR values (cbor_diff.cpp): diff computes one, patch    *)
(* applies it to the old value, rollback to the new one.  A value is a     *)
(* scalar, a map or an array.  A difference is undefined, or a CBOR value  *)
(* itself: a map of an old and a new value, a map whose keys say what was  *)
(* deleted, added or modified, or an array of edits of an array.           *)
(*                                                                         *)
(* A key is a tuple of the pieces the code distinguishes, so that the key  *)
(* "a__added" is <<"a", "__added">>.                                       *)
(***************************************************************************)
EXTENDS Integers, Sequences, SequencesExt, TLC

CONSTANT KeyOrder   \* all keys of values and differences, in the order of std::map

Scalar(x) == [t |-> "scalar", v |-> x]
Map(f)    == [t |-> "map", m |-> f]
Array(s)  == [t |-> "array", a |-> s]

(* One element [op, pos, item] of the difference of two arrays; pos counts *)
(* from 0.                                                                 *)
Edit(op, pos, item) == [t |-> "edit", op |-> op, pos |-> pos, item |-> item]

(* No difference; and the outcome of a call that throws or that edits an   *)
(* array outside its bounds.                                               *)
Undefined == [t |-> "undefined"]
Broken    == [t |-> "broken"]

Old == <<"__old">>
New == <<"__new">>

Added(key)   == Append(key, "__added")
Deleted(key) == Append(key, "__deleted")

(* string_ends_with looks at the first occurrence of the postfix only, and *)
(* something has to stand before it.                                       *)
EndsWith(key, postfix) ==
  Len(key) > 1 /\ Last(key) = postfix /\ ~ Contains(Front(key), postfix)

(* is_scalar_cbor_value_diff_format                                        *)
IsScalarDiff(d) == d.t = "map" /\ {Old, New} \subseteq DOMAIN d.m

RECURSIVE Diff(_, _), Patch(_, _), Rollback(_, _)

(* Later writes of the two loops win: additions over modifications over    *)
(* deletions.                                                              *)
DiffMaps(a, b) ==
  LET both    == { k \in DOMAIN a \cap DOMAIN b : Diff(a[k], b[k]) # Undefined }
      removed == DOMAIN a \ DOMAIN b
      added   == DOMAIN b \ DOMAIN a
      d == [k \in { Added(x) : x \in added } |-> b[Front(k)]]
           @@ [k \in both |-> Diff(a[k], b[k])]
           @@ [k \in { Deleted(x) : x \in removed } |-> a[Front(k)]]
  IN  IF DOMAIN d = {} THEN Undefined ELSE Map(d)

(* Element by element; positions are those of the old array, and of the    *)
(* new one for what is added.                                              *)
DiffArrays(a, b) ==
  LET edits == [i \in 1 .. (IF Len(a) > Len(b) THEN Len(a) ELSE Len(b)) |->
                 IF i > Len(b) THEN Edit("-", i - 1, a[i])
                 ELSE IF i > Len(a) THEN Edit("+", i - 1, b[i])
                 ELSE Edit("~", i - 1, Diff(a[i], b[i]))]
      changes == SelectSeq(edits, LAMBDA e : e.item # Undefined)
  IN  IF changes = <<>> THEN Undefined ELSE Array(changes)

Diff(old, new) ==
  IF old = new THEN Undefined
  ELSE IF old.t = "scalar" \/ old.t # new.t THEN Map((Old :> old) @@ (New :> new))
  ELSE IF old.t = "map" THEN DiffMaps(old.m, new.m)
  ELSE DiffArrays(old.a, new.a)

----------------------------------------------------------------------------
Without(f, key)     == Map([k \in DOMAIN f \ {key} |-> f[k]])
With(f, key, value) == IF value = Broken THEN Broken ELSE Map((key :> value) @@ f)

(* One key of the difference of two maps.                                  *)
PatchKey(old, result, key, item) ==
  IF EndsWith(key, "__deleted") /\ Front(key) \in DOMAIN old THEN Without(result, Front(key))
  ELSE IF EndsWith(key, "__added") THEN With(result, Front(key), item)
  ELSE IF key \in DOMAIN old THEN With(result, key, Patch(old[key], item))
  ELSE Broken

RollbackKey(new, result, key, item) ==
  IF EndsWith(key, "__added") /\ Front(key) \in DOMAIN new THEN Without(result, Front(key))
  ELSE IF EndsWith(key, "__deleted") THEN With(result, Front(key), item)
  ELSE IF key \in DOMAIN new THEN With(result, key, Rollback(new[key], item))
  ELSE Broken

(* Apply to the keys of a difference in order, or to the indices of an     *)
(* array of edits; nothing follows a broken step.                          *)
OverKeys(Apply(_, _), start, d) ==
  FoldLeft(LAMBDA result, key : IF result = Broken THEN Broken ELSE Apply(result, key),
           start, SelectSeq(KeyOrder, LAMBDA key : key \in DOMAIN d))

OverEdits(Apply(_, _), start, d) ==
  FoldLeftDomain(LAMBDA result, i : IF result = Broken THEN Broken ELSE Apply(result, i),
                 start, d)

(* The edits of an array, each where the array is when its turn comes.     *)
Inserted(s, pos, item) == IF pos <= Len(s) THEN Array(InsertAt(s, pos + 1, item)) ELSE Broken
Erased(s, pos)         == IF pos < Len(s) THEN Array(RemoveAt(s, pos + 1)) ELSE Broken
Modified(s, pos, item) ==
  IF pos < Len(s) /\ item # Broken THEN Array([s EXCEPT ![pos + 1] = item]) ELSE Broken

(* The i-th edit modifies the element at its position, but starts from the *)
(* i-th element of the array.                                              *)
PatchEdit(old, result, i, e) ==
  CASE e.t # "edit" -> Broken
    [] e.t = "edit" /\ e.op = "+" -> Inserted(result, e.pos, e.item)
    [] e.t = "edit" /\ e.op = "-" -> Erased(result, e.pos)
    [] e.t = "edit" /\ e.op = "~" -> Modified(result, e.pos, Patch(old[i], e.item))

RollbackEdit(new, result, i, e) ==
  CASE e.t # "edit" -> Broken
    [] e.t = "edit" /\ e.op = "-" -> Inserted(result, e.pos, e.item)
    [] e.t = "edit" /\ e.op = "+" -> Erased(result, e.pos)
    [] e.t = "edit" /\ e.op = "~" -> Modified(result, e.pos, Rollback(new[i], e.item))

Patch(old, d) ==
  CASE d = Undefined -> old
    [] d # Undefined /\ (old.t = "scalar" \/ IsScalarDiff(d)) ->
         IF d.t = "map" /\ New \in DOMAIN d.m THEN d.m[New] ELSE Broken
    [] OTHER ->
         IF d.t # old.t THEN Broken
         ELSE IF old.t = "map"
           THEN OverKeys(LAMBDA r, key : PatchKey(old.m, r.m, key, d.m[key]), old, d.m)
         ELSE OverEdits(LAMBDA r, i : PatchEdit(old.a, r.a, i, d.a[i]), old, d.a)

Rollback(new, d) ==
  CASE d = Undefined -> new
    [] d # Undefined /\ (new.t = "scalar" \/ IsScalarDiff(d)) ->
         IF d.t = "map" /\ Old \in DOMAIN d.m THEN d.m[Old] ELSE Broken
    [] OTHER ->
         IF d.t # new.t THEN Broken
         ELSE IF new.t = "map"
           THEN OverKeys(LAMBDA r, key : RollbackKey(new.m, r.m, key, d.m[key]), new, d.m)
         ELSE OverEdits(LAMBDA r, i : RollbackEdit(new.a, r.a, i, d.a[i]), new, d.a)
================================================================================
