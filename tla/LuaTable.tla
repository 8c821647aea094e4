-------------------------------- MODULE LuaTable --------------------------------
(* Tables of the interpreter (ltable.cpp) and the table library (ltablib.cpp). *)
(* A table keeps `array', the values of 1..Len(array), some of them nil;        *)
(* `entries', an ordered map from keys to values; and `keys', the key that each *)
(* text stands for: an entry is always looked up through the text of its key.   *)
(* The promise a table makes is `said': the value last assigned to each key.    *)
(* A key is <<kind, contents>>; a value is Nil or a positive number.            *)
(* Left out: metatables, keys that are tables or pointers (their text is their  *)
(* address), the random pivots of intervals of RANLIMIT elements and more.      *)
EXTENDS Integers, Sequences, FiniteSets, SequencesExt, TLC

CONSTANTS Values,      \* what a program stores, positive numbers
          Keys,        \* the keys a program assigns to
          Orders,      \* the functions given to table.sort, as relations
          MaxLen,      \* bound: the longest list, and the largest index assigned
          MaxItems     \* bound: the items of a constructor

VARIABLES tab, said, out, want

vars == <<tab, said, out, want>>

Nil == 0
Err == "error"
IntK(n) == <<"int", n>>

-----------------------------------------------------------------------------
(* Keys.                                                                      *)

\* luaV_tointeger: a float with a whole value is that integer.
Normal(k)  == IF k[1] = "flt" THEN IntK(k[2]) ELSE k
Indexes(k) == k[1] \in {"int", "str", "bool"}

\* val_to_table_key.
Text(k) == CASE k[1] = "int" -> ToString(k[2]) [] k[1] = "str" -> k[2]
             [] k[1] = "bool" -> IF k[2] THEN "$boolean@true" ELSE "$boolean@false"

\* table_sort_comparator: truth values, then numbers, then strings, the shorter
\* one first; bytes decide between strings of one length.
Kind(k) == CASE k[1] = "bool" -> 0 [] k[1] = "int" -> 1 [] k[1] = "str" -> 2
CONSTANT StrLess(_, _)
Less(a, b) == \/ Kind(a) < Kind(b)
              \/ Kind(a) = Kind(b) /\ CASE a[1] = "bool" -> ~a[2] /\ b[2] [] a[1] = "int" -> a[2] < b[2]
                                         [] a[1] = "str" -> StrLess(a[2], b[2])

-----------------------------------------------------------------------------
(* Reading and assigning.                                                     *)

New(n) == [array |-> [i \in 1..n |-> Nil], entries |-> << >>, keys |-> << >>]

InArray(t, k) == k[1] = "int" /\ k[2] \in DOMAIN t.array
\* luaH_getint, luaH_getshortstr, getgeneric: is there a place for the key?
Found(t, k) == InArray(t, k) \/ Text(k) \in DOMAIN t.keys
Get(t, key) == LET k == Normal(key)
               IN  IF ~Indexes(k) THEN Nil ELSE IF InArray(t, k) THEN t.array[k[2]]
                   ELSE IF Text(k) \in DOMAIN t.keys THEN t.entries[t.keys[Text(k)]] ELSE Nil
GetInt(t, n) == Get(t, IntK(n))

\* luaH_newkey: the array grows by the index after its last one only.
Extends(t, k) == k = IntK(Len(t.array) + 1)
NewKey(t, k) == IF Extends(t, k) THEN [t EXCEPT !.array = Append(@, Nil)]
                ELSE [t EXCEPT !.entries = (k :> Nil) @@ @, !.keys = (Text(k) :> k) @@ @]
\* The place a value goes to, new or not (luaH_set, luaV_finishset).
Put(t, k, v) == IF InArray(t, k) THEN [t EXCEPT !.array[k[2]] = v] ELSE [t EXCEPT !.entries[t.keys[Text(k)]] = v]
Set(t, key, v) == LET k == Normal(key) IN Put(IF Found(t, k) THEN t ELSE NewKey(t, k), k, v)
SetInt(t, n, v) == Set(t, IntK(n), v)
\* luaH_resize.
Resize(t, n) == [t EXCEPT !.array = [i \in 1..n |-> IF i \in DOMAIN @ THEN @[i] ELSE Nil]]

-----------------------------------------------------------------------------
(* The length: some border of the table (luaH_getn).                           *)

RECURSIVE Bisect(_, _, _), Unbound(_, _, _)
\* i is 0 or holds a value, j holds none.
Bisect(t, i, j) == IF j - i <= 1 THEN i
                   ELSE LET m == (i + j) \div 2
                        IN  IF GetInt(t, m) = Nil THEN Bisect(t, i, m) ELSE Bisect(t, m, j)
Unbound(t, i, j) == IF GetInt(t, j) = Nil THEN Bisect(t, i, j) ELSE Unbound(t, j, 2 * j)
Length(t) == LET n == Len(t.array)
             IN  IF n > 0 /\ t.array[n] = Nil THEN Bisect(t, 0, n)
                 ELSE IF DOMAIN t.entries = {} THEN n ELSE Unbound(t, n, n + 1)

-----------------------------------------------------------------------------
(* Iteration (luaH_next).  The entries of keys other than integers come back   *)
(* under their text.                                                           *)

NoMore == << >>
After(t, ks) == LET live == {k \in ks : t.entries[k] # Nil}
                IN  IF live = {} THEN NoMore
                    ELSE LET k == CHOOSE x \in live : \A y \in live : x = y \/ Less(x, y)
                         IN  <<IF k[1] = "int" THEN k ELSE <<"str", Text(k)>>, t.entries[k]>>
FromArray(t, n) == LET live == {i \in DOMAIN t.array : i > n /\ t.array[i] # Nil}
                   IN  IF live = {} THEN After(t, DOMAIN t.entries)
                       ELSE LET i == CHOOSE x \in live : \A y \in live : x <= y IN <<IntK(i), t.array[i]>>
\* Mutant: the entries after the array are started anew behind the first one.
NextSkipping(t, k) == IF k[1] = "nil" THEN FromArray(t, 0) ELSE IF InArray(t, k) THEN FromArray(t, k[2])
                      ELSE After(t, {x \in DOMAIN t.entries : \E y \in DOMAIN t.entries : Less(t.keys[Text(k)], y) /\ Less(y, x)})
Next_(t, k) == IF k[1] = "nil" THEN FromArray(t, 0) ELSE IF InArray(t, k) THEN FromArray(t, k[2])
               ELSE After(t, {x \in DOMAIN t.entries : Less(t.keys[Text(k)], x)})

RECURSIVE Walk(_, _, _)
\* What a loop of `pairs' sees, in at most n steps.
Walk(t, k, n) == LET r == Next_(t, k) IN IF r = NoMore \/ n = 0 THEN << >> ELSE <<r>> \o Walk(t, r[1], n - 1)

-----------------------------------------------------------------------------
(* The library.                                                               *)

RECURSIVE ShiftUp(_, _, _), ShiftUpForward(_, _, _), ShiftDown(_, _, _)
\* Mutant: the elements move up lowest first.
ShiftUpForward(t, i, pos) == IF i <= pos THEN t
                             ELSE LET u == ShiftUpForward(t, i - 1, pos) IN SetInt(u, i, GetInt(u, i - 1))
ShiftUp(t, i, pos) == IF i <= pos THEN t ELSE ShiftUp(SetInt(t, i, GetInt(t, i - 1)), i - 1, pos)
ShiftDown(t, pos, size) == IF pos >= size THEN SetInt(t, pos, Nil)
                           ELSE ShiftDown(SetInt(t, pos, GetInt(t, pos + 1)), pos + 1, size)
TInsert(t, pos, v) == SetInt(ShiftUp(t, Length(t) + 1, pos), pos, v)

\* tconcat: the values and separators written, or an error.
Missing(t, i, j) == \E n \in i..j : GetInt(t, n) = Nil
TConcat(t, i, j) == IF Missing(t, i, j) THEN Err ELSE [n \in 1..(IF j < i THEN 0 ELSE j - i + 1) |-> GetInt(t, i + n - 1)]

\* set2: what was at i and at j changes places.
Swap(t, i, j) == SetInt(SetInt(t, i, GetInt(t, j)), j, GetInt(t, i))
Lt(less, t, i, j) == <<GetInt(t, i), GetInt(t, j)>> \in less
\* The state of a sort: the table, and whether the order was found invalid.
Sorting(t, bad) == [t |-> t, bad |-> bad]

RECURSIVE UpFrom(_, _, _, _), DownFrom(_, _, _, _), Partition(_, _, _, _, _)
\* The first loop of partition ends at i, or in an error: 0.
UpFrom(less, t, i, up) == IF ~Lt(less, t, i, up - 1) THEN i ELSE IF i = up - 1 THEN 0 ELSE UpFrom(less, t, i + 1, up)
\* The second at j; the pivot is a[up - 1].
DownFrom(less, t, j, x) == IF <<GetInt(t, x.up - 1), GetInt(t, j)>> \notin less THEN j
                           ELSE IF j < x.i THEN -1 ELSE DownFrom(less, t, j - 1, x)
\* Mutant: the pivot is left where it was.
PartitionNoSwap(less, t, i0, j0, up) ==
    LET i == UpFrom(less, t, i0 + 1, up) IN Sorting(t, FALSE) @@ [p |-> IF i = 0 THEN up - 1 ELSE i]
Partition(less, t, i0, j0, up) ==
    LET i == UpFrom(less, t, i0 + 1, up)
        j == DownFrom(less, t, j0 - 1, [i |-> i, up |-> up])
    IN  IF i = 0 \/ j = -1 THEN Sorting(t, TRUE) @@ [p |-> 0]
        ELSE IF j < i THEN Sorting(Swap(t, up - 1, i), FALSE) @@ [p |-> i]
        ELSE Partition(less, Swap(t, i, j), i, j, up)

\* The pivot goes between the first and the last element.
Ends(less, t, lo, up) == IF Lt(less, t, up, lo) THEN Swap(t, lo, up) ELSE t
Middle(less, t, lo, p, up) == IF Lt(less, t, p, lo) THEN Swap(t, p, lo)
                              ELSE IF Lt(less, t, up, p) THEN Swap(t, p, up) ELSE t

RECURSIVE AuxSort(_, _, _, _)
AuxSort(less, s, lo, up) ==
    IF lo >= up \/ s.bad THEN s
    ELSE LET t1 == Ends(less, s.t, lo, up)
             p0 == (lo + up) \div 2
             t2 == Middle(less, t1, lo, p0, up)
             d  == Partition(less, Swap(t2, p0, up - 1), lo, up - 1, up)
         IN  IF up - lo = 1 THEN Sorting(t1, FALSE)
             ELSE IF up - lo = 2 THEN Sorting(t2, FALSE)
             ELSE IF d.p - lo < up - d.p
                  THEN AuxSort(less, AuxSort(less, Sorting(d.t, d.bad), lo, d.p - 1), d.p + 1, up)
                  ELSE AuxSort(less, AuxSort(less, Sorting(d.t, d.bad), d.p + 1, up), lo, d.p - 1)
Sort(less, t) == AuxSort(less, Sorting(t, FALSE), 1, Length(t))

-----------------------------------------------------------------------------
(* The program.  A table is made by a constructor, [k] = v fields first or      *)
(* between, n listed items stored at its end (UOP_NEWTABLE, UOP_SETLIST): `want' *)
(* says so until then.  `out' is the result of the last operation, `want' the   *)
(* one that `said' gives.                                                       *)

Known == {Normal(k) : k \in {x \in Keys : Indexes(Normal(x))}} \cup {IntK(n) : n \in 0..(MaxLen + 1)}
Building(n) == <<"items", n>>
Init == \E n \in 0..MaxItems : tab = New(n) /\ said = [k \in Known |-> Nil] /\ out = Building(n) /\ want = Building(n)
Built == out[1] # "items"
Result(o, w) == out' = <<"result", o>> /\ want' = <<"result", w>>

Told(s, n) == s[IntK(n)]

\* settable: UOP_SETTABLE, lua_seti, rawset; the key must be one a table takes.
Assign(key, v) ==
    LET k == Normal(key) IN
    IF Indexes(k)
    THEN /\ k[1] = "int" => k[2] <= MaxLen
         /\ tab' = Set(tab, key, v) /\ said' = [said EXCEPT ![k] = v]
         /\ IF Built THEN Result(Nil, Nil) ELSE UNCHANGED <<out, want>>
    ELSE /\ Built /\ UNCHANGED <<tab, said>> /\ Result(Err, Err)

\* The items, and those of an open call at the end of the list: more than asked for.
RECURSIVE StoreItems(_, _)
StoreItems(t, vs) == IF vs = << >> THEN t ELSE StoreItems(SetInt(t, Len(vs), Last(vs)), Front(vs))
SetList(vs) == /\ ~Built /\ Len(vs) >= out[2]
               /\ tab' = StoreItems(IF Len(vs) > Len(tab.array) THEN Resize(tab, Len(vs)) ELSE tab, vs)
               /\ said' = [k \in {IntK(i) : i \in DOMAIN vs} |-> vs[k[2]]] @@ said
               /\ Result(Nil, Nil)

TableInsert(pos, v) ==
    LET e == Length(tab) + 1 IN
    /\ Built /\ e <= MaxLen
    /\ IF pos \in 1..e
       THEN /\ tab' = TInsert(tab, pos, v)
            /\ said' = [k \in {IntK(i) : i \in pos..e} |-> IF k[2] = pos THEN v ELSE Told(said, k[2] - 1)] @@ said
            /\ Result(Nil, Nil)
       ELSE UNCHANGED <<tab, said>> /\ Result(Err, Err)

TableAppend(v) == /\ Built /\ Length(tab) < MaxLen
                  /\ tab' = SetInt(tab, Length(tab) + 1, v)
                  /\ said' = [said EXCEPT ![IntK(Length(tab) + 1)] = v]
                  /\ Result(Nil, Nil)

TableRemove(pos) ==
    LET size == Length(tab) IN
    /\ Built /\ size < MaxLen
    /\ IF pos = size \/ pos \in 1..(size + 1)
       THEN /\ tab' = ShiftDown(tab, pos, size)
            /\ said' = [k \in {IntK(i) : i \in pos..(IF pos > size THEN pos ELSE size)} |->
                          IF k[2] < size THEN Told(said, k[2] + 1) ELSE Nil] @@ said
            /\ Result(GetInt(tab, pos), Told(said, pos))
       ELSE UNCHANGED <<tab, said>> /\ Result(Err, Err)

TableSort(less) ==
    LET s == Sort(less, tab) IN
    /\ Built /\ tab' = s.t
    /\ said' = [k \in {IntK(i) : i \in 1..Length(tab)} |-> GetInt(s.t, k[2])] @@ said
    /\ Result(IF s.bad THEN Err ELSE Nil, IF s.bad THEN Err ELSE Nil)

Next == \/ \E k \in Keys, v \in Values \cup {Nil} : Assign(k, v)
        \/ \E n \in 0..MaxLen : \E vs \in [1..n -> Values \cup {Nil}] : SetList(vs)
        \/ \E pos \in 0..MaxLen, v \in Values : TableInsert(pos, v)
        \/ \E v \in Values : TableAppend(v)
        \/ \E pos \in 0..MaxLen : TableRemove(pos)
        \/ \E less \in Orders : TableSort(less)

Spec == Init /\ [][Next]_vars

-----------------------------------------------------------------------------
(* Properties.                                                                *)

\* Whatever moved between the array and the entries, each key reads what was
\* last assigned to it, no key reads what was never assigned, and each library
\* function returned what the assignments say (luaH_get, luaH_newkey, the loops
\* of tinsert and tremove, luaH_resizearray in UOP_SETLIST).
ReadsLastWritten == /\ \A k \in Known : Get(tab, k) = said[k]
                    /\ \A i, j \in 1..MaxLen :
                          TConcat(tab, i, j) = IF \E n \in i..j : Told(said, n) = Nil THEN Err
                                               ELSE [n \in 1..(IF j < i THEN 0 ELSE j - i + 1) |-> Told(said, i + n - 1)]
                    /\ out = want

\* The length is a border of the table, although the array keeps nils and
\* indexes live in two parts (luaH_getn: "'boundary' is an integer index such
\* that t[i] is non-nil and t[i+1] is nil (and 0 if t[1] is nil)").
LengthIsBorder == LET n == Length(tab)
                  IN  (n = 0 \/ GetInt(tab, n) # Nil) /\ GetInt(tab, n + 1) = Nil

\* What a table answers, to reads and to the length operator, is what was
\* written to it.
ReflectsWrites == ReadsLastWritten /\ LengthIsBorder

\* A loop over pairs sees each key with a value once and with its value, unless
\* an open call at the end of a constructor grew the array over an entry, which
\* then stays behind it (luaH_next; UOP_SETLIST).
Overtaken == {k \in DOMAIN tab.entries : InArray(tab, k)}
PairsSeesEachOnce ==
    Overtaken = {} =>
      LET seen == Walk(tab, <<"nil", 0>>, Len(tab.array) + Cardinality(DOMAIN tab.entries) + 1)
          live == {k \in Known : said[k] # Nil}
      IN  /\ Len(seen) = Cardinality(live)
          /\ {<<Text(seen[i][1]), seen[i][2]>> : i \in DOMAIN seen} = {<<Text(k), said[k]>> : k \in live}

\* A sort only rearranges, even when the order function makes no sense and it
\* gives up half way; when the function is an order and the sort says it
\* succeeded, what it leaves is sorted, and with an order it always succeeds
\* (auxsort, partition).
Consistent(less) == \A a, b, c \in Values : /\ <<a, b>> \in less => <<b, a>> \notin less
                                            /\ <<a, b>> \notin less /\ <<b, c>> \notin less => <<a, c>> \notin less
Count(t, n, v) == Cardinality({i \in 1..n : GetInt(t, i) = v})
SortSorts == \A less \in Orders :
    LET s == Sort(less, tab)
        n == Length(tab)
    IN  /\ \A v \in Values \cup {Nil} : Count(s.t, n, v) = Count(tab, n, v)
        /\ Consistent(less) /\ (\A i \in 1..n : GetInt(tab, i) # Nil)
             => ~s.bad /\ \A i, j \in 1..n : i < j => ~Lt(less, s.t, j, i)
=============================================================================
