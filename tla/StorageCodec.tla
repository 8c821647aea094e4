----------------------------- MODULE StorageCodec -----------------------------
(* What becomes of a Lua value that a contract stores, or passes through      *)
(* cbor_encode: lua_type_to_storage_value_type and luaL_to_cbor of            *)
(* lauxlib.cpp, the conversions of uvm_storage.cpp, and the way back.         *)
(* A Lua value is <<type, contents>>, a string the sequence of its bytes, a   *)
(* table a function from keys to values.  A storage value is <<type, items>>  *)
(* where a table's items are a function from strings.                         *)
EXTENDS Cbor

CONSTANTS MaxDepth     \* LUA_MAP_TRAVERSER_MAX_DEPTH

NilV       == <<"nil", 0>>
BoolV(b)   == <<"bool", b>>
IntKey(n)  == <<"int", n>>
StrKey(s)  == <<"str", s>>
NumV(neg, m) == <<"num", [neg |-> neg, m |-> m]>>
FltV(f)    == <<"flt", f>>
TableV(f)  == <<"table", f>>

\* std::to_string.
DecimalDigits[n \in Nat] == IF n < 10 THEN <<Digit(n)>> ELSE Append(DecimalDigits[n \div 10], Digit(n % 10))
ToText(n) == IF n < 0 THEN <<Minus>> \o DecimalDigits[-n] ELSE DecimalDigits[n]

\* lua_len, of tables with one border.
Border(t) == CHOOSE n \in 0..Cardinality(DOMAIN t) :
                (\A i \in 1..n : IntKey(i) \in DOMAIN t) /\ IntKey(n + 1) \notin DOMAIN t

\* lua_table_to_map_traverser_with_nested: the text a key is stored under.  Only
\* a key that is a string or a number is stored, a truth value with a whole
\* number under it too, and never "package".
Package      == <<112, 97, 99, 107, 97, 103, 101>>
Stored(t, k) == (k[1] \in {"int", "str"} \/ (k[1] = "bool" /\ t[k][1] = "num")) /\ k # StrKey(Package)
TextOf(k)    == CASE k[1] = "int" -> ToText(k[2]) [] k[1] = "str" -> k[2]
                  [] k[1] = "bool" -> ToText(IF k[2] THEN 1 ELSE 0)

\* luaL_traverse_table_with_nested: the array part first, then the other keys;
\* what comes later under the same text wins.
KeyOf(t, s) == LET ks == {k \in DOMAIN t : Stored(t, k) /\ TextOf(k) = s}
                   late == {k \in ks : k[1] # "int" \/ k[2] \notin 1..Border(t)}
               IN  CHOOSE k \in (IF late = {} THEN ks ELSE late) : TRUE
Texts(t)    == {TextOf(k) : k \in {x \in DOMAIN t : Stored(t, x)}}

RECURSIVE ToStorage(_, _)
ItemMap(t, depth) == [s \in Texts(t) |-> ToStorage(t[KeyOf(t, s)], depth)]

\* lua_type_to_storage_value_type: a table with a first element is an array.
ToStorage(v, depth) ==
    IF depth > MaxDepth THEN <<"null", 0>>
    ELSE CASE v[1] = "nil"   -> <<"null", 0>>
           [] v[1] = "bool"  -> v
           [] v[1] = "num"   -> <<"int", v[2]>>
           [] v[1] = "flt"   -> <<"number", v[2]>>
           [] v[1] = "str"   -> <<"string", v[2]>>
           [] v[1] = "table" -> <<IF Border(v[2]) > 0 THEN "unknown_array" ELSE "unknown_table", ItemMap(v[2], depth + 2)>>
           [] OTHER          -> <<"not_support", 0>>

ArrayTypes == {"bool_array", "int_array", "number_array", "string_array", "unknown_array"}
TableTypes == {"bool_table", "int_table", "number_table", "string_table", "unknown_table"}

\* UvmTableMap keeps its keys by length, then by bytes.
Shorter(a, b)   == Len(a) < Len(b) \/ (Len(a) = Len(b) /\ Before(a, b))
MapOrder(items) == Ranked(DOMAIN items, Shorter)

\* uvm_storage_value_to_cbor: an array keeps its items in the map's order and
\* forgets their keys.
RECURSIVE StorageToCbor(_)
StorageToCbor(v) ==
    CASE v[1] \in {"null", "bool", "string", "int"} -> v
      [] v[1] = "number" -> <<"float", v[2]>>
      [] v[1] \in ArrayTypes -> LET ks == MapOrder(v[2])
                                IN  <<"array", [i \in DOMAIN ks |-> StorageToCbor(v[2][ks[i]])]>>
      [] v[1] \in TableTypes -> <<"map", [s \in DOMAIN v[2] |-> StorageToCbor(v[2][s])]>>
      [] OTHER -> Failed

\* cbor_to_uvm_storage_value: the type of the first item types the whole.
ItemType(items, order, suffix) ==
    IF order = <<>> \/ items[Head(order)][1] \notin {"bool", "int", "number", "string"} THEN "unknown" \o suffix
    ELSE items[Head(order)][1] \o suffix

RECURSIVE CborToStorage(_)
CborToStorage(c) ==
    CASE c[1] \in {"null", "bool", "string"} -> c
      [] c[1] \in {"int", "extra"} -> <<"int", ForceAsInt(c)>>
      [] c[1] = "float" -> <<"number", c[2]>>
      [] c[1] = "array" ->
            LET keys  == [i \in DOMAIN c[2] |-> ToText(i)]
                items == [s \in Range(keys) |-> CborToStorage(c[2][CHOOSE i \in DOMAIN keys : keys[i] = s])]
            IN  <<ItemType(items, keys, "_array"), items>>
      [] c[1] = "map" ->
            LET items == [s \in DOMAIN c[2] |-> CborToStorage(c[2][s])]
            IN  <<ItemType(items, InOrder(DOMAIN items), "_table"), items>>
      [] OTHER -> Failed

\* lua_push_storage_value: an array up to the first number that is missing.
RECURSIVE Push(_)
Push(v) ==
    CASE v[1] = "bool"   -> v
      [] v[1] = "int"    -> <<"num", v[2]>>
      [] v[1] = "number" -> <<"flt", v[2]>>
      [] v[1] = "string" -> <<"str", v[2]>>
      [] v[1] \in ArrayTypes ->
            LET n == CHOOSE n \in 0..Cardinality(DOMAIN v[2]) :
                        (\A i \in 1..n : ToText(i) \in DOMAIN v[2]) /\ ToText(n + 1) \notin DOMAIN v[2]
                kept == {i \in 1..n : Push(v[2][ToText(i)]) # NilV}
            IN  TableV([k \in {IntKey(i) : i \in kept} |-> Push(v[2][ToText(k[2])])])
      [] v[1] \in TableTypes ->
            LET kept == {s \in DOMAIN v[2] : Push(v[2][s]) # NilV}
            IN  TableV([k \in {StrKey(s) : s \in kept} |-> Push(v[2][k[2]])])
      [] OTHER -> NilV

\* A value that cannot be converted throws, wherever it is in the structure.
RECURSIVE Broken(_)
Broken(c) == c = Failed \/ (c[1] \in {"array", "map"} /\ \E x \in DOMAIN c[2] : Broken(c[2][x]))
EncodeTree(c) == IF Broken(c) THEN <<>> ELSE Encode(c)

\* What a contract reads back of what it stored: get_storage_data_from_lua_storage
\* and create_lua_storage_from_storage_data.
Save(v) == EncodeTree(StorageToCbor(ToStorage(v, 0)))
Load(bytes) == Push(CborToStorage(Decode(bytes)))

-----------------------------------------------------------------------------
(* cbor_encode and cbor_decode, and the arguments and results of the native   *)
(* interface.                                                                 *)

\* is_uvm_array_table: the keys are the numbers from 1 on (as decimal numbers
\* without leading zeros, which the code would also take).
IsArray(items) == DOMAIN items = {ToText(i) : i \in 1..Cardinality(DOMAIN items)}

\* A double is cut to its whole part.
Truncated(f) == LET m == Magnitude(FoldLeft(LAMBDA acc, d : acc * 10 + d, 0, f.whole))
                IN  Whole(f.neg /\ m # Zero, m)

\* uvm_json_item_to_cbor.  A nested table that has an array part is an array,
\* of the items up to the first number that is missing.
RECURSIVE JsonItem(_)
JsonItem(v) ==
    CASE v[1] \in {"null", "bool", "string", "int"} -> v
      [] v[1] = "number" -> Truncated(v[2])
      [] v[1] \in ArrayTypes ->
            LET n == CHOOSE n \in 0..Cardinality(DOMAIN v[2]) :
                        (\A i \in 1..n : ToText(i) \in DOMAIN v[2]) /\ ToText(n + 1) \notin DOMAIN v[2]
            IN  <<"array", [i \in 1..n |-> JsonItem(v[2][ToText(i)])]>>
      [] v[1] \in TableTypes -> <<"map", [s \in DOMAIN v[2] |-> JsonItem(v[2][s])]>>
      [] OTHER -> Failed

\* luaL_to_cbor.
ToCbor(v) ==
    IF v[1] = "table"
    THEN LET items == ItemMap(v[2], 1)
         IN  JsonItem(<<IF IsArray(items) THEN "unknown_array" ELSE "unknown_table", items>>)
    ELSE JsonItem(ToStorage(v, 0))

\* luaL_push_cbor_as_json: an extra integer loses its sign.
RECURSIVE PushJson(_)
PushJson(c) ==
    CASE c[1] \in {"null", "undefined"} -> NilV
      [] c[1] = "bool"   -> c
      [] c[1] = "int"    -> <<"num", c[2]>>
      [] c[1] = "extra"  -> <<"num", AsInt64(c[2].m)>>
      [] c[1] = "float"  -> <<"flt", c[2]>>
      [] c[1] = "string" -> <<"str", c[2]>>
      [] c[1] = "array"  ->
            LET kept == {i \in DOMAIN c[2] : PushJson(c[2][i]) # NilV}
            IN  TableV([k \in {IntKey(i) : i \in kept} |-> PushJson(c[2][k[2]])])
      [] c[1] = "map"    ->
            LET kept == {s \in DOMAIN c[2] : PushJson(c[2][s]) # NilV}
            IN  TableV([k \in {StrKey(s) : s \in kept} |-> PushJson(c[2][k[2]])])
      [] OTHER -> <<"refused", 0>>

CborEncode(v) == EncodeTree(ToCbor(v))
CborDecode(bytes) == PushJson(Decode(bytes))
=============================================================================
