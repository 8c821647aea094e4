--------------------------------- MODULE VmGc ---------------------------------
(* The memory of a VM: src/vmgc/src/gcstate.cpp and gcstate.h, with the ways    *)
(* the interpreter asks for it (lstate.cpp, lauxlib.cpp, lstring.cpp).          *)
(* Blocks come from malloc and go back when the state is deleted; in between    *)
(* they are cut into buffers, and freed buffers wait in a list per size or, the  *)
(* big ones, in one list that is searched from its front.  Short strings lie    *)
(* in blocks of their own, one object per hash.  An address is <<block, offset>>.*)
(* Left out: what a destructor does, sizes whose rounding overflows, and         *)
(* gc_new_object_vector with gc_grow_object_vector, which no source calls.       *)
EXTENDS Integers, Sequences, FiniteSets, FiniteSetsExt, SequencesExt, Functions

CONSTANTS
    Align,        \* 8
    MaxSmall,     \* DEFAULT_MAX_SMALL_BUFFER_SIZE
    BlockSize,    \* DEFAULT_GC_BLOCK_SIZE
    MaxTotal,     \* LUA_MALLOC_TOTAL_SIZE
    MaxPool,      \* MAX_GC_STR_POOL_ITEMS_COUNT
    MaxShort,     \* DEFAULT_MAX_GC_SHORT_STRING_SIZE
    StringSize,   \* sizeof(GcString)
    GrowLimit,    \* the limit a caller gives gc_grow_vector
    MinArray,     \* GC_MINSIZEARRAY
    Texts,        \* the strings of the program, sequences of characters
    HashBits,     \* 32: the width of a hash
    Sizes,        \* what the program asks for
    MaxHeld,      \* bound on the buffers a program asks for
    MaxKept,      \* bound on its strings
    MaxVector     \* bound on the elements of a vector

ASSUME Layout ==
    /\ {Align, MaxSmall, BlockSize, MaxTotal, StringSize, MinArray} \subseteq Nat \ {0}
    /\ MaxSmall % Align = 0 /\ BlockSize % Align = 0 /\ StringSize <= BlockSize
    /\ Sizes \subseteq Nat /\ GrowLimit \in Nat /\ MaxTotal \in Nat

VARIABLES
    blocks,   \* [size, strings]: the blocks in the order malloc gave them
    live,     \* _malloced_blocks_buffers: [at, size, obj]
    small,    \* _empty_small_buffers, a list of addresses per size
    big,      \* _empty_big_buffers: [at, size], in order
    pool,     \* _gc_strpool: hash |-> address
    room,     \* _empty_str_buffer: [at, size]
    used,     \* _used_size
    total,    \* _total_malloced_blocks_size
    texts,    \* the strings in memory: address |-> text
    held,     \* what the program was given: [at, size, count], count elements of size
    kept,     \* the strings it was given: [at, text]
    open      \* the VM is not closed
vars == <<blocks, live, small, big, pool, room, used, total, texts, held, kept, open>>

Null == <<0, 0>>
Align8(size) == ((size + Align - 1) \div Align) * Align
Plus(at, n) == <<at[1], at[2] + n>>

\* The heap as a record, for the operators that pass it on.
Heap == [blocks |-> blocks, live |-> live, small |-> small, big |-> big, used |-> used, total |-> total]
Become(h) == /\ blocks' = h.blocks /\ live' = h.live /\ small' = h.small
             /\ big' = h.big /\ used' = h.used /\ total' = h.total

InsertEmptyBuffer(h, at, size) ==
    CASE size = 0                                        -> h
      [] size > MaxSmall \/ (size > 0 /\ size % Align # 0) -> [h EXCEPT !.big = Append(@, [at |-> at, size |-> size])]
      [] OTHER                                           -> [h EXCEPT !.small[size \div Align] = Append(@, at)]
InsertMallocedBuffer(h, at, size, obj) ==
    [h EXCEPT !.live = @ \cup {[at |-> at, size |-> size, obj |-> obj]}, !.used = @ + size]

FromSmall(h, size, obj) ==
    LET n == size \div Align
    IN  [at |-> Last(h.small[n]),
         h  |-> InsertMallocedBuffer([h EXCEPT !.small[n] = Front(@)], Last(h.small[n]), size, obj)]
\* Mutant: the rest of a big buffer keeps the buffer's address.
FromBigInPlace(h, i, size, obj) ==
    LET b == h.big[i]
    IN  [at |-> b.at, h |-> InsertMallocedBuffer(InsertEmptyBuffer([h EXCEPT !.big = RemoveAt(@, i)], b.at, b.size - size), b.at, size, obj)]
\* What is left of a big buffer stays in its place, or is a small one.
FromBig(h, i, size, obj) ==
    LET b    == h.big[i]
        rest == [at |-> Plus(b.at, size), size |-> b.size - size]
        cut  == CASE rest.size = 0        -> [h EXCEPT !.big = RemoveAt(@, i)]
                  [] rest.size \in 1..MaxSmall -> [h EXCEPT !.big = RemoveAt(@, i), !.small[rest.size \div Align] = Append(@, rest.at)]
                  [] OTHER                -> [h EXCEPT !.big[i] = rest]
    IN  [at |-> b.at, h |-> InsertMallocedBuffer(cut, b.at, size, obj)]
FromNewBlock(h, size, obj) ==
    LET most == IF size > BlockSize THEN size ELSE BlockSize
        at   == <<Len(h.blocks) + 1, 0>>
        g    == [h EXCEPT !.blocks = Append(@, [size |-> most, strings |-> FALSE]), !.total = @ + most]
    IN  IF most + h.total > MaxTotal THEN [at |-> Null, h |-> h]
        ELSE [at |-> at, h |-> InsertEmptyBuffer(InsertMallocedBuffer(g, at, size, obj), Plus(at, size), most - size)]

\* Null where the code throws "not enough memery in gc".
GcMalloc(h, asked, obj) ==
    LET size == Align8(asked)
        fits == {i \in DOMAIN h.big : size <= h.big[i].size}
    IN  CASE asked = 0 -> [at |-> Null, h |-> h]
          [] asked > 0 /\ size <= MaxSmall /\ h.small[size \div Align] # <<>> -> FromSmall(h, size, obj)
          [] asked > 0 /\ ~(size <= MaxSmall /\ h.small[size \div Align] # <<>>) ->
                IF fits # {} THEN FromBig(h, Min(fits), size, obj) ELSE FromNewBlock(h, size, obj)
GcMallocVector(h, count, size) == IF count = 0 THEN [at |-> Null, h |-> h] ELSE GcMalloc(h, count * size, FALSE)

\* An address that starts no live buffer is left alone.
GcFree(h, at) ==
    IF \E b \in h.live : b.at = at
    THEN LET b == CHOOSE b \in h.live : b.at = at
         IN  InsertEmptyBuffer([h EXCEPT !.live = @ \ {b}, !.used = @ - b.size], at, b.size)
    ELSE h
\* Every element is freed; only the first one starts a buffer.
GcFreeArray(h, at, count, size) ==
    LET freed[i \in 0..count] == IF i = 0 THEN h ELSE GcFree(freed[i - 1], Plus(at, (i - 1) * size))
    IN  freed[count]
\* [at, h]; a smaller size keeps the buffer as it is.
GcRealloc(h, at, old, new) ==
    LET m == GcMalloc(h, new, FALSE)
    IN  CASE new = 0               -> [at |-> Null, h |-> GcFree(h, at)]
          [] new > 0 /\ at = Null  -> m
          [] new > 0 /\ at # Null /\ new <= old -> [at |-> at, h |-> h]
          [] new > 0 /\ at # Null /\ new > old  -> IF m.at = Null THEN m ELSE [m EXCEPT !.h = GcFree(@, at)]
Larger(count) ==
    IF count >= GrowLimit \div 2 THEN GrowLimit
    ELSE IF count * 2 < MinArray THEN MinArray ELSE count * 2
\* [at, h, count]: room for one more element than n.
GcGrowVector(h, at, n, count, size) ==
    LET more == Larger(count)
        m    == GcMallocVector(h, more, size)
    IN  CASE n + 1 <= count -> [at |-> at, h |-> h, count |-> count]
          [] n + 1 > count /\ (count >= GrowLimit \/ m.at = Null) -> [at |-> Null, h |-> h, count |-> count]
          [] OTHER -> [at |-> m.at, h |-> IF count > 0 THEN GcFreeArray(m.h, at, count, size) ELSE m.h, count |-> more]

-----------------------------------------------------------------------------
(* The pool of short strings.                                                 *)

Bit(n, i) == (n \div 2^i) % 2
Xor(m, n) == SumFunction([i \in 0..(HashBits - 1) |-> IF Bit(m, i) = Bit(n, i) THEN 0 ELSE 2^i])

\* gc_str_hash, of a text too short for any character to be skipped.
StrHash(text) ==
    LET n == Len(text)
        h[i \in 0..n] == IF i = 0 THEN Xor(1, n)
                         ELSE Xor(h[i - 1], h[i - 1] * 32 + (h[i - 1] \div 4) + text[n + 1 - i])
    IN  h[n]

Hash == [text \in Texts |-> StrHash(text)]

\* strncmp over the length of the text that is looked for: nothing is compared
\* behind a NUL.
CText(text) == LET nul == {i \in DOMAIN text : text[i] = 0} IN IF nul = {} THEN text ELSE SubSeq(text, 1, Min(nul) - 1)
Least(m, n) == IF m < n THEN m ELSE n
SameStart(s, t, n) == SubSeq(s, 1, Least(n, Len(s))) = SubSeq(t, 1, Least(n, Len(t)))
\* Mutant: what has the hash is the string.
KnownByHash(text) == Hash[text] \in DOMAIN pool
Known(text) ==
    /\ Hash[text] \in DOMAIN pool
    /\ SameStart(CText(texts[pool[Hash[text]]]), CText(text), Len(text))
Poolable(text) ==
    /\ Len(text) < MaxShort
    /\ Hash[text] \in DOMAIN pool \/ Cardinality(DOMAIN pool) < MaxPool
StringBlock == [size |-> BlockSize, strings |-> TRUE]
Enter(f, a, x) == [y \in DOMAIN f \cup {a} |-> IF y = a THEN x ELSE f[y]]
\* The first string of a hash stays the one that is found.
Pooled(text, at) ==
    /\ pool' = IF Hash[text] \in DOMAIN pool THEN pool ELSE Enter(pool, Hash[text], at)
    /\ texts' = Enter(texts, at, text)
    /\ used' = used + Align8(StringSize)
    /\ kept' = kept \cup {[at |-> at, text |-> text]}
    /\ UNCHANGED <<live, small, big, held, open>>

-----------------------------------------------------------------------------
(* What a program asks for.                                                   *)

Asking == open /\ Cardinality(held) < MaxHeld
Naming == open /\ Cardinality(kept) < MaxKept
Given(at, size, count) == [at |-> at, size |-> size, count |-> count]
NoStrings == UNCHANGED <<pool, room, texts, kept, open>>

\* lua_malloc and lua_calloc.
Malloc ==
    /\ Asking
    /\ \E size \in Sizes, count \in 1..2 :
          LET m == GcMallocVector(Heap, count, size)
          IN  /\ Become(m.h)
              /\ held' = IF m.at = Null THEN held ELSE held \cup {Given(m.at, size, count)}
    /\ NoStrings

\* lua_free, or gc_free_array for a vector.
Free ==
    /\ open
    /\ \E b \in held : /\ Become(IF b.count = 1 THEN GcFree(Heap, b.at) ELSE GcFreeArray(Heap, b.at, b.count, b.size))
                       /\ held' = held \ {b}
    /\ NoStrings

\* lua_realloc takes the new buffer before it frees the old one; l_alloc frees
\* on size 0 as gc_realloc does.
Realloc ==
    /\ open
    /\ \E b \in held, new \in Sizes \cup {0} :
          LET r == GcRealloc(Heap, b.at, b.size, new)
          IN  /\ b.count = 1
              /\ Become(r.h)
              /\ held' = CASE new = 0                  -> held \ {b}
                            [] new > 0 /\ r.at = Null -> held
                            [] OTHER                   -> (held \ {b}) \cup {Given(r.at, IF new > b.size THEN new ELSE b.size, 1)}
    /\ NoStrings

GrowVector ==
    /\ open
    /\ \E b \in held :
          LET g == GcGrowVector(Heap, b.at, b.count, b.count, b.size)
          IN  /\ b.count <= MaxVector
              /\ Become(g.h)
              /\ held' = IF g.at = Null THEN held ELSE (held \ {b}) \cup {Given(g.at, b.size, g.count)}
    /\ NoStrings

\* luaS_newlstr, when the pool has the text or what passes for it.
FindString ==
    /\ Naming
    /\ \E text \in Texts :
          /\ Poolable(text) /\ Known(text)
          /\ kept' = kept \cup {[at |-> pool[Hash[text]], text |-> text]}
    /\ UNCHANGED <<blocks, live, small, big, pool, room, used, total, texts, held, open>>

\* A new string takes what is left of the last string block.
PoolString ==
    /\ Naming /\ Align8(StringSize) <= room.size
    /\ \E text \in Texts : Poolable(text) /\ ~Known(text) /\ Pooled(text, room.at)
    /\ room' = [at |-> Plus(room.at, Align8(StringSize)), size |-> room.size - Align8(StringSize)]
    /\ UNCHANGED <<blocks, total>>

\* Or a block of its own, and the rest of the last one stays unused.
PoolStringInNewBlock ==
    LET at == <<Len(blocks) + 1, 0>>
        size == Align8(StringSize)
    IN  /\ Naming /\ size > room.size /\ BlockSize + total <= MaxTotal
        /\ \E text \in Texts : Poolable(text) /\ ~Known(text) /\ Pooled(text, at)
        /\ room' = IF size < BlockSize THEN [at |-> Plus(at, size), size |-> BlockSize - size] ELSE room
        /\ blocks' = Append(blocks, StringBlock)
        /\ total' = total + BlockSize

\* Any other string is an object of its own.
NewString ==
    /\ Naming
    /\ \E text \in Texts :
          LET m == GcMalloc(Heap, StringSize, TRUE)
          IN  /\ ~Poolable(text) /\ m.at # Null
              /\ Become(m.h)
              /\ texts' = Enter(texts, m.at, text)
              /\ kept' = kept \cup {[at |-> m.at, text |-> text]}
    /\ UNCHANGED <<pool, room, held, open>>

\* close_state: gc_free_all, and the blocks go back with the state.
Close ==
    /\ open /\ open' = FALSE
    /\ blocks' = <<>> /\ live' = {} /\ small' = [n \in DOMAIN small |-> <<>>] /\ big' = <<>>
    /\ pool' = [h \in {} |-> Null] /\ room' = [at |-> Null, size |-> 0] /\ texts' = [at \in {} |-> <<>>]
    /\ used' = 0 /\ total' = 0 /\ held' = {} /\ kept' = {}

Init ==
    /\ blocks = <<>> /\ live = {} /\ small = [n \in 1..(MaxSmall \div Align) |-> <<>>] /\ big = <<>>
    /\ pool = [h \in {} |-> Null] /\ room = [at |-> Null, size |-> 0] /\ texts = [at \in {} |-> <<>>]
    /\ used = 0 /\ total = 0 /\ held = {} /\ kept = {} /\ open = TRUE

Next == \/ Malloc \/ Free \/ Realloc \/ GrowVector \/ FindString \/ PoolString
        \/ PoolStringInNewBlock \/ NewString \/ Close

Spec == Init /\ [][Next]_vars

-----------------------------------------------------------------------------
(* Properties.                                                                *)

\* Every address in [at, at + n).
Cells(at, n) == {Plus(at, i) : i \in 0..(n - 1)}
SumSizes(S) == SumFunction([b \in S |-> b.size])
FreeOf(h) ==
    (UNION {{[at |-> a, size |-> n * Align] : a \in ToSet(h.small[n])} : n \in DOMAIN h.small}) \cup ToSet(h.big)
FreeBuffers == FreeOf(Heap)
PooledStrings == {[at |-> a, size |-> Align8(StringSize)] : a \in {a \in DOMAIN texts : blocks[a[1]].strings}}

\* What the program holds lies inside one block and shares no byte with another
\* thing it holds, a string, or what the heap would give next, after any order
\* of allocations, frees, growths and reallocations (gc_malloc, gc_free).
MemoryDisjoint ==
    LET mine  == {[at |-> b.at, size |-> b.size * b.count] : b \in held}
        taken == mine \cup {[at |-> k.at, size |-> StringSize] : k \in kept}
    IN  /\ \A b \in taken : b.at[1] \in DOMAIN blocks /\ b.at[2] + b.size <= blocks[b.at[1]].size
        /\ \A b \in taken, c \in taken \cup FreeBuffers :
              b # c => Cells(b.at, b.size) \cap Cells(c.at, c.size) = {}

\* Every byte of a heap block is in one buffer, live or free, however the block
\* was cut; the sizes in use are what _used_size counts, and the blocks what
\* _total_malloced_blocks_size counts, within the limit of the VM.
NothingLost ==
    /\ \A n \in DOMAIN blocks : ~blocks[n].strings =>
          \A i \in 0..(blocks[n].size - 1) :
             \E b \in live \cup FreeBuffers : \A c \in live \cup FreeBuffers :
                <<n, i>> \in Cells(c.at, c.size) <=> c = b
    /\ used = SumSizes(live) + SumSizes(PooledStrings)
    /\ total = SumFunction([n \in DOMAIN blocks |-> blocks[n].size])
    /\ total <= MaxTotal

\* The heap is divided between what is held and what can be given, without
\* overlap or gap.
HeapSound == MemoryDisjoint /\ NothingLost

\* "new string (with explicit length)": the object luaS_newlstr returns holds the
\* text that was asked for, also later, whatever other text has its hash; but one
\* of the same hash that was pooled first and begins with it, up to its end or a
\* NUL in it, stands for it.  The same text gives the same string in every case.
StringIsText ==
    \A k \in kept :
        LET got == texts[k.at]
        IN  /\ got = k.text \/ (Hash[got] = Hash[k.text] /\ IsPrefix(CText(k.text), got))
            /\ \A l \in kept : l.text = k.text => texts[l.at] = got
=============================================================================
