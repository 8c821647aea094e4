------------------------------ MODULE HostLibrary ------------------------------
(* Functions of the contract library that answer from their arguments and from *)
(* the chain's head: bytes and hexadecimal text, byte streams, the fields of a *)
(* contract's table, future random numbers, balances and addresses             *)
(* (uvm_lib.cpp, uvm_lib.h, simplechain_uvm_api.cpp, address_helper.cpp).      *)
(* Left out: hashes, signatures and public keys, which are fc's.               *)
EXTENDS Integers, Sequences, SequencesExt, FiniteSets, Functions

CONSTANTS
    Base,      \* 16: a byte is two digits
    IntValues, \* 2^32: values of int and uint32_t
    LongValues \* 2^64: values of uint64_t

Byte  == Base * Base
Bytes == 0 .. Byte - 1

\* char is signed; int and uint32_t of a lua_Integer; uint64_t of an int.
Char(n)   == IF n % Byte >= Byte \div 2 THEN (n % Byte) - Byte ELSE n % Byte
Signed(n) == IF n % IntValues >= IntValues \div 2 THEN (n % IntValues) - IntValues ELSE n % IntValues
Unsigned(n) == n % IntValues
Long(n)     == n % LongValues

Error(what) == [ok |-> FALSE, value |-> what]
Ok(value)   == [ok |-> TRUE, value |-> value]

-----------------------------------------------------------------------------
(* Texts.  A text is a sequence of bytes; luaL_checkstring's C string ends at  *)
(* the first NUL.  The digits of a hexadecimal text are modelled by their      *)
(* values, Base + d stands for the capital letter of digit d, other characters *)
(* are no digits.                                                              *)

CString(text) == LET nul == SelectInSeq(text, LAMBDA c : c = 0)
                 IN  IF nul = 0 THEN text ELSE SubSeq(text, 1, nul - 1)

IsDigit(c)  == c \in 0 .. 2 * Base - 1
HexDigit(c) == c % Base

\* hex_to_chars, hex_to_bytes.
HexToBytes(text) ==
    IF Len(text) % 2 = 1 \/ \E i \in DOMAIN text : ~IsDigit(text[i]) THEN Error("parse hex to bytes error")
    ELSE Ok([i \in 1 .. Len(text) \div 2 |-> Base * HexDigit(text[2 * i - 1]) + HexDigit(text[2 * i])])

\* fc::to_hex.
ToHex(bytes) == [i \in 1 .. 2 * Len(bytes) |->
                   IF i % 2 = 1 THEN bytes[(i + 1) \div 2] \div Base ELSE bytes[i \div 2] % Base]

\* A Lua value given to the library: [kind |-> "int", n |-> 7] and the like.
IsNumber(v) == v.kind \in {"int", "number"}

ByteOf(n)       == n % Byte

\* bytes_to_hex reads the keys 1, 2, ... of a table until one is missing; a
\* value there that is no number is an error.
BytesToHex(table) ==
    LET last == CHOOSE n \in 0 .. Cardinality(DOMAIN table) :
                    1 .. n \subseteq DOMAIN table /\ n + 1 \notin DOMAIN table
    IN  IF \E i \in 1 .. last : ~IsNumber(table[i]) THEN Error("invalid byte int bytes_to_hex's argument")
        ELSE Ok(ToHex([i \in 1 .. last |-> ByteOf(table[i].n)]))

\* str_to_hex.
StrToHex(text) == ToHex(CString(text))

-----------------------------------------------------------------------------
(* UvmByteStream and the pool of a run's streams.                             *)

EmptyStream == [pos |-> 0, buff |-> << >>]
Eof(s)      == s.pos >= Len(s.buff)
Current(s)  == IF Eof(s) THEN -1 ELSE Char(s.buff[s.pos + 1])
StreamNext(s) == IF Eof(s) THEN s ELSE [s EXCEPT !.pos = @ + 1]
ResetPos(s)  == [s EXCEPT !.pos = 0]
Push(s, n)   == [s EXCEPT !.buff = Append(@, n % Byte)]
PushString(s, text) == [s EXCEPT !.buff = @ \o CString(text)]

\* register_object_in_pool, is_object_in_pool, release_objects_in_pool.
RegisterObject(pool, object) == [o \in DOMAIN pool \cup {object} |->
                                   IF o = object THEN EmptyStream ELSE pool[o]]
IsInPool(pool, object)       == object \in DOMAIN pool
ReleaseObjects(pool)         == << >>
\* A method of a stream, which leaves it as s: the stream must be the run's.
StreamMethod(pool, object, s) ==
    IF IsInPool(pool, object) THEN Ok([pool EXCEPT ![object] = s]) ELSE Error("Stream expected")

\* The bytes a program reads from where the stream stands until eof.
ReadAll(s) ==
    LET rest[n \in Nat] == LET r == rest[n - 1] IN
            IF n = 0 THEN [s |-> s, read |-> << >>]
            ELSE IF Eof(r.s) THEN r
            ELSE [s |-> StreamNext(r.s), read |-> Append(r.read, Current(r.s))]
    IN  rest[Len(s.buff) + 1].read

\* Array and Map: their argument if it is a table, else a new one.
Container(given) == IF given.kind = "table" THEN given ELSE [kind |-> "table", fields |-> << >>]

-----------------------------------------------------------------------------
(* A contract's table: fields of its own and those kept in _data.              *)

Kept == {"id", "name", "storage"}
\* contract's __newindex.
ContractNewindex(data, key, value) ==
    IF key \in Kept /\ key \in DOMAIN data THEN Error("attempt to update a read-only table!")
    ELSE Ok([k \in DOMAIN data \cup {key} |-> IF k = key THEN value ELSE data[k]])
\* contract's __index.
ContractIndex(data, key, missing) == IF key \in DOMAIN data THEN data[key] ELSE missing

-----------------------------------------------------------------------------
(* Random numbers of blocks.  A chain is the sequence of what its blocks'     *)
(* digests give, the genesis block, number 0, first.                           *)

HeaderBlockNum(chain) == Len(chain) - 1

\* wait_for_future_random of a lua_Integer.
WaitForFutureRandom(chain, next) ==
    IF next <= 0 THEN Error("wait_for_future_random first param must be positive number")
    ELSE LET target == Long(HeaderBlockNum(chain) + Signed(next))
         IN  Ok(IF target < Long(Signed(next)) THEN 0 ELSE Unsigned(target))

\* get_waited.
Waited(chain, num) ==
    IF Unsigned(num) <= 1 THEN -2
    ELSE IF HeaderBlockNum(chain) < Unsigned(num) THEN -1 ELSE chain[Unsigned(num) + 1]

ChainRandom(chain) == Last(chain)

-----------------------------------------------------------------------------
(* Addresses and balances.                                                     *)

IsValidAddress(addr) == addr # << >>
\* SIMPLECHAIN_CONTRACT_ADDRESS_PREFIX.
IsValidContractAddress(addr, prefix) == IsStrictPrefix(prefix, addr)

\* get_contract_balance_amount: the chain's balance with what the evaluation has
\* changed so far, -3 for a symbol no asset has.
GetContractBalanceAmount(balances, changes, key, symbols) ==
    IF key[2] \notin symbols THEN -3
    ELSE (IF key \in DOMAIN balances THEN balances[key] ELSE 0)
           + (IF key \in DOMAIN changes THEN changes[key] ELSE 0)
=============================================================================
