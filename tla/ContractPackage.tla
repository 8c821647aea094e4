--------------------------- MODULE ContractPackage ---------------------------
(* Contract packages (.gpc): ContractHelper::save_code_to_file writes a        *)
(* compiled contract, load_contract_from_common_stream_and_close reads it      *)
(* from a file (create_contract_from_file) or from the decoded argument of     *)
(* the RPC create_contract (contract_helper.cpp, chain_rpc.cpp).               *)
(* Bytes are numbers below ByteValues.  Numbers of a package are big-endian    *)
(* and of four bytes; names and code are counted octets.  Lengths are the ones *)
(* a writer can produce: reading a negative length is left out.                *)
EXTENDS Integers, Sequences, FiniteSets, SequencesExt, FiniteSetsExt

CONSTANTS
    ByteValues, \* number of values of a byte (256 in the code)
    NameSize, \* size of api_name_buf (128 in the code)
    ArgTypes  \* UvmTypeInfoEnum values an api argument may have

\* The sha1 of the code, five numbers: any digest which tells the codes apart.
Digest(code) == LET sum == FoldLeft(LAMBDA a, b : (3 * a + b + 1) % ByteValues, 0, code)
                IN  <<sum, Len(code) % ByteValues, 7, 7, 7>>

-----------------------------------------------------------------------------
(* Writing.                                                                   *)

WriteInt(n) == <<0, 0, (n \div ByteValues) % ByteValues, n % ByteValues>>
WriteOctets(s) == WriteInt(Len(s)) \o s
WriteList(names) == WriteInt(Len(names)) \o FlattenSeq([i \in 1..Len(names) |-> WriteOctets(names[i])])

\* save_code_to_file: apis that are offline apis too are written as offline only,
\* and the argument types of the apis are not written at all.
ChainApis(m) == SelectSeq(m.apis, LAMBDA a : ~Contains(m.offline, a))
WriteStorages(ps) ==
    WriteInt(Len(ps)) \o FlattenSeq([i \in 1..Len(ps) |-> WriteOctets(ps[i].name) \o WriteInt(ps[i].type)])
SaveCode(m) ==
    FlattenSeq([i \in 1..5 |-> WriteInt(Digest(m.code)[i])])
    \o WriteOctets(m.code) \o WriteList(ChainApis(m)) \o WriteList(m.offline) \o WriteList(m.events)
    \o WriteStorages(m.storages)

-----------------------------------------------------------------------------
(* Reading.  A reader r is what is left of the package, the last value read,   *)
(* and whether the last read was complete.                                    *)

Reader(kind, bytes) == [kind |-> kind, rest |-> bytes, val |-> <<>>, ok |-> TRUE]

\* common_read of one element of n bytes, and what it returns.  fread counts
\* whole elements, and an element of no bytes is never one; the stream's
\* readsome counts bytes.
Available(r, n) == IF n <= Len(r.rest) THEN n ELSE Len(r.rest)
CommonRead(r, n) ==
    LET got == Available(r, n)
    IN  [reader |-> [r EXCEPT !.rest = SubSeq(@, got + 1, Len(@)), !.val = SubSeq(r.rest, 1, got)],
         count  |-> IF r.kind = "stream" THEN got ELSE IF n > 0 /\ got = n THEN 1 ELSE 0]

\* common_fread_octets and its caller's "read_count != 1".
ReadOctets(r, n) == LET c == CommonRead(r, n) IN [c.reader EXCEPT !.ok = c.count = 1]

\* common_fread_int reads byte by byte, so both kinds of reader return 1 for each.
Number(b) == FoldLeft(LAMBDA n, x : ByteValues * n + x, 0, b)
ReadInt(r) ==
    LET got == Available(r, 4)
    IN  [r EXCEPT !.rest = SubSeq(@, got + 1, Len(@)), !.val = Number(SubSeq(r.rest, 1, got)), !.ok = got = 4]

ReadName(r) == LET n == ReadInt(r) IN IF n.ok THEN ReadOctets(n, n.val) ELSE n

\* INIT_API_FROM_FILE and INIT_STORAGE_FROM_FILE: `n' entries after a count.
RECURSIVE Names(_, _)
Names(r, n) ==
    IF n = 0 THEN [r EXCEPT !.val = <<>>]
    ELSE LET one  == ReadName(r)
             more == Names(one, n - 1)
         IN  IF ~one.ok THEN one
             ELSE IF more.ok THEN [more EXCEPT !.val = <<one.val>> \o @] ELSE more
ReadApis(r) ==
    LET n == ReadInt(r)
        l == Names(n, n.val)
    IN  IF ~n.ok THEN n ELSE IF l.ok THEN [l EXCEPT !.val = Range(@)] ELSE l

RECURSIVE Storages(_, _)
Storages(r, n) ==
    IF n = 0 THEN [r EXCEPT !.val = <<>>]
    ELSE LET name == ReadName(r)
             type == ReadInt(name)
             more == Storages(type, n - 1)
         IN  IF ~name.ok THEN name ELSE IF ~type.ok THEN type
             ELSE IF more.ok THEN [more EXCEPT !.val = <<[name |-> name.val, type |-> type.val]>> \o @]
             ELSE more
\* The map keeps the first entry of a name.
FirstOfName(ps) == {ps[i] : i \in {k \in 1..Len(ps) : \A j \in 1..(k - 1) : ps[j].name # ps[k].name}}
ReadStorages(r) ==
    LET n == ReadInt(r)
        l == Storages(n, n.val)
    IN  IF ~n.ok THEN n ELSE IF l.ok THEN [l EXCEPT !.val = FirstOfName(@)] ELSE l

\* The two optional parts with argument types: the first checks its names and
\* types, the second does not and replaces what the first said of an api.
RECURSIVE ReadTypes(_, _, _)
ReadTypes(r, n, checked) ==
    IF n = 0 THEN [r EXCEPT !.val = <<>>]
    ELSE LET t == ReadInt(r)
             more == ReadTypes(t, n - 1, checked)
         IN  IF ~t.ok THEN t
             ELSE IF checked /\ t.val \notin ArgTypes THEN [t EXCEPT !.ok = FALSE]
             ELSE IF more.ok THEN [more EXCEPT !.val = <<t.val>> \o @] ELSE more
RECURSIVE ReadApiTypes(_, _, _)
ReadApiTypes(r, n, checked) ==
    IF n = 0 THEN [r EXCEPT !.val = <<>>]
    ELSE LET name  == ReadName(r)
             count == ReadInt(name)
             types == ReadTypes(count, count.val, checked)
             more  == ReadApiTypes(types, n - 1, checked)
         IN  IF ~name.ok THEN name
             ELSE IF checked /\ Len(name.val) >= NameSize THEN [name EXCEPT !.ok = FALSE]
             ELSE IF ~count.ok THEN count ELSE IF ~types.ok THEN types
             ELSE IF more.ok THEN [more EXCEPT !.val = <<[name |-> name.val, types |-> types.val]>> \o @]
             ELSE more

\* A part that is not there (no complete count) is skipped.
OptionalTypes(r, checked) ==
    LET n == ReadInt(r) IN IF n.ok THEN ReadApiTypes(n, n.val, checked) ELSE [n EXCEPT !.val = <<>>, !.ok = TRUE]
TypesOf(first, second) ==
    {t \in Range(second) : \A i, j \in 1..Len(second) : second[j] = t /\ i > j => second[i].name # t.name}
    \cup {t \in FirstOfName(first) : \A i \in 1..Len(second) : second[i].name # t.name}

ReadDigest(r) == IF Len(r.rest) < 20 THEN [r EXCEPT !.ok = FALSE]
                 ELSE [r EXCEPT !.rest = SubSeq(@, 21, Len(@)),
                                !.val = [i \in 1..5 |-> Number(SubSeq(r.rest, 4 * i - 3, 4 * i))]]
\* The length must be less than what the package has left after it.
ReadCode(r) ==
    LET n == ReadInt(r)
    IN  IF ~n.ok \/ n.val >= Len(n.rest) THEN [n EXCEPT !.ok = FALSE] ELSE ReadOctets(n, n.val)

Refused == [ok |-> FALSE]
Verified(digest, code) == digest = Digest(code)
\* load_contract_from_common_stream_and_close: every failure is the exception
\* "Read verify code fail!" or "Verify bytescode SHA1 fail!".
LoadCode(r) ==
    LET digest == ReadDigest(r)   code    == ReadCode(digest)
        abi    == ReadApis(code)  offline == ReadApis(abi)
        events == ReadApis(offline)
        props  == ReadStorages(events)
        first  == OptionalTypes(props, TRUE)
        second == OptionalTypes(first, FALSE)
    IN  IF /\ digest.ok /\ code.ok /\ Verified(digest.val, code.val)
           /\ abi.ok /\ offline.ok /\ events.ok /\ props.ok /\ first.ok /\ second.ok
        THEN [ok |-> TRUE, code |-> code.val, abi |-> abi.val, offline |-> offline.val,
              events |-> events.val, storages |-> props.val, types |-> TypesOf(first.val, second.val)]
        ELSE Refused

LoadFromFile(bytes)   == LoadCode(Reader("file", bytes))
LoadFromStream(bytes) == LoadCode(Reader("stream", bytes))
==============================================================================
