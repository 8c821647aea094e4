----------------------------- MODULE ContractHost -----------------------------
(* How a run gets its contracts: executing an API of one contract and          *)
(* importing others, by address or by name, into the run's table of loaded     *)
(* modules (lauxlib.cpp), with the look-ups the chain answers                  *)
(* (simplechain_uvm_api.cpp, evaluate_state.cpp).                              *)
(* A contract's code is any sequence of imports, calls and assignments to the  *)
(* tables of loaded contracts; a run ends at the first exception it records.   *)
(* Left out: calls through send_message, which may go on after an exception    *)
(* (module UvmContract), and the bytecode checks of a load (module LuaDump).   *)
EXTENDS Integers, Sequences, FiniteSets, SequencesExt, TLC

CONSTANTS
    Contracts,   \* addresses of the contracts the chain holds
    Apis,        \* names of APIs
    Names,       \* contract names a program may use
    Addresses,   \* addresses a program may name, Contracts among them
    Named,       \* contract names and the contract the chain finds for each
    Code,        \* what a contract's chunk returns: functions, other fields, locals
    Stored,      \* what the chain recorded: abi, offline and argument types
    Arguments,   \* lists of arguments a transaction may pass, by their types
    Specials,    \* contract_special_api_names
    Initial,     \* the special API that may take no argument: init
    MaxOffline,  \* CONTRACT_MAX_OFFLINE_API_COUNT
    MaxFrames,   \* bound: LUAI_MAXCCALLS, the nesting of imports and calls
    MaxTables    \* bound: tables of contracts in a run

ASSUME ContractHostAssumption ==
    /\ \A c \in Contracts : Code[c].functions \subseteq Apis
    /\ \A n \in DOMAIN Named : Named[n] \in Contracts

VARIABLES
    run,     \* STARTING_CONTRACT_ADDRESS, the API executed and its arguments
    status,  \* "idle", "running", "failed", "done"
    frames,  \* running chunks and APIs, innermost last
    tables,  \* the tables of contracts: contract and functions left in each
    loaded,  \* _LOADED: module key to a table
    allow,   \* allow_contract_modify: a table, 0 for none
    changed  \* history: the tables contract code assigned to

vars == <<run, status, frames, tables, loaded, allow, changed>>

NoRun == [start |-> "", api |-> "", args |-> << >>]

-----------------------------------------------------------------------------
(* What the chain answers.                                                    *)

\* ADDRESS_CONTRACT_PREFIX and CONTRACT_NAME_WRAPPER_PREFIX.
ByAddress(a) == <<"@pointer_", a>>
ByName(n)    == <<"@g_", n>>

\* contains_contract_by_address, contains_contract_by_name.
Exists(key)   == IF key[1] = "@g_" THEN key[2] \in DOMAIN Named ELSE key[2] \in Contracts
\* get_contract_id_using_in_lua, get_contract_address_by_name.
AddressOf(key) == IF key[1] = "@g_" THEN Named[key[2]] ELSE key[2]

\* lua_get_contract_apis_direct: what the compiler records of a contract, every
\* name of its table, those its locals list as offline APIs; at most so many.
Recorded(code) ==
    LET offline == CHOOSE some \in SUBSET code.locals :
                       Cardinality(some) = IF Cardinality(code.locals) > MaxOffline THEN MaxOffline
                                           ELSE Cardinality(code.locals)
    IN  [abi |-> (code.functions \cup code.fields) \ offline, offline |-> offline]

\* get_stored_contract_info_by_address.
StoredApis(c) == Stored[c].abi \cup Stored[c].offline
\* A bug to rule out: the numbers of APIs alone compared.
StoredInfoMatchesCount(c, apis) ==
    Cardinality(Stored[c].abi) + Cardinality(Stored[c].offline) = Cardinality(apis)
StoredInfoMatches(c, apis) ==
    /\ Cardinality(Stored[c].abi) + Cardinality(Stored[c].offline) = Cardinality(apis)
    /\ apis = StoredApis(c)

\* The names import_contract_from_address counts, and those import_contract does.
FieldsOf(c)    == Code[c].functions \cup Code[c].fields
FunctionsOf(c) == Code[c].functions
Counted(frame) == IF frame.route = "address" THEN FieldsOf(frame.id) ELSE FunctionsOf(frame.id)

-----------------------------------------------------------------------------
(* Runs.                                                                      *)

Start == run.start
Top   == Last(frames)
Chunk(key, route) == [kind |-> "chunk", id |-> AddressOf(key), key |-> key, route |-> route]
Api(t, api)       == [kind |-> "api", id |-> tables[t].id, table |-> t, api |-> api]

Fail == /\ status' = "failed"
        /\ UNCHANGED <<run, frames, tables, loaded, allow, changed>>

\* import_contract and import_contract_from_address up to the chunk's run: a
\* module that is already there, a contract the chain does not hold, a chunk.
Import(key, route) ==
    \/ /\ key \in DOMAIN loaded
       /\ UNCHANGED vars
    \/ key \notin DOMAIN loaded /\ (~Exists(key) \/ Len(frames) >= MaxFrames) /\ Fail
    \/ /\ key \notin DOMAIN loaded /\ Exists(key) /\ Len(frames) < MaxFrames
       /\ Len(tables) < MaxTables
       /\ frames' = Append(frames, Chunk(key, route))
       /\ UNCHANGED <<run, status, tables, loaded, allow, changed>>

\* execute_contract_api_by_address.
ExecuteContractApi(c, api, args) ==
    /\ status = "idle"
    /\ run' = [start |-> c, api |-> api, args |-> args]
    /\ \/ Exists(ByAddress(c)) /\ status' = "running" /\ frames' = <<Chunk(ByAddress(c), "name")>>
       \/ ~Exists(ByAddress(c)) /\ status' = "failed" /\ frames' = << >>
    /\ UNCHANGED <<tables, loaded, allow, changed>>

ImportFromAddress(a) == /\ status = "running" /\ Import(ByAddress(a), "address")
ImportByName(n)      == /\ status = "running" /\ Import(ByName(n), "name")

\* Mutant of KeptByImport: special APIs kept by the contract that imports.
KeptByImportOfTop(c) == IF Len(frames) > 1 /\ c = frames[Len(frames) - 1].id THEN FunctionsOf(c)
                        ELSE IF c = Start THEN FunctionsOf(c) ELSE FunctionsOf(c) \ Specials

\* The special APIs leave the table unless it is the starting contract's.
KeptByImport(c) == IF c = Start THEN FunctionsOf(c) ELSE FunctionsOf(c) \ Specials
\* lua_real_execute_contract_api leaves the special API it is to call.
KeptByExecute(c) == FunctionsOf(c) \ (Specials \ {run.api})

\* allow_contract_modify when the import is over.
OpenTable(new, executes) == IF executes THEN new ELSE 0

\* isArgTypeMatched: the kind of a value that an argument type takes.
ArgType(type) == CASE type \in {"int", "number"} -> "number" [] type = "bool" -> "boolean"
                   [] type \in {"string", "nil"} -> type [] OTHER -> "none"
\* The arguments a call must pass: all of the recorded types, or one if the
\* package is of the version that recorded none.
ArgumentsMatch(c, api, args) ==
    LET types == Stored[c].types IN
    IF types = << >> THEN Len(args) = 1 \/ api = Initial
    ELSE /\ api \in DOMAIN types
         /\ Len(types[api]) = Len(args)
         /\ \A i \in DOMAIN args : ArgType(types[api][i]) = args[i]

\* The chunk returned its table: it must be the one the chain recorded. The
\* table is open to changes in import's own C code only; that of the contract
\* executed stays open while it runs.
ChunkReturns ==
    LET new == Len(tables) + 1
        c   == Top.id
        executes == Len(frames) = 1
        kept  == IF executes THEN KeptByExecute(c) ELSE KeptByImport(c)
        ready == run.api \in kept /\ ArgumentsMatch(c, run.api, run.args)
    IN  /\ status = "running" /\ frames # << >> /\ Top.kind = "chunk"
        /\ \/ ~StoredInfoMatches(c, Counted(Top)) /\ Fail
           \/ /\ StoredInfoMatches(c, Counted(Top))
              /\ tables' = Append(tables, [id |-> c, functions |-> kept])
              /\ loaded' = [k \in {Top.key} |-> new] @@ loaded
              /\ allow'  = OpenTable(new, executes)
              /\ status' = IF executes /\ ~ready THEN "failed" ELSE "running"
              /\ frames' = IF ~executes THEN Front(frames)
                           ELSE IF ready THEN <<[kind |-> "api", id |-> c, table |-> new, api |-> run.api]>>
                           ELSE << >>
              /\ UNCHANGED <<run, changed>>

\* A call through the proxy of an API; whoever holds a table may hand it on.
Call(t, api) ==
    /\ status = "running" /\ api \in tables[t].functions
    /\ IF Len(frames) >= MaxFrames THEN Fail
       ELSE frames' = Append(frames, Api(t, api)) /\ UNCHANGED <<run, status, tables, loaded, allow, changed>>

\* An assignment to a field of a contract's table.
AssignApi(t, api) ==
    /\ status = "running"
    /\ IF allow # t THEN Fail
       ELSE /\ tables' = [tables EXCEPT ![t].functions = @ \ {api}]
            /\ changed' = changed \cup {t}
            /\ UNCHANGED <<run, status, frames, loaded, allow>>

Return ==
    /\ status = "running" /\ frames # << >> /\ Top.kind = "api"
    /\ frames' = Front(frames)
    /\ status' = IF Len(frames) = 1 THEN "done" ELSE "running"
    /\ allow'  = IF Len(frames) = 1 THEN 0 ELSE allow
    /\ UNCHANGED <<run, tables, loaded, changed>>

\* close_lua_state.
Close ==
    /\ status \in {"done", "failed"}
    /\ run' = NoRun /\ status' = "idle" /\ frames' = << >> /\ tables' = << >>
    /\ loaded' = << >> /\ allow' = 0 /\ changed' = {}

-----------------------------------------------------------------------------
Init == /\ run = NoRun /\ status = "idle" /\ frames = << >> /\ tables = << >>
        /\ loaded = << >> /\ allow = 0 /\ changed = {}

Next ==
    \/ \E c \in Addresses, api \in Apis, args \in Arguments : ExecuteContractApi(c, api, args)
    \/ \E a \in Addresses : ImportFromAddress(a)
    \/ \E n \in Names : ImportByName(n)
    \/ ChunkReturns
    \/ \E t \in DOMAIN tables, api \in Apis : Call(t, api) \/ AssignApi(t, api)
    \/ Return
    \/ Close

Spec == Init /\ [][Next]_vars

-----------------------------------------------------------------------------
(* Properties.                                                                *)

\* Only the contract a transaction calls runs special APIs, whatever it and the
\* contracts it reaches import, in what order and by which of the two ways
\* (lauxlib.cpp: "only call-stack-head contract's special apis can be called").
OnlyHeadsSpecials ==
    \A i \in DOMAIN frames : frames[i].kind = "api" /\ frames[i].api \in Specials => frames[i].id = Start

\* The functions of a contract other than the called one are never replaced
\* while a transaction runs: what its callers call is its own code.
OthersUnchanged == \A t \in changed : tables[t].id = Start

\* Only the called contract runs special APIs, and only its table changes.
HeadsPrivileges == OnlyHeadsSpecials /\ OthersUnchanged

\* What runs as an API of a contract is one the chain recorded for it, and the
\* call that starts a run has the arguments recorded for it.
RecordedApisRun ==
    \A i \in DOMAIN frames : frames[i].kind = "api" =>
        /\ frames[i].api \in StoredApis(frames[i].id)
        /\ i = 1 /\ Stored[Start].types # << >> => Len(run.args) = Len(Stored[Start].types[run.api])
===============================================================================
