--------------------------- MODULE ContractHostProofs ---------------------------
(* Proofs about contracts that import and call each other: who runs special    *)
(* APIs, whose table changes, and that what runs is what the chain recorded.   *)
EXTENDS ContractHost, TLAPS

KnownKeys == ({"@pointer_"} \X Contracts) \cup ({"@g_"} \X DOMAIN Named)
Chunks    == [kind : {"chunk"}, id : Contracts, key : KnownKeys, route : {"name", "address"}]
ApiFrames == [kind : {"api"}, id : Contracts, table : Nat, api : Apis]
Tables    == [id : Contracts, functions : SUBSET Apis]

TypeOK ==
    /\ status \in {"idle", "running", "failed", "done"}
    /\ frames \in Seq(Chunks \cup ApiFrames)
    /\ tables \in Seq(Tables)

(* An API that runs is one the chain recorded, and special for the starting     *)
(* contract only.                                                               *)
SoundFrame(f) ==
    f.kind = "api" => /\ f.api \in StoredApis(f.id)
                      /\ f.api \in Specials => f.id = Start

(* A contract's table holds functions that the chain recorded, and special ones *)
(* only if it is the starting contract's.                                       *)
SoundTable(t) ==
    /\ t.functions \subseteq StoredApis(t.id)
    /\ t.id # Start => t.functions \cap Specials = {}

(* A run starts with the called contract's chunk, which its API replaces only   *)
(* if the arguments are those recorded for it.                                  *)
SoundStart ==
    frames # << >> =>
        /\ frames[1].id = Start
        /\ frames[1].kind = "api" /\ Stored[Start].types # << >> =>
             Len(run.args) = Len(Stored[Start].types[run.api])

(* The table that is open to changes, and those that changed, are the starting  *)
(* contract's.                                                                  *)
SoundChanges ==
    /\ allow # 0 => allow \in DOMAIN tables /\ tables[allow].id = Start
    /\ \A t \in changed : t \in DOMAIN tables /\ tables[t].id = Start

HostInv ==
    /\ TypeOK
    /\ status = "idle" => frames = << >> /\ tables = << >> /\ changed = {} /\ allow = 0
    /\ status = "running" => frames # << >>
    /\ \A i \in DOMAIN frames : SoundFrame(frames[i])
    /\ \A t \in DOMAIN tables : SoundTable(tables[t])
    /\ SoundStart
    /\ SoundChanges

-----------------------------------------------------------------------------
LEMMA FrontFacts ==
    ASSUME NEW F, NEW q \in Seq(F), q # << >>
    PROVE  /\ Front(q) \in Seq(F) /\ Len(Front(q)) = Len(q) - 1
           /\ \A i \in DOMAIN Front(q) : i \in DOMAIN q /\ Front(q)[i] = q[i]
<1>1. Len(q) \in Nat /\ Len(q) >= 1 /\ Front(q) = SubSeq(q, 1, Len(q) - 1)
  BY DEF Front
<1>2. Front(q) = [i \in 1 .. (Len(q) - 1) |-> q[i]]
  BY <1>1
<1>3. \A i \in 1 .. (Len(q) - 1) : i \in 1 .. Len(q) /\ q[i] \in F
  BY <1>1
<1> DEFINE n == Len(q) - 1
           p == [i \in 1 .. n |-> q[i]]
<1>4. n \in Nat /\ \A i \in 1 .. n : q[i] \in F
  BY <1>1, <1>3
<1>5. p \in Seq(F) /\ Len(p) = n /\ DOMAIN p = 1 .. n
  <2> HIDE DEF n
  <2>1. QED
    BY <1>4
<1>6. DOMAIN q = 1 .. Len(q)
  BY <1>1
<1>7. QED
  BY <1>1, <1>2, <1>3, <1>5, <1>6

(* A key that exists is that of a contract the chain holds.                     *)
LEMMA KeysKnown ==
    ASSUME NEW key, NEW x, key = ByAddress(x) \/ key = ByName(x), Exists(key)
    PROVE  key \in KnownKeys /\ AddressOf(key) \in Contracts
<1>1. CASE key = ByAddress(x)
  BY <1>1 DEF ByAddress, Exists, AddressOf, KnownKeys
<1>2. CASE key = ByName(x)
  BY <1>2, ContractHostAssumption DEF ByName, Exists, AddressOf, KnownKeys
<1>3. QED
  BY <1>1, <1>2

LEMMA ChunkType ==
    ASSUME NEW key, NEW x, key = ByAddress(x) \/ key = ByName(x), Exists(key),
           NEW route \in {"name", "address"}
    PROVE  Chunk(key, route) \in Chunks /\ Chunk(key, route).kind = "chunk"
BY KeysKnown DEF Chunk, Chunks

LEMMA HostInvInit == Init => HostInv
<1> SUFFICES ASSUME Init PROVE HostInv
  OBVIOUS
<1>1. TypeOK
  BY DEF Init, TypeOK
<1>2. DOMAIN frames = {} /\ DOMAIN tables = {}
  BY DEF Init
<1>3. QED
  BY <1>1, <1>2 DEF Init, HostInv, SoundStart, SoundChanges

(* A run that fails, or a step that changes nothing of it, keeps what is sound. *)
LEMMA HostUnchanged ==
    ASSUME HostInv, UNCHANGED <<run, frames, tables, allow, changed>>,
           status' \in {"idle", "running", "failed", "done"},
           status' \in {"idle", "running"} => status' = status
    PROVE  HostInv'
<1>1. TypeOK'
  BY DEF HostInv, TypeOK
<1>2. QED
  BY <1>1 DEF HostInv, SoundFrame, SoundTable, SoundStart, SoundChanges, Start

LEMMA ExecuteKeeps ==
    ASSUME HostInv, NEW c, NEW api, NEW args, ExecuteContractApi(c, api, args)
    PROVE  HostInv'
<1>1. /\ status = "idle" /\ frames = << >> /\ tables = << >> /\ changed = {} /\ allow = 0
      /\ run'.start = c /\ UNCHANGED <<tables, allow, changed>>
  BY DEF HostInv, ExecuteContractApi
<1>2. CASE Exists(ByAddress(c)) /\ status' = "running" /\ frames' = <<Chunk(ByAddress(c), "name")>>
  <2> DEFINE f == Chunk(ByAddress(c), "name")
  <2>1. f \in Chunks /\ f.kind = "chunk"
    BY <1>2, ChunkType
  <2>2. f.id = c
    BY DEF Chunk, AddressOf, ByAddress
  <2> HIDE DEF f
  <2>3. frames' = <<f>> /\ status' = "running"
    BY <1>2 DEF f
  <2>4. DOMAIN frames' = {1} /\ frames'[1] = f
    BY <2>3
  <2>5. TypeOK'
    BY <1>1, <2>1, <2>3 DEF HostInv, TypeOK
  <2>6. DOMAIN tables' = {}
    BY <1>1
  <2>7. QED
    BY <1>1, <2>1, <2>2, <2>3, <2>4, <2>5, <2>6
       DEF HostInv, SoundFrame, SoundStart, SoundChanges, Start
<1>3. CASE status' = "failed" /\ frames' = << >>
  <2>1. TypeOK'
    BY <1>1, <1>3 DEF HostInv, TypeOK
  <2>2. DOMAIN frames' = {} /\ DOMAIN tables' = {}
    BY <1>1, <1>3
  <2>3. QED
    BY <1>1, <1>3, <2>1, <2>2 DEF HostInv, SoundStart, SoundChanges
<1>4. QED
  BY <1>2, <1>3 DEF ExecuteContractApi

LEMMA ImportKeeps ==
    ASSUME HostInv, status = "running", NEW key, NEW x, key = ByAddress(x) \/ key = ByName(x),
           NEW route \in {"name", "address"}, Import(key, route)
    PROVE  HostInv'
<1>1. CASE UNCHANGED vars
  BY <1>1, HostUnchanged DEF vars, HostInv, TypeOK
<1>2. CASE Fail
  BY <1>2, HostUnchanged DEF Fail
<1>3. CASE /\ Exists(key) /\ frames' = Append(frames, Chunk(key, route))
           /\ UNCHANGED <<run, status, tables, loaded, allow, changed>>
  <2>1. PICK f \in Chunks : f = Chunk(key, route) /\ f.kind = "chunk"
    BY <1>3, ChunkType
  <2>2. /\ frames \in Seq(Chunks \cup ApiFrames) /\ frames' = Append(frames, f)
        /\ UNCHANGED <<run, status, tables, allow, changed>>
    BY <1>3, <2>1 DEF HostInv, TypeOK
  <2>3. frames' \in Seq(Chunks \cup ApiFrames) /\ frames' # << >>
    BY <2>2
  <2>4. \A i \in DOMAIN frames' : (i \in DOMAIN frames /\ frames'[i] = frames[i]) \/ frames'[i] = f
    BY <2>2
  <2>5. TypeOK'
    BY <2>2, <2>3 DEF HostInv, TypeOK
  <2>6. (\A i \in DOMAIN frames : SoundFrame(frames[i]))'
    BY <2>1, <2>2, <2>4 DEF HostInv, SoundFrame, Start
  <2>7. frames'[1] = frames[1] /\ frames # << >>
    <3>1. frames # << >>
      BY DEF HostInv
    <3>2. QED
      BY <2>2, <3>1
  <2>8. SoundStart'
    BY <2>2, <2>7 DEF HostInv, SoundStart, Start
  <2>9. QED
    BY <2>2, <2>3, <2>5, <2>6, <2>8 DEF HostInv, SoundTable, SoundChanges, Start
<1>4. QED
  BY <1>1, <1>2, <1>3 DEF Import

(* What is kept of a contract's functions is recorded, and special only for the *)
(* starting contract.                                                           *)
LEMMA KeptSound ==
    ASSUME NEW f \in Chunks, StoredInfoMatches(f.id, Counted(f))
    PROVE  /\ SoundTable([id |-> f.id, functions |-> KeptByImport(f.id)])
           /\ [id |-> f.id, functions |-> KeptByImport(f.id)] \in Tables
           /\ f.id = Start => SoundTable([id |-> f.id, functions |-> KeptByExecute(f.id)])
           /\ [id |-> f.id, functions |-> KeptByExecute(f.id)] \in Tables
<1>1. f.id \in Contracts
  BY DEF Chunks
<1>2. FunctionsOf(f.id) \subseteq StoredApis(f.id)
  BY DEF StoredInfoMatches, Counted, FieldsOf, FunctionsOf
<1>3. FunctionsOf(f.id) \subseteq Apis
  BY <1>1, ContractHostAssumption DEF FunctionsOf
<1>4. KeptByImport(f.id) \subseteq FunctionsOf(f.id) /\ KeptByExecute(f.id) \subseteq FunctionsOf(f.id)
  BY DEF KeptByImport, KeptByExecute
<1>5. f.id # Start => KeptByImport(f.id) \cap Specials = {}
  BY DEF KeptByImport
<1>6. QED
  BY <1>1, <1>2, <1>3, <1>4, <1>5 DEF SoundTable, Tables

LEMMA ChunkReturnsKeeps ==
    ASSUME HostInv, ChunkReturns
    PROVE  HostInv'
<1>1. CASE Fail
  BY <1>1, HostUnchanged DEF Fail
<1> SUFFICES ASSUME ~ Fail PROVE HostInv'
  BY <1>1
<1>2. PICK f \in Chunks \cup ApiFrames : f = Top /\ f = frames[Len(frames)]
  BY DEF ChunkReturns, HostInv, TypeOK, Top, Last
<1>3. f \in Chunks /\ f.id \in Contracts /\ StoredInfoMatches(f.id, Counted(f)) /\ frames # << >>
  BY <1>2 DEF ChunkReturns, Chunks, ApiFrames
<1>4. PICK t : t = [id |-> f.id, functions |-> IF Len(frames) = 1 THEN KeptByExecute(f.id)
                                               ELSE KeptByImport(f.id)]
  OBVIOUS
<1>5. PICK new : new = Len(tables) + 1
  OBVIOUS
<1>6. /\ status = "running" /\ tables' = Append(tables, t)
      /\ allow' = IF Len(frames) = 1 THEN new ELSE 0
      /\ UNCHANGED <<run, changed>>
  BY <1>2, <1>4, <1>5 DEF ChunkReturns, OpenTable
<1>7. Len(frames) = 1 => f.id = Start
  BY <1>2, <1>3 DEF HostInv, SoundStart
<1>8. t \in Tables /\ SoundTable(t) /\ t.id = f.id
  <2>1. CASE Len(frames) = 1
    BY <1>3, <1>4, <1>7, <2>1, KeptSound
  <2>2. CASE Len(frames) # 1
    BY <1>3, <1>4, <2>2, KeptSound
  <2>3. QED
    BY <2>1, <2>2
<1>9. tables \in Seq(Tables) /\ frames \in Seq(Chunks \cup ApiFrames)
  BY DEF HostInv, TypeOK
<1>10. /\ tables' \in Seq(Tables) /\ new \in DOMAIN tables' /\ tables'[new] = t /\ new # 0
       /\ \A i \in DOMAIN tables : i \in DOMAIN tables' /\ tables'[i] = tables[i]
       /\ \A i \in DOMAIN tables' : i = new \/ i \in DOMAIN tables
  BY <1>5, <1>6, <1>8, <1>9
<1>11. (\A i \in DOMAIN tables : SoundTable(tables[i]))'
  <2>1. \A i \in DOMAIN tables : SoundTable(tables[i])
    BY DEF HostInv
  <2>2. \A i \in DOMAIN tables' : SoundTable(tables'[i])
    BY <1>8, <1>10, <2>1
  <2>3. Start' = Start
    BY <1>6 DEF Start
  <2>4. QED
    BY <2>2, <2>3 DEF SoundTable
<1>12. SoundChanges'
  BY <1>6, <1>7, <1>8, <1>10 DEF HostInv, SoundChanges, Start
<1>13. CASE Len(frames) # 1
  <2>1. frames' = Front(frames) /\ status' = "running"
    BY <1>6, <1>13 DEF ChunkReturns
  <2>2. /\ frames' \in Seq(Chunks \cup ApiFrames) /\ frames' # << >> /\ frames'[1] = frames[1]
        /\ \A i \in DOMAIN frames' : i \in DOMAIN frames /\ frames'[i] = frames[i]
    <3>1. Len(frames') = Len(frames) - 1 /\ frames' \in Seq(Chunks \cup ApiFrames)
      BY <1>3, <1>9, <2>1, FrontFacts
    <3>2. Len(frames') >= 1
      BY <1>3, <1>9, <1>13, <3>1
    <3>3. \A i \in DOMAIN frames' : i \in DOMAIN frames /\ frames'[i] = frames[i]
      BY <1>3, <1>9, <2>1, FrontFacts
    <3>4. QED
      BY <3>1, <3>2, <3>3
  <2>3. TypeOK'
    BY <1>10, <2>1, <2>2 DEF TypeOK
  <2>4. (\A i \in DOMAIN frames : SoundFrame(frames[i]))'
    BY <1>6, <2>2 DEF HostInv, SoundFrame, Start
  <2>5. SoundStart'
    BY <1>3, <1>6, <2>2 DEF HostInv, SoundStart, Start
  <2>6. QED
    BY <1>11, <1>12, <2>1, <2>2, <2>3, <2>4, <2>5 DEF HostInv
<1>14. CASE Len(frames) = 1 /\ run.api \in t.functions /\ ArgumentsMatch(f.id, run.api, run.args)
  <2> DEFINE g == [kind |-> "api", id |-> f.id, table |-> new, api |-> run.api]
  <2>1. frames' = <<g>> /\ status' = "running"
    BY <1>2, <1>4, <1>5, <1>6, <1>14 DEF ChunkReturns
  <2>2. g \in ApiFrames /\ g.id = Start /\ g.api \in StoredApis(g.id)
    BY <1>3, <1>4, <1>5, <1>7, <1>8, <1>9, <1>14 DEF ApiFrames, Tables, SoundTable
  <2> HIDE DEF g
  <2>3. /\ frames' \in Seq(Chunks \cup ApiFrames) /\ frames' # << >>
        /\ DOMAIN frames' = {1} /\ frames'[1] = g
    BY <2>1, <2>2
  <2>4. TypeOK'
    BY <1>10, <2>1, <2>3 DEF TypeOK
  <2>5. (\A i \in DOMAIN frames : SoundFrame(frames[i]))'
    BY <1>6, <2>2, <2>3 DEF SoundFrame, Start
  <2>6. Stored[Start].types # << >> => Len(run.args) = Len(Stored[Start].types[run.api])
    BY <1>7, <1>14 DEF ArgumentsMatch
  <2>7. SoundStart'
    BY <1>6, <2>2, <2>3, <2>6 DEF SoundStart, Start
  <2>8. QED
    BY <1>11, <1>12, <2>1, <2>3, <2>4, <2>5, <2>7 DEF HostInv
<1>15. CASE Len(frames) = 1 /\ ~ (run.api \in t.functions /\ ArgumentsMatch(f.id, run.api, run.args))
  <2>1. frames' = << >> /\ status' = "failed"
    BY <1>2, <1>4, <1>5, <1>6, <1>15 DEF ChunkReturns
  <2>2. DOMAIN frames' = {} /\ TypeOK'
    BY <1>10, <2>1 DEF TypeOK
  <2>3. QED
    BY <1>11, <1>12, <2>1, <2>2 DEF HostInv, SoundStart
<1>16. QED
  BY <1>13, <1>14, <1>15

LEMMA CallKeeps ==
    ASSUME HostInv, NEW t \in DOMAIN tables, NEW api \in Apis, Call(t, api)
    PROVE  HostInv'
<1>1. CASE Fail
  BY <1>1, HostUnchanged DEF Fail
<1>2. CASE frames' = Append(frames, Api(t, api)) /\ UNCHANGED <<run, status, tables, allow, changed>>
  <2>1. PICK f : f = Api(t, api)
    OBVIOUS
  <2>2. tables \in Seq(Tables) /\ frames \in Seq(Chunks \cup ApiFrames) /\ api \in tables[t].functions
    BY DEF HostInv, TypeOK, Call
  <2>3. f \in ApiFrames /\ SoundFrame(f)
    <3>1. tables[t] \in Tables /\ t \in Nat /\ SoundTable(tables[t])
      BY <2>2 DEF HostInv
    <3>2. QED
      BY <2>1, <2>2, <3>1 DEF Api, ApiFrames, Tables, SoundTable, SoundFrame
  <2>4. /\ frames' \in Seq(Chunks \cup ApiFrames) /\ frames' # << >>
        /\ \A i \in DOMAIN frames' : (i \in DOMAIN frames /\ frames'[i] = frames[i]) \/ frames'[i] = f
    BY <1>2, <2>1, <2>2, <2>3
  <2>5. frames # << >> /\ frames'[1] = frames[1]
    <3>1. frames # << >>
      BY DEF HostInv, Call
    <3>2. QED
      BY <1>2, <2>2, <3>1
  <2>6. TypeOK'
    BY <1>2, <2>4 DEF HostInv, TypeOK
  <2>7. (\A i \in DOMAIN frames : SoundFrame(frames[i]))'
    BY <1>2, <2>3, <2>4 DEF HostInv, SoundFrame, Start
  <2>8. SoundStart'
    BY <1>2, <2>5 DEF HostInv, SoundStart, Start
  <2>9. QED
    BY <1>2, <2>4, <2>6, <2>7, <2>8 DEF HostInv, SoundTable, SoundChanges, Start
<1>3. QED
  BY <1>1, <1>2 DEF Call

LEMMA AssignKeeps ==
    ASSUME HostInv, NEW t \in DOMAIN tables, NEW api \in Apis, AssignApi(t, api)
    PROVE  HostInv'
<1>1. CASE Fail
  BY <1>1, HostUnchanged DEF Fail
<1>2. CASE /\ allow = t /\ tables' = [tables EXCEPT ![t].functions = @ \ {api}]
           /\ changed' = changed \cup {t} /\ UNCHANGED <<run, status, frames, allow>>
  <2>1. tables \in Seq(Tables) /\ tables[t] \in Tables /\ t \in 1 .. Len(tables)
    BY DEF HostInv, TypeOK
  <2>2. PICK u : u = [tables[t] EXCEPT !.functions = @ \ {api}]
    OBVIOUS
  <2>3. u \in Tables /\ u.id = tables[t].id /\ u.functions \subseteq tables[t].functions
    BY <2>1, <2>2 DEF Tables
  <2>4. tables' = [tables EXCEPT ![t] = u]
    BY <1>2, <2>2
  <2>5. /\ tables' \in Seq(Tables) /\ DOMAIN tables' = DOMAIN tables /\ tables'[t] = u
        /\ \A i \in DOMAIN tables : i # t => tables'[i] = tables[i]
    BY <2>1, <2>3, <2>4
  <2>6. TypeOK'
    BY <1>2, <2>5 DEF HostInv, TypeOK
  <2>7. SoundTable(u)
    BY <2>3 DEF HostInv, SoundTable
  <2>8. (\A i \in DOMAIN tables : SoundTable(tables[i]))'
    <3>1. \A i \in DOMAIN tables' : SoundTable(tables'[i])
      BY <2>5, <2>7 DEF HostInv
    <3>2. QED
      BY <1>2, <3>1 DEF SoundTable, Start
  <2>9. tables[t].id = Start
    <3>1. t # 0
      BY <2>1
    <3>2. QED
      BY <1>2, <3>1 DEF HostInv, SoundChanges
  <2>10. SoundChanges'
    BY <1>2, <2>3, <2>5, <2>9 DEF HostInv, SoundChanges, Start
  <2>11. QED
    BY <1>2, <2>6, <2>8, <2>10 DEF HostInv, SoundFrame, SoundStart, Start, AssignApi
<1>3. QED
  BY <1>1, <1>2 DEF AssignApi

LEMMA ReturnKeeps ==
    ASSUME HostInv, Return
    PROVE  HostInv'
<1>1. frames \in Seq(Chunks \cup ApiFrames) /\ frames # << >> /\ frames' = Front(frames)
  BY DEF Return, HostInv, TypeOK
<1>2. /\ frames' \in Seq(Chunks \cup ApiFrames)
      /\ \A i \in DOMAIN frames' : i \in DOMAIN frames /\ frames'[i] = frames[i]
      /\ Len(frames) # 1 => frames' # << >>
      /\ frames' # << >> => frames'[1] = frames[1]
  <2>1. Len(frames') = Len(frames) - 1 /\ frames' \in Seq(Chunks \cup ApiFrames)
    BY <1>1, FrontFacts
  <2>2. \A i \in DOMAIN frames' : i \in DOMAIN frames /\ frames'[i] = frames[i]
    BY <1>1, FrontFacts
  <2>3. QED
    BY <1>1, <2>1, <2>2
<1>3. /\ status' = IF Len(frames) = 1 THEN "done" ELSE "running"
      /\ allow' = IF Len(frames) = 1 THEN 0 ELSE allow
      /\ UNCHANGED <<run, tables, changed>>
  BY DEF Return
<1>4. TypeOK'
  BY <1>2, <1>3 DEF HostInv, TypeOK
<1>5. (\A i \in DOMAIN frames : SoundFrame(frames[i]))'
  BY <1>2, <1>3 DEF HostInv, SoundFrame, Start
<1>6. SoundStart'
  BY <1>1, <1>2, <1>3 DEF HostInv, SoundStart, Start
<1>7. SoundChanges'
  BY <1>3 DEF HostInv, SoundChanges, Start
<1>8. QED
  BY <1>2, <1>3, <1>4, <1>5, <1>6, <1>7 DEF HostInv, SoundTable, Start

LEMMA CloseKeeps ==
    ASSUME HostInv, Close
    PROVE  HostInv'
<1>1. frames' = << >> /\ tables' = << >> /\ allow' = 0 /\ changed' = {} /\ status' = "idle"
  BY DEF Close
<1>2. DOMAIN frames' = {} /\ DOMAIN tables' = {} /\ TypeOK'
  BY <1>1 DEF TypeOK
<1>3. QED
  BY <1>1, <1>2 DEF HostInv, SoundStart, SoundChanges

LEMMA HostInvHolds == Spec => []HostInv
<1>1. ASSUME HostInv, [Next]_vars
      PROVE  HostInv'
  <2>1. ASSUME NEW c \in Addresses, NEW api \in Apis, NEW args \in Arguments,
               ExecuteContractApi(c, api, args)
        PROVE  HostInv'
    BY <1>1, <2>1, ExecuteKeeps
  <2>2. ASSUME NEW a \in Addresses, ImportFromAddress(a)
        PROVE  HostInv'
    BY <1>1, <2>2, ImportKeeps DEF ImportFromAddress
  <2>3. ASSUME NEW n \in Names, ImportByName(n)
        PROVE  HostInv'
    BY <1>1, <2>3, ImportKeeps DEF ImportByName
  <2>4. CASE ChunkReturns
    BY <1>1, <2>4, ChunkReturnsKeeps
  <2>5. ASSUME NEW t \in DOMAIN tables, NEW api \in Apis, Call(t, api)
        PROVE  HostInv'
    BY <1>1, <2>5, CallKeeps
  <2>6. ASSUME NEW t \in DOMAIN tables, NEW api \in Apis, AssignApi(t, api)
        PROVE  HostInv'
    BY <1>1, <2>6, AssignKeeps
  <2>7. CASE Return
    BY <1>1, <2>7, ReturnKeeps
  <2>8. CASE Close
    BY <1>1, <2>8, CloseKeeps
  <2>9. CASE UNCHANGED vars
    BY <1>1, <2>9, HostUnchanged DEF vars, HostInv, TypeOK
  <2>10. QED
    BY <1>1, <2>1, <2>2, <2>3, <2>4, <2>5, <2>6, <2>7, <2>8, <2>9 DEF Next
<1>2. HostInv /\ [Next]_vars => HostInv'
  BY <1>1
<1>3. QED
  BY <1>2, HostInvInit, PTL DEF Spec

(* Whatever contracts import, call and assign, and in whatever order, only the   *)
(* called contract runs special APIs, and no table but its own is changed.       *)
THEOREM HostKeepsPrivileges == Spec => []HeadsPrivileges
<1>1. HostInv => HeadsPrivileges
  BY DEF HostInv, SoundFrame, SoundChanges, HeadsPrivileges, OnlyHeadsSpecials, OthersUnchanged
<1>2. QED
  BY <1>1, HostInvHolds, PTL

(* Every API that runs is one the chain recorded for its contract, however its   *)
(* table was reached; the API of the call has as many arguments as recorded.     *)
THEOREM HostRunsRecordedApis == Spec => []RecordedApisRun
<1>1. HostInv => RecordedApisRun
  <2> SUFFICES ASSUME HostInv, NEW i \in DOMAIN frames, frames[i].kind = "api"
               PROVE  /\ frames[i].api \in StoredApis(frames[i].id)
                      /\ i = 1 /\ Stored[Start].types # << >> =>
                           Len(run.args) = Len(Stored[Start].types[run.api])
    BY DEF RecordedApisRun
  <2>1. frames[i].api \in StoredApis(frames[i].id)
    BY DEF HostInv, SoundFrame
  <2>2. frames # << >>
    BY DEF HostInv, TypeOK
  <2>3. QED
    BY <2>1, <2>2 DEF HostInv, SoundStart
<1>2. QED
  BY <1>1, HostInvHolds, PTL
================================================================================
