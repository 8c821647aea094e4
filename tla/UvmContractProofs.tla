--------------------------- MODULE UvmContractProofs ---------------------------
(* Proofs about the evaluation of a contract call: the contract-id stack is    *)
(* the stack of running functions, exceptions are not lost, money is neither   *)
(* made nor lost, and storage reads and commits what the script last wrote,    *)
(* whatever fails, returns or is thrown out of.                                *)
EXTENDS UvmContract, Sums

(* Sequences cut at the end.                                                   *)
IsSeq(q) == \E F : q \in Seq(F)

LEMMA CutFacts ==
    ASSUME NEW F, NEW q \in Seq(F), NEW n \in Nat, n <= Len(q)
    PROVE  /\ SubSeq(q, 1, n) \in Seq(F) /\ Len(SubSeq(q, 1, n)) = n
           /\ \A i \in 1 .. n : SubSeq(q, 1, n)[i] = q[i]
<1> DEFINE p == [i \in 1 .. n |-> q[i]]
<1>1. SubSeq(q, 1, n) = p
  OBVIOUS
<1>2. \A i \in 1 .. n : q[i] \in F
  OBVIOUS
<1>3. p \in Seq(F) /\ Len(p) = n
  BY <1>2
<1>4. QED
  BY <1>1, <1>3

LEMMA FrontFacts ==
    ASSUME NEW F, NEW q \in Seq(F), q # << >>
    PROVE  /\ Front(q) \in Seq(F) /\ Len(Front(q)) = Len(q) - 1
           /\ \A i \in 1 .. (Len(q) - 1) : Front(q)[i] = q[i]
<1>1. Len(q) - 1 \in Nat /\ Front(q) = SubSeq(q, 1, Len(q) - 1)
  BY DEF Front
<1>2. PICK n \in Nat : n = Len(q) - 1 /\ n <= Len(q)
  BY <1>1
<1>3. QED
  BY <1>1, <1>2, CutFacts

-----------------------------------------------------------------------------
(* What the steps of a script do to the lua_State.                             *)

Fields(T) == {"ids", "err", "code"} \subseteq DOMAIN T

(* The code of a pending exception says that there is one.                     *)
Coded(T) == T.err => T.code # "none"

(* U is T after operations that do not touch the contract-id stack: they may   *)
(* record an exception and never take one back.                                *)
Advanced(T, U) ==
    /\ Fields(T) => Fields(U) /\ U.ids = T.ids
    /\ Fields(T) /\ Coded(T) => Coded(U)
    /\ Fields(T) /\ T.err => U.err

LEMMA AdvancedTrans ==
    \A T, U, V : Advanced(T, U) /\ Advanced(U, V) => Advanced(T, V)
BY DEF Advanced

LEMMA SpentAdvances == \A T, n : Advanced(T, Spent(T, n))
BY DEF Advanced, Fields, Coded, Spent

LEMMA ThrowAdvances ==
    ASSUME NEW T, NEW code, code # "none"
    PROVE  /\ Advanced(T, Throw(T, code))
           /\ Fields(T) => Throw(T, code).err
BY DEF Advanced, Fields, Coded, Throw

LEMMA SnapshotAdvances == \A T, s, v : Advanced(T, Snapshot(T, s, v))
BY DEF Advanced, Fields, Coded, Snapshot

LEMMA LastAdvances == \A T, chain, s : Advanced(T, GetLast(T, chain, s).S)
<1> TAKE T, chain, s
<1>1. \A V, l : Advanced(V, [V EXCEPT !.list = l])
  BY DEF Advanced, Fields, Coded
<1>2. Advanced(T, T)
  BY DEF Advanced
<1>3. QED
  BY <1>1, <1>2, SnapshotAdvances, AdvancedTrans DEF GetLast

LEMMA GetAdvances == \A T, chain, s : Advanced(T, GetStorage(T, chain, s))
<1> TAKE T, chain, s
<1>1. \A V, v : Advanced(V, [V EXCEPT !.live[s] = v])
  BY DEF Advanced, Fields, Coded
<1>2. Advanced(T, T)
  BY DEF Advanced
<1>3. QED
  BY <1>1, <1>2, LastAdvances, AdvancedTrans DEF GetStorage

LEMMA SetAdvances == \A T, chain, s, v : Advanced(T, SetStorage(T, chain, s, v))
<1> TAKE T, chain, s, v
<1>1. \A V, w : Advanced(V, [V EXCEPT !.live[s] = w])
  BY DEF Advanced, Fields, Coded
<1>2. Advanced(T, T)
  BY DEF Advanced
<1>3. Advanced(T, MakeLive(T, s, v))
  BY <1>1, <1>2, SnapshotAdvances, AdvancedTrans DEF MakeLive
<1>4. PICK V : V = GetLast(MakeLive(T, s, v), chain, s).S
  OBVIOUS
<1>5. Advanced(T, V)
  BY <1>3, <1>4, LastAdvances, AdvancedTrans
<1>6. Advanced(V, ThrowAndStop(V, "simple"))
  <2>1. \A W : Advanced(W, [W EXCEPT !.stop = TRUE])
    BY DEF Advanced, Fields, Coded
  <2>2. QED
    BY <2>1, ThrowAdvances, AdvancedTrans DEF ThrowAndStop
<1>7. \A w, l : Advanced(V, [V EXCEPT !.live[s] = w, !.list = l])
  BY DEF Advanced, Fields, Coded
<1>8. Advanced(V, SetStorage(T, chain, s, v)) \/ SetStorage(T, chain, s, v) = ThrowAndStop(V, "simple")
  BY <1>4, <1>7 DEF SetStorage
<1>9. QED
  BY <1>5, <1>6, <1>8, AdvancedTrans

LEMMA RefusedAdvances == \A T : Advanced(T, SetStorageRefusedStatic(T))
<1>1. \A W : Advanced(W, [W EXCEPT !.stop = TRUE, !.force = TRUE])
  BY DEF Advanced, Fields, Coded
<1>2. QED
  BY <1>1, ThrowAdvances, AdvancedTrans DEF SetStorageRefusedStatic

(* An evaluation that ends with an exception pending is not a success.         *)
LEMMA PendingFails ==
    ASSUME NEW T, Fields(T), Coded(T), T.err, NEW start
    PROVE  ~ Succeeded(CommitToUvm(Commit(T, start)))
<1>1. PICK U : U = [T EXCEPT !.list = << >>]
  OBVIOUS
<1>2. Commit(T, start).S = U
  BY <1>1 DEF Commit
<1>3. U.err /\ U.code = T.code
  BY <1>1 DEF Fields
<1>4. CommitToUvm(Commit(T, start)) = U
  BY <1>2, <1>3 DEF CommitToUvm
<1>5. QED
  BY <1>3, <1>4 DEF Succeeded, Coded
-----------------------------------------------------------------------------
(* The control of an evaluation: frames, contract-id stack and exceptions.     *)

IdRecs == [id : Contracts, store : Contracts, static : BOOLEAN]

HistoryOf(g) == {"err", "swallowed"} \subseteq DOMAIN g

(* An exception that was raised is pending or was swallowed by a message.      *)
Pending(err, g) == g.err /\ ~ g.swallowed => err

(* What send_message saved before frame number i: where it cuts the id stack,  *)
(* and the exceptions then.                                                    *)
SavedSound(f, i, swallowed) ==
    LET was == f.saved[1]
    IN  /\ was.ids \in Nat /\ was.ids >= i - 1
        /\ HistoryOf(was.h) /\ Pending(was.err, was.h)
        /\ was.h.swallowed => swallowed

FrameSound(f, i, swallowed) ==
    /\ f.kind \in {"top", "call", "static", "delegate", "message"}
    /\ f.kind = "top" <=> i = 1
    /\ f.kind = "message" => SavedSound(f, i, swallowed)

(* No function cuts the id stack below what the frames under it left there.    *)
IdsReach(q, ids) ==
    /\ Len(ids) >= Len(q)
    /\ \A i \in 1 .. Len(q) : q[i].kind = "message" =>
         /\ Len(ids) >= q[i].saved[1].ids + Len(q) - i + 1
         /\ \A j \in 1 .. Len(q) : j > i /\ q[j].kind = "message" =>
              q[j].saved[1].ids >= q[i].saved[1].ids + j - i

(* The first n entries of the id stack are those of the first n frames.        *)
Matching(q, ids, n) ==
    \A i \in 1 .. n : ids[i].id = q[i].id /\ ids[i].store = q[i].store

(* The whole stack matches unless an exception is pending or was swallowed; so *)
(* did the part below each message when it was sent.                           *)
IdsMatch(q, ids, err, swallowed) ==
    /\ ~ err /\ ~ swallowed => Len(ids) = Len(q) /\ Matching(q, ids, Len(q))
    /\ \A i \in 1 .. Len(q) : q[i].kind = "message" /\ ~ q[i].saved[1].err /\ ~ swallowed =>
         q[i].saved[1].ids = i - 1 /\ Matching(q, ids, i - 1)

(* A running script with lua_State T, frames q and history g.                  *)
RunSound(T, q, g) ==
    /\ Fields(T) /\ Coded(T) /\ HistoryOf(g) /\ Pending(T.err, g)
    /\ T.ids \in Seq(IdRecs)
    /\ IsSeq(q) /\ Len(q) >= 1
    /\ \A i \in 1 .. Len(q) : FrameSound(q[i], i, g.swallowed)
    /\ IdsReach(q, T.ids)
    /\ IdsMatch(q, T.ids, T.err, g.swallowed)

RunningInv == RunSound(S, frames, h)

TxInv ==
    /\ DOMAIN tx = {"status", "start", "deposit", "result"}
    /\ tx.status \in {"idle", "running", "ok", "failed"}

ControlInv ==
    /\ TxInv
    /\ tx.status = "idle" => HistoryOf(h) /\ ~ h.err
    /\ tx.status = "running" => RunningInv
    /\ tx.status = "ok" => ~ h.err \/ h.swallowed

(* The ways a step of a running script changes control.                        *)

\* An operation in the innermost function.
Stays ==
    /\ Advanced(S, S') /\ frames' = frames /\ tx'.status = "running" /\ DOMAIN tx' = DOMAIN tx
    /\ HistoryOf(h) => HistoryOf(h')
    /\ h'.err = (h.err \/ (S'.err /\ ~ S.err)) /\ h'.swallowed = h.swallowed

\* The innermost function returns.
Pops(T) ==
    /\ Advanced(S, T) /\ Len(frames) > 1 /\ S' = PopId(T) /\ frames' = Front(frames)
    /\ tx' = tx /\ h' = Noted(PopId(T))

\* send_message, frame number i, cleans up after a failure.
Cleans(T, i) ==
    /\ i \in 1 .. Len(frames) /\ frames[i].kind = "message"
    /\ Fields(T) /\ T.ids \in Seq(IdRecs)
    /\ Len(T.ids) >= frames[i].saved[1].ids
    /\ \A k \in 1 .. frames[i].saved[1].ids : T.ids[k] = S.ids[k]
    /\ frames' = SubSeq(frames, 1, i - 1) /\ tx' = tx
    /\ S' = MessageFailed(T, frames[i].saved[1]) /\ h' = Undone(T, frames[i].saved[1])

\* delegate_call, frame number i, returns with the exception pending.
Escapes(T, i) ==
    /\ i \in 1 .. Len(frames) /\ i > 1
    /\ Advanced(S, T) /\ T.err
    /\ frames' = SubSeq(frames, 1, i - 1) /\ tx' = tx /\ S' = T /\ h' = Noted(T)

\* The evaluation ends.
Ends(T) == Fields(T) /\ Coded(T) /\ (S.err => T.err) /\ Finish(T) /\ h' = Noted(T)
-----------------------------------------------------------------------------
LEMMA FrameAt ==
    ASSUME RunningInv, NEW i \in 1 .. Len(frames), frames[i].kind = "message"
    PROVE  /\ i > 1 /\ frames[i].saved[1].ids \in Nat /\ frames[i].saved[1].ids >= i - 1
           /\ Len(S.ids) >= frames[i].saved[1].ids + Len(frames) - i + 1
           /\ Len(S.ids) \in Nat /\ Len(frames) \in Nat
<1>1. Len(S.ids) \in Nat /\ Len(frames) \in Nat
  BY DEF RunningInv, RunSound, IsSeq
<1>2. FrameSound(frames[i], i, h.swallowed)
  BY DEF RunningInv, RunSound
<1>3. i > 1
  BY <1>2 DEF FrameSound
<1>4. QED
  BY <1>1, <1>2, <1>3 DEF RunningInv, RunSound, FrameSound, SavedSound, IdsReach

(* The innermost function that catches exceptions.                             *)
LEMMA HandlerFacts ==
    ASSUME RunningInv
    PROVE  Handler \in 1 .. Len(frames) /\ frames[Handler].kind \in {"message", "delegate", "top"}
<1> DEFINE Catches(i) == frames[i].kind \in {"message", "delegate", "top"}
<1>1. Len(frames) \in Nat /\ 1 \in 1 .. Len(frames) /\ DOMAIN frames = 1 .. Len(frames)
  BY DEF RunningInv, RunSound, IsSeq
<1>2. PICK B : B = { i \in 1 .. Len(frames) : Catches(i) }
  OBVIOUS
<1>3. frames[1].kind = "top"
  BY <1>1 DEF RunningInv, RunSound, FrameSound
<1>4. 1 \in B /\ B \in SUBSET (1 .. Len(frames)) /\ B # {}
  BY <1>1, <1>2, <1>3
<1>5. PICK i \in B : \A j \in B : j <= i
  <2>1. PICK n \in Nat : n = Len(frames)
    BY <1>1
  <2>2. B \in SUBSET (1 .. n)
    BY <1>4, <2>1
  <2>3. QED
    BY <1>4, <2>2, Greatest
<1>6. \A j \in 1 .. Len(frames) : j > i => ~ Catches(j)
  BY <1>2, <1>5
<1>7. \E k \in DOMAIN frames :
        /\ frames[k].kind \in {"message", "delegate", "top"}
        /\ \A j \in DOMAIN frames : j > k => frames[j].kind \notin {"message", "delegate", "top"}
  BY <1>1, <1>2, <1>5, <1>6
<1>8. QED
  BY <1>1, <1>7 DEF Handler

LEMMA PopFacts ==
    ASSUME RunningInv, NEW T, Advanced(S, T)
    PROVE  /\ Fields(T) /\ Coded(T) /\ (S.err => T.err) /\ T.ids = S.ids
           /\ Fields(PopId(T)) /\ Coded(PopId(T)) /\ PopId(T).err = T.err
           /\ PopId(T).ids = Front(S.ids)
           /\ PopId(T).ids \in Seq(IdRecs) /\ Len(PopId(T).ids) = Len(S.ids) - 1
           /\ \A k \in 1 .. (Len(S.ids) - 1) : PopId(T).ids[k] = S.ids[k]
<1>1. Fields(T) /\ Coded(T) /\ (S.err => T.err) /\ T.ids = S.ids
  BY DEF RunningInv, RunSound, Advanced
<1>2. S.ids \in Seq(IdRecs) /\ Len(S.ids) >= 1 /\ S.ids # << >>
  BY DEF RunningInv, RunSound, IdsReach, IsSeq
<1>3. PopId(T) = [T EXCEPT !.ids = Front(S.ids)]
  BY <1>1, <1>2 DEF PopId
<1>4. /\ Fields(PopId(T)) /\ PopId(T).ids = Front(S.ids)
      /\ PopId(T).err = T.err /\ PopId(T).code = T.code
  BY <1>1, <1>3 DEF Fields
<1>5. Coded(PopId(T))
  BY <1>1, <1>4 DEF Coded
<1>6. /\ Front(S.ids) \in Seq(IdRecs) /\ Len(Front(S.ids)) = Len(S.ids) - 1
      /\ \A k \in 1 .. (Len(S.ids) - 1) : Front(S.ids)[k] = S.ids[k]
  BY <1>2, FrontFacts
<1>7. QED
  BY <1>1, <1>4, <1>5, <1>6

LEMMA ReturnShape ==
    ASSUME RunningInv, NEW T, Advanced(S, T), ReturnFrom(T)
    PROVE  Pops(T) \/ (\E i \in 1 .. Len(frames) : Cleans(PopId(T), i)) \/ Ends(PopId(T))
<1>1. Len(frames) \in Nat /\ Len(frames) >= 1 /\ IsSeq(frames)
  BY DEF RunningInv, RunSound, IsSeq
<1>2. PICK n \in 1 .. Len(frames) : n = Len(frames)
  BY <1>1
<1>3. PICK f : f = Last(frames) /\ f = frames[n]
  BY <1>1, <1>2 DEF Last
<1>4. FrameSound(f, n, h.swallowed)
  BY <1>2, <1>3 DEF RunningInv, RunSound
<1>5. PICK U : U = PopId(T)
  OBVIOUS
<1>5a. Noted(T) = Noted(U)
  BY <1>5, PopFacts DEF Noted
<1>6. CASE f.kind = "top"
  <2>1. Finish(U) /\ h' = Noted(U)
    BY <1>3, <1>5, <1>5a, <1>6 DEF ReturnFrom
  <2>2. Fields(U) /\ Coded(U) /\ (S.err => U.err)
    BY <1>5, PopFacts
  <2>3. Ends(U)
    BY <2>1, <2>2 DEF Ends
  <2>4. QED
    BY <1>5, <2>3
<1>7. CASE f.kind # "top" /\ f.kind = "message" /\ ~ MessageSucceeded(U)
  <2>1. /\ frames' = Front(frames) /\ tx' = tx
        /\ S' = MessageFailed(U, f.saved[1]) /\ h' = Undone(U, f.saved[1])
    BY <1>3, <1>5, <1>7 DEF ReturnFrom
  <2>2. frames' = SubSeq(frames, 1, n - 1)
    BY <1>2, <2>1 DEF Front
  <2>3. /\ Len(S.ids) >= f.saved[1].ids + n - n + 1 /\ f.saved[1].ids \in Nat /\ Len(S.ids) \in Nat
    BY <1>2, <1>3, <1>7, FrameAt
  <2>4. /\ Fields(U) /\ U.ids \in Seq(IdRecs) /\ Len(U.ids) = Len(S.ids) - 1
        /\ \A k \in 1 .. (Len(S.ids) - 1) : U.ids[k] = S.ids[k]
    BY <1>5, PopFacts
  <2>5. Len(U.ids) >= f.saved[1].ids /\ \A k \in 1 .. f.saved[1].ids : U.ids[k] = S.ids[k]
    BY <1>2, <2>3, <2>4
  <2>6. Cleans(U, n)
    BY <1>3, <1>7, <2>1, <2>2, <2>4, <2>5 DEF Cleans
  <2>7. QED
    BY <1>5, <2>6
<1>8. CASE f.kind # "top" /\ ~ (f.kind = "message" /\ ~ MessageSucceeded(U))
  <2>1. frames' = Front(frames) /\ tx' = tx /\ S' = U /\ h' = Noted(U)
    BY <1>3, <1>5, <1>5a, <1>8 DEF ReturnFrom
  <2>2. n # 1
    BY <1>4, <1>8 DEF FrameSound
  <2>3. Pops(T)
    BY <1>2, <1>5, <2>1, <2>2 DEF Pops
  <2>4. QED
    BY <2>3
<1>9. QED
  BY <1>6, <1>7, <1>8

LEMMA RaiseShape ==
    ASSUME RunningInv, NEW T, Advanced(S, T), T.err, RaiseTo(T)
    PROVE  \/ \E i \in 1 .. Len(frames) : Cleans(T, i) \/ Escapes(T, i)
           \/ Ends(T)
<1>1. PICK i \in 1 .. Len(frames) : i = Handler /\ frames[i].kind \in {"message", "delegate", "top"}
  BY HandlerFacts
<1>2. PICK f : f = frames[i]
  OBVIOUS
<1>3. FrameSound(f, i, h.swallowed) /\ Len(frames) \in Nat
  BY <1>2 DEF RunningInv, RunSound, IsSeq
<1>4. Fields(T) /\ Coded(T) /\ T.ids = S.ids /\ T.ids \in Seq(IdRecs)
  BY PopFacts DEF RunningInv, RunSound
<1>5. CASE f.kind = "top"
  <2>1. Finish(T) /\ h' = Noted(T)
    BY <1>1, <1>2, <1>5 DEF RaiseTo
  <2>2. QED
    BY <1>4, <2>1 DEF Ends
<1>6. CASE f.kind = "message"
  <2>1. /\ frames' = SubSeq(frames, 1, i - 1) /\ tx' = tx
        /\ S' = MessageFailed(T, f.saved[1]) /\ h' = Undone(T, f.saved[1])
    BY <1>1, <1>2, <1>6 DEF RaiseTo
  <2>2. /\ Len(S.ids) >= f.saved[1].ids + Len(frames) - i + 1 /\ f.saved[1].ids \in Nat
        /\ Len(S.ids) \in Nat
    BY <1>1, <1>2, <1>6, FrameAt
  <2>3. Len(T.ids) >= f.saved[1].ids
    BY <1>3, <1>4, <2>2
  <2>4. Cleans(T, i)
    BY <1>2, <1>4, <1>6, <2>1, <2>3 DEF Cleans
  <2>5. QED
    BY <2>4
<1>7. CASE f.kind = "delegate"
  <2>1. frames' = SubSeq(frames, 1, i - 1) /\ tx' = tx /\ S' = T /\ h' = Noted(T)
    BY <1>1, <1>2, <1>7 DEF RaiseTo
  <2>2. i > 1
    BY <1>3, <1>7 DEF FrameSound
  <2>3. Escapes(T, i)
    BY <2>1, <2>2 DEF Escapes
  <2>4. QED
    BY <2>3
<1>8. QED
  BY <1>1, <1>2, <1>5, <1>6, <1>7
-----------------------------------------------------------------------------
(* Each way keeps a running script sound.                                      *)

LEMMA StaysSound ==
    ASSUME NEW T, NEW q, NEW g, RunSound(T, q, g), NEW U, Advanced(T, U), NEW g2, HistoryOf(g2),
           g2.err = (g.err \/ (U.err /\ ~ T.err)), g2.swallowed = g.swallowed
    PROVE  RunSound(U, q, g2)
<1>1. Fields(U) /\ Coded(U) /\ (T.err => U.err) /\ U.ids = T.ids
  BY DEF RunSound, Advanced
<1>2. Pending(U.err, g2)
  BY <1>1 DEF RunSound, Pending
<1>3. IdsMatch(q, U.ids, U.err, g2.swallowed)
  BY <1>1 DEF RunSound, IdsMatch
<1>4. QED
  BY <1>1, <1>2, <1>3 DEF RunSound

(* The bottom frames of a sound stack, whatever is left of the id stack above  *)
(* what they may still cut.                                                    *)
LEMMA CutSound ==
    ASSUME NEW T, NEW q, NEW g, RunSound(T, q, g), NEW n \in 1 .. Len(q),
           NEW p, IsSeq(p), Len(p) = n, \A i \in 1 .. n : p[i] = q[i],
           NEW U, Fields(U), Coded(U), U.ids \in Seq(IdRecs),
           NEW m \in Nat, m <= Len(T.ids), Len(U.ids) = m, \A k \in 1 .. m : U.ids[k] = T.ids[k],
           m >= n,
           \A i \in 1 .. n : q[i].kind = "message" => m >= q[i].saved[1].ids + n - i + 1,
           NEW g2, HistoryOf(g2), Pending(U.err, g2), g.swallowed => g2.swallowed,
           ~ U.err /\ ~ g2.swallowed => m = n /\ Matching(q, T.ids, n)
    PROVE  RunSound(U, p, g2)
<1>1. /\ Len(q) \in Nat /\ Len(T.ids) \in Nat
      /\ \A i \in 1 .. n : i \in 1 .. Len(q)
  BY DEF RunSound, IsSeq
<1>2. \A i \in 1 .. n : FrameSound(p[i], i, g2.swallowed)
  <2>1. \A i \in 1 .. n : FrameSound(q[i], i, g.swallowed)
    BY <1>1 DEF RunSound
  <2>2. QED
    BY <2>1 DEF FrameSound, SavedSound
<1>3. IdsReach(p, U.ids)
  BY <1>1 DEF RunSound, IdsReach
<1>4. IdsMatch(p, U.ids, U.err, g2.swallowed)
  <2>1. ~ U.err /\ ~ g2.swallowed => Len(U.ids) = Len(p) /\ Matching(p, U.ids, Len(p))
    BY DEF Matching
  <2>2. ASSUME NEW i \in 1 .. n, p[i].kind = "message", ~ p[i].saved[1].err, ~ g2.swallowed
        PROVE  p[i].saved[1].ids = i - 1 /\ Matching(p, U.ids, i - 1)
    <3>1. q[i].saved[1].ids = i - 1 /\ Matching(q, T.ids, i - 1)
      BY <1>1, <2>2 DEF RunSound, IdsMatch
    <3>2. \A k \in 1 .. (i - 1) : p[k] = q[k] /\ U.ids[k] = T.ids[k]
      OBVIOUS
    <3>3. QED
      BY <3>1, <3>2 DEF Matching
  <2>3. QED
    BY <2>1, <2>2 DEF IdsMatch
<1>5. QED
  BY <1>2, <1>3, <1>4 DEF RunSound

LEMMA PopsSound ==
    ASSUME RunningInv, NEW T, Pops(T)
    PROVE  RunSound(S', frames', h')
<1>1. /\ Advanced(S, T) /\ Len(frames) > 1 /\ S' = PopId(T) /\ frames' = Front(frames)
      /\ h' = Noted(PopId(T))
  BY DEF Pops
<1>2. PICK F : frames \in Seq(F)
  BY DEF RunningInv, RunSound, IsSeq
<1>3. /\ Front(frames) \in Seq(F) /\ Len(Front(frames)) = Len(frames) - 1
      /\ \A i \in 1 .. (Len(frames) - 1) : Front(frames)[i] = frames[i]
  <2>1. frames # << >>
    BY <1>1
  <2>2. QED
    BY <1>2, <2>1, FrontFacts
<1>4. PICK U : U = PopId(T)
  OBVIOUS
<1>5. /\ Fields(U) /\ Coded(U) /\ (S.err => U.err) /\ U.ids \in Seq(IdRecs)
      /\ Len(U.ids) = Len(S.ids) - 1
      /\ \A k \in 1 .. (Len(S.ids) - 1) : U.ids[k] = S.ids[k]
  BY <1>1, <1>4, PopFacts
<1>6. /\ HistoryOf(h') /\ h'.err = (h.err \/ (U.err /\ ~ S.err)) /\ h'.swallowed = h.swallowed
  BY <1>1, <1>4 DEF RunningInv, RunSound, HistoryOf, Noted
<1>7. Pending(U.err, h')
  BY <1>5, <1>6 DEF RunningInv, RunSound, Pending
<1>8. Len(S.ids) \in Nat /\ Len(frames) \in Nat /\ Len(S.ids) >= Len(frames)
  BY <1>2 DEF RunningInv, RunSound, IdsReach
<1>9a. Len(frames) - 1 \in 1 .. Len(frames) /\ Len(S.ids) - 1 \in Nat
  BY <1>1, <1>8
<1>9b. PICK n \in 1 .. Len(frames) : n = Len(frames) - 1
  BY <1>9a
<1>9c. PICK m \in Nat : m = Len(S.ids) - 1
  BY <1>9a
<1>9. /\ n = Len(frames) - 1 /\ m = Len(S.ids) - 1
      /\ m <= Len(S.ids) /\ m >= n
  BY <1>8, <1>9b, <1>9c
<1>10. \A i \in 1 .. n : frames[i].kind = "message" => m >= frames[i].saved[1].ids + n - i + 1
  <2> TAKE i \in 1 .. n
  <2> HAVE frames[i].kind = "message"
  <2>1. i \in 1 .. Len(frames)
    BY <1>8, <1>9
  <2>2. PICK x : x = frames[i].saved[1].ids
    OBVIOUS
  <2>3. Len(S.ids) >= x + Len(frames) - i + 1 /\ x \in Nat
    BY <2>1, <2>2, FrameAt
  <2>4. m >= x + n - i + 1
    BY <1>8, <1>9, <2>3
  <2>5. QED
    BY <2>2, <2>4
<1>11. ~ U.err /\ ~ h'.swallowed => m = n /\ Matching(frames, S.ids, n)
  <2> HAVE ~ U.err /\ ~ h'.swallowed
  <2>1. Len(S.ids) = Len(frames) /\ Matching(frames, S.ids, Len(frames))
    BY <1>5, <1>6 DEF RunningInv, RunSound, IdsMatch
  <2>2. QED
    BY <1>8, <1>9, <2>1 DEF Matching
<1>12. RunSound(U, Front(frames), h')
  <2>1. IsSeq(Front(frames)) /\ Len(Front(frames)) = n /\ \A i \in 1 .. n : Front(frames)[i] = frames[i]
    BY <1>3, <1>9 DEF IsSeq
  <2>2. m <= Len(S.ids) /\ Len(U.ids) = m /\ m >= n /\ \A k \in 1 .. m : U.ids[k] = S.ids[k]
    BY <1>5, <1>9
  <2>3. RunSound(S, frames, h)
    BY DEF RunningInv
  <2>4. h.swallowed => h'.swallowed
    BY <1>6
  <2>5. /\ Fields(U) /\ Coded(U) /\ U.ids \in Seq(IdRecs)
        /\ HistoryOf(h') /\ Pending(U.err, h')
    BY <1>5, <1>6, <1>7
  <2>6. PICK p : p = Front(frames)
    OBVIOUS
  <2>7. IsSeq(p) /\ Len(p) = n /\ \A i \in 1 .. n : p[i] = frames[i]
    BY <2>1, <2>6
  <2>8. RunSound(U, p, h')
    BY <1>10, <1>11, <2>2, <2>3, <2>4, <2>5, <2>7, CutSound
  <2>9. QED
    BY <2>6, <2>8
<1>13. QED
  BY <1>1, <1>4, <1>12

LEMMA CleansSound ==
    ASSUME RunningInv, NEW T, NEW i, Cleans(T, i)
    PROVE  RunSound(S', frames', h')
<1>1. /\ i \in 1 .. Len(frames) /\ frames[i].kind = "message"
      /\ Fields(T) /\ T.ids \in Seq(IdRecs)
      /\ frames' = SubSeq(frames, 1, i - 1)
  BY DEF Cleans
<1>2. PICK was : was = frames[i].saved[1]
  OBVIOUS
<1>3. /\ Len(T.ids) >= was.ids /\ \A k \in 1 .. was.ids : T.ids[k] = S.ids[k]
      /\ S' = MessageFailed(T, was) /\ h' = Undone(T, was)
  BY <1>2 DEF Cleans
<1>4. /\ i > 1 /\ was.ids \in Nat /\ was.ids >= i - 1
      /\ Len(S.ids) >= was.ids + Len(frames) - i + 1
      /\ Len(S.ids) \in Nat /\ Len(frames) \in Nat
  BY <1>1, <1>2, FrameAt
<1>5. FrameSound(frames[i], i, h.swallowed)
  BY <1>1 DEF RunningInv, RunSound
<1>6. HistoryOf(was.h) /\ Pending(was.err, was.h) /\ (was.h.swallowed => h.swallowed)
  BY <1>1, <1>2, <1>5 DEF FrameSound, SavedSound
<1>7. /\ HistoryOf(h') /\ h'.err = was.h.err /\ h'.swallowed = (h.swallowed \/ was.err)
  BY <1>3, <1>6 DEF Undone, HistoryOf
<1>8. /\ Fields(S') /\ S'.err = FALSE /\ S'.ids = SubSeq(T.ids, 1, was.ids)
  BY <1>1, <1>3 DEF MessageFailed, Fields
<1>9. Pending(S'.err, h')
  BY <1>6, <1>7 DEF Pending
<1>10. PICK n \in 1 .. Len(frames) : n = i - 1
  BY <1>1, <1>4
<1>11. PICK m \in Nat : m = was.ids /\ m <= Len(S.ids) /\ m >= n
  BY <1>1, <1>4, <1>10
<1>12. /\ S'.ids \in Seq(IdRecs) /\ Len(S'.ids) = m
       /\ \A k \in 1 .. m : S'.ids[k] = S.ids[k]
  <2>1. m <= Len(T.ids)
    BY <1>3, <1>11
  <2>2. QED
    BY <1>1, <1>3, <1>8, <1>11, <2>1, CutFacts
<1>13. PICK F : frames \in Seq(F)
  BY DEF RunningInv, RunSound, IsSeq
<1>14. /\ IsSeq(frames') /\ Len(frames') = n /\ \A k \in 1 .. n : frames'[k] = frames[k]
  <2>1. n \in Nat /\ n <= Len(frames)
    BY <1>4
  <2>2. /\ SubSeq(frames, 1, n) \in Seq(F) /\ Len(SubSeq(frames, 1, n)) = n
        /\ \A k \in 1 .. n : SubSeq(frames, 1, n)[k] = frames[k]
    BY <1>13, <2>1, CutFacts
  <2>3. QED
    BY <1>1, <1>10, <2>2 DEF IsSeq
<1>15. \A j \in 1 .. n : frames[j].kind = "message" => m >= frames[j].saved[1].ids + n - j + 1
  <2> TAKE j \in 1 .. n
  <2> HAVE frames[j].kind = "message"
  <2>1. j \in 1 .. Len(frames) /\ i > j
    BY <1>1, <1>4, <1>10
  <2>2. PICK x : x = frames[j].saved[1].ids
    OBVIOUS
  <2>3. was.ids >= x + i - j
    BY <1>1, <1>2, <2>1, <2>2 DEF RunningInv, RunSound, IdsReach
  <2>4. x \in Nat
    BY <2>1, <2>2, FrameAt
  <2>5. m >= x + n - j + 1
    BY <1>1, <1>4, <1>10, <1>11, <2>3, <2>4
  <2>6. QED
    BY <2>2, <2>5
<1>16. ~ S'.err /\ ~ h'.swallowed => m = n /\ Matching(frames, S.ids, n)
  BY <1>1, <1>2, <1>7, <1>10, <1>11 DEF RunningInv, RunSound, IdsMatch
<1>17. RunSound(S, frames, h) /\ (h.swallowed => h'.swallowed) /\ Coded(S')
  BY <1>7, <1>8 DEF RunningInv, Coded
<1>18. QED
  BY <1>7, <1>8, <1>9, <1>11, <1>12, <1>14, <1>15, <1>16, <1>17, CutSound

LEMMA EscapesSound ==
    ASSUME RunningInv, NEW T, NEW i, Escapes(T, i)
    PROVE  RunSound(S', frames', h')
<1>1. /\ i \in 1 .. Len(frames) /\ i > 1 /\ Advanced(S, T) /\ T.err
      /\ frames' = SubSeq(frames, 1, i - 1) /\ S' = T /\ h' = Noted(T)
  BY DEF Escapes
<1>2. Fields(T) /\ Coded(T) /\ T.ids = S.ids /\ S.ids \in Seq(IdRecs)
  BY <1>1, PopFacts DEF RunningInv, RunSound
<1>3. HistoryOf(h') /\ h'.swallowed = h.swallowed
  BY <1>1 DEF RunningInv, RunSound, HistoryOf, Noted
<1>4. Pending(T.err, h')
  BY <1>1 DEF Pending
<1>5. PICK F : frames \in Seq(F)
  BY DEF RunningInv, RunSound, IsSeq
<1>6. Len(S.ids) \in Nat /\ Len(frames) \in Nat /\ Len(S.ids) >= Len(frames)
  BY <1>5 DEF RunningInv, RunSound, IdsReach
<1>7. PICK n \in 1 .. Len(frames), m \in Nat : n = i - 1 /\ m = Len(S.ids) /\ m >= n
  BY <1>1, <1>6
<1>8. /\ IsSeq(frames') /\ Len(frames') = n /\ \A k \in 1 .. n : frames'[k] = frames[k]
  <2>1. n \in Nat /\ n <= Len(frames)
    BY <1>6
  <2>2. /\ SubSeq(frames, 1, n) \in Seq(F) /\ Len(SubSeq(frames, 1, n)) = n
        /\ \A k \in 1 .. n : SubSeq(frames, 1, n)[k] = frames[k]
    BY <1>5, <2>1, CutFacts
  <2>3. QED
    BY <1>1, <1>7, <2>2 DEF IsSeq
<1>9. \A j \in 1 .. n : frames[j].kind = "message" => m >= frames[j].saved[1].ids + n - j + 1
  <2> TAKE j \in 1 .. n
  <2> HAVE frames[j].kind = "message"
  <2>1. j \in 1 .. Len(frames)
    BY <1>6
  <2>2. PICK x : x = frames[j].saved[1].ids
    OBVIOUS
  <2>3. Len(S.ids) >= x + Len(frames) - j + 1 /\ x \in Nat
    BY <2>1, <2>2, FrameAt
  <2>4. n <= Len(frames)
    BY <1>6
  <2>5. m >= x + n - j + 1
    BY <1>6, <1>7, <2>3, <2>4
  <2>6. QED
    BY <2>2, <2>5
<1>10. RunSound(S, frames, h) /\ m <= Len(S.ids) /\ Len(T.ids) = m
  BY <1>2, <1>6, <1>7 DEF RunningInv
<1>11. \A k \in 1 .. m : T.ids[k] = S.ids[k]
  BY <1>2
<1>12. RunSound(T, frames', h')
  <2>1. /\ Fields(T) /\ Coded(T) /\ T.ids \in Seq(IdRecs)
        /\ HistoryOf(h') /\ Pending(T.err, h') /\ (h.swallowed => h'.swallowed)
    BY <1>2, <1>3, <1>4
  <2>2. ~ T.err /\ ~ h'.swallowed => m = n /\ Matching(frames, S.ids, n)
    BY <1>1
  <2>3. m >= n
    BY <1>7
  <2>4. PICK p : p = frames'
    OBVIOUS
  <2>5. IsSeq(p) /\ Len(p) = n /\ \A k \in 1 .. n : p[k] = frames[k]
    BY <1>8, <2>4
  <2>6. PICK g2 : g2 = h'
    OBVIOUS
  <2>7. /\ HistoryOf(g2) /\ Pending(T.err, g2) /\ (h.swallowed => g2.swallowed)
        /\ (~ T.err /\ ~ g2.swallowed => m = n /\ Matching(frames, S.ids, n))
    BY <2>1, <2>2, <2>6
  <2>8. RunSound(T, p, g2)
    BY <1>9, <1>10, <1>11, <2>1, <2>3, <2>5, <2>7, CutSound
  <2>9. QED
    BY <2>4, <2>6, <2>8
<1>13. QED
  BY <1>1, <1>12
(* A call pushes a frame and an entry of the id stack that agree.              *)
LEMMA PushSound ==
    ASSUME NEW T, NEW q, NEW g, RunSound(T, q, g),
           NEW f, f.kind \in {"call", "static", "delegate", "message"},
           f.kind = "message" => /\ f.saved[1].ids = Len(T.ids) /\ f.saved[1].err = T.err
                                 /\ f.saved[1].h = g,
           NEW r \in IdRecs, r.id = f.id, r.store = f.store,
           NEW U, Fields(U), Coded(U), U.err = T.err, U.ids = Append(T.ids, r)
    PROVE  RunSound(U, Append(q, f), g)
<1>1. PICK F : q \in Seq(F)
  BY DEF RunSound, IsSeq
<1>2. PICK n \in Nat, m \in Nat : n = Len(q) /\ m = Len(T.ids) /\ n >= 1 /\ m >= n
  BY <1>1 DEF RunSound, IdsReach
<1>3. PICK p : p = Append(q, f)
  OBVIOUS
<1>4. /\ p \in Seq(F \cup {f}) /\ Len(p) = n + 1 /\ p[n + 1] = f
      /\ \A i \in 1 .. n : p[i] = q[i]
  <2>1. q \in Seq(F \cup {f})
    BY <1>1
  <2>2. QED
    BY <1>2, <1>3, <2>1
<1>5. /\ U.ids \in Seq(IdRecs) /\ Len(U.ids) = m + 1 /\ U.ids[m + 1] = r
      /\ \A i \in 1 .. m : U.ids[i] = T.ids[i]
  BY <1>2 DEF RunSound
<1>6. /\ HistoryOf(g) /\ Pending(T.err, g)
      /\ \A i \in 1 .. n : FrameSound(q[i], i, g.swallowed)
      /\ IdsReach(q, T.ids) /\ IdsMatch(q, T.ids, T.err, g.swallowed)
  BY <1>2 DEF RunSound
<1>7. ASSUME NEW i \in 1 .. (n + 1)
      PROVE  FrameSound(p[i], i, g.swallowed)
  <2>1. CASE i \in 1 .. n
    BY <1>4, <1>6, <2>1
  <2>2. CASE i = n + 1
    <3>1. f.kind = "message" => SavedSound(f, i, g.swallowed)
      BY <1>2, <1>6, <2>2 DEF SavedSound
    <3>2. QED
      BY <1>2, <1>4, <2>2, <3>1 DEF FrameSound
  <2>3. QED
    BY <2>1, <2>2
<1>8. IdsReach(p, U.ids)
  <2>1. ASSUME NEW i \in 1 .. (n + 1), p[i].kind = "message"
        PROVE  /\ m + 1 >= p[i].saved[1].ids + (n + 1) - i + 1
               /\ \A j \in 1 .. (n + 1) : j > i /\ p[j].kind = "message" =>
                    p[j].saved[1].ids >= p[i].saved[1].ids + j - i
    <3>1. CASE i \in 1 .. n
      <4>1. PICK x : x = q[i].saved[1].ids
        OBVIOUS
      <4>2. x \in Nat
        BY <1>4, <1>6, <2>1, <3>1, <4>1 DEF FrameSound, SavedSound
      <4>3. m >= x + n - i + 1
        BY <1>2, <1>4, <1>6, <2>1, <3>1, <4>1 DEF IdsReach
      <4>4. ASSUME NEW j \in 1 .. (n + 1), j > i, p[j].kind = "message"
            PROVE  p[j].saved[1].ids >= x + j - i
        <5>1. CASE j \in 1 .. n
          BY <1>2, <1>4, <1>6, <2>1, <3>1, <4>1, <4>4, <5>1 DEF IdsReach
        <5>2. CASE j = n + 1
          BY <1>2, <1>4, <4>2, <4>3, <4>4, <5>2
        <5>3. QED
          BY <5>1, <5>2
      <4>5. p[i].saved[1].ids = x
        BY <1>4, <3>1, <4>1
      <4>6. m + 1 >= x + (n + 1) - i + 1
        BY <4>2, <4>3
      <4>7. QED
        BY <4>4, <4>5, <4>6
    <3>2. CASE i = n + 1
      <4>1. p[i].saved[1].ids = m
        BY <1>2, <1>4, <2>1, <3>2
      <4>2. QED
        BY <3>2, <4>1
    <3>3. QED
      BY <3>1, <3>2
  <2>2. QED
    BY <1>2, <1>4, <1>5, <2>1 DEF IdsReach
<1>9. IdsMatch(p, U.ids, U.err, g.swallowed)
  <2>1. ASSUME ~ T.err, ~ g.swallowed
        PROVE  m = n /\ Matching(p, U.ids, n + 1)
    <3>1. m = n /\ Matching(q, T.ids, n)
      BY <1>2, <1>6, <2>1 DEF IdsMatch
    <3>2. QED
      BY <1>4, <1>5, <3>1 DEF Matching
  <2>2. ASSUME NEW i \in 1 .. (n + 1), p[i].kind = "message", ~ p[i].saved[1].err, ~ g.swallowed
        PROVE  p[i].saved[1].ids = i - 1 /\ Matching(p, U.ids, i - 1)
    <3>1. CASE i \in 1 .. n
      <4>1. q[i].saved[1].ids = i - 1 /\ Matching(q, T.ids, i - 1)
        BY <1>2, <1>4, <1>6, <2>2, <3>1 DEF IdsMatch
      <4>2. \A k \in 1 .. (i - 1) : p[k] = q[k] /\ U.ids[k] = T.ids[k]
        BY <1>2, <1>4, <1>5, <3>1
      <4>3. p[i] = q[i]
        BY <1>4, <3>1
      <4>4. QED
        BY <4>1, <4>2, <4>3 DEF Matching
    <3>2. CASE i = n + 1
      <4>1. p[i].saved[1].ids = m /\ ~ T.err
        BY <1>2, <1>4, <2>2, <3>2
      <4>2. m = n /\ Matching(p, U.ids, n + 1)
        BY <2>1, <2>2, <4>1
      <4>3. i - 1 = n
        BY <3>2
      <4>4. Matching(p, U.ids, n)
        <5>1. \A k \in 1 .. n : k \in 1 .. (n + 1)
          OBVIOUS
        <5>2. QED
          BY <4>2, <5>1 DEF Matching
      <4>5. QED
        BY <4>1, <4>2, <4>3, <4>4
    <3>3. QED
      BY <3>1, <3>2
  <2>3. QED
    BY <1>4, <1>5, <2>1, <2>2 DEF IdsMatch
<1>10. IsSeq(p) /\ Len(p) >= 1
  BY <1>2, <1>4 DEF IsSeq
<1>11. Pending(U.err, g)
  BY <1>6
<1>12. RunSound(U, p, g)
  BY <1>4, <1>5, <1>6, <1>7, <1>8, <1>9, <1>10, <1>11 DEF RunSound
<1>13. QED
  BY <1>3, <1>12
-----------------------------------------------------------------------------
(* Control is kept by every step.                                              *)

LEMMA StaysKeeps ==
    ASSUME ControlInv, Running, Stays
    PROVE  ControlInv'
<1>1. RunSound(S, frames, h)
  BY DEF ControlInv, Running, RunningInv
<1>2. HistoryOf(h')
  BY <1>1 DEF RunSound, Stays
<1>3. RunSound(S', frames, h')
  BY <1>1, <1>2, StaysSound DEF Stays
<1>4. RunningInv'
  BY <1>3 DEF Stays, RunningInv
<1>5. QED
  BY <1>4 DEF ControlInv, TxInv, Stays

LEMMA EndsKeeps ==
    ASSUME ControlInv, Running, NEW T, Ends(T)
    PROVE  ControlInv'
<1>1. /\ Fields(T) /\ Coded(T) /\ (S.err => T.err) /\ Finish(T) /\ h' = Noted(T)
  BY DEF Ends
<1>2. HistoryOf(h) /\ Pending(S.err, h)
  BY DEF ControlInv, Running, RunningInv, RunSound
<1>3. PICK ok \in BOOLEAN : /\ ok = Succeeded(CommitToUvm(Commit(T, tx.start)))
                            /\ \E result : tx' = [tx EXCEPT !.status = IF ok THEN "ok" ELSE "failed",
                                                            !.result = result]
  BY <1>1 DEF Finish, Succeeded
<1>4. PICK result : tx' = [tx EXCEPT !.status = IF ok THEN "ok" ELSE "failed", !.result = result]
  BY <1>3
<1>5. TxInv' /\ tx'.status = (IF ok THEN "ok" ELSE "failed")
  BY <1>4 DEF ControlInv, TxInv
<1>6. ok => ~ T.err
  BY <1>1, <1>3, PendingFails
<1>7. h'.err = (h.err \/ (T.err /\ ~ S.err)) /\ h'.swallowed = h.swallowed
  BY <1>1, <1>2 DEF Noted, HistoryOf
<1>8. ok => ~ h'.err \/ h'.swallowed
  BY <1>1, <1>2, <1>6, <1>7 DEF Pending
<1>9. QED
  BY <1>5, <1>8 DEF ControlInv

LEMMA LeavingKeeps ==
    ASSUME ControlInv, Running, NEW T,
           Pops(T) \/ (\E i : Cleans(T, i) \/ Escapes(T, i))
    PROVE  ControlInv'
<1>1. RunningInv
  BY DEF ControlInv, Running
<1>2. RunSound(S', frames', h')
  BY <1>1, PopsSound, CleansSound, EscapesSound
<1>3. tx' = tx
  BY DEF Pops, Cleans, Escapes
<1>4. RunningInv'
  BY <1>2 DEF RunningInv
<1>5. QED
  BY <1>3, <1>4 DEF ControlInv, TxInv, Running

LEMMA ReturnKeeps ==
    ASSUME ControlInv, Running, NEW T, Advanced(S, T), ReturnFrom(T)
    PROVE  ControlInv'
<1>1. RunningInv
  BY DEF ControlInv, Running
<1>2. Pops(T) \/ (\E i \in 1 .. Len(frames) : Cleans(PopId(T), i)) \/ Ends(PopId(T))
  BY <1>1, ReturnShape
<1>3. QED
  BY <1>2, EndsKeeps, LeavingKeeps

LEMMA RaiseKeeps ==
    ASSUME ControlInv, Running, NEW T, Advanced(S, T), T.err, RaiseTo(T)
    PROVE  ControlInv'
<1>1. RunningInv
  BY DEF ControlInv, Running
<1>2. (\E i \in 1 .. Len(frames) : Cleans(T, i) \/ Escapes(T, i)) \/ Ends(T)
  BY <1>1, RaiseShape
<1>3. QED
  BY <1>2, EndsKeeps, LeavingKeeps

(* An operation in the innermost function, as the actions state it.            *)
LEMMA StepKeeps ==
    ASSUME ControlInv, Running, NEW T, Advanced(S, T),
           NEW h2, h2.err = h.err, h2.swallowed = h.swallowed, HistoryOf(h) => HistoryOf(h2),
           Step(T, h2)
    PROVE  ControlInv'
<1>1. /\ S' = T /\ h' = [h2 EXCEPT !.err = @ \/ (T.err /\ ~ S.err)] /\ tx' = tx /\ frames' = frames
  BY DEF Step
<1>2. HistoryOf(h)
  BY DEF ControlInv, Running, RunningInv, RunSound
<1>3. /\ HistoryOf(h') /\ h'.err = (h.err \/ (T.err /\ ~ S.err)) /\ h'.swallowed = h.swallowed
  BY <1>1, <1>2 DEF HistoryOf
<1>4. Stays
  BY <1>1, <1>3 DEF Stays, Running
<1>5. QED
  BY <1>4, StaysKeeps

LEMMA StartKeeps ==
    ASSUME ControlInv, tx.status = "idle", NEW c \in Contracts, NEW init, Enter(c, init),
           DOMAIN tx' = DOMAIN tx, tx'.status = "running"
    PROVE  ControlInv'
<1>1. /\ S' = [FreshState(init) EXCEPT !.ids = <<Id(c, c, FALSE)>>]
      /\ frames' = <<Frame("top", c, c)>> /\ h' = h
  BY DEF Enter
<1>2. PICK r \in IdRecs : r = Id(c, c, FALSE)
  BY DEF Id, IdRecs
<1>3. /\ Fields(S') /\ Coded(S') /\ S'.err = FALSE /\ S'.ids = <<r>>
  BY <1>1, <1>2 DEF FreshState, Fields, Coded
<1>4. PICK f : f = Frame("top", c, c)
  OBVIOUS
<1>5. f.kind = "top" /\ f.id = r.id /\ f.store = r.store
  BY <1>2, <1>4 DEF Frame, Id
<1>6. PICK q : q = <<f>>
  OBVIOUS
<1>7. IsSeq(q) /\ Len(q) = 1 /\ q[1] = f /\ frames' = q
  <2>1. q \in Seq({f})
    BY <1>6
  <2>2. QED
    BY <1>1, <1>4, <1>6, <2>1 DEF IsSeq
<1>8. HistoryOf(h) /\ ~ h.err
  BY DEF ControlInv
<1>9. PICK ids \in Seq(IdRecs) : ids = <<r>> /\ Len(ids) = 1 /\ ids[1] = r
  <2>1. <<r>> \in Seq(IdRecs) /\ Len(<<r>>) = 1 /\ <<r>>[1] = r
    OBVIOUS
  <2>2. QED
    BY <2>1
<1>10. IdsReach(q, ids)
  BY <1>5, <1>7, <1>9 DEF IdsReach
<1>11. IdsMatch(q, ids, FALSE, h.swallowed)
  BY <1>5, <1>7, <1>9 DEF IdsMatch, Matching
<1>12. FrameSound(q[1], 1, h.swallowed)
  BY <1>5, <1>7 DEF FrameSound
<1>13. RunSound(S', q, h)
  <2>1. PICK U : U = S' /\ Fields(U) /\ Coded(U) /\ U.err = FALSE /\ U.ids = ids
    BY <1>3, <1>9
  <2>2. \A i \in 1 .. Len(q) : FrameSound(q[i], i, h.swallowed)
    BY <1>7, <1>12
  <2>3. IdsReach(q, U.ids) /\ IdsMatch(q, U.ids, U.err, h.swallowed)
    BY <1>10, <1>11, <2>1
  <2>4. Pending(U.err, h) /\ HistoryOf(h)
    BY <1>8 DEF Pending
  <2>5. IsSeq(q) /\ Len(q) >= 1
    BY <1>7
  <2>6. RunSound(U, q, h)
    BY <2>1, <2>2, <2>3, <2>4, <2>5 DEF RunSound
  <2>7. QED
    BY <2>1, <2>6
<1>14. RunningInv'
  BY <1>1, <1>7, <1>13 DEF RunningInv
<1>15. QED
  BY <1>14 DEF ControlInv, TxInv

LEMMA CallKeeps ==
    ASSUME ControlInv, NEW kind \in {"call", "static", "delegate", "message"}, NEW c \in Contracts,
           Call(kind, c)
    PROVE  ControlInv'
<1>1. RunSound(S, frames, h) /\ tx.status = "running"
  BY DEF Call, ControlInv, Running, RunningInv
<1>2. TopId.store \in Contracts
  <2>1. S.ids \in Seq(IdRecs) /\ S.ids # << >>
    BY <1>1 DEF RunSound, IdsReach, IsSeq
  <2>2. TopId \in IdRecs
    BY <2>1 DEF TopId, Last
  <2>3. QED
    BY <2>2 DEF IdRecs
<1>3. PICK st \in Contracts : st = IF kind = "delegate" THEN TopId.store ELSE c
  BY <1>2
<1>4. PICK T : T = Spent(S, IF kind = "message" THEN 1 + ApiGas ELSE 1)
  OBVIOUS
<1>5. PICK r \in IdRecs : r = Id(c, st, kind = "static")
  <2>1. (kind = "static") \in BOOLEAN
    OBVIOUS
  <2>2. \A b \in BOOLEAN : Id(c, st, b) \in IdRecs
    BY DEF Id, IdRecs
  <2>3. QED
    BY <2>1, <2>2
<1>6. PICK f : f = Frame(kind, c, st)
  OBVIOUS
<1>7. /\ S' = [T EXCEPT !.ids = Append(@, r)] /\ frames' = Append(frames, f) /\ tx' = tx /\ h' = h
  BY <1>3, <1>4, <1>5, <1>6 DEF Call
<1>8. Fields(S) /\ Coded(S)
  BY <1>1 DEF RunSound
<1>9. Fields(T) /\ T.ids = S.ids /\ T.err = S.err /\ T.code = S.code
  BY <1>4, <1>8 DEF Spent, Fields
<1>10. PICK U : U = S' /\ Fields(U) /\ Coded(U) /\ U.err = S.err /\ U.ids = Append(S.ids, r)
  BY <1>7, <1>8, <1>9 DEF Fields, Coded
<1>11. f.kind = kind /\ f.id = r.id /\ f.store = r.store
  BY <1>5, <1>6 DEF Frame, Id
<1>12. f.kind = "message" => f.saved[1].ids = Len(S.ids) /\ f.saved[1].err = S.err /\ f.saved[1].h = h
  BY <1>6 DEF Frame, Saved
<1>13. RunSound(U, Append(frames, f), h)
  BY <1>1, <1>10, <1>11, <1>12, PushSound
<1>14. RunningInv'
  BY <1>7, <1>10, <1>13 DEF RunningInv
<1>15. QED
  BY <1>1, <1>7, <1>14 DEF ControlInv, TxInv
LEMMA TransferKeeps ==
    ASSUME ControlInv, NEW to, NEW n, Transfer(to, n)
    PROVE  ControlInv'
<1>1. Running
  BY DEF Transfer
<1>2. PICK T : /\ T = (IF n <= 0 THEN Throw(Spent(S, 1), "simple") ELSE Spent(S, 1 + ApiGas))
               /\ S' = T /\ h' = Noted(T)
  BY DEF Transfer
<1>3. frames' = frames /\ \E result : tx' = [tx EXCEPT !.result = result]
  BY DEF Transfer
<1>4. Advanced(S, T)
  BY <1>2, SpentAdvances, ThrowAdvances, AdvancedTrans
<1>5. HistoryOf(h)
  BY <1>1 DEF ControlInv, Running, RunningInv, RunSound
<1>6. HistoryOf(h') /\ h'.err = (h.err \/ (T.err /\ ~ S.err)) /\ h'.swallowed = h.swallowed
  BY <1>2, <1>5 DEF Noted, HistoryOf
<1>7. tx'.status = "running" /\ DOMAIN tx' = DOMAIN tx
  BY <1>1, <1>3 DEF Running, ControlInv, TxInv
<1>8. Stays
  BY <1>2, <1>3, <1>4, <1>6, <1>7 DEF Stays
<1>9. QED
  BY <1>1, <1>8, StaysKeeps

LEMMA GetKeeps ==
    ASSUME ControlInv, NEW name, Get(name)
    PROVE  ControlInv'
<1>1. PICK T : T = GetStorage(Spent(S, 1 + ApiGas), store, Mine(name))
  OBVIOUS
<1>2. Running /\ Step(T, h)
  BY <1>1 DEF Get
<1>3. Advanced(S, T)
  BY <1>1, SpentAdvances, GetAdvances, AdvancedTrans
<1>4. QED
  BY <1>2, <1>3, StepKeeps

LEMMA SetKeeps ==
    ASSUME ControlInv, NEW name, NEW v, Set(name, v)
    PROVE  ControlInv'
<1>1. PICK s : s = Mine(name)
  OBVIOUS
<1>2. PICK T : T = IF TopId.static THEN SetStorageRefusedStatic(Spent(S, 1))
                   ELSE SetStorage(Spent(S, 1), store, s, v)
  OBVIOUS
<1>3. PICK h2 : h2 = IF T.stop THEN h
                     ELSE [h EXCEPT !.spec[s] = v, !.taint = IF Slips(s, v, T) THEN @ \cup {s} ELSE @]
  OBVIOUS
<1>4. Running /\ Step(T, h2)
  BY <1>1, <1>2, <1>3 DEF Set
<1>5. Advanced(S, T)
  BY <1>2, SpentAdvances, SetAdvances, RefusedAdvances, AdvancedTrans
<1>6. HistoryOf(h) => HistoryOf(h2) /\ h2.err = h.err /\ h2.swallowed = h.swallowed
  BY <1>3 DEF HistoryOf
<1>7. HistoryOf(h)
  BY <1>4 DEF ControlInv, Running, RunningInv, RunSound
<1>8. QED
  BY <1>4, <1>5, <1>6, <1>7, StepKeeps

LEMMA MutateKeeps ==
    ASSUME ControlInv, NEW name, NEW k, NEW v, Mutate(name, k, v)
    PROVE  ControlInv'
<1>1. PICK s : s = Mine(name)
  OBVIOUS
<1>2. PICK t : t = Put(S.live[s], k, v)
  OBVIOUS
<1>3. PICK T : T = [Spent(S, 1) EXCEPT !.live[s] = t]
  OBVIOUS
<1>4. PICK h2 : h2 = IF s \in h.taint THEN h ELSE [h EXCEPT !.spec[s] = t]
  OBVIOUS
<1>5. Running /\ Step(T, h2)
  BY <1>1, <1>2, <1>3, <1>4 DEF Mutate
<1>6. Advanced(S, T)
  <2>1. \A V : Advanced(V, [V EXCEPT !.live[s] = t])
    BY DEF Advanced, Fields, Coded
  <2>2. QED
    BY <1>3, <2>1, SpentAdvances, AdvancedTrans
<1>7. HistoryOf(h) => HistoryOf(h2) /\ h2.err = h.err /\ h2.swallowed = h.swallowed
  BY <1>4 DEF HistoryOf
<1>8. HistoryOf(h)
  BY <1>5 DEF ControlInv, Running, RunningInv, RunSound
<1>9. QED
  BY <1>5, <1>6, <1>7, <1>8, StepKeeps

(* An API that raises an exception, with or without a forced stop.             *)
LEMMA RaisingKeeps ==
    ASSUME ControlInv, DelegateMissing \/ ApiError \/ Exit
    PROVE  ControlInv'
<1>1. PICK U : U = Throw(Spent(S, 1), "simple")
  OBVIOUS
<1>2. Advanced(S, U)
  BY <1>1, SpentAdvances, ThrowAdvances, AdvancedTrans
<1>3. Advanced(U, [U EXCEPT !.force = TRUE])
  BY DEF Advanced, Fields, Coded
<1>4. Running /\ (Step(U, h) \/ Step([U EXCEPT !.force = TRUE], h))
  BY <1>1 DEF DelegateMissing, ApiError, Exit
<1>5. QED
  BY <1>2, <1>3, <1>4, AdvancedTrans, StepKeeps

LEMMA ControlInit == Init => ControlInv
BY DEF Init, ControlInv, TxInv, HistoryOf

LEMMA ControlNext == ControlInv /\ [Next]_vars => ControlInv'
<1> SUFFICES ASSUME ControlInv, [Next]_vars PROVE ControlInv'
  OBVIOUS
<1>1. CASE UNCHANGED vars
  BY <1>1 DEF vars, ControlInv, TxInv, RunningInv
<1>2. ASSUME NEW c \in Contracts, NEW deposit, Invoke(c, deposit)
      PROVE  ControlInv'
  BY <1>2, StartKeeps DEF Invoke, ControlInv, TxInv
<1>3. ASSUME NEW c \in Contracts, Create(c)
      PROVE  ControlInv'
  BY <1>3, StartKeeps DEF Create, ControlInv, TxInv
<1>4. CASE Unwind
  <2>1. PICK T : T = IF S.gas + 1 > GasLimit THEN Throw(Spent(S, 1), "limit") ELSE Spent(S, 1)
    OBVIOUS
  <2>2. Running /\ ReturnFrom(T)
    BY <1>4, <2>1 DEF Unwind
  <2>3. Advanced(S, T)
    BY <2>1, SpentAdvances, ThrowAdvances, AdvancedTrans
  <2>4. QED
    BY <2>2, <2>3, ReturnKeeps
<1>5. CASE Return
  BY <1>5, SpentAdvances, ReturnKeeps DEF Return
<1>6. CASE LuaError
  <2>1. PICK T : T = Throw(Spent(S, 1), "lvm")
    OBVIOUS
  <2>2. Running /\ RaiseTo(T)
    BY <1>6, <2>1 DEF LuaError
  <2>3. Advanced(S, T)
    BY <2>1, SpentAdvances, ThrowAdvances, AdvancedTrans
  <2>4. Fields(S)
    BY <2>2 DEF ControlInv, Running, RunningInv, RunSound
  <2>5. Fields(Spent(S, 1))
    BY <2>4, SpentAdvances DEF Advanced
  <2>6. T.err
    BY <2>1, <2>5, ThrowAdvances
  <2>7. QED
    BY <2>2, <2>3, <2>6, RaiseKeeps
<1>7. CASE DelegateMissing \/ ApiError \/ Exit
  BY <1>7, RaisingKeeps
<1>8. ASSUME NEW s \in Slots, Get(s[2]) \/ \E v : Set(s[2], v) \/ \E k : Mutate(s[2], k, v)
      PROVE  ControlInv'
  BY <1>8, GetKeeps, SetKeeps, MutateKeeps
<1>9. ASSUME NEW kind \in {"call", "static", "delegate", "message"}, NEW c \in Contracts, Call(kind, c)
      PROVE  ControlInv'
  BY <1>9, CallKeeps
<1>10. ASSUME NEW to, Transfer(to, 1)
       PROVE  ControlInv'
  BY <1>10, TransferKeeps
<1>11. QED
  BY <1>1, <1>2, <1>3, <1>4, <1>5, <1>6, <1>7, <1>8, <1>9, <1>10 DEF Next

THEOREM ContractControl == Spec => []ControlInv
BY ControlInit, ControlNext, PTL DEF Spec

(* The contract-id stack is the stack of running functions in every reachable  *)
(* state without a pending or swallowed exception: nested calls, returns,      *)
(* errors caught at any depth and failed messages always cut it to the right   *)
(* length (lauxlib.cpp, uvm_lib.cpp), so a script reads and writes the storage *)
(* and the balance of the contract whose code runs.                            *)
THEOREM ContractStackMatches == Spec => []StackMatches
<1>1. ControlInv => StackMatches
  <2> SUFFICES ASSUME ControlInv, Running, ~ S.err, ~ h.swallowed
               PROVE  /\ Len(S.ids) = Len(frames)
                      /\ \A i \in DOMAIN frames :
                           S.ids[i].id = frames[i].id /\ S.ids[i].store = frames[i].store
    BY DEF StackMatches
  <2>1. RunSound(S, frames, h)
    BY DEF ControlInv, Running, RunningInv
  <2>2. DOMAIN frames = 1 .. Len(frames)
    BY <2>1 DEF RunSound, IsSeq
  <2>3. QED
    BY <2>1, <2>2 DEF RunSound, IdsMatch, Matching
<1>2. QED
  BY <1>1, ContractControl, PTL

(* A call recorded as a success raised no exception outside a message that     *)
(* failed and was undone: once pending, an exception survives every return and *)
(* every catch but that of send_message, up to the check of exception_code by  *)
(* the engine (contract_evaluate.cpp).                                         *)
THEOREM ContractSuccessIsClean == Spec => []SuccessIsClean
<1>1. ControlInv => SuccessIsClean
  BY DEF ControlInv, SuccessIsClean
<1>2. QED
  BY <1>1, ContractControl, PTL
-----------------------------------------------------------------------------
(* Money.                                                                      *)

Ones == [a \in Accounts |-> 1]

MoneyInv ==
    /\ {"result", "status"} \subseteq DOMAIN tx /\ "money" \in DOMAIN tx.result
    /\ balances \in [Accounts -> Int] /\ tx.result.money \in [Accounts -> Int]
    /\ SumFunction(balances) = SumFunction(Ones) /\ SumFunction(tx.result.money) = 0
    /\ \A a \in Accounts : balances[a] >= 0
    /\ tx.status # "ok" => balances = Ones
    /\ tx.status = "running" => \A a \in Accounts : balances[a] + tx.result.money[a] >= 0

LEMMA FiniteAccounts == IsFiniteSet(Accounts)
<1>1. IsFiniteSet({User})
  BY FS_Singleton
<1>2. QED
  BY <1>1, UvmContractAssumption, FS_Union DEF Accounts

LEMMA NoMoneySum == NoMoney \in [Accounts -> Int] /\ SumFunction(NoMoney) = 0
<1>1. NoMoney \in [Accounts -> Int] /\ \A a \in Accounts : NoMoney[a] = 0
  BY DEF NoMoney
<1>2. QED
  BY <1>1, FiniteAccounts, BooksZero

(* A payment that the payer can make leaves the sum, and no account below zero. *)
LEMMA AddMoneyFacts ==
    ASSUME NEW result, "money" \in DOMAIN result, result.money \in [Accounts -> Int],
           NEW from \in Accounts, NEW to \in Accounts, NEW n \in Int
    PROVE  /\ "money" \in DOMAIN AddMoney(result, from, to, n)
           /\ AddMoney(result, from, to, n).money \in [Accounts -> Int]
           /\ SumFunction(AddMoney(result, from, to, n).money) = SumFunction(result.money)
           /\ Shifted(result.money, AddMoney(result, from, to, n).money, from, to, n)
<1>1. PICK f \in [Accounts -> Int] : f = result.money
  OBVIOUS
<1>2. PICK g : g = Moved(f, from, to, n)
  OBVIOUS
<1>3. AddMoney(result, from, to, n).money = g /\ "money" \in DOMAIN AddMoney(result, from, to, n)
  <2>1. AddMoney(result, from, to, n) = [result EXCEPT !.money = g]
    BY <1>1, <1>2, Zenon DEF AddMoney
  <2>2. QED
    BY <2>1
<1>4. g \in [Accounts -> Int]
  BY <1>2 DEF Moved
<1>5. \A a \in Accounts : g[a] = IF from = to THEN f[a]
                                 ELSE IF a = from THEN f[a] - n
                                 ELSE IF a = to THEN f[a] + n ELSE f[a]
  BY <1>2 DEF Moved
<1>6. Shifted(f, g, from, to, n)
  BY <1>4, <1>5 DEF Shifted
<1>7. SumFunction(g) = SumFunction(f)
  BY <1>6, FiniteAccounts, BooksMove
<1>8. QED
  BY <1>1, <1>3, <1>4, <1>6, <1>7

LEMMA FinishMoney ==
    ASSUME MoneyInv, Running, NEW T, Finish(T)
    PROVE  MoneyInv'
<1>1. PICK c : c = Commit(T, tx.start)
  OBVIOUS
<1>2. PICK ok : ok = Succeeded(CommitToUvm(c))
  OBVIOUS
<1>3. PICK result : /\ result = IF ok THEN [tx.result EXCEPT !.changes = c.changes]
                                ELSE SetFailed(Refund(tx.result))
                    /\ ApplyPendings(result)
                    /\ tx' = [tx EXCEPT !.status = IF ok THEN "ok" ELSE "failed", !.result = result]
  BY <1>1, <1>2 DEF Finish
<1>4. tx'.result = result /\ tx'.status = (IF ok THEN "ok" ELSE "failed") /\ DOMAIN tx' = DOMAIN tx
  BY <1>3 DEF MoneyInv
<1>5. balances = Ones
  BY DEF MoneyInv, Running
<1>6. balances' = [a \in Accounts |-> balances[a] + result.money[a]]
  BY <1>3 DEF ApplyPendings
<1>7. CASE ok
  <2>1. result.money = tx.result.money /\ "money" \in DOMAIN result
    BY <1>3, <1>7 DEF MoneyInv
  <2>2. PICK m \in [Accounts -> Int] : m = tx.result.money
    BY DEF MoneyInv
  <2>3. balances \in [Accounts -> Int] /\ SumFunction(balances) = SumFunction(Ones) /\ SumFunction(m) = 0
    BY <2>2 DEF MoneyInv
  <2>4. balances' = [a \in Accounts |-> balances[a] + m[a]]
    BY <1>6, <2>1, <2>2
  <2>5. SumFunction(balances') = SumFunction(balances) + SumFunction(m)
    BY <2>3, <2>4, FiniteAccounts, BooksBoth
  <2>6. SumFunction(balances) \in Int
    BY <2>3, FiniteAccounts, BooksType
  <2>7. SumFunction(balances') = SumFunction(Ones)
    BY <2>3, <2>5, <2>6
  <2>8. balances' \in [Accounts -> Int] /\ \A a \in Accounts : balances'[a] = balances[a] + m[a]
    BY <2>3, <2>4
  <2>9. \A a \in Accounts : balances'[a] >= 0
    BY <2>2, <2>8 DEF MoneyInv, Running
  <2>10. tx'.result.money = m /\ tx'.status = "ok"
    BY <1>4, <1>7, <2>1, <2>2
  <2>11. "money" \in DOMAIN tx'.result /\ {"result", "status"} \subseteq DOMAIN tx'
    BY <1>4, <2>1 DEF MoneyInv
  <2>12. QED
    BY <2>2, <2>3, <2>7, <2>8, <2>9, <2>10, <2>11 DEF MoneyInv, Ones
<1>8. CASE ~ ok
  <2>1. result.money = NoMoney /\ "money" \in DOMAIN result
    BY <1>3, <1>8 DEF SetFailed, EmptyResult
  <2>2. \A a \in Accounts : balances[a] = 1 /\ NoMoney[a] = 0
    BY <1>5 DEF Ones, NoMoney
  <2>3. balances' = Ones
    BY <1>6, <2>1, <2>2 DEF Ones
  <2>4. tx'.result.money = NoMoney /\ tx'.status = "failed"
    BY <1>4, <1>8, <2>1
  <2>5. balances' \in [Accounts -> Int] /\ (\A a \in Accounts : balances'[a] >= 0)
    BY <2>3 DEF Ones
  <2>6. "money" \in DOMAIN tx'.result /\ {"result", "status"} \subseteq DOMAIN tx'
    BY <1>4, <2>1 DEF MoneyInv
  <2>7. QED
    BY <2>3, <2>4, <2>5, <2>6, NoMoneySum DEF MoneyInv, Ones
<1>9. QED
  BY <1>7, <1>8

LEMMA KeptMoney ==
    ASSUME MoneyInv, balances' = balances, tx' = tx
    PROVE  MoneyInv'
BY DEF MoneyInv, Ones

LEMMA LeaveMoney ==
    ASSUME MoneyInv, Running, NEW T, ReturnFrom(T) \/ RaiseTo(T)
    PROVE  MoneyInv'
<1>1. \/ \E U : Finish(U)
      \/ UNCHANGED <<store, balances, deployed, tx>>
  BY DEF ReturnFrom, RaiseTo
<1>2. QED
  BY <1>1, FinishMoney, KeptMoney

LEMMA StartMoney ==
    ASSUME MoneyInv, tx.status = "idle", balances' = balances, {"result", "status"} \subseteq DOMAIN tx',
           "money" \in DOMAIN tx'.result, tx'.result.money \in [Accounts -> Int],
           SumFunction(tx'.result.money) = 0,
           \A a \in Accounts : balances[a] + tx'.result.money[a] >= 0
    PROVE  MoneyInv'
BY DEF MoneyInv, Ones

LEMMA InvokeMoney ==
    ASSUME MoneyInv, NEW c \in Contracts, NEW deposit \in {0, 1}, Invoke(c, deposit)
    PROVE  MoneyInv'
<1>1. /\ tx.status = "idle" /\ deposit <= balances[User] /\ balances' = balances
      /\ tx'.result = AddMoney(EmptyResult, User, c, deposit)
      /\ {"result", "status"} \subseteq DOMAIN tx'
  BY DEF Invoke, Enter
<1>2. User \in Accounts /\ c \in Accounts
  BY DEF Accounts
<1>3. "money" \in DOMAIN EmptyResult /\ EmptyResult.money = NoMoney
  BY DEF EmptyResult
<1>4. /\ "money" \in DOMAIN tx'.result /\ tx'.result.money \in [Accounts -> Int]
      /\ SumFunction(tx'.result.money) = 0
      /\ \A a \in Accounts : tx'.result.money[a] =
             IF User = c THEN NoMoney[a]
             ELSE IF a = User THEN NoMoney[a] - deposit
             ELSE IF a = c THEN NoMoney[a] + deposit ELSE NoMoney[a]
  <2>1. PICK r : r = EmptyResult
    OBVIOUS
  <2>2. "money" \in DOMAIN r /\ r.money = NoMoney /\ r.money \in [Accounts -> Int] /\ deposit \in Int
    BY <1>3, <2>1, NoMoneySum
  <2>3. PICK R : R = AddMoney(r, User, c, deposit)
    OBVIOUS
  <2>4. "money" \in DOMAIN R /\ R.money \in [Accounts -> Int]
    BY <1>2, <2>2, <2>3, AddMoneyFacts
  <2>5. SumFunction(R.money) = SumFunction(r.money)
    BY <1>2, <2>2, <2>3, AddMoneyFacts
  <2>6. Shifted(r.money, R.money, User, c, deposit)
    BY <1>2, <2>2, <2>3, AddMoneyFacts
  <2>7. tx'.result = R
    BY <1>1, <2>1, <2>3
  <2>8. QED
    BY <2>2, <2>4, <2>5, <2>6, <2>7, NoMoneySum DEF Shifted
<1>5. \A a \in Accounts : NoMoney[a] = 0 /\ balances[a] \in Int /\ balances[a] >= 0
  BY DEF NoMoney, MoneyInv
<1>6. \A a \in Accounts : balances[a] + tx'.result.money[a] >= 0
  BY <1>1, <1>2, <1>4, <1>5
<1>7. QED
  BY <1>1, <1>4, <1>6, StartMoney

LEMMA CreateMoney ==
    ASSUME MoneyInv, NEW c \in Contracts, Create(c)
    PROVE  MoneyInv'
<1>1. /\ tx.status = "idle" /\ balances' = balances
      /\ tx'.result = [EmptyResult EXCEPT !.contracts = {c}]
      /\ {"result", "status"} \subseteq DOMAIN tx'
  BY DEF Create, Enter
<1>2. "money" \in DOMAIN tx'.result /\ tx'.result.money = NoMoney
  BY <1>1 DEF EmptyResult
<1>3. \A a \in Accounts : balances[a] + NoMoney[a] >= 0
  BY DEF NoMoney, MoneyInv
<1>4. QED
  BY <1>1, <1>2, <1>3, NoMoneySum, StartMoney

LEMMA TransferMoney ==
    ASSUME ControlInv, MoneyInv, NEW to \in Payees, Transfer(to, 1)
    PROVE  MoneyInv'
<1>1. RunSound(S, frames, h) /\ tx.status = "running"
  BY DEF Transfer, ControlInv, Running, RunningInv
<1>2. TopId.store \in Contracts
  <2>1. S.ids \in Seq(IdRecs) /\ S.ids # << >>
    BY <1>1 DEF RunSound, IdsReach, IsSeq
  <2>2. TopId \in IdRecs
    BY <2>1 DEF TopId, Last
  <2>3. QED
    BY <2>2 DEF IdRecs
<1>3. PICK from \in Accounts : from = TopId.store
  BY <1>2 DEF Accounts
<1>4. to \in Accounts
  BY UvmContractAssumption
<1>5. PICK m \in [Accounts -> Int] : m = tx.result.money
  BY DEF MoneyInv
<1>6. /\ tx' = [tx EXCEPT !.result = IF balances[from] + m[from] >= 1
                                     THEN AddMoney(tx.result, from, to, 1) ELSE tx.result]
      /\ balances' = balances
  BY <1>3, <1>5 DEF Transfer
<1>7. tx'.status = "running" /\ {"result", "status"} \subseteq DOMAIN tx' /\ balances = Ones
  BY <1>1, <1>6 DEF MoneyInv
<1>8. CASE balances[from] + m[from] >= 1
  <2>1. tx'.result = AddMoney(tx.result, from, to, 1)
    BY <1>6, <1>8 DEF MoneyInv
  <2>2. /\ "money" \in DOMAIN tx'.result /\ tx'.result.money \in [Accounts -> Int]
        /\ SumFunction(tx'.result.money) = SumFunction(m)
        /\ \A a \in Accounts : tx'.result.money[a] =
               IF from = to THEN m[a]
               ELSE IF a = from THEN m[a] - 1
               ELSE IF a = to THEN m[a] + 1 ELSE m[a]
    <3>1. PICK r : r = tx.result
      OBVIOUS
    <3>2. "money" \in DOMAIN r /\ r.money = m /\ r.money \in [Accounts -> Int]
      BY <1>5, <3>1 DEF MoneyInv
    <3>3. PICK R : R = AddMoney(r, from, to, 1)
      OBVIOUS
    <3>4. "money" \in DOMAIN R
      BY <1>4, <3>2, <3>3, AddMoneyFacts
    <3>4a. R.money \in [Accounts -> Int]
      BY <1>4, <3>2, <3>3, AddMoneyFacts
    <3>5. SumFunction(R.money) = SumFunction(r.money)
      BY <1>4, <3>2, <3>3, AddMoneyFacts
    <3>6. Shifted(r.money, R.money, from, to, 1)
      BY <1>4, <3>2, <3>3, AddMoneyFacts
    <3>7. tx'.result = R
      BY <2>1, <3>1, <3>3
    <3>8. QED
      BY <3>2, <3>4, <3>4a, <3>5, <3>6, <3>7 DEF Shifted
  <2>3. \A a \in Accounts : balances[a] \in Int /\ balances[a] + m[a] >= 0
    BY <1>1, <1>5 DEF MoneyInv
  <2>4. \A a \in Accounts : balances[a] + tx'.result.money[a] >= 0
    BY <1>8, <2>2, <2>3
  <2>5. QED
    BY <1>5, <1>6, <1>7, <2>2, <2>4 DEF MoneyInv, Ones
<1>9. CASE ~ (balances[from] + m[from] >= 1)
  <2>1. tx'.result = tx.result
    BY <1>6, <1>9 DEF MoneyInv
  <2>2. QED
    BY <1>1, <1>6, <1>7, <2>1 DEF MoneyInv, Ones
<1>10. QED
  BY <1>8, <1>9

LEMMA MoneyInit == Init => MoneyInv
<1> SUFFICES ASSUME Init PROVE MoneyInv
  OBVIOUS
<1>1. balances = Ones /\ tx.result = EmptyResult /\ tx.status = "idle" /\ {"result", "status"} \subseteq DOMAIN tx
  BY DEF Init, Ones
<1>2. tx.result.money = NoMoney /\ "money" \in DOMAIN tx.result
  BY <1>1 DEF EmptyResult
<1>3. \A a \in Accounts : Ones[a] = 1
  BY DEF Ones
<1>4. Ones \in [Accounts -> Int]
  BY DEF Ones
<1>5. QED
  BY <1>1, <1>2, <1>3, <1>4, NoMoneySum DEF MoneyInv

LEMMA MoneyNext == ControlInv /\ MoneyInv /\ [Next]_vars => MoneyInv'
<1> SUFFICES ASSUME ControlInv, MoneyInv, [Next]_vars PROVE MoneyInv'
  OBVIOUS
<1>1. CASE UNCHANGED vars
  BY <1>1, KeptMoney DEF vars
<1>2. ASSUME NEW c \in Contracts, (\E deposit \in {0, 1} : Invoke(c, deposit)) \/ Create(c)
      PROVE  MoneyInv'
  BY <1>2, InvokeMoney, CreateMoney
<1>3. CASE Unwind \/ Return \/ LuaError
  <2>1. Running /\ \E T : ReturnFrom(T) \/ RaiseTo(T)
    BY <1>3 DEF Unwind, Return, LuaError
  <2>2. QED
    BY <2>1, LeaveMoney
<1>4. CASE DelegateMissing \/ ApiError \/ Exit
  BY <1>4, KeptMoney DEF DelegateMissing, ApiError, Exit, Step
<1>5. ASSUME NEW s \in Slots, Get(s[2]) \/ (\E v : Set(s[2], v)) \/ (\E k, v : Mutate(s[2], k, v))
      PROVE  MoneyInv'
  BY <1>5, KeptMoney DEF Get, Set, Mutate, Step
<1>6. ASSUME NEW kind, NEW c, Call(kind, c)
      PROVE  MoneyInv'
  BY <1>6, KeptMoney DEF Call
<1>7. ASSUME NEW to \in Payees, Transfer(to, 1)
      PROVE  MoneyInv'
  BY <1>7, TransferMoney
<1>8. QED
  BY <1>1, <1>2, <1>3, <1>4, <1>5, <1>6, <1>7 DEF Next

(* Whatever the code of contracts does, calls, transfers, errors and failed    *)
(* messages in any order, the money of all accounts stays the same in sum, no  *)
(* account ends below zero and a failed call moves none (contract_evaluate.cpp *)
(* and apply_pendings in contract.cpp).                                        *)
THEOREM ContractMoneyConserved == Spec => []MoneyConserved
<1>1. Spec => []MoneyInv
  BY ControlInit, MoneyInit, ControlNext, MoneyNext, PTL DEF Spec
<1>2. MoneyInv => MoneyConserved
  BY DEF MoneyInv, MoneyConserved, Ones
<1>3. QED
  BY <1>1, <1>2, PTL
-----------------------------------------------------------------------------
(* The change list: what it leaves in a slot, and how it grows and is cut.     *)

LEMMA ItemsTop ==
    ASSUME NEW list, IsSeq(list), NEW s, ItemsOf(list, s) # {}
    PROVE  /\ Max(ItemsOf(list, s)) \in ItemsOf(list, s)
           /\ \A j \in ItemsOf(list, s) : j <= Max(ItemsOf(list, s))
<1>1. PICK n \in Nat : n = Len(list) /\ DOMAIN list = 1 .. n
  BY DEF IsSeq
<1>2. PICK B \in SUBSET (1 .. n) : B = ItemsOf(list, s)
  BY <1>1 DEF ItemsOf
<1>3. \E i \in B : \A j \in B : j <= i
  BY <1>2, Greatest
<1>4. \E i \in B : \A j \in B : i >= j
  <2>1. \A i, j \in B : j <= i => i >= j
    OBVIOUS
  <2>2. QED
    BY <1>3, <2>1
<1>5. Max(B) \in B /\ \A j \in B : Max(B) >= j
  BY <1>4 DEF Max
<1>6. \A j \in B : j <= Max(B)
  BY <1>5
<1>7. QED
  BY <1>2, <1>5, <1>6

(* The last change of a slot, if there is one, decides its value.              *)
LEMMA LatestIs ==
    ASSUME NEW list, IsSeq(list), NEW s, NEW chain, NEW i \in 1 .. Len(list), list[i].slot = s,
           \A j \in 1 .. Len(list) : j > i => list[j].slot # s
    PROVE  Latest(list, chain, s) = list[i].after
<1>1. PICK n \in Nat : n = Len(list) /\ DOMAIN list = 1 .. n
  BY DEF IsSeq
<1>2. i \in ItemsOf(list, s)
  BY <1>1 DEF ItemsOf
<1>3. PICK m : m = Max(ItemsOf(list, s))
  OBVIOUS
<1>4. m \in ItemsOf(list, s) /\ i <= m
  BY <1>2, <1>3, ItemsTop
<1>5. m \in 1 .. n /\ list[m].slot = s
  BY <1>1, <1>4 DEF ItemsOf
<1>6. m = i
  BY <1>1, <1>4, <1>5
<1>7. QED
  BY <1>2, <1>3, <1>6 DEF Latest

LEMMA LatestNone ==
    ASSUME NEW list, IsSeq(list), NEW s, NEW chain, \A j \in 1 .. Len(list) : list[j].slot # s
    PROVE  ItemsOf(list, s) = {} /\ Latest(list, chain, s) = chain[s]
BY DEF IsSeq, ItemsOf, Latest

LEMMA LatestCases ==
    ASSUME NEW list, IsSeq(list), NEW s, NEW chain
    PROVE  \/ \A j \in 1 .. Len(list) : list[j].slot # s
           \/ \E i \in 1 .. Len(list) :
                /\ list[i].slot = s /\ Latest(list, chain, s) = list[i].after
                /\ \A j \in 1 .. Len(list) : j > i => list[j].slot # s
<1>1. PICK n \in Nat : n = Len(list) /\ DOMAIN list = 1 .. n
  BY DEF IsSeq
<1>2. CASE ItemsOf(list, s) = {}
  BY <1>1, <1>2 DEF ItemsOf
<1>3. CASE ItemsOf(list, s) # {}
  <2>1. PICK m : m = Max(ItemsOf(list, s))
    OBVIOUS
  <2>2. m \in ItemsOf(list, s) /\ \A j \in ItemsOf(list, s) : j <= m
    BY <1>3, <2>1, ItemsTop
  <2>3. m \in 1 .. n /\ list[m].slot = s /\ \A j \in 1 .. n : list[j].slot = s => j <= m
    BY <1>1, <2>2 DEF ItemsOf
  <2>4. \A j \in 1 .. n : j > m => list[j].slot # s
    BY <2>3
  <2>5. Latest(list, chain, s) = list[m].after
    BY <1>3, <2>1 DEF Latest
  <2>6. QED
    BY <1>1, <2>3, <2>4, <2>5
<1>4. QED
  BY <1>2, <1>3

LEMMA AppendFacts ==
    ASSUME NEW list, IsSeq(list), NEW e
    PROVE  /\ IsSeq(Append(list, e)) /\ Len(list) \in Nat /\ Len(Append(list, e)) = Len(list) + 1
           /\ Append(list, e)[Len(list) + 1] = e
           /\ \A i \in 1 .. Len(list) : Append(list, e)[i] = list[i]
<1>1. PICK F : list \in Seq(F)
  BY DEF IsSeq
<1>2. list \in Seq(F \cup {e}) /\ e \in F \cup {e}
  BY <1>1
<1>3. Append(list, e) \in Seq(F \cup {e})
  BY <1>2
<1>4. QED
  BY <1>1, <1>3 DEF IsSeq

LEMMA LatestAppend ==
    ASSUME NEW list, IsSeq(list), NEW e, NEW s, NEW chain
    PROVE  Latest(Append(list, e), chain, s) = IF e.slot = s THEN e.after ELSE Latest(list, chain, s)
<1>0. PICK p : p = Append(list, e)
  OBVIOUS
<1>1. PICK n \in Nat : p = Append(list, e) /\ n = Len(list)
  BY <1>0, AppendFacts
<1>2. IsSeq(p) /\ Len(p) = n + 1 /\ p[n + 1] = e /\ \A i \in 1 .. n : p[i] = list[i]
  BY <1>1, AppendFacts
<1>3. CASE e.slot = s
  <2>1. n + 1 \in 1 .. Len(p) /\ p[n + 1].slot = s /\ \A j \in 1 .. Len(p) : j > n + 1 => p[j].slot # s
    BY <1>2, <1>3
  <2>2. Latest(p, chain, s) = p[n + 1].after
    BY <1>2, <2>1, LatestIs
  <2>3. QED
    BY <1>1, <1>2, <1>3, <2>2
<1>4. CASE e.slot # s
  <2>1. CASE \A j \in 1 .. n : list[j].slot # s
    <3>1. \A j \in 1 .. Len(p) : p[j].slot # s
      BY <1>2, <1>4, <2>1
    <3>2. Latest(p, chain, s) = chain[s]
      BY <1>2, <3>1, LatestNone
    <3>3. \A j \in 1 .. Len(list) : list[j].slot # s
      BY <1>1, <2>1
    <3>4. Latest(list, chain, s) = chain[s]
      BY <3>3, LatestNone
    <3>5. QED
      BY <1>1, <1>4, <3>2, <3>4
  <2>2. ASSUME NEW i \in 1 .. n, list[i].slot = s, Latest(list, chain, s) = list[i].after,
               \A j \in 1 .. n : j > i => list[j].slot # s
        PROVE  Latest(p, chain, s) = list[i].after
    <3>1. i \in 1 .. Len(p) /\ p[i].slot = s /\ \A j \in 1 .. Len(p) : j > i => p[j].slot # s
      BY <1>2, <1>4, <2>2
    <3>2. Latest(p, chain, s) = p[i].after
      BY <1>2, <3>1, LatestIs
    <3>3. QED
      BY <1>2, <2>2, <3>2
  <2>3. QED
    BY <1>1, <1>4, <2>1, <2>2, LatestCases
<1>5. QED
  BY <1>3, <1>4

(* Every change says what the changes before it left in its slot.              *)
Linked(list, chain) ==
    \A i \in 1 .. Len(list) :
        /\ list[i].slot \in Slots
        /\ list[i].before = Latest(SubSeq(list, 1, i - 1), chain, list[i].slot)

LEMMA CutList ==
    ASSUME NEW list, IsSeq(list), NEW n \in 0 .. Len(list)
    PROVE  /\ IsSeq(SubSeq(list, 1, n)) /\ Len(SubSeq(list, 1, n)) = n /\ Len(list) \in Nat
           /\ \A i \in 1 .. n : SubSeq(list, 1, n)[i] = list[i]
<1>1. PICK F : list \in Seq(F)
  BY DEF IsSeq
<1>2. n \in Nat /\ n <= Len(list)
  BY <1>1
<1>3. QED
  BY <1>1, <1>2, CutFacts DEF IsSeq

(* Lists that begin alike have the same beginnings.                            *)
LEMMA SameCut ==
    ASSUME NEW p, NEW q, IsSeq(p), IsSeq(q), NEW n \in Nat, n <= Len(p), n <= Len(q),
           \A i \in 1 .. n : p[i] = q[i]
    PROVE  SubSeq(p, 1, n) = SubSeq(q, 1, n)
<1>1. SubSeq(p, 1, n) = [i \in 1 .. n |-> p[i]] /\ SubSeq(q, 1, n) = [i \in 1 .. n |-> q[i]]
  BY DEF IsSeq
<1>2. QED
  BY <1>1

LEMMA WholeCut ==
    ASSUME NEW p, IsSeq(p)
    PROVE  SubSeq(p, 1, Len(p)) = p
<1>1. PICK F : p \in Seq(F)
  BY DEF IsSeq
<1>2. PICK n \in Nat : n = Len(p) /\ p = [i \in 1 .. n |-> p[i]]
  BY <1>1
<1>3. SubSeq(p, 1, n) = [i \in 1 .. n |-> p[i]]
  BY <1>1, <1>2
<1>4. QED
  BY <1>2, <1>3

LEMMA LinkedAppend ==
    ASSUME NEW list, IsSeq(list), NEW chain, Linked(list, chain),
           NEW e, e.slot \in Slots, e.before = Latest(list, chain, e.slot)
    PROVE  Linked(Append(list, e), chain)
<1>0. PICK p : p = Append(list, e)
  OBVIOUS
<1>1. PICK n \in Nat : p = Append(list, e) /\ n = Len(list)
  BY <1>0, AppendFacts
<1>2. IsSeq(p) /\ Len(p) = n + 1 /\ p[n + 1] = e /\ \A i \in 1 .. n : p[i] = list[i]
  BY <1>1, AppendFacts
<1>3. ASSUME NEW i \in 1 .. (n + 1)
      PROVE  p[i].slot \in Slots /\ p[i].before = Latest(SubSeq(p, 1, i - 1), chain, p[i].slot)
  <2>1. PICK m \in Nat : m = i - 1 /\ m <= n
    OBVIOUS
  <2>2. \A j \in 1 .. m : p[j] = list[j]
    BY <1>2, <2>1
  <2>3. SubSeq(p, 1, m) = SubSeq(list, 1, m)
    <3>1. m <= Len(p) /\ m <= Len(list)
      BY <1>1, <1>2, <2>1
    <3>2. QED
      BY <1>2, <2>2, <3>1, SameCut
  <2>4. CASE i = n + 1
    <3>1. SubSeq(list, 1, m) = list
      BY <1>1, <2>1, <2>4, WholeCut
    <3>2. QED
      BY <1>2, <2>1, <2>3, <2>4, <3>1
  <2>5. CASE i \in 1 .. n
    <3>1. p[i] = list[i]
      BY <1>2, <2>5
    <3>2. list[i].slot \in Slots /\ list[i].before = Latest(SubSeq(list, 1, i - 1), chain, list[i].slot)
      BY <1>1, <2>5 DEF Linked
    <3>3. QED
      BY <2>1, <2>3, <3>1, <3>2
  <2>6. QED
    BY <2>4, <2>5
<1>4. QED
  BY <1>1, <1>2, <1>3 DEF Linked

LEMMA LinkedCut ==
    ASSUME NEW list, IsSeq(list), NEW chain, Linked(list, chain), NEW n \in 0 .. Len(list)
    PROVE  Linked(SubSeq(list, 1, n), chain)
<1>1. PICK p : p = SubSeq(list, 1, n)
  OBVIOUS
<1>2. IsSeq(p) /\ Len(p) = n /\ Len(list) \in Nat /\ \A i \in 1 .. n : p[i] = list[i]
  BY <1>1, CutList
<1>3. ASSUME NEW i \in 1 .. n
      PROVE  p[i].slot \in Slots /\ p[i].before = Latest(SubSeq(p, 1, i - 1), chain, p[i].slot)
  <2>1. PICK m \in Nat : m = i - 1 /\ m <= n /\ m <= Len(list)
    BY <1>2
  <2>2. \A j \in 1 .. m : p[j] = list[j]
    BY <1>2, <2>1
  <2>3. SubSeq(p, 1, m) = SubSeq(list, 1, m)
    BY <1>2, <2>1, <2>2, SameCut
  <2>4. i \in 1 .. Len(list)
    BY <1>2
  <2>5. list[i].slot \in Slots /\ list[i].before = Latest(SubSeq(list, 1, i - 1), chain, list[i].slot)
    BY <2>4 DEF Linked
  <2>6. QED
    BY <1>2, <2>1, <2>3, <2>5
<1>4. QED
  BY <1>1, <1>2, <1>3 DEF Linked
-----------------------------------------------------------------------------
(* The storage of a running script.                                            *)

StoreFields(T) ==
    /\ {"list", "reads", "live", "err", "stop", "code"} \subseteq DOMAIN T
    /\ DOMAIN T.live = Slots /\ DOMAIN T.reads = Slots /\ IsSeq(T.list)

(* Live values are tables, snapshots are tables, and a slot that has a live    *)
(* table or a table among its changes has a snapshot.                          *)
Tabled(T) ==
    \A s \in Slots :
        /\ T.live[s] # Null => IsTable(T.live[s]) /\ T.reads[s] # Missing
        /\ T.reads[s] # Missing => IsTable(T.reads[s])
        /\ \A i \in 1 .. Len(T.list) :
             T.list[i].slot = s /\ IsTable(T.list[i].after) => T.reads[s] # Missing

StateSound(T, chain) == StoreFields(T) /\ Tabled(T) /\ Linked(T.list, chain)

(* A slot with this live table and snapshot, whose changes leave `last', holds *)
(* what the script wants there: the live table if there is one, else `last';   *)
(* and a table in the list is the one that was snapshotted.                    *)
SlotSound(live, reads, last, want) ==
    /\ (IF live # Null THEN live ELSE last) = want
    /\ live # Null => IsTable(last)
    /\ IsTable(last) /\ reads # Missing => reads = last

SlotIn(T, chain, spec, s) == SlotSound(T.live[s], T.reads[s], Latest(T.list, chain, s), spec[s])

(* U is T after operations that may add changes and snapshots and take none    *)
(* back.                                                                       *)
Grows(T, U) ==
    /\ Len(T.list) \in Nat /\ Len(U.list) \in Nat /\ Len(T.list) <= Len(U.list)
    /\ \A i \in 1 .. Len(T.list) : U.list[i] = T.list[i]
    /\ \A s \in Slots : T.reads[s] # Missing => U.reads[s] = T.reads[s]

(* U has the storage of T; it may have recorded an exception.                  *)
SameStore(T, U) ==
    StoreFields(T) =>
        /\ StoreFields(U) /\ U.list = T.list /\ U.reads = T.reads /\ U.live = T.live
        /\ T.err => U.err
        /\ T.stop => U.stop

LEMMA NoTables == ~ IsTable(Null) /\ ~ IsTable(Missing) /\ Null # Missing
BY DEF IsTable, Null, Missing

LEMMA SameTrans ==
    \A T, U, V : SameStore(T, U) /\ SameStore(U, V) => SameStore(T, V)
BY DEF SameStore

LEMMA SpentSame == \A T, n : SameStore(T, Spent(T, n))
BY DEF SameStore, StoreFields, Spent

LEMMA ThrowSame ==
    \A T, code : /\ SameStore(T, Throw(T, code))
                 /\ StoreFields(T) => Throw(T, code).err
BY DEF SameStore, StoreFields, Throw

LEMMA PopSame == \A T : SameStore(T, PopId(T))
BY DEF SameStore, StoreFields, PopId

LEMMA GrowsTrans ==
    ASSUME NEW T, NEW U, NEW V, Grows(T, U), Grows(U, V)
    PROVE  Grows(T, V)
<1>1. \A i \in 1 .. Len(T.list) : V.list[i] = T.list[i]
  BY DEF Grows
<1>2. \A s \in Slots : T.reads[s] # Missing => V.reads[s] = T.reads[s]
  BY DEF Grows
<1>3. QED
  BY <1>1, <1>2 DEF Grows

LEMMA SameGrows ==
    ASSUME NEW T, NEW U, StoreFields(T), SameStore(T, U)
    PROVE  Grows(T, U)
BY DEF Grows, SameStore, StoreFields, IsSeq

LEMMA SameSound ==
    ASSUME NEW T, NEW chain, StateSound(T, chain), NEW U, SameStore(T, U)
    PROVE  StateSound(U, chain) /\ \A spec, s : SlotIn(U, chain, spec, s) = SlotIn(T, chain, spec, s)
BY DEF StateSound, SameStore, Tabled, SlotIn

(* A table is snapshotted before it enters the state.                          *)
LEMMA SnapshotSound ==
    ASSUME NEW T, NEW chain, StateSound(T, chain), NEW s \in Slots, NEW v
    PROVE  LET U == Snapshot(T, s, v)
           IN  /\ StateSound(U, chain) /\ Grows(T, U)
               /\ U.list = T.list /\ U.live = T.live /\ U.err = T.err /\ U.stop = T.stop /\ U.code = T.code
               /\ \A s2 \in Slots : U.reads[s2] =
                    IF s2 = s /\ IsTable(v) /\ T.reads[s] = Missing THEN v ELSE T.reads[s2]
<1>1. PICK U : U = Snapshot(T, s, v)
  OBVIOUS
<1>2. /\ StoreFields(U) /\ U.list = T.list /\ U.live = T.live /\ U.err = T.err /\ U.stop = T.stop
      /\ U.code = T.code
      /\ \A s2 \in Slots : U.reads[s2] =
           IF s2 = s /\ IsTable(v) /\ T.reads[s] = Missing THEN v ELSE T.reads[s2]
  BY <1>1 DEF Snapshot, StateSound, StoreFields
<1>3. Tabled(U)
  BY <1>2, NoTables DEF StateSound, Tabled
<1>4. Grows(T, U)
  BY <1>2 DEF Grows, StateSound, StoreFields, IsSeq
<1>5. QED
  BY <1>1, <1>2, <1>3, <1>4 DEF StateSound

(* Reading the last value of a slot may cache it, and changes nothing else.    *)
LEMMA LastSound ==
    ASSUME NEW T, NEW chain, StateSound(T, chain), NEW s \in Slots
    PROVE  LET U == GetLast(T, chain, s).S
               v == GetLast(T, chain, s).v
           IN  /\ v = Latest(T.list, chain, s)
               /\ StateSound(U, chain) /\ Grows(T, U)
               /\ U.live = T.live /\ U.err = T.err /\ U.stop = T.stop /\ U.code = T.code
               /\ \A s2 \in Slots : Latest(U.list, chain, s2) = Latest(T.list, chain, s2)
               /\ \A s2 \in Slots : \/ U.reads[s2] = T.reads[s2]
                                    \/ U.reads[s2] = Latest(T.list, chain, s2)
               /\ \A s2 \in Slots \ {s} : U.reads[s2] = T.reads[s2]
               /\ IsTable(v) => U.reads[s] # Missing
<1>1. PICK g : g = GetLast(T, chain, s)
  OBVIOUS
<1>2. PICK C : C = Snapshot(T, s, chain[s])
  OBVIOUS
<1>3. PICK e : e = [slot |-> s, before |-> chain[s], after |-> chain[s]]
  OBVIOUS
<1>4. /\ g.v = Latest(T.list, chain, s)
      /\ g.S = IF ItemsOf(T.list, s) # {} THEN T
               ELSE IF T.list # << >> THEN C ELSE [C EXCEPT !.list = <<e>>]
  BY <1>1, <1>2, <1>3 DEF GetLast
<1>5. /\ StateSound(C, chain) /\ Grows(T, C)
      /\ C.list = T.list /\ C.live = T.live /\ C.err = T.err /\ C.stop = T.stop /\ C.code = T.code
      /\ \A s2 \in Slots : C.reads[s2] =
           IF s2 = s /\ IsTable(chain[s]) /\ T.reads[s] = Missing THEN chain[s] ELSE T.reads[s2]
  BY <1>2, SnapshotSound
<1>6. IsSeq(T.list)
  BY DEF StateSound, StoreFields
<1>7. CASE ItemsOf(T.list, s) # {}
  <2>1. g.S = T
    BY <1>4, <1>7
  <2>2. Grows(T, T)
    BY <1>6 DEF Grows, IsSeq
  <2>3. IsTable(g.v) => T.reads[s] # Missing
    <3>1. \/ \A j \in 1 .. Len(T.list) : T.list[j].slot # s
          \/ \E i \in 1 .. Len(T.list) :
                T.list[i].slot = s /\ Latest(T.list, chain, s) = T.list[i].after
      BY <1>6, LatestCases
    <3>2. \E i \in 1 .. Len(T.list) : T.list[i].slot = s /\ g.v = T.list[i].after
      BY <1>4, <1>6, <1>7, <3>1, LatestNone
    <3>3. QED
      BY <3>2 DEF StateSound, Tabled
  <2>4. QED
    BY <1>1, <1>4, <2>1, <2>2, <2>3
<1>8. CASE ItemsOf(T.list, s) = {} /\ T.list # << >>
  <2>1. g.S = C /\ g.v = chain[s]
    BY <1>4, <1>8 DEF Latest
  <2>2. IsTable(g.v) => C.reads[s] # Missing
    BY <1>5, <2>1, NoTables
  <2>3. \A s2 \in Slots : C.reads[s2] = T.reads[s2] \/ C.reads[s2] = Latest(T.list, chain, s2)
    BY <1>4, <1>5, <2>1
  <2>4. QED
    BY <1>1, <1>4, <1>5, <2>1, <2>2, <2>3
<1>9. CASE T.list = << >>
  <2>1. ItemsOf(T.list, s) = {}
    BY <1>9 DEF ItemsOf
  <2>2. g.S = [C EXCEPT !.list = <<e>>] /\ g.v = chain[s]
    BY <1>4, <1>9, <2>1 DEF Latest
  <2>3. PICK U : U = g.S
    OBVIOUS
  <2>4. /\ U.list = <<e>> /\ U.live = C.live /\ U.reads = C.reads
        /\ U.err = C.err /\ U.stop = C.stop /\ U.code = C.code
        /\ {"list", "reads", "live", "err", "stop", "code"} \subseteq DOMAIN U
    BY <1>5, <2>2, <2>3 DEF StateSound, StoreFields
  <2>5. PICK one : one = <<e>>
    OBVIOUS
  <2>5a. one \in Seq({e}) /\ Len(one) = 1 /\ one[1] = e /\ Len(T.list) = 0
    BY <1>9, <2>5
  <2>6. IsSeq(one)
    BY <2>5a DEF IsSeq
  <2>6a. one = Append(T.list, e)
    BY <1>9, <2>5
  <2>7. \A s2 : Latest(T.list, chain, s2) = chain[s2]
    BY <1>6, <2>5a, LatestNone
  <2>8. \A s2 : Latest(one, chain, s2) = Latest(T.list, chain, s2)
    <3> TAKE s2
    <3>1. Latest(Append(T.list, e), chain, s2) = IF e.slot = s2 THEN e.after ELSE Latest(T.list, chain, s2)
      BY <1>6, LatestAppend
    <3>2. e.slot = s2 => e.after = chain[s2]
      BY <1>3
    <3>3. QED
      BY <2>6a, <2>7, <3>1, <3>2
  <2>9. Linked(one, chain)
    <3>1. Linked(T.list, chain)
      BY DEF StateSound
    <3>2. e.slot \in Slots /\ e.before = Latest(T.list, chain, e.slot)
      BY <1>3, <2>7
    <3>3. QED
      BY <1>6, <2>6a, <3>1, <3>2, LinkedAppend
  <2>10. StoreFields(U)
    BY <1>5, <2>4, <2>5, <2>6 DEF StateSound, StoreFields
  <2>11. IsTable(chain[s]) => C.reads[s] # Missing
    BY <1>5, NoTables
  <2>12. Tabled(U)
    BY <1>3, <1>5, <2>4, <2>5, <2>5a, <2>11 DEF StateSound, Tabled
  <2>13. Grows(T, U)
    <3>1. \A s2 \in Slots : T.reads[s2] # Missing => U.reads[s2] = T.reads[s2]
      BY <1>5, <2>4
    <3>2. QED
      BY <2>4, <2>5, <2>5a, <3>1 DEF Grows
  <2>14. StateSound(U, chain)
    BY <2>4, <2>5, <2>9, <2>10, <2>12 DEF StateSound
  <2>15. \A s2 \in Slots : U.reads[s2] = T.reads[s2] \/ U.reads[s2] = Latest(T.list, chain, s2)
    BY <1>5, <2>4, <2>7
  <2>16. QED
    BY <1>1, <1>4, <1>5, <2>2, <2>3, <2>4, <2>5, <2>8, <2>11, <2>13, <2>14, <2>15
<1>10. QED
  BY <1>7, <1>8, <1>9
-----------------------------------------------------------------------------
(* What reading and assigning a slot do to the storage.                        *)

LEMMA MakeLiveSound ==
    ASSUME NEW T, NEW chain, StateSound(T, chain), NEW s \in Slots, NEW v
    PROVE  LET M == MakeLive(T, s, v)
           IN  /\ StateSound(M, chain) /\ Grows(T, M)
               /\ M.list = T.list /\ M.err = T.err /\ M.stop = T.stop /\ M.code = T.code
               /\ \A s2 \in Slots : M.live[s2] = IF s2 = s /\ IsTable(v) THEN v ELSE T.live[s2]
               /\ \A s2 \in Slots : M.reads[s2] =
                    IF s2 = s /\ IsTable(v) /\ T.reads[s] = Missing THEN v ELSE T.reads[s2]
<1>1. PICK M : M = MakeLive(T, s, v)
  OBVIOUS
<1>2. CASE ~ IsTable(v)
  <2>1. M = T
    BY <1>1, <1>2 DEF MakeLive
  <2>2. Grows(T, T)
    BY DEF Grows, StateSound, StoreFields, IsSeq
  <2>3. QED
    BY <1>1, <1>2, <2>1, <2>2
<1>3. CASE IsTable(v)
  <2>1. PICK C : C = Snapshot(T, s, v)
    OBVIOUS
  <2>2. /\ StateSound(C, chain) /\ Grows(T, C)
        /\ C.list = T.list /\ C.live = T.live /\ C.err = T.err /\ C.stop = T.stop /\ C.code = T.code
        /\ \A s2 \in Slots : C.reads[s2] =
             IF s2 = s /\ IsTable(v) /\ T.reads[s] = Missing THEN v ELSE T.reads[s2]
    BY <2>1, SnapshotSound
  <2>3. M = [C EXCEPT !.live[s] = v]
    BY <1>1, <1>3, <2>1 DEF MakeLive
  <2>4. /\ StoreFields(M) /\ M.list = C.list /\ M.reads = C.reads
        /\ M.err = C.err /\ M.stop = C.stop /\ M.code = C.code
        /\ \A s2 \in Slots : M.live[s2] = IF s2 = s THEN v ELSE C.live[s2]
    BY <2>2, <2>3 DEF StateSound, StoreFields
  <2>5. M.reads[s] # Missing
    BY <1>3, <2>2, <2>4, NoTables
  <2>6. StateSound(M, chain)
    BY <1>3, <2>2, <2>4, <2>5 DEF StateSound, Tabled
  <2>7. Grows(T, M)
    BY <2>2, <2>4 DEF Grows
  <2>8. QED
    BY <1>1, <1>3, <2>2, <2>4, <2>6, <2>7
<1>4. QED
  BY <1>2, <1>3

LEMMA GetSound ==
    ASSUME NEW T, NEW chain, StateSound(T, chain), NEW s \in Slots
    PROVE  LET U == GetStorage(T, chain, s)
           IN  /\ StateSound(U, chain) /\ Grows(T, U)
               /\ U.err = T.err /\ U.stop = T.stop
               /\ \A spec : \A s2 \in Slots : SlotIn(T, chain, spec, s2) => SlotIn(U, chain, spec, s2)
<1>1. PICK U : U = GetStorage(T, chain, s)
  OBVIOUS
<1>2. CASE T.live[s] # Null
  <2>1. U = T
    BY <1>1, <1>2 DEF GetStorage
  <2>2. Grows(T, T)
    BY DEF Grows, StateSound, StoreFields, IsSeq
  <2>3. QED
    BY <1>1, <2>1, <2>2
<1>3. CASE T.live[s] = Null
  <2>1. PICK V, v : V = GetLast(T, chain, s).S /\ v = GetLast(T, chain, s).v
    OBVIOUS
  <2>2. /\ v = Latest(T.list, chain, s)
        /\ StateSound(V, chain) /\ Grows(T, V)
        /\ V.live = T.live /\ V.err = T.err /\ V.stop = T.stop
        /\ \A s2 \in Slots : Latest(V.list, chain, s2) = Latest(T.list, chain, s2)
        /\ \A s2 \in Slots : V.reads[s2] = T.reads[s2] \/ V.reads[s2] = Latest(T.list, chain, s2)
        /\ IsTable(v) => V.reads[s] # Missing
    BY <2>1, LastSound
  <2>3. ASSUME NEW spec, NEW s2 \in Slots, SlotIn(T, chain, spec, s2)
        PROVE  SlotIn(V, chain, spec, s2)
    BY <2>2, <2>3 DEF SlotIn, SlotSound
  <2>4. CASE ~ IsTable(v)
    <3>1. U = V
      BY <1>1, <1>3, <2>1, <2>4 DEF GetStorage
    <3>2. QED
      BY <1>1, <2>2, <2>3, <3>1
  <2>5. CASE IsTable(v)
    <3>1. U = [V EXCEPT !.live[s] = v]
      BY <1>1, <1>3, <2>1, <2>5 DEF GetStorage
    <3>2. /\ StoreFields(U) /\ U.list = V.list /\ U.reads = V.reads /\ U.err = V.err /\ U.stop = V.stop
          /\ \A s2 \in Slots : U.live[s2] = IF s2 = s THEN v ELSE V.live[s2]
      BY <2>2, <3>1 DEF StateSound, StoreFields
    <3>3. StateSound(U, chain)
      BY <2>2, <2>5, <3>2 DEF StateSound, Tabled
    <3>4. Grows(T, U)
      BY <2>2, <3>2 DEF Grows
    <3>5. ASSUME NEW spec, NEW s2 \in Slots, SlotIn(T, chain, spec, s2)
          PROVE  SlotIn(U, chain, spec, s2)
      <4>1. SlotIn(V, chain, spec, s2)
        BY <2>3, <3>5
      <4>2. CASE s2 # s
        BY <3>2, <4>1, <4>2 DEF SlotIn
      <4>3. CASE s2 = s
        <5>1. /\ U.live[s] = v /\ V.live[s] = Null /\ U.reads[s] = V.reads[s]
              /\ Latest(U.list, chain, s) = v /\ Latest(V.list, chain, s) = v
          BY <1>3, <2>2, <3>2
        <5>2. SlotSound(Null, V.reads[s], v, spec[s])
          BY <4>1, <4>3, <5>1 DEF SlotIn
        <5>3. SlotSound(v, V.reads[s], v, spec[s])
          BY <2>5, <5>2, NoTables DEF SlotSound
        <5>4. QED
          BY <4>3, <5>1, <5>3 DEF SlotIn
      <4>4. QED
        BY <4>2, <4>3
    <3>6. QED
      BY <1>1, <2>2, <3>2, <3>3, <3>4, <3>5
  <2>6. QED
    BY <2>4, <2>5
<1>4. QED
  BY <1>2, <1>3

LEMMA SetSound ==
    ASSUME NEW T, NEW chain, StateSound(T, chain), NEW s \in Slots, NEW v
    PROVE  LET U == SetStorage(T, chain, s, v)
           IN  /\ StateSound(U, chain) /\ Grows(T, U)
               /\ T.err => U.err
               /\ \/ U.err /\ U.stop
                  \/ /\ U.err = T.err /\ U.stop = T.stop
                     /\ \A spec : \A s2 \in Slots \ {s} :
                          SlotIn(T, chain, spec, s2) => SlotIn(U, chain, spec, s2)
                     /\ \/ ~ IsTable(v) /\ U.live[s] # Null
                        \/ IsTable(v) /\ T.reads[s] # Missing
                        \/ \A spec : spec[s] = v => SlotIn(U, chain, spec, s)
<1>1. PICK U : U = SetStorage(T, chain, s, v)
  OBVIOUS
<1>2. PICK M : M = MakeLive(T, s, v)
  OBVIOUS
<1>3. /\ StateSound(M, chain) /\ Grows(T, M)
      /\ M.list = T.list /\ M.err = T.err /\ M.stop = T.stop
      /\ \A s2 \in Slots : M.live[s2] = IF s2 = s /\ IsTable(v) THEN v ELSE T.live[s2]
      /\ \A s2 \in Slots : M.reads[s2] =
           IF s2 = s /\ IsTable(v) /\ T.reads[s] = Missing THEN v ELSE T.reads[s2]
  BY <1>2, MakeLiveSound
<1>4. PICK V, last : V = GetLast(M, chain, s).S /\ last = GetLast(M, chain, s).v
  OBVIOUS
<1>5. /\ last = Latest(M.list, chain, s)
      /\ StateSound(V, chain) /\ Grows(M, V)
      /\ V.live = M.live /\ V.err = M.err /\ V.stop = M.stop
      /\ \A s2 \in Slots : Latest(V.list, chain, s2) = Latest(M.list, chain, s2)
      /\ \A s2 \in Slots : V.reads[s2] = M.reads[s2] \/ V.reads[s2] = Latest(M.list, chain, s2)
      /\ \A s2 \in Slots \ {s} : V.reads[s2] = M.reads[s2]
  BY <1>3, <1>4, LastSound
<1>6. Grows(T, V)
  BY <1>3, <1>5, GrowsTrans
<1>7. CASE SetRefused(V, s, last, v)
  <2>1. U = [Throw(V, "simple") EXCEPT !.stop = TRUE]
    BY <1>1, <1>2, <1>4, <1>7 DEF SetStorage, ThrowAndStop
  <2>2. PICK W : W = Throw(V, "simple")
    OBVIOUS
  <2>3. StoreFields(V) /\ StoreFields(W) /\ W.err /\ SameStore(V, W)
    BY <1>5, <2>2, ThrowSame DEF StateSound, SameStore
  <2>4. U.err /\ U.stop /\ SameStore(W, U)
    BY <2>1, <2>2, <2>3 DEF SameStore, StoreFields
  <2>5. SameStore(V, U)
    BY <2>3, <2>4, SameTrans
  <2>6. StateSound(U, chain) /\ Grows(V, U)
    BY <1>5, <2>3, <2>5, SameSound, SameGrows
  <2>7. QED
    BY <1>1, <1>6, <2>4, <2>6, GrowsTrans
<1>8. CASE ~ SetRefused(V, s, last, v)
  <2>1. PICK e : e = [slot |-> s, before |-> last, after |-> v]
    OBVIOUS
  <2>2. PICK detach \in BOOLEAN : detach = (Fast(s) /\ v = Null /\ IsTable(last) /\ ModChangeList)
    OBVIOUS
  <2>3. U = [V EXCEPT !.live[s] = IF detach THEN Null ELSE V.live[s], !.list = Append(V.list, e)]
    BY <1>1, <1>2, <1>4, <1>8, <2>1, <2>2 DEF SetStorage
  <2>4. /\ {"list", "reads", "live", "err", "stop", "code"} \subseteq DOMAIN U
        /\ DOMAIN U.live = Slots /\ DOMAIN U.reads = Slots
        /\ U.list = Append(V.list, e) /\ U.reads = V.reads /\ U.err = V.err /\ U.stop = V.stop
        /\ \A s2 \in Slots : U.live[s2] = IF s2 = s /\ detach THEN Null ELSE V.live[s2]
    BY <1>5, <2>3 DEF StateSound, StoreFields
  <2>5. IsSeq(V.list) /\ Linked(V.list, chain)
    BY <1>5 DEF StateSound, StoreFields
  <2>6. /\ IsSeq(U.list) /\ Len(V.list) \in Nat /\ Len(U.list) = Len(V.list) + 1
        /\ U.list[Len(V.list) + 1] = e /\ \A i \in 1 .. Len(V.list) : U.list[i] = V.list[i]
    BY <2>4, <2>5, AppendFacts
  <2>7. \A s2 \in Slots : Latest(U.list, chain, s2) = IF s2 = s THEN v ELSE Latest(T.list, chain, s2)
    <3> TAKE s2 \in Slots
    <3>1. Latest(U.list, chain, s2) = IF e.slot = s2 THEN e.after ELSE Latest(V.list, chain, s2)
      BY <2>4, <2>5, LatestAppend
    <3>2. Latest(V.list, chain, s2) = Latest(T.list, chain, s2)
      BY <1>3, <1>5
    <3>3. e.slot = s /\ e.after = v
      BY <2>1
    <3>4. QED
      BY <3>1, <3>2, <3>3
  <2>8. Linked(U.list, chain)
    <3>1. e.slot \in Slots /\ e.before = Latest(V.list, chain, e.slot)
      BY <1>5, <2>1
    <3>2. QED
      BY <2>4, <2>5, <3>1, LinkedAppend
  <2>9. IsTable(v) => V.reads[s] # Missing /\ ~ detach
    <3> HAVE IsTable(v)
    <3>1. M.reads[s] # Missing
      BY <1>3, NoTables
    <3>2. V.reads[s] = M.reads[s]
      BY <1>5, <3>1 DEF Grows
    <3>3. QED
      BY <2>2, <3>1, <3>2, NoTables
  <2>10. Tabled(U)
    <3> SUFFICES ASSUME NEW s2 \in Slots
                 PROVE  /\ U.live[s2] # Null => IsTable(U.live[s2]) /\ U.reads[s2] # Missing
                        /\ U.reads[s2] # Missing => IsTable(U.reads[s2])
                        /\ \A i \in 1 .. Len(U.list) :
                             U.list[i].slot = s2 /\ IsTable(U.list[i].after) => U.reads[s2] # Missing
      BY DEF Tabled
    <3>1. /\ V.live[s2] # Null => IsTable(V.live[s2]) /\ V.reads[s2] # Missing
          /\ V.reads[s2] # Missing => IsTable(V.reads[s2])
          /\ \A i \in 1 .. Len(V.list) :
               V.list[i].slot = s2 /\ IsTable(V.list[i].after) => V.reads[s2] # Missing
      BY <1>5 DEF StateSound, Tabled
    <3>2. ASSUME NEW i \in 1 .. Len(U.list), U.list[i].slot = s2, IsTable(U.list[i].after)
          PROVE  U.reads[s2] # Missing
      <4>1. CASE i \in 1 .. Len(V.list)
        BY <2>4, <2>6, <3>1, <3>2, <4>1
      <4>2. CASE i = Len(V.list) + 1
        BY <2>1, <2>4, <2>6, <2>9, <3>2, <4>2
      <4>3. QED
        BY <2>6, <4>1, <4>2
    <3>3. QED
      BY <2>4, <3>1, <3>2
  <2>11. StateSound(U, chain)
    BY <2>4, <2>6, <2>8, <2>10 DEF StateSound, StoreFields
  <2>12. Grows(V, U)
    BY <2>4, <2>6 DEF Grows
  <2>13. Grows(T, U)
    BY <1>6, <2>12, GrowsTrans
  <2>14. ASSUME NEW spec, NEW s2 \in Slots \ {s}, SlotIn(T, chain, spec, s2)
         PROVE  SlotIn(U, chain, spec, s2)
    <3>1. /\ U.live[s2] = T.live[s2] /\ U.reads[s2] = T.reads[s2]
          /\ Latest(U.list, chain, s2) = Latest(T.list, chain, s2)
      BY <1>3, <1>5, <2>4, <2>7
    <3>2. QED
      BY <2>14, <3>1 DEF SlotIn
  <2>15. ASSUME NEW spec, spec[s] = v, ~ (~ IsTable(v) /\ U.live[s] # Null),
                ~ (IsTable(v) /\ T.reads[s] # Missing)
         PROVE  SlotIn(U, chain, spec, s)
    <3>1. Latest(U.list, chain, s) = v
      BY <2>7
    <3>2. CASE ~ IsTable(v)
      <4>1. U.live[s] = Null
        BY <2>15, <3>2
      <4>2. SlotSound(Null, U.reads[s], v, v)
        BY <3>2 DEF SlotSound
      <4>3. QED
        BY <2>15, <3>1, <4>1, <4>2 DEF SlotIn
    <3>3. CASE IsTable(v)
      <4>1. T.reads[s] = Missing
        BY <2>15, <3>3
      <4>2. M.live[s] = v /\ M.reads[s] = v
        BY <1>3, <3>3, <4>1
      <4>3. V.reads[s] = v
        BY <1>5, <3>3, <4>2, NoTables DEF Grows
      <4>4. U.live[s] = v /\ U.reads[s] = v
        BY <1>5, <2>4, <2>9, <3>3, <4>2, <4>3
      <4>5. SlotSound(v, v, v, v)
        BY <3>3 DEF SlotSound
      <4>6. QED
        BY <2>15, <3>1, <4>4, <4>5 DEF SlotIn
    <3>4. QED
      BY <3>2, <3>3
  <2>16. U.err = T.err /\ U.stop = T.stop
    BY <1>3, <1>5, <2>4
  <2>17. QED
    BY <1>1, <2>11, <2>13, <2>14, <2>15, <2>16
<1>9. QED
  BY <1>7, <1>8

(* A change inside a live table.                                               *)
LEMMA PutSound ==
    ASSUME NEW T, NEW chain, StateSound(T, chain), NEW s \in Slots, T.live[s] # Null,
           NEW t, IsTable(t)
    PROVE  LET U == [T EXCEPT !.live[s] = t]
           IN  /\ StateSound(U, chain) /\ Grows(T, U)
               /\ U.err = T.err /\ U.stop = T.stop
               /\ \A spec : \A s2 \in Slots \ {s} :
                    SlotIn(T, chain, spec, s2) => SlotIn(U, chain, spec, s2)
               /\ \A spec, spec2 :
                    SlotIn(T, chain, spec, s) /\ spec2[s] = t => SlotIn(U, chain, spec2, s)
<1>1. PICK U : U = [T EXCEPT !.live[s] = t]
  OBVIOUS
<1>2. /\ StoreFields(U) /\ U.list = T.list /\ U.reads = T.reads /\ U.err = T.err /\ U.stop = T.stop
      /\ \A s2 \in Slots : U.live[s2] = IF s2 = s THEN t ELSE T.live[s2]
  BY <1>1 DEF StateSound, StoreFields
<1>3. StateSound(U, chain)
  BY <1>2 DEF StateSound, Tabled
<1>4. Grows(T, U)
  BY <1>2 DEF Grows, StateSound, StoreFields, IsSeq
<1>5. \A spec : \A s2 \in Slots \ {s} : SlotIn(T, chain, spec, s2) => SlotIn(U, chain, spec, s2)
  BY <1>2 DEF SlotIn
<1>6. ASSUME NEW spec, NEW spec2, SlotIn(T, chain, spec, s), spec2[s] = t
      PROVE  SlotIn(U, chain, spec2, s)
  <2>1. U.live[s] = t /\ U.reads[s] = T.reads[s] /\ Latest(U.list, chain, s) = Latest(T.list, chain, s)
    BY <1>2
  <2>2. SlotSound(T.live[s], T.reads[s], Latest(T.list, chain, s), spec[s])
    BY <1>6 DEF SlotIn
  <2>3. SlotSound(t, T.reads[s], Latest(T.list, chain, s), t)
    BY <2>2, NoTables DEF SlotSound
  <2>4. QED
    BY <1>6, <2>1, <2>3 DEF SlotIn
<1>7. QED
  BY <1>1, <1>2, <1>3, <1>4, <1>5, <1>6
-----------------------------------------------------------------------------
(* The storage under a stack of functions: what messages saved stays usable.   *)

HistSound(g) == {"spec", "taint"} \subseteq DOMAIN g /\ DOMAIN g.spec = Slots

(* The slots that keep the rules hold what the script wrote.  After a refused  *)
(* assignment the script can only stop, and a slot may be anything.            *)
Follows(T, chain, g) ==
    ~ (T.err /\ T.stop) => \A s \in Slots \ g.taint : SlotIn(T, chain, g.spec, s)

(* What a message saved is a sound state whose changes are a beginning of the  *)
(* list now, and whose snapshots are still there.                              *)
KeptSound(f, T, chain, taint) ==
    /\ f.list \in 0 .. Len(T.list)
    /\ HistSound(f.h) /\ f.h.taint \subseteq taint
    /\ \A s \in Slots : f.live[s] # Null => f.reads[s] # Missing
    /\ \A s \in Slots : f.reads[s] # Missing => T.reads[s] = f.reads[s]
    /\ \A s \in Slots \ f.h.taint :
         SlotSound(f.live[s], f.reads[s], Latest(SubSeq(T.list, 1, f.list), chain, s), f.h.spec[s])

FramesKept(q, T, chain, taint) ==
    \A i \in 1 .. Len(q) : q[i].kind = "message" =>
        /\ KeptSound(q[i].saved[1], T, chain, taint)
        /\ \A j \in 1 .. Len(q) : j <= i /\ q[j].kind = "message" =>
             q[j].saved[1].list <= q[i].saved[1].list

ScriptSound(T, q, g, chain) ==
    /\ StateSound(T, chain) /\ HistSound(g)
    /\ Follows(T, chain, g)
    /\ FramesKept(q, T, chain, g.taint)

LEMMA KeptGrows ==
    ASSUME NEW f, NEW T, NEW chain, NEW taint, KeptSound(f, T, chain, taint),
           NEW U, StoreFields(T), StoreFields(U), Grows(T, U), NEW taint2, taint \subseteq taint2
    PROVE  KeptSound(f, U, chain, taint2)
<1>1. PICK n \in Nat : n = f.list /\ n <= Len(T.list) /\ n <= Len(U.list)
  BY DEF KeptSound, Grows
<1>2. SubSeq(U.list, 1, n) = SubSeq(T.list, 1, n)
  <2>1. \A i \in 1 .. n : U.list[i] = T.list[i]
    BY <1>1 DEF Grows
  <2>2. QED
    BY <1>1, <2>1, SameCut DEF StoreFields
<1>3. \A s \in Slots : f.reads[s] # Missing => U.reads[s] = f.reads[s]
  BY DEF KeptSound, Grows
<1>4. f.list \in 0 .. Len(U.list)
  BY <1>1 DEF Grows
<1>5. \A s \in Slots \ f.h.taint :
         SlotSound(f.live[s], f.reads[s], Latest(SubSeq(U.list, 1, f.list), chain, s), f.h.spec[s])
  BY <1>1, <1>2 DEF KeptSound
<1>6. QED
  BY <1>3, <1>4, <1>5 DEF KeptSound

LEMMA FramesGrow ==
    ASSUME NEW q, NEW T, NEW chain, NEW taint, FramesKept(q, T, chain, taint),
           NEW U, StoreFields(T), StoreFields(U), Grows(T, U), NEW taint2, taint \subseteq taint2
    PROVE  FramesKept(q, U, chain, taint2)
BY KeptGrows DEF FramesKept

LEMMA FramesFewer ==
    ASSUME NEW q, NEW T, NEW chain, NEW taint, FramesKept(q, T, chain, taint),
           NEW p, Len(p) \in Nat, Len(q) \in Nat, Len(p) <= Len(q), \A i \in 1 .. Len(p) : p[i] = q[i]
    PROVE  FramesKept(p, T, chain, taint)
BY DEF FramesKept

(* An operation of the innermost function.                                     *)
LEMMA ScriptGrows ==
    ASSUME NEW T, NEW q, NEW g, NEW chain, ScriptSound(T, q, g, chain),
           NEW U, StateSound(U, chain), Grows(T, U), NEW g2, HistSound(g2), g.taint \subseteq g2.taint,
           Follows(U, chain, g2)
    PROVE  ScriptSound(U, q, g2, chain)
<1>1. FramesKept(q, U, chain, g2.taint)
  BY FramesGrow DEF ScriptSound, StateSound
<1>2. QED
  BY <1>1 DEF ScriptSound

(* An operation that leaves the storage alone.                                 *)
LEMMA ScriptSame ==
    ASSUME NEW T, NEW q, NEW g, NEW chain, ScriptSound(T, q, g, chain),
           NEW U, SameStore(T, U), NEW g2, HistSound(g2), g2.taint = g.taint, g2.spec = g.spec
    PROVE  ScriptSound(U, q, g2, chain)
<1>1. StateSound(U, chain) /\ \A s : SlotIn(U, chain, g.spec, s) = SlotIn(T, chain, g.spec, s)
  BY SameSound DEF ScriptSound
<1>2. Grows(T, U)
  BY SameGrows DEF ScriptSound, StateSound
<1>3. (T.err => U.err) /\ (T.stop => U.stop)
  BY DEF ScriptSound, StateSound, SameStore
<1>4. Follows(U, chain, g2)
  <2>1. Follows(T, chain, g)
    BY DEF ScriptSound
  <2>2. QED
    BY <1>1, <1>3, <2>1 DEF Follows
<1>5. QED
  BY <1>1, <1>2, <1>4, ScriptGrows

LEMMA ScriptFewer ==
    ASSUME NEW T, NEW q, NEW g, NEW chain, ScriptSound(T, q, g, chain), IsSeq(q),
           NEW n \in 0 .. Len(q)
    PROVE  ScriptSound(T, SubSeq(q, 1, n), g, chain)
<1>1. PICK p : p = SubSeq(q, 1, n)
  OBVIOUS
<1>2. Len(p) = n /\ Len(q) \in Nat /\ \A i \in 1 .. n : p[i] = q[i]
  BY <1>1, CutList
<1>3. FramesKept(p, T, chain, g.taint)
  <2>1. Len(p) \in Nat /\ Len(p) <= Len(q)
    BY <1>2
  <2>2. QED
    BY <1>2, <2>1, FramesFewer DEF ScriptSound
<1>4. QED
  BY <1>1, <1>3 DEF ScriptSound

(* The storage of a slot after a failed message is that of the saved state,    *)
(* when its live table and its snapshot are the saved ones or what the saved   *)
(* state held.                                                                 *)
LEMMA Restored ==
    ASSUME NEW was, NEW wasRead, NEW last, NEW want, SlotSound(was, wasRead, last, want),
           NEW live, NEW reads, live \in {was, want}, reads \in {wasRead, want},
           live # Null => IsTable(live),
           was # Null => wasRead # Missing,
           wasRead # Missing => reads = wasRead
    PROVE  SlotSound(live, reads, last, want)
<1>1. CASE was # Null
  <2>1. want = was /\ IsTable(last) /\ wasRead = last /\ reads = last
    BY <1>1 DEF SlotSound
  <2>2. live = want
    BY <2>1
  <2>3. QED
    BY <1>1, <2>1, <2>2 DEF SlotSound
<1>2. CASE was = Null
  <2>1. want = last
    BY <1>2 DEF SlotSound
  <2>2. live = Null \/ live = last
    BY <1>2, <2>1
  <2>3. reads = wasRead \/ reads = last
    BY <2>1
  <2>4. IsTable(last) /\ reads # Missing => reads = last
    BY <2>3 DEF SlotSound
  <2>5. live # Null => IsTable(last)
    BY <2>2
  <2>6. (IF live # Null THEN live ELSE last) = want
    BY <2>1, <2>2
  <2>7. QED
    BY <2>4, <2>5, <2>6 DEF SlotSound
<1>3. QED
  BY <1>1, <1>2

(* A failed message cuts the change list and leaves the rest as the callee had *)
(* it; slots the callee disturbed leave the rules.                             *)
LEMMA MessageRestores ==
    ASSUME NEW T, NEW q, NEW chain, StateSound(T, chain), HistSound(h),
           FramesKept(q, T, chain, h.taint), IsSeq(q),
           NEW i \in 1 .. Len(q), q[i].kind = "message"
    PROVE  ScriptSound(MessageFailed(T, q[i].saved[1]), SubSeq(q, 1, i - 1),
                       Undone(T, q[i].saved[1]), chain)
<1>1. PICK f : f = q[i].saved[1]
  OBVIOUS
<1>2. KeptSound(f, T, chain, h.taint)
  BY <1>1 DEF FramesKept
<1>3. PICK U : U = MessageFailed(T, f)
  OBVIOUS
<1>4. PICK g2 : g2 = Undone(T, f)
  OBVIOUS
<1>5. PICK ids, code : U = [T EXCEPT !.force = FALSE, !.err = FALSE, !.code = code,
                                     !.list = SubSeq(T.list, 1, f.list), !.ids = ids]
  BY <1>3 DEF MessageFailed
<1>6. /\ {"list", "reads", "live", "err", "stop", "code"} \subseteq DOMAIN U
      /\ U.list = SubSeq(T.list, 1, f.list) /\ U.live = T.live /\ U.reads = T.reads /\ U.err = FALSE
      /\ DOMAIN U.live = Slots /\ DOMAIN U.reads = Slots
  BY <1>5 DEF StateSound, StoreFields
<1>7. IsSeq(T.list) /\ Linked(T.list, chain) /\ f.list \in 0 .. Len(T.list)
  BY <1>2 DEF StateSound, StoreFields, KeptSound
<1>8. /\ IsSeq(U.list) /\ Len(U.list) = f.list /\ Len(T.list) \in Nat
      /\ \A k \in 1 .. f.list : U.list[k] = T.list[k]
  BY <1>6, <1>7, CutList
<1>9. Linked(U.list, chain)
  BY <1>6, <1>7, LinkedCut
<1>10. Tabled(U)
  <2>1. \A k \in 1 .. Len(U.list) : k \in 1 .. Len(T.list) /\ U.list[k] = T.list[k]
    BY <1>7, <1>8
  <2>2. QED
    BY <1>6, <2>1 DEF StateSound, Tabled
<1>11. StateSound(U, chain)
  BY <1>6, <1>8, <1>9, <1>10 DEF StateSound, StoreFields
<1>12. /\ HistSound(g2) /\ g2.spec = f.h.spec /\ g2.taint = h.taint \cup Disturbed(T, f)
  <2>1. PICK swallowed : g2 = [f.h EXCEPT !.taint = h.taint \cup Disturbed(T, f), !.swallowed = swallowed]
    BY <1>4 DEF Undone
  <2>2. QED
    BY <1>2, <2>1 DEF KeptSound, HistSound
<1>13. Follows(U, chain, g2)
  <2> SUFFICES ASSUME NEW s \in Slots \ g2.taint
               PROVE  SlotIn(U, chain, g2.spec, s)
    BY DEF Follows
  <2>1. s \in Slots \ f.h.taint /\ s \notin Disturbed(T, f)
    BY <1>2, <1>12 DEF KeptSound
  <2>2. SlotSound(f.live[s], f.reads[s], Latest(U.list, chain, s), f.h.spec[s])
    BY <1>2, <1>6, <2>1 DEF KeptSound
  <2>3. T.live[s] \in {f.live[s], f.h.spec[s]} /\ T.reads[s] \in {f.reads[s], f.h.spec[s]}
    BY <2>1 DEF Disturbed
  <2>4. /\ T.live[s] # Null => IsTable(T.live[s])
        /\ f.live[s] # Null => f.reads[s] # Missing
        /\ f.reads[s] # Missing => T.reads[s] = f.reads[s]
    BY <1>2 DEF StateSound, Tabled, KeptSound
  <2>5. SlotSound(T.live[s], T.reads[s], Latest(U.list, chain, s), f.h.spec[s])
    BY <2>2, <2>3, <2>4, Restored
  <2>6. QED
    BY <1>6, <1>12, <2>5 DEF SlotIn
<1>14. PICK p : p = SubSeq(q, 1, i - 1)
  OBVIOUS
<1>15. Len(q) \in Nat /\ Len(p) = i - 1 /\ \A j \in 1 .. (i - 1) : p[j] = q[j] /\ j \in 1 .. Len(q)
  <2>1. Len(q) \in Nat
    BY DEF IsSeq
  <2>2. i - 1 \in 0 .. Len(q)
    BY <2>1
  <2>3. QED
    BY <1>14, <2>1, <2>2, CutList
<1>16. ASSUME NEW j \in 1 .. (i - 1), p[j].kind = "message"
       PROVE  KeptSound(p[j].saved[1], U, chain, g2.taint)
  <2>1. PICK e : e = p[j].saved[1]
    OBVIOUS
  <2>2. KeptSound(e, T, chain, h.taint)
    BY <1>15, <1>16, <2>1 DEF FramesKept
  <2>3. e.list <= f.list
    BY <1>1, <1>15, <1>16, <2>1 DEF FramesKept
  <2>4. PICK n \in Nat : n = e.list /\ n <= Len(U.list) /\ n <= Len(T.list)
    BY <1>7, <1>8, <2>2, <2>3 DEF KeptSound
  <2>5. SubSeq(U.list, 1, n) = SubSeq(T.list, 1, n)
    <3>1. \A k \in 1 .. n : U.list[k] = T.list[k]
      BY <1>7, <1>8, <2>4
    <3>2. QED
      BY <1>7, <1>8, <2>4, <3>1, SameCut
  <2>6. e.list \in 0 .. Len(U.list)
    BY <1>7, <1>8, <2>4
  <2>7. QED
    BY <1>6, <1>12, <2>1, <2>2, <2>4, <2>5, <2>6 DEF KeptSound
<1>17. FramesKept(p, U, chain, g2.taint)
  <2>1. ASSUME NEW j \in 1 .. (i - 1), p[j].kind = "message",
               NEW k \in 1 .. (i - 1), k <= j, p[k].kind = "message"
        PROVE  p[k].saved[1].list <= p[j].saved[1].list
    BY <1>15, <2>1 DEF FramesKept
  <2>2. QED
    BY <1>15, <1>16, <2>1 DEF FramesKept
<1>18. QED
  BY <1>1, <1>3, <1>4, <1>11, <1>12, <1>13, <1>14, <1>17 DEF ScriptSound

(* A call saves a sound state.                                                 *)
LEMMA ScriptCalls ==
    ASSUME NEW T, NEW q, NEW g, NEW chain, ScriptSound(T, q, g, chain), IsSeq(q),
           ~ (T.err /\ T.stop), NEW U, SameStore(T, U), NEW f,
           f.kind = "message" =>
               /\ f.saved[1].list = Len(T.list) /\ f.saved[1].live = T.live
               /\ f.saved[1].reads = T.reads /\ f.saved[1].h = g
    PROVE  ScriptSound(U, Append(q, f), g, chain)
<1>1. ScriptSound(U, q, g, chain)
  BY ScriptSame DEF ScriptSound
<1>1a. U.list = T.list /\ U.reads = T.reads /\ U.live = T.live /\ IsSeq(T.list)
  BY DEF ScriptSound, StateSound, StoreFields, SameStore
<1>2. PICK p : p = Append(q, f)
  OBVIOUS
<1>3. PICK n \in Nat : n = Len(q)
  BY DEF IsSeq
<1>4. Len(p) = n + 1 /\ p[n + 1] = f /\ \A i \in 1 .. n : p[i] = q[i]
  BY <1>2, <1>3, AppendFacts
<1>5. FramesKept(q, U, chain, g.taint)
  BY <1>1 DEF ScriptSound
<1>6. ASSUME f.kind = "message"
      PROVE  KeptSound(f.saved[1], U, chain, g.taint)
  <2>1. PICK e : e = f.saved[1]
    OBVIOUS
  <2>2. e.list = Len(T.list) /\ e.live = T.live /\ e.reads = T.reads /\ e.h = g
    BY <1>6, <2>1
  <2>3. SubSeq(U.list, 1, e.list) = T.list
    BY <1>1a, <2>2, WholeCut
  <2>4. e.list \in 0 .. Len(U.list)
    BY <1>1a, <2>2 DEF IsSeq
  <2>5. \A s \in Slots : T.live[s] # Null => T.reads[s] # Missing
    BY DEF ScriptSound, StateSound, Tabled
  <2>6. \A s \in Slots \ g.taint :
           SlotSound(T.live[s], T.reads[s], Latest(T.list, chain, s), g.spec[s])
    BY DEF ScriptSound, Follows, SlotIn
  <2>7. HistSound(g)
    BY DEF ScriptSound
  <2>8. QED
    BY <1>1a, <2>1, <2>2, <2>3, <2>4, <2>5, <2>6, <2>7 DEF KeptSound
<1>7. ASSUME NEW i \in 1 .. (n + 1), p[i].kind = "message"
      PROVE  /\ KeptSound(p[i].saved[1], U, chain, g.taint)
             /\ \A j \in 1 .. (n + 1) : j <= i /\ p[j].kind = "message" =>
                  p[j].saved[1].list <= p[i].saved[1].list
  <2>1. CASE i \in 1 .. n
    <3>1. \A j \in 1 .. (n + 1) : j <= i => j \in 1 .. n
      BY <2>1
    <3>2. QED
      BY <1>3, <1>4, <1>5, <1>7, <2>1, <3>1 DEF FramesKept
  <2>2. CASE i = n + 1
    <3>1. p[i] = f /\ f.saved[1].list = Len(T.list) /\ Len(T.list) \in Nat
      BY <1>1a, <1>4, <1>7, <2>2 DEF IsSeq
    <3>2. ASSUME NEW j \in 1 .. (n + 1), p[j].kind = "message"
          PROVE  p[j].saved[1].list <= Len(T.list)
      <4>1. CASE j \in 1 .. n
        <5>1. KeptSound(p[j].saved[1], U, chain, g.taint)
          BY <1>3, <1>4, <1>5, <3>2, <4>1 DEF FramesKept
        <5>2. QED
          BY <1>1a, <3>1, <5>1 DEF KeptSound
      <4>2. CASE j = n + 1
        BY <1>4, <3>1, <3>2, <4>2
      <4>3. QED
        BY <4>1, <4>2
    <3>3. QED
      BY <1>6, <1>7, <3>1, <3>2
  <2>3. QED
    BY <2>1, <2>2
<1>8. FramesKept(p, U, chain, g.taint)
  BY <1>4, <1>7 DEF FramesKept
<1>9. QED
  BY <1>1, <1>2, <1>8 DEF ScriptSound

(* A fresh lua_State holds what the chain has.                                 *)
LEMMA FreshSound ==
    ASSUME NEW T, StoreFields(T), T.list = << >>, T.live = [s \in Slots |-> Null],
           T.reads = [s \in Slots |-> Missing], NEW g, HistSound(g), NEW chain, g.spec = chain,
           NEW f, f.kind # "message"
    PROVE  ScriptSound(T, <<f>>, g, chain)
<1>1. Len(T.list) = 0 /\ IsSeq(T.list) /\ \A s \in Slots : T.live[s] = Null /\ T.reads[s] = Missing
  BY DEF StoreFields
<1>2. StateSound(T, chain)
  BY <1>1 DEF StateSound, Tabled, Linked
<1>3. ASSUME NEW s \in Slots PROVE SlotIn(T, chain, g.spec, s)
  <2>1. Latest(T.list, chain, s) = chain[s]
    BY <1>1, LatestNone
  <2>2. SlotSound(Null, Missing, chain[s], chain[s])
    BY DEF SlotSound
  <2>3. QED
    BY <1>1, <2>1, <2>2 DEF SlotIn
<1>4. Len(<<f>>) = 1 /\ <<f>>[1] = f
  OBVIOUS
<1>5. FramesKept(<<f>>, T, chain, g.taint)
  BY <1>4 DEF FramesKept
<1>6. QED
  BY <1>2, <1>3, <1>5 DEF ScriptSound, Follows
-----------------------------------------------------------------------------
(* What a commit makes of the change list and the live tables.                 *)

LEMMA ItemsBottom ==
    ASSUME NEW list, IsSeq(list), NEW s, ItemsOf(list, s) # {}
    PROVE  /\ Min(ItemsOf(list, s)) \in ItemsOf(list, s)
           /\ \A j \in ItemsOf(list, s) : Min(ItemsOf(list, s)) <= j
<1>1. PICK n \in Nat : n = Len(list) /\ DOMAIN list = 1 .. n
  BY DEF IsSeq
<1>2. PICK B \in SUBSET (1 .. n) : B = ItemsOf(list, s)
  BY <1>1 DEF ItemsOf
<1>3. PICK D : D = {n + 1 - i : i \in B}
  OBVIOUS
<1>4. D \in SUBSET (1 .. n) /\ D # {}
  BY <1>2, <1>3
<1>5. PICK d \in D : \A e \in D : e <= d
  BY <1>4, Greatest
<1>6. PICK b \in B : d = n + 1 - b
  BY <1>3
<1>7. \A j \in B : b <= j
  <2> TAKE j \in B
  <2>1. n + 1 - j <= n + 1 - b
    BY <1>3, <1>5, <1>6
  <2>2. QED
    BY <1>2, <2>1
<1>8. \E i \in B : \A j \in B : i =< j
  BY <1>6, <1>7
<1>9. Min(B) \in B /\ \A j \in B : Min(B) =< j
  BY <1>8 DEF Min
<1>10. QED
  BY <1>2, <1>9

LEMMA ConcatFacts ==
    ASSUME NEW p, NEW q, IsSeq(p), IsSeq(q)
    PROVE  /\ IsSeq(p \o q) /\ Len(p) \in Nat /\ Len(q) \in Nat /\ Len(p \o q) = Len(p) + Len(q)
           /\ \A i \in 1 .. Len(p) : (p \o q)[i] = p[i]
           /\ \A i \in 1 .. Len(q) : (p \o q)[Len(p) + i] = q[i]
<1>1. PICK F, G : p \in Seq(F) /\ q \in Seq(G)
  BY DEF IsSeq
<1>2. p \in Seq(F \cup G) /\ q \in Seq(F \cup G)
  BY <1>1
<1>3. p \o q \in Seq(F \cup G)
  BY <1>2
<1>4. QED
  BY <1>2, <1>3 DEF IsSeq

LEMMA MergedDomain ==
    ASSUME NEW list, IsSeq(list), NEW s
    PROVE  s \in DOMAIN Merged(list) <=> \E i \in 1 .. Len(list) : list[i].slot = s
<1>1. DOMAIN list = 1 .. Len(list)
  BY DEF IsSeq
<1>2. QED
  BY <1>1 DEF Merged, SlotsOf

FirstAt(list, s, k) == list[k].slot = s /\ \A j \in 1 .. Len(list) : j < k => list[j].slot # s
LastAt(list, s, m)  == list[m].slot = s /\ \A j \in 1 .. Len(list) : j > m => list[j].slot # s

(* A slot's merged change runs from its first change to its last one.          *)
LEMMA MergedSpan ==
    ASSUME NEW list, IsSeq(list), NEW s, s \in DOMAIN Merged(list), ModChangeList \/ ~ Fast(s)
    PROVE  \E k, m \in 1 .. Len(list) :
              /\ FirstAt(list, s, k) /\ LastAt(list, s, m)
              /\ Merged(list)[s].before = list[k].before /\ Merged(list)[s].after = list[m].after
<1>1. PICK n \in Nat : n = Len(list) /\ DOMAIN list = 1 .. n
  BY DEF IsSeq
<1>2. s \in SlotsOf(list) /\ \E i \in 1 .. n : list[i].slot = s
  BY <1>1, MergedDomain DEF Merged
<1>3. ItemsOf(list, s) # {}
  BY <1>1, <1>2 DEF ItemsOf
<1>4. Counted(list, s) = ItemsOf(list, s)
  BY DEF Counted
<1>5. PICK k, m : k = Min(ItemsOf(list, s)) /\ m = Max(ItemsOf(list, s))
  OBVIOUS
<1>6. /\ k \in ItemsOf(list, s) /\ m \in ItemsOf(list, s)
      /\ \A j \in ItemsOf(list, s) : k <= j /\ j <= m
  BY <1>3, <1>5, ItemsTop, ItemsBottom
<1>7. /\ k \in 1 .. n /\ m \in 1 .. n /\ list[k].slot = s /\ list[m].slot = s
      /\ \A j \in 1 .. n : list[j].slot = s => k <= j /\ j <= m
  BY <1>1, <1>6 DEF ItemsOf
<1>8. Merged(list)[s] = [before |-> list[k].before, after |-> list[m].after]
  BY <1>2, <1>4, <1>5 DEF Merged
<1>9. (\A j \in 1 .. n : j < k => list[j].slot # s) /\ (\A j \in 1 .. n : j > m => list[j].slot # s)
  BY <1>7
<1>10. FirstAt(list, s, k) /\ LastAt(list, s, m)
  BY <1>1, <1>7, <1>9 DEF FirstAt, LastAt
<1>11. QED
  BY <1>1, <1>7, <1>8, <1>10

(* Dropping a cached read of nothing loses nothing: the slots keep their last  *)
(* value, and their first change starts from the chain's.                      *)
RestOf(list, rest, chain, s) ==
    /\ \A m \in 1 .. Len(rest) :
         rest[m].slot = s /\ (\A j \in 1 .. Len(rest) : j > m => rest[j].slot # s)
           => rest[m].after = Latest(list, chain, s)
    /\ \A k \in 1 .. Len(rest) :
         rest[k].slot = s /\ (\A j \in 1 .. Len(rest) : j < k => rest[j].slot # s)
           => rest[k].before = chain[s]
    /\ (\A j \in 1 .. Len(rest) : rest[j].slot # s) => Latest(list, chain, s) = chain[s]

LEMMA FirstBefore ==
    ASSUME NEW list, IsSeq(list), NEW chain, Linked(list, chain), NEW s,
           NEW k \in 1 .. Len(list), list[k].slot = s, \A j \in 1 .. Len(list) : j < k => list[j].slot # s
    PROVE  list[k].before = chain[s]
<1>1. PICK n \in Nat : n = k - 1 /\ n \in 0 .. Len(list) /\ Len(list) \in Nat
  BY DEF IsSeq
<1>2. PICK p : p = SubSeq(list, 1, n)
  OBVIOUS
<1>3. IsSeq(p) /\ Len(p) = n /\ \A i \in 1 .. n : p[i] = list[i]
  BY <1>1, <1>2, CutList
<1>4. \A j \in 1 .. Len(p) : p[j].slot # s
  BY <1>1, <1>3
<1>5. list[k].before = Latest(p, chain, s)
  BY <1>1, <1>2 DEF Linked
<1>6. QED
  BY <1>3, <1>4, <1>5, LatestNone

LEMMA TailFacts ==
    ASSUME NEW list, IsSeq(list), list # << >>
    PROVE  /\ IsSeq(Tail(list)) /\ Len(list) \in Nat /\ Len(list) >= 1 /\ Len(Tail(list)) = Len(list) - 1
           /\ \A i \in 1 .. (Len(list) - 1) : Tail(list)[i] = list[i + 1]
<1>1. PICK F : list \in Seq(F)
  BY DEF IsSeq
<1>2. Tail(list) \in Seq(F)
  BY <1>1
<1>3. QED
  BY <1>1, <1>2 DEF IsSeq

LEMMA RestFacts ==
    ASSUME NEW list, IsSeq(list), NEW chain, Linked(list, chain), NEW s
    PROVE  IsSeq(WithoutFirstNull(list)) /\ RestOf(list, WithoutFirstNull(list), chain, s)
<1>1. CASE WithoutFirstNull(list) = list
  <2>1. \A k \in 1 .. Len(list) :
           list[k].slot = s /\ (\A j \in 1 .. Len(list) : j < k => list[j].slot # s)
             => list[k].before = chain[s]
    BY FirstBefore
  <2>2. \A m \in 1 .. Len(list) :
           list[m].slot = s /\ (\A j \in 1 .. Len(list) : j > m => list[j].slot # s)
             => list[m].after = Latest(list, chain, s)
    BY LatestIs
  <2>3. (\A j \in 1 .. Len(list) : list[j].slot # s) => Latest(list, chain, s) = chain[s]
    BY LatestNone
  <2>4. QED
    BY <1>1, <2>1, <2>2, <2>3 DEF RestOf
<1>2. CASE WithoutFirstNull(list) # list
  <2>1. list # << >> /\ list[1].before = Null /\ list[1].after = Null /\ WithoutFirstNull(list) = Tail(list)
    BY <1>2 DEF WithoutFirstNull
  <2>1a. PICK rest : rest = Tail(list)
    OBVIOUS
  <2>2. PICK n \in Nat : n = Len(list) - 1 /\ rest = Tail(list) /\ IsSeq(rest) /\ Len(rest) = n
                               /\ Len(list) = n + 1 /\ \A i \in 1 .. n : rest[i] = list[i + 1]
    <3>2. Len(list) - 1 \in Nat /\ Len(list) = (Len(list) - 1) + 1
      BY <2>1, TailFacts
    <3>3. QED
      BY <2>1, <2>1a, <3>2, TailFacts
  <2>3. ASSUME NEW m \in 1 .. n, rest[m].slot = s, \A j \in 1 .. n : j > m => rest[j].slot # s
        PROVE  rest[m].after = Latest(list, chain, s)
    <3>1. m + 1 \in 1 .. Len(list) /\ list[m + 1] = rest[m]
      BY <2>2
    <3>2. ASSUME NEW j \in 1 .. Len(list), j > m + 1 PROVE list[j].slot # s
      <4>1. PICK i \in 1 .. n : j = i + 1 /\ i > m
        BY <2>2, <3>2
      <4>2. QED
        BY <2>2, <2>3, <4>1
    <3>3. list[m + 1].slot = s
      BY <2>3, <3>1
    <3>4. Latest(list, chain, s) = list[m + 1].after
      BY <3>1, <3>2, <3>3, LatestIs
    <3>5. QED
      BY <3>1, <3>4
  <2>4. list[1].slot = s => chain[s] = Null
    <3>1. 1 \in 1 .. Len(list) /\ \A j \in 1 .. Len(list) : ~ (j < 1)
      BY <2>2
    <3>2. QED
      BY <2>1, <3>1, FirstBefore
  <2>5. ASSUME NEW k \in 1 .. n, rest[k].slot = s, \A j \in 1 .. n : j < k => rest[j].slot # s
        PROVE  rest[k].before = chain[s]
    <3>1. k + 1 \in 1 .. Len(list) /\ list[k + 1] = rest[k]
      BY <2>2
    <3>2. \A j \in 2 .. k : list[j].slot # s
      <4> TAKE j \in 2 .. k
      <4>1. PICK i \in 1 .. n : j = i + 1 /\ i < k
        BY <2>2
      <4>2. QED
        BY <2>2, <2>5, <4>1
    <3>3. CASE list[1].slot # s
      <4>1. \A j \in 1 .. Len(list) : j < k + 1 => list[j].slot # s
        BY <3>2, <3>3
      <4>2. QED
        BY <2>5, <3>1, <4>1, FirstBefore
    <3>4. CASE list[1].slot = s
      <4>1. PICK p : p = SubSeq(list, 1, k)
        OBVIOUS
      <4>2. k \in 0 .. Len(list)
        BY <2>2
      <4>3. IsSeq(p) /\ Len(p) = k /\ \A i \in 1 .. k : p[i] = list[i]
        BY <4>1, <4>2, CutList
      <4>4. PICK i \in 1 .. Len(p) : i = 1
        BY <4>3
      <4>4a. p[i].slot = s
        BY <3>4, <4>3, <4>4
      <4>4b. \A j \in 1 .. Len(p) : j > i => p[j].slot # s
        BY <3>2, <4>3, <4>4
      <4>4c. IsSeq(p)
        BY <4>3
      <4>5. Latest(p, chain, s) = p[i].after
        BY <4>4a, <4>4b, <4>4c, LatestIs
      <4>6. list[k + 1].before = Latest(SubSeq(list, 1, k + 1 - 1), chain, list[k + 1].slot)
        BY <3>1 DEF Linked
      <4>7. k + 1 - 1 = k
        OBVIOUS
      <4>8. list[k + 1].before = Null
        BY <2>1, <2>5, <3>1, <4>1, <4>3, <4>4, <4>5, <4>6, <4>7
      <4>9. QED
        BY <2>4, <3>1, <3>4, <4>8
    <3>5. QED
      BY <3>3, <3>4
  <2>6. ASSUME \A j \in 1 .. n : rest[j].slot # s
        PROVE  Latest(list, chain, s) = chain[s]
    <3>1. ASSUME NEW j \in 1 .. Len(list), j > 1 PROVE list[j].slot # s
      <4>1. PICK i \in 1 .. n : j = i + 1
        BY <2>2, <3>1
      <4>2. QED
        BY <2>2, <2>6, <4>1
    <3>2. 1 \in 1 .. Len(list)
      BY <2>2
    <3>3. CASE list[1].slot = s
      <4>1. Latest(list, chain, s) = list[1].after
        BY <3>1, <3>2, <3>3, LatestIs
      <4>2. QED
        BY <2>1, <2>4, <3>3, <4>1
    <3>4. CASE list[1].slot # s
      <4>1. \A j \in 1 .. Len(list) : list[j].slot # s
        BY <3>1, <3>4
      <4>2. QED
        BY <4>1, LatestNone
    <3>5. QED
      BY <3>3, <3>4
  <2>7. RestOf(list, rest, chain, s)
    BY <2>2, <2>3, <2>5, <2>6 DEF RestOf
  <2>8. QED
    BY <2>1, <2>2, <2>7
<1>3. QED
  BY <1>1, <1>2

(* SetToSeq lists every element of a finite set.                               *)
LEMMA ListsAll ==
    ASSUME NEW D, IsFiniteSet(D)
    PROVE  LET q == SetToSeq(D)
           IN  q \in Seq(D) /\ \A x \in D : \E i \in 1 .. Len(q) : q[i] = x
<1>1. PICK n \in Nat : n = Cardinality(D)
  BY FS_CardinalityType
<1>2. PICK b : b \in Bijection(1 .. n, D)
  BY <1>1, FS_CardinalityType DEF ExistsBijection
<1>3. b \in [1 .. n -> D] /\ IsInjective(b)
  BY <1>2 DEF Bijection, Injection, Surjection, IsInjective
<1>4. PICK q : q = SetToSeq(D)
  OBVIOUS
<1>5. q \in [1 .. n -> D] /\ IsInjective(q)
  BY <1>1, <1>3, <1>4 DEF SetToSeq
<1>6. ASSUME NEW x \in D, \A i \in 1 .. n : q[i] # x
      PROVE  FALSE
  <2>1. IsFiniteSet(D \ {x}) /\ Cardinality(D \ {x}) = n - 1
    BY <1>1, FS_RemoveElement
  <2>2. IsFiniteSet(1 .. n) /\ Cardinality(1 .. n) = n
    BY FS_Interval
  <2>3. q \in [1 .. n -> D \ {x}] /\ Cardinality(D \ {x}) < Cardinality(1 .. n)
    BY <1>5, <1>6, <2>1, <2>2
  <2>4. \E i, j \in 1 .. n : i # j /\ q[i] = q[j]
    BY <2>1, <2>2, <2>3, FS_PigeonHole
  <2>5. QED
    BY <1>5, <2>4 DEF IsInjective
<1>7. q \in Seq(D) /\ Len(q) = n
  BY <1>5
<1>8. QED
  BY <1>4, <1>6, <1>7

LEMMA TableFacts ==
    ASSUME NEW T
    PROVE  /\ IsSeq(TableChanges(T))
           /\ \A i \in 1 .. Len(TableChanges(T)) :
                LET c == TableChanges(T)[i]
                IN  c.slot \in Touched(T) /\ c.before = T.reads[c.slot] /\ c.after = T.live[c.slot]
           /\ \A s \in Touched(T) : \E i \in 1 .. Len(TableChanges(T)) : TableChanges(T)[i].slot = s
<1>1. PICK D : D = Touched(T)
  OBVIOUS
<1>2. IsFiniteSet(D)
  <2>1. D \subseteq Slots
    BY <1>1 DEF Touched
  <2>2. QED
    BY <2>1, UvmContractAssumption, FS_Subset
<1>3. PICK q : q = SetToSeq(D)
  OBVIOUS
<1>4. q \in Seq(D) /\ \A x \in D : \E i \in 1 .. Len(q) : q[i] = x
  BY <1>2, <1>3, ListsAll
<1>5. PICK n \in Nat : n = Len(q) /\ DOMAIN q = 1 .. n
  BY <1>4
<1>6. PICK C : C = TableChanges(T)
  OBVIOUS
<1>7. C = [i \in 1 .. n |-> [slot |-> q[i], before |-> T.reads[q[i]], after |-> T.live[q[i]]]]
  BY <1>1, <1>3, <1>5, <1>6 DEF TableChanges
<1>8. PICK F : F = {[slot |-> x, before |-> T.reads[x], after |-> T.live[x]] : x \in D}
  OBVIOUS
<1>9. C \in [1 .. n -> F]
  <2>1. \A i \in 1 .. n : q[i] \in D
    BY <1>4, <1>5
  <2>2. QED
    BY <1>7, <1>8, <2>1
<1>10. C \in Seq(F) /\ Len(C) = n
  BY <1>9
<1>11. \A i \in 1 .. n : C[i].slot = q[i] /\ C[i].before = T.reads[q[i]] /\ C[i].after = T.live[q[i]]
                         /\ q[i] \in D
  BY <1>4, <1>5, <1>7
<1>12. \A s \in D : \E i \in 1 .. n : C[i].slot = s
  BY <1>4, <1>5, <1>11
<1>13. QED
  BY <1>1, <1>6, <1>10, <1>11, <1>12 DEF IsSeq

(* What the commit of a sound state writes to a slot that keeps the rules.     *)
LEMMA CommitWrites ==
    ASSUME NEW T, NEW chain, StateSound(T, chain), NEW s \in Slots, NEW spec, SlotIn(T, chain, spec, s),
           ModChangeList \/ ~ Fast(s),
           NEW merged, merged = Merged(WithoutFirstNull(T.list) \o TableChanges(T))
    PROVE  (IF s \in DOMAIN merged /\ ~ Unchanged(merged[s]) THEN merged[s].after ELSE chain[s]) = spec[s]
<1>1. PICK L, C : L = WithoutFirstNull(T.list) /\ C = TableChanges(T)
  OBVIOUS
<1>2. IsSeq(T.list) /\ Linked(T.list, chain)
  BY DEF StateSound, StoreFields
<1>3. IsSeq(L) /\ RestOf(T.list, L, chain, s)
  BY <1>1, <1>2, RestFacts
<1>4. /\ IsSeq(C)
      /\ \A i \in 1 .. Len(C) :
           C[i].slot \in Touched(T) /\ C[i].before = T.reads[C[i].slot] /\ C[i].after = T.live[C[i].slot]
      /\ s \in Touched(T) => \E i \in 1 .. Len(C) : C[i].slot = s
  BY <1>1, TableFacts
<1>5. PICK full : full = L \o C
  OBVIOUS
<1>6. PICK l \in Nat, c \in Nat : l = Len(L) /\ c = Len(C)
  BY <1>3, <1>4 DEF IsSeq
<1>7. /\ IsSeq(full) /\ Len(full) = l + c
      /\ \A i \in 1 .. l : full[i] = L[i]
      /\ \A i \in 1 .. c : full[l + i] = C[i]
  BY <1>3, <1>4, <1>5, <1>6, ConcatFacts
<1>8. ASSUME NEW i \in 1 .. Len(full), i > l
      PROVE  \E j \in 1 .. c : i = l + j /\ full[i] = C[j]
  <2>1. PICK j \in 1 .. c : i = l + j
    <3>1. i - l \in 1 .. c /\ i = l + (i - l)
      BY <1>7, <1>8
    <3>2. QED
      BY <3>1
  <2>2. QED
    BY <1>7, <2>1
<1>9. PICK last : last = Latest(T.list, chain, s)
  OBVIOUS
<1>10. SlotSound(T.live[s], T.reads[s], last, spec[s])
  BY <1>9 DEF SlotIn
<1>11. T.live[s] # Null => T.reads[s] # Missing
  BY DEF StateSound, Tabled
<1>12. merged = Merged(full)
  BY <1>1, <1>5
<1>13. s \in Touched(T) => spec[s] = T.live[s]
  BY <1>10 DEF Touched, SlotSound
<1>14. s \notin Touched(T) => spec[s] = last
  BY <1>10, <1>11 DEF Touched, SlotSound
<1>15. CASE s \notin DOMAIN merged
  <2>1. \A i \in 1 .. Len(full) : full[i].slot # s
    BY <1>7, <1>12, <1>15, MergedDomain
  <2>2. s \notin Touched(T)
    <3>1. \A i \in 1 .. c : l + i \in 1 .. Len(full) /\ full[l + i] = C[i]
      BY <1>7
    <3>2. QED
      BY <1>4, <1>6, <2>1, <3>1
  <2>3. \A j \in 1 .. Len(L) : L[j].slot # s
    BY <1>6, <1>7, <2>1
  <2>4. last = chain[s]
    BY <1>3, <1>9, <2>3 DEF RestOf
  <2>5. QED
    BY <1>14, <1>15, <2>2, <2>4
<1>16. CASE s \in DOMAIN merged
  <2>1. PICK k, m \in 1 .. Len(full) :
             /\ FirstAt(full, s, k) /\ LastAt(full, s, m)
             /\ merged[s].before = full[k].before /\ merged[s].after = full[m].after
    <3>1. IsSeq(full) /\ s \in DOMAIN Merged(full)
      BY <1>7, <1>12, <1>16
    <3>2. \E k, m \in 1 .. Len(full) :
             /\ FirstAt(full, s, k) /\ LastAt(full, s, m)
             /\ Merged(full)[s].before = full[k].before /\ Merged(full)[s].after = full[m].after
      BY <3>1, MergedSpan
    <3>3. QED
      BY <1>12, <3>2
  <2>1a. /\ full[k].slot = s /\ \A j \in 1 .. Len(full) : j < k => full[j].slot # s
         /\ full[m].slot = s /\ \A j \in 1 .. Len(full) : j > m => full[j].slot # s
    BY <2>1 DEF FirstAt, LastAt
  <2>2. full[m].after = spec[s]
    <3>1. CASE s \in Touched(T)
      <4>1. PICK i \in 1 .. c : C[i].slot = s
        BY <1>4, <1>6, <3>1
      <4>2. l + i \in 1 .. Len(full) /\ full[l + i].slot = s
        BY <1>7, <4>1
      <4>3. m >= l + i
        BY <1>7, <2>1a, <4>2
      <4>4. m > l
        BY <4>3
      <4>5. PICK j \in 1 .. c : full[m] = C[j]
        BY <1>8, <4>4
      <4>6. full[m].after = T.live[s]
        BY <1>4, <1>6, <2>1a, <4>5
      <4>7. QED
        BY <1>13, <3>1, <4>6
    <3>2. CASE s \notin Touched(T)
      <4>1. m \in 1 .. l
        <5>1. ASSUME m > l PROVE FALSE
          <6>1. PICK j \in 1 .. c : full[m] = C[j]
            BY <1>8, <5>1
          <6>2. QED
            BY <1>4, <1>6, <2>1a, <3>2, <6>1
        <5>2. QED
          BY <1>7, <5>1
      <4>2. L[m].slot = s /\ full[m] = L[m]
        BY <1>7, <2>1a, <4>1
      <4>3. \A j \in 1 .. Len(L) : j > m => L[j].slot # s
        BY <1>6, <1>7, <2>1a
      <4>4. L[m].after = last
        BY <1>3, <1>6, <1>9, <4>1, <4>2, <4>3 DEF RestOf
      <4>5. QED
        BY <1>14, <3>2, <4>2, <4>4
    <3>3. QED
      BY <3>1, <3>2
  <2>3. ASSUME full[k].before = full[m].after
        PROVE  chain[s] = spec[s]
    <3>1. CASE k \in 1 .. l
      <4>1. L[k].slot = s /\ full[k] = L[k]
        BY <1>7, <2>1a, <3>1
      <4>2. \A j \in 1 .. Len(L) : j < k => L[j].slot # s
        BY <1>6, <1>7, <2>1a
      <4>3. L[k].before = chain[s]
        BY <1>3, <1>6, <3>1, <4>1, <4>2 DEF RestOf
      <4>4. QED
        BY <2>2, <2>3, <4>1, <4>3
    <3>2. CASE k > l
      <4>1. PICK j \in 1 .. c : full[k] = C[j]
        BY <1>8, <3>2
      <4>2. s \in Touched(T) /\ full[k].before = T.reads[s]
        BY <1>4, <1>6, <2>1a, <4>1
      <4>3. T.reads[s] # T.live[s]
        BY <4>2 DEF Touched
      <4>4. FALSE
        BY <1>13, <2>2, <2>3, <4>2, <4>3
      <4>5. QED
        BY <4>4
    <3>3. QED
      BY <1>7, <3>1, <3>2
  <2>4. merged[s].after = full[m].after /\ merged[s].before = full[k].before
    BY <2>1
  <2>5. Unchanged(merged[s]) => full[k].before = full[m].after
    BY <2>4 DEF Unchanged
  <2>6. QED
    BY <1>16, <2>2, <2>3, <2>4, <2>5
<1>17. QED
  BY <1>15, <1>16

(* A call that succeeds committed what its script left.                        *)
LEMMA CommitSucceeds ==
    ASSUME NEW T, Fields(T), Coded(T), StoreFields(T), NEW start,
           NEW c, c = Commit(T, start), Succeeded(CommitToUvm(c))
    PROVE  /\ ~ T.err
           /\ LET merged == Merged(WithoutFirstNull(T.list) \o TableChanges(T))
              IN  c.changes = Restrict(merged, {s \in DOMAIN merged : ~ Unchanged(merged[s])})
<1>1. ~ T.err
  BY PendingFails
<1>2. PICK merged : merged = Merged(WithoutFirstNull(T.list) \o TableChanges(T))
  OBVIOUS
<1>3. PICK cleared : cleared = [T EXCEPT !.list = << >>, !.reads = [s \in Slots |-> Missing]]
  OBVIOUS
<1>4. PICK refused \in BOOLEAN : refused = (\/ T.init /\ DOMAIN merged = {} /\ DOMAIN Declared # {}
                                            \/ CommitRefused(T, start, merged))
  OBVIOUS
<1>5. /\ refused => c.S = Throw(cleared, "simple")
      /\ ~ refused => c.changes = Restrict(merged, {s \in DOMAIN merged : ~ Unchanged(merged[s])})
  BY <1>1, <1>2, <1>3, <1>4 DEF Commit
<1>6. ASSUME refused PROVE FALSE
  <2>1. PICK U : U = Throw(cleared, "simple")
    OBVIOUS
  <2>2. Fields(cleared) /\ cleared.err = T.err /\ cleared.code = T.code
    BY <1>3 DEF Fields
  <2>3. U.err /\ U.code # "none"
    BY <1>1, <2>1, <2>2 DEF Throw, Fields
  <2>4. CommitToUvm(c) = U
    BY <1>5, <1>6, <2>1, <2>3 DEF CommitToUvm
  <2>5. QED
    BY <2>3, <2>4 DEF Succeeded
<1>7. QED
  BY <1>1, <1>2, <1>5, <1>6
-----------------------------------------------------------------------------
(* Storage is kept by every step.                                              *)

(* What the chain holds after a success.  Before block 1 a fast-map entry      *)
(* whose changes pass through nil is committed as nil.                         *)
CommitFaithful ==
    \A s \in Slots \ h.taint : ModChangeList \/ ~ Fast(s) => store[s] = h.spec[s]

StorageInv ==
    /\ tx.status = "idle" => HistSound(h) /\ h.spec = store
    /\ tx.status = "running" => ScriptSound(S, frames, h, store)
    /\ tx.status = "ok" => CommitFaithful

LEMMA RunningKeeps ==
    ASSUME tx'.status = "running", NEW T, NEW q, NEW g, ScriptSound(T, q, g, store),
           S' = T, frames' = q, h' = g, store' = store
    PROVE  StorageInv'
<1>1. ScriptSound(S', frames', h', store')
  OBVIOUS
<1>2. QED
  BY <1>1 DEF StorageInv

LEMMA StartStorage ==
    ASSUME StorageInv, tx.status = "idle", NEW c \in Contracts, NEW init, Enter(c, init),
           tx'.status = "running"
    PROVE  StorageInv'
<1>1. PICK T, f : T = [FreshState(init) EXCEPT !.ids = <<Id(c, c, FALSE)>>] /\ f = Frame("top", c, c)
  OBVIOUS
<1>2. S' = T /\ frames' = <<f>> /\ h' = h /\ store' = store
  BY <1>1 DEF Enter
<1>3. /\ {"list", "reads", "live", "err", "stop", "code"} \subseteq DOMAIN T
      /\ T.list = << >> /\ T.live = [s \in Slots |-> Null] /\ T.reads = [s \in Slots |-> Missing]
  BY <1>1 DEF FreshState
<1>4. IsSeq(T.list)
  BY <1>3 DEF IsSeq
<1>5. StoreFields(T)
  BY <1>3, <1>4 DEF StoreFields
<1>6. f.kind # "message"
  BY <1>1 DEF Frame
<1>7. ScriptSound(T, <<f>>, h, store)
  BY <1>3, <1>5, <1>6, FreshSound DEF StorageInv
<1>8. QED
  BY <1>2, <1>7, RunningKeeps

(* The history after a step: what the script wrote is what the step says.      *)
LEMMA NotedHist ==
    ASSUME NEW g, HistSound(g), NEW e
    PROVE  LET g2 == [g EXCEPT !.err = e]
           IN  HistSound(g2) /\ g2.spec = g.spec /\ g2.taint = g.taint
BY DEF HistSound

LEMMA SameKeeps ==
    ASSUME StorageInv, Running, NEW T, SameStore(S, T), S' = T, NEW e, h' = [h EXCEPT !.err = e],
           frames' = frames, store' = store, tx'.status = "running"
    PROVE  StorageInv'
<1>1. ScriptSound(S, frames, h, store)
  BY DEF StorageInv, Running
<1>2. PICK g : g = [h EXCEPT !.err = e]
  OBVIOUS
<1>3. HistSound(g) /\ g.taint = h.taint /\ g.spec = h.spec
  BY <1>1, <1>2, NotedHist DEF ScriptSound
<1>4. ScriptSound(T, frames, g, store)
  BY <1>1, <1>3, ScriptSame
<1>5. QED
  BY <1>2, <1>4, RunningKeeps

LEMMA RaisingStorage ==
    ASSUME StorageInv, DelegateMissing \/ ApiError \/ Exit
    PROVE  StorageInv'
<1>1. PICK U : U = Throw(Spent(S, 1), "simple")
  OBVIOUS
<1>2. SameStore(S, U)
  BY <1>1, SpentSame, ThrowSame, SameTrans
<1>3. SameStore(U, [U EXCEPT !.force = TRUE])
  BY DEF SameStore, StoreFields
<1>4. Running /\ (Step(U, h) \/ Step([U EXCEPT !.force = TRUE], h))
  BY <1>1 DEF DelegateMissing, ApiError, Exit
<1>5. PICK T : SameStore(S, T) /\ Step(T, h)
  BY <1>2, <1>3, <1>4, SameTrans
<1>6. PICK e : h' = [h EXCEPT !.err = e]
  BY <1>5 DEF Step
<1>7. S' = T /\ frames' = frames /\ store' = store /\ tx'.status = "running"
  BY <1>4, <1>5 DEF Step, Running
<1>8. QED
  BY <1>4, <1>5, <1>6, <1>7, SameKeeps

LEMMA TransferStorage ==
    ASSUME ControlInv, StorageInv, NEW to, NEW n, Transfer(to, n)
    PROVE  StorageInv'
<1>1. PICK T : /\ T = (IF n <= 0 THEN Throw(Spent(S, 1), "simple") ELSE Spent(S, 1 + ApiGas))
               /\ S' = T /\ h' = Noted(T)
  BY DEF Transfer
<1>2. SameStore(S, T)
  BY <1>1, SpentSame, ThrowSame, SameTrans
<1>3. PICK e : h' = [h EXCEPT !.err = e]
  BY <1>1 DEF Noted
<1>4. Running /\ frames' = frames /\ store' = store /\ \E result : tx' = [tx EXCEPT !.result = result]
  BY DEF Transfer
<1>5. tx'.status = "running"
  BY <1>4 DEF ControlInv, TxInv, Running
<1>6. QED
  BY <1>1, <1>2, <1>3, <1>4, <1>5, SameKeeps

(* An operation on storage, as the actions state it.                           *)
LEMMA StepStorage ==
    ASSUME StorageInv, Running, NEW T, NEW h2, Step(T, h2),
           StateSound(T, store), Grows(S, T), HistSound(h2), h.taint \subseteq h2.taint,
           Follows(T, store, h2)
    PROVE  StorageInv'
<1>1. ScriptSound(S, frames, h, store)
  BY DEF StorageInv, Running
<1>2. PICK e : h' = [h2 EXCEPT !.err = e]
  BY DEF Step
<1>3. PICK g : g = [h2 EXCEPT !.err = e]
  OBVIOUS
<1>4. HistSound(g) /\ g.taint = h2.taint /\ g.spec = h2.spec
  BY <1>3, NotedHist
<1>5. Follows(T, store, g)
  BY <1>4 DEF Follows
<1>6. ScriptSound(T, frames, g, store)
  BY <1>1, <1>4, <1>5, ScriptGrows
<1>7. S' = T /\ frames' = frames /\ store' = store /\ tx'.status = "running"
  BY DEF Step, Running
<1>8. QED
  BY <1>2, <1>3, <1>6, <1>7, RunningKeeps

LEMMA GetStorageKeeps ==
    ASSUME StorageInv, NEW name, Get(name)
    PROVE  StorageInv'
<1>1. PICK s, U : s = Mine(name) /\ U = Spent(S, 1 + ApiGas)
  OBVIOUS
<1>2. PICK T : T = GetStorage(U, store, s)
  OBVIOUS
<1>3. Running /\ s \in Slots /\ Step(T, h)
  BY <1>1, <1>2 DEF Get
<1>4. ScriptSound(S, frames, h, store)
  BY <1>3 DEF StorageInv, Running
<1>5. SameStore(S, U) /\ StateSound(S, store)
  BY <1>1, <1>4, SpentSame DEF ScriptSound
<1>6. StateSound(U, store) /\ Grows(S, U) /\ \A s2 : SlotIn(U, store, h.spec, s2) = SlotIn(S, store, h.spec, s2)
  BY <1>5, SameSound, SameGrows DEF StateSound
<1>7. /\ StateSound(T, store) /\ Grows(U, T) /\ T.err = U.err /\ T.stop = U.stop
      /\ \A s2 \in Slots : SlotIn(U, store, h.spec, s2) => SlotIn(T, store, h.spec, s2)
  BY <1>2, <1>3, <1>6, GetSound
<1>8. (S.err => U.err) /\ (S.stop => U.stop)
  BY <1>5 DEF SameStore, StateSound
<1>9. Follows(T, store, h)
  BY <1>4, <1>6, <1>7, <1>8 DEF ScriptSound, Follows
<1>10. QED
  BY <1>3, <1>4, <1>6, <1>7, <1>9, GrowsTrans, StepStorage DEF ScriptSound

LEMMA SetStorageKeeps ==
    ASSUME StorageInv, NEW name, NEW v, Set(name, v)
    PROVE  StorageInv'
<1>1. PICK s, U : s = Mine(name) /\ U = Spent(S, 1)
  OBVIOUS
<1>2. PICK T : T = IF TopId.static THEN SetStorageRefusedStatic(U) ELSE SetStorage(U, store, s, v)
  OBVIOUS
<1>3. PICK h2 : h2 = IF T.stop THEN h
                     ELSE [h EXCEPT !.spec[s] = v, !.taint = IF Slips(s, v, T) THEN @ \cup {s} ELSE @]
  OBVIOUS
<1>4. Running /\ ~ Halted /\ s \in Slots /\ Step(T, h2)
  BY <1>1, <1>2, <1>3 DEF Set
<1>5. ScriptSound(S, frames, h, store) /\ ~ S.stop
  BY <1>4 DEF StorageInv, Running, Halted
<1>6. SameStore(S, U) /\ StateSound(S, store)
  BY <1>1, <1>5, SpentSame DEF ScriptSound
<1>7. StateSound(U, store) /\ Grows(S, U) /\ \A s2 : SlotIn(U, store, h.spec, s2) = SlotIn(S, store, h.spec, s2)
  BY <1>6, SameSound, SameGrows DEF StateSound
<1>8. \A s2 \in Slots \ h.taint : SlotIn(U, store, h.spec, s2)
  BY <1>5, <1>7 DEF ScriptSound, Follows
<1>9. HistSound(h) /\ U.reads = S.reads
  BY <1>5, <1>6 DEF ScriptSound, SameStore, StateSound
<1>10. CASE TopId.static
  <2>1. PICK W : W = Throw(U, "simple")
    OBVIOUS
  <2>2. T = [W EXCEPT !.stop = TRUE, !.force = TRUE]
    BY <1>2, <1>10, <2>1 DEF SetStorageRefusedStatic
  <2>3. StoreFields(U) /\ SameStore(U, W) /\ W.err /\ StoreFields(W)
    BY <1>7, <2>1, ThrowSame DEF StateSound, SameStore
  <2>4. T.err /\ T.stop /\ SameStore(W, T)
    BY <2>2, <2>3 DEF SameStore, StoreFields
  <2>5. SameStore(U, T)
    BY <2>3, <2>4, SameTrans
  <2>6. StateSound(T, store) /\ Grows(U, T)
    BY <1>7, <2>3, <2>5, SameSound, SameGrows
  <2>7. h2 = h /\ Follows(T, store, h2)
    BY <1>3, <2>4 DEF Follows
  <2>8. QED
    BY <1>4, <1>7, <1>9, <2>6, <2>7, GrowsTrans, StepStorage
<1>11. CASE ~ TopId.static
  <2>1. T = SetStorage(U, store, s, v)
    BY <1>2, <1>11
  <2>2. /\ StateSound(T, store) /\ Grows(U, T)
        /\ \/ T.err /\ T.stop
           \/ /\ T.err = U.err /\ T.stop = U.stop
              /\ \A s2 \in Slots \ {s} : SlotIn(U, store, h.spec, s2) => SlotIn(T, store, h.spec, s2)
              /\ \/ ~ IsTable(v) /\ T.live[s] # Null
                 \/ IsTable(v) /\ U.reads[s] # Missing
                 \/ \A spec : spec[s] = v => SlotIn(T, store, spec, s)
    BY <1>4, <1>7, <2>1, SetSound
  <2>3. CASE T.stop
    <3>1. h2 = h
      BY <1>3, <2>3
    <3>3. Follows(T, store, h2)
      <4>1. CASE T.err
        BY <2>3, <4>1 DEF Follows
      <4>2. CASE ~ T.err
        <5>1. T.stop = U.stop
          BY <2>2, <4>2
        <5>2. U.stop = S.stop
          BY <1>1 DEF Spent
        <5>3. QED
          BY <1>5, <2>3, <5>1, <5>2
      <4>3. QED
        BY <4>1, <4>2
    <3>4. QED
      BY <1>4, <1>7, <1>9, <2>2, <3>1, <3>3, GrowsTrans, StepStorage
  <2>4. CASE ~ T.stop
    <3>1. h2 = [h EXCEPT !.spec[s] = v, !.taint = IF Slips(s, v, T) THEN @ \cup {s} ELSE @]
      BY <1>3, <2>4
    <3>2. /\ HistSound(h2) /\ h2.spec[s] = v /\ \A s2 \in Slots \ {s} : h2.spec[s2] = h.spec[s2]
          /\ h2.taint = IF Slips(s, v, T) THEN h.taint \cup {s} ELSE h.taint
      BY <1>4, <1>9, <3>1 DEF HistSound
    <3>3. ASSUME NEW s2 \in Slots \ h2.taint
          PROVE  SlotIn(T, store, h2.spec, s2)
      <4>1. CASE s2 # s
        <5>1. SlotIn(T, store, h.spec, s2)
          BY <1>8, <2>2, <2>4, <3>2, <3>3, <4>1
        <5>2. QED
          BY <3>2, <4>1, <5>1 DEF SlotIn
      <4>2. CASE s2 = s
        <5>1. ~ Slips(s, v, T)
          BY <3>2, <3>3, <4>2
        <5>2. ~ (~ IsTable(v) /\ T.live[s] # Null) /\ ~ (IsTable(v) /\ U.reads[s] # Missing)
          BY <1>9, <5>1 DEF Slips
        <5>3. SlotIn(T, store, h2.spec, s)
          BY <2>2, <2>4, <3>2, <5>2
        <5>4. QED
          BY <4>2, <5>3
      <4>3. QED
        BY <4>1, <4>2
    <3>4. Follows(T, store, h2) /\ h.taint \subseteq h2.taint
      BY <3>2, <3>3 DEF Follows
    <3>5. QED
      BY <1>4, <1>7, <2>2, <3>2, <3>4, GrowsTrans, StepStorage
  <2>5. QED
    BY <2>3, <2>4
<1>12. QED
  BY <1>10, <1>11

LEMMA MutateStorage ==
    ASSUME StorageInv, NEW name, NEW k, NEW v, Mutate(name, k, v)
    PROVE  StorageInv'
<1>1. PICK s, U : s = Mine(name) /\ U = Spent(S, 1)
  OBVIOUS
<1>2. PICK t : t = Put(S.live[s], k, v)
  OBVIOUS
<1>3. PICK T : T = [U EXCEPT !.live[s] = t]
  OBVIOUS
<1>4. PICK h2 : h2 = IF s \in h.taint THEN h ELSE [h EXCEPT !.spec[s] = t]
  OBVIOUS
<1>5. Running /\ ~ Halted /\ s \in Slots /\ S.live[s] # Null /\ Step(T, h2)
  BY <1>1, <1>2, <1>3, <1>4 DEF Mutate
<1>6. ScriptSound(S, frames, h, store) /\ ~ S.stop
  BY <1>5 DEF StorageInv, Running, Halted
<1>7. SameStore(S, U) /\ StateSound(S, store) /\ HistSound(h)
  BY <1>1, <1>6, SpentSame DEF ScriptSound
<1>8. /\ StateSound(U, store) /\ Grows(S, U) /\ U.live = S.live
      /\ \A s2 : SlotIn(U, store, h.spec, s2) = SlotIn(S, store, h.spec, s2)
  BY <1>7, SameSound, SameGrows DEF StateSound, SameStore
<1>9. \A s2 \in Slots \ h.taint : SlotIn(U, store, h.spec, s2)
  BY <1>6, <1>8 DEF ScriptSound, Follows
<1>10. IsTable(t)
  BY <1>2 DEF Put, Table, IsTable
<1>11. /\ StateSound(T, store) /\ Grows(U, T)
       /\ \A s2 \in Slots \ {s} : SlotIn(U, store, h.spec, s2) => SlotIn(T, store, h.spec, s2)
       /\ \A spec2 : SlotIn(U, store, h.spec, s) /\ spec2[s] = t => SlotIn(T, store, spec2, s)
  BY <1>3, <1>5, <1>8, <1>10, PutSound
<1>12. /\ HistSound(h2) /\ h2.taint = h.taint
       /\ s \notin h.taint => h2.spec[s] = t
       /\ \A s2 \in Slots \ {s} : h2.spec[s2] = h.spec[s2]
  BY <1>4, <1>5, <1>7 DEF HistSound
<1>13. ASSUME NEW s2 \in Slots \ h2.taint
       PROVE  SlotIn(T, store, h2.spec, s2)
  <2>1. CASE s2 # s
    <3>1. SlotIn(T, store, h.spec, s2)
      BY <1>9, <1>11, <1>12, <1>13, <2>1
    <3>2. QED
      BY <1>12, <2>1, <3>1 DEF SlotIn
  <2>2. CASE s2 = s
    BY <1>9, <1>11, <1>12, <1>13, <2>2
  <2>3. QED
    BY <2>1, <2>2
<1>14. Follows(T, store, h2)
  BY <1>13 DEF Follows
<1>15. QED
  BY <1>5, <1>8, <1>11, <1>12, <1>14, GrowsTrans, StepStorage

LEMMA CallStorage ==
    ASSUME ControlInv, StorageInv, NEW kind, NEW c, Call(kind, c)
    PROVE  StorageInv'
<1>1. ScriptSound(S, frames, h, store) /\ ~ S.stop /\ IsSeq(frames)
  BY DEF Call, Running, Halted, StorageInv, ControlInv, RunningInv, RunSound
<1>2. PICK st : st = IF kind = "delegate" THEN TopId.store ELSE c
  OBVIOUS
<1>3. PICK T : T = Spent(S, IF kind = "message" THEN 1 + ApiGas ELSE 1)
  OBVIOUS
<1>4. PICK f : f = Frame(kind, c, st)
  OBVIOUS
<1>5. PICK ids : S' = [T EXCEPT !.ids = ids]
  BY <1>2, <1>3 DEF Call
<1>6. frames' = Append(frames, f) /\ tx' = tx /\ h' = h /\ store' = store /\ Running
  BY <1>2, <1>4 DEF Call
<1>7. SameStore(S, S')
  <2>1. SameStore(T, [T EXCEPT !.ids = ids])
    BY DEF SameStore, StoreFields
  <2>2. QED
    BY <1>3, <1>5, <2>1, SpentSame, SameTrans
<1>8. f.kind = "message" =>
          /\ f.saved[1].list = Len(S.list) /\ f.saved[1].live = S.live
          /\ f.saved[1].reads = S.reads /\ f.saved[1].h = h
  BY <1>4 DEF Frame, Saved
<1>9. PICK U : U = S'
  OBVIOUS
<1>10. ScriptSound(U, Append(frames, f), h, store)
  BY <1>1, <1>7, <1>8, <1>9, ScriptCalls
<1>11. tx'.status = "running"
  BY <1>6 DEF Running
<1>12. QED
  BY <1>6, <1>9, <1>10, <1>11, RunningKeeps
-----------------------------------------------------------------------------
(* Leaving a function keeps the storage sound, and ending commits it.          *)

\* The evaluator's result has a place for the changes.
ResultInv == tx.status \in {"idle", "running"} => "changes" \in DOMAIN tx.result

LEMMA FinishTx ==
    ASSUME ControlInv, NEW T, Finish(T)
    PROVE  tx'.status \in {"ok", "failed"}
<1>1. PICK ok, result : tx' = [tx EXCEPT !.status = IF ok THEN "ok" ELSE "failed", !.result = result]
  BY DEF Finish
<1>2. tx'.status = IF ok THEN "ok" ELSE "failed"
  BY <1>1 DEF ControlInv, TxInv
<1>3. QED
  BY <1>2

LEMMA ResultInit == Init => ResultInv
BY DEF Init, ResultInv, EmptyResult

LEMMA ResultNext == ControlInv /\ ResultInv /\ [Next]_vars => ResultInv'
<1> SUFFICES ASSUME ControlInv, ResultInv, [Next]_vars PROVE ResultInv'
  OBVIOUS
<1>1. \A r, from, to, n : "changes" \in DOMAIN r => "changes" \in DOMAIN AddMoney(r, from, to, n)
  BY DEF AddMoney
<1>2. "changes" \in DOMAIN EmptyResult /\ \A c : "changes" \in DOMAIN [EmptyResult EXCEPT !.contracts = {c}]
  BY DEF EmptyResult
<1>3. CASE tx' = tx
  BY <1>3 DEF ResultInv
<1>4. ASSUME NEW c, NEW deposit, Invoke(c, deposit) \/ Create(c)
      PROVE  ResultInv'
  <2>1. ASSUME Invoke(c, deposit)
        PROVE  tx'.result = AddMoney(EmptyResult, User, c, deposit)
    BY <2>1 DEF Invoke
  <2>2. ASSUME Create(c)
        PROVE  tx'.result = [EmptyResult EXCEPT !.contracts = {c}]
    BY <2>2 DEF Create
  <2>3. "changes" \in DOMAIN tx'.result
    BY <1>1, <1>2, <1>4, <2>1, <2>2
  <2>4. QED
    BY <2>3 DEF ResultInv
<1>5. ASSUME NEW T, Finish(T)
      PROVE  ResultInv'
  BY <1>5, FinishTx DEF ResultInv
<1>6. ASSUME NEW T, ReturnFrom(T) \/ RaiseTo(T)
      PROVE  ResultInv'
  BY <1>3, <1>5, <1>6 DEF ReturnFrom, RaiseTo
<1>7. CASE Unwind \/ Return \/ LuaError
  BY <1>6, <1>7 DEF Unwind, Return, LuaError
<1>8. ASSUME NEW to, Transfer(to, 1)
      PROVE  ResultInv'
  <2>1. tx.status = "running" /\ "changes" \in DOMAIN tx.result
    BY <1>8 DEF Transfer, Running, ResultInv
  <2>2. PICK r : tx' = [tx EXCEPT !.result = r] /\ "changes" \in DOMAIN r
    BY <1>1, <1>8, <2>1 DEF Transfer
  <2>3. QED
    BY <2>2 DEF ResultInv, ControlInv, TxInv
<1>9. QED
  BY <1>3, <1>4, <1>7, <1>8 DEF Next, vars, DelegateMissing, ApiError, Exit, Get, Set, Mutate, Call, Step

LEMMA RunningScript ==
    ASSUME ControlInv, StorageInv, Running
    PROVE  /\ RunningInv /\ ScriptSound(S, frames, h, store) /\ StateSound(S, store) /\ HistSound(h)
           /\ IsSeq(frames) /\ Len(frames) \in Nat /\ Len(frames) >= 1
BY DEF ControlInv, StorageInv, Running, RunningInv, RunSound, ScriptSound, IsSeq

\* The innermost functions are left, down to number n, with their storage.
LEMMA DropsStorage ==
    ASSUME ControlInv, StorageInv, Running, NEW T, SameStore(S, T), S' = T, h' = Noted(T), tx' = tx,
           store' = store, NEW n \in 0 .. Len(frames), frames' = SubSeq(frames, 1, n)
    PROVE  StorageInv'
<1>1. ScriptSound(S, frames, h, store) /\ HistSound(h) /\ IsSeq(frames)
  BY RunningScript
<1>2. PICK g : g = Noted(T)
  OBVIOUS
<1>3. PICK e : g = [h EXCEPT !.err = e]
  BY <1>2 DEF Noted
<1>4. HistSound(g) /\ g.spec = h.spec /\ g.taint = h.taint
  BY <1>1, <1>3, NotedHist
<1>5. ScriptSound(T, frames, g, store)
  BY <1>1, <1>4, ScriptSame
<1>6. ScriptSound(T, SubSeq(frames, 1, n), g, store)
  BY <1>1, <1>5, ScriptFewer
<1>7. tx'.status = "running"
  BY DEF Running
<1>8. QED
  BY <1>2, <1>6, <1>7, RunningKeeps

LEMMA CleansStorage ==
    ASSUME ControlInv, StorageInv, Running, NEW T, SameStore(S, T), store' = store,
           NEW i, Cleans(T, i)
    PROVE  StorageInv'
<1>1. /\ ScriptSound(S, frames, h, store) /\ StateSound(S, store) /\ HistSound(h) /\ IsSeq(frames)
  BY RunningScript
<1>2. i \in 1 .. Len(frames) /\ frames[i].kind = "message"
  BY DEF Cleans
<1>3. StateSound(T, store) /\ Grows(S, T)
  BY <1>1, SameSound, SameGrows DEF StateSound
<1>4. FramesKept(frames, T, store, h.taint)
  BY <1>1, <1>3, FramesGrow DEF ScriptSound, StateSound
<1>5. PICK U, q, g : /\ U = MessageFailed(T, frames[i].saved[1]) /\ q = SubSeq(frames, 1, i - 1)
                     /\ g = Undone(T, frames[i].saved[1])
  OBVIOUS
<1>6. ScriptSound(U, q, g, store)
  BY <1>1, <1>2, <1>3, <1>4, <1>5, MessageRestores
<1>7. S' = U /\ frames' = q /\ h' = g /\ tx'.status = "running"
  BY <1>5 DEF Cleans, Running
<1>8. QED
  BY <1>6, <1>7, RunningKeeps

LEMMA EndsStorage ==
    ASSUME ControlInv, ResultInv, StorageInv, Running, NEW T, SameStore(S, T), Ends(T)
    PROVE  StorageInv'
<1>1. ScriptSound(S, frames, h, store) /\ StateSound(S, store) /\ HistSound(h)
  BY RunningScript
<1>2. Fields(T) /\ Coded(T) /\ Finish(T) /\ h' = Noted(T)
  BY DEF Ends
<1>3. PICK c : c = Commit(T, tx.start)
  OBVIOUS
<1>4. PICK ok : ok = Succeeded(CommitToUvm(c))
  OBVIOUS
<1>5. PICK result : /\ result = IF ok THEN [tx.result EXCEPT !.changes = c.changes]
                                ELSE SetFailed(Refund(tx.result))
                    /\ ApplyPendings(result)
                    /\ tx' = [tx EXCEPT !.status = IF ok THEN "ok" ELSE "failed", !.result = result]
  BY <1>2, <1>3, <1>4 DEF Finish
<1>6. tx'.status = IF ok THEN "ok" ELSE "failed"
  BY <1>5 DEF ControlInv, TxInv
<1>7. PICK e : h' = [h EXCEPT !.err = e]
  BY <1>2 DEF Noted
<1>8. h'.spec = h.spec /\ h'.taint = h.taint
  BY <1>1, <1>7, NotedHist
<1>9. CASE ~ ok
  BY <1>6, <1>9 DEF StorageInv
<1>10. CASE ok
  <2>1. PICK merged : merged = Merged(WithoutFirstNull(T.list) \o TableChanges(T))
    OBVIOUS
  <2>2. StateSound(T, store) /\ \A spec, s : SlotIn(T, store, spec, s) = SlotIn(S, store, spec, s)
    BY <1>1, SameSound
  <2>3. ~ T.err /\ c.changes = Restrict(merged, {s \in DOMAIN merged : ~ Unchanged(merged[s])})
    BY <1>2, <1>3, <1>4, <1>10, <2>1, <2>2, CommitSucceeds DEF StateSound
  <2>4. ~ S.err
    BY <1>1, <2>3 DEF SameStore, StateSound
  <2>5. "changes" \in DOMAIN tx.result => result.changes = c.changes
    BY <1>5, <1>10
  <2>6. "changes" \in DOMAIN tx.result
    BY DEF ResultInv, Running
  <2>7. ASSUME NEW s \in Slots \ h.taint, ModChangeList \/ ~ Fast(s)
        PROVE  store'[s] = h.spec[s]
    <3>1. SlotIn(T, store, h.spec, s)
      BY <1>1, <2>2, <2>4, <2>7 DEF ScriptSound, Follows
    <3>2. (IF s \in DOMAIN merged /\ ~ Unchanged(merged[s]) THEN merged[s].after ELSE store[s]) = h.spec[s]
      BY <2>1, <2>2, <2>7, <3>1, CommitWrites
    <3>3. store'[s] = IF s \in DOMAIN c.changes THEN c.changes[s].after ELSE store[s]
      BY <1>5, <2>5, <2>6 DEF ApplyPendings
    <3>4. /\ s \in DOMAIN c.changes <=> s \in DOMAIN merged /\ ~ Unchanged(merged[s])
          /\ s \in DOMAIN c.changes => c.changes[s] = merged[s]
      BY <2>3 DEF Restrict
    <3>5. QED
      BY <3>2, <3>3, <3>4
  <2>8. CommitFaithful'
    BY <1>8, <2>7 DEF CommitFaithful
  <2>9. QED
    BY <1>6, <1>10, <2>8 DEF StorageInv
<1>11. QED
  BY <1>9, <1>10

LEMMA Unfinished ==
    ASSUME ControlInv, Running, tx' = tx, NEW T, ReturnFrom(T) \/ RaiseTo(T)
    PROVE  store' = store
<1>1. (\E U : Finish(U)) \/ store' = store
  BY DEF ReturnFrom, RaiseTo
<1>2. ASSUME NEW U, Finish(U) PROVE FALSE
  BY <1>2, FinishTx DEF Running
<1>3. QED
  BY <1>1, <1>2

LEMMA ReturnStorage ==
    ASSUME ControlInv, ResultInv, StorageInv, Running, NEW T, SameStore(S, T), Advanced(S, T), ReturnFrom(T)
    PROVE  StorageInv'
<1>1. RunningInv /\ Len(frames) \in Nat /\ Len(frames) >= 1
  BY RunningScript
<1>2. PICK U : U = PopId(T)
  OBVIOUS
<1>3. SameStore(S, U)
  BY <1>2, PopSame, SameTrans
<1>4. Pops(T) \/ (\E i \in 1 .. Len(frames) : Cleans(U, i)) \/ Ends(U)
  BY <1>1, <1>2, ReturnShape
<1>5. CASE Pops(T)
  <2>1. S' = U /\ h' = Noted(U) /\ tx' = tx /\ frames' = SubSeq(frames, 1, Len(frames) - 1)
    BY <1>2, <1>5 DEF Pops, Front
  <2>2. store' = store
    BY <2>1, Unfinished
  <2>3. PICK n \in 0 .. Len(frames) : n = Len(frames) - 1
    <3>1. Len(frames) - 1 \in 0 .. Len(frames)
      BY <1>1
    <3>2. QED
      BY <3>1
  <2>4. QED
    BY <1>3, <2>1, <2>2, <2>3, DropsStorage
<1>6. CASE \E i \in 1 .. Len(frames) : Cleans(U, i)
  <2>1. PICK i : Cleans(U, i)
    BY <1>6
  <2>2. tx' = tx
    BY <2>1 DEF Cleans
  <2>3. store' = store
    BY <2>2, Unfinished
  <2>4. QED
    BY <1>3, <2>1, <2>3, CleansStorage
<1>7. CASE Ends(U)
  BY <1>3, <1>7, EndsStorage
<1>8. QED
  BY <1>4, <1>5, <1>6, <1>7

LEMMA RaiseStorage ==
    ASSUME ControlInv, ResultInv, StorageInv, Running, NEW T, SameStore(S, T), Advanced(S, T), T.err, RaiseTo(T)
    PROVE  StorageInv'
<1>1. RunningInv /\ Len(frames) \in Nat
  BY RunningScript
<1>2. (\E i \in 1 .. Len(frames) : Cleans(T, i) \/ Escapes(T, i)) \/ Ends(T)
  BY <1>1, RaiseShape
<1>3. ASSUME NEW i \in 1 .. Len(frames), Cleans(T, i)
      PROVE  StorageInv'
  <2>1. tx' = tx
    BY <1>3 DEF Cleans
  <2>2. store' = store
    BY <2>1, Unfinished
  <2>3. QED
    BY <1>3, <2>2, CleansStorage
<1>4. ASSUME NEW i \in 1 .. Len(frames), Escapes(T, i)
      PROVE  StorageInv'
  <2>1. S' = T /\ h' = Noted(T) /\ tx' = tx /\ frames' = SubSeq(frames, 1, i - 1)
    BY <1>4 DEF Escapes
  <2>2. store' = store
    BY <2>1, Unfinished
  <2>3. PICK n \in 0 .. Len(frames) : n = i - 1
    BY <1>1
  <2>4. QED
    BY <2>1, <2>2, <2>3, DropsStorage
<1>5. CASE Ends(T)
  BY <1>5, EndsStorage
<1>6. QED
  BY <1>2, <1>3, <1>4, <1>5

LEMMA LeavesStorage ==
    ASSUME ControlInv, ResultInv, StorageInv, Unwind \/ Return \/ LuaError
    PROVE  StorageInv'
<1>1. PICK U : U = Spent(S, 1)
  OBVIOUS
<1>2. SameStore(S, U) /\ Advanced(S, U)
  BY <1>1, SpentSame, SpentAdvances
<1>3. \A code : code # "none" => SameStore(S, Throw(U, code)) /\ Advanced(S, Throw(U, code))
  BY <1>2, ThrowSame, ThrowAdvances, SameTrans, AdvancedTrans
<1>4. Running
  BY DEF Unwind, Return, LuaError
<1>5. CASE Unwind
  <2>1. ReturnFrom(U) \/ ReturnFrom(Throw(U, "limit"))
    BY <1>1, <1>5 DEF Unwind
  <2>2. QED
    BY <1>2, <1>3, <1>4, <2>1, ReturnStorage
<1>6. CASE Return
  BY <1>1, <1>2, <1>4, <1>6, ReturnStorage DEF Return
<1>7. CASE LuaError
  <2>1. PICK T : T = Throw(U, "lvm")
    OBVIOUS
  <2>2. RaiseTo(T) /\ SameStore(S, T) /\ Advanced(S, T)
    BY <1>1, <1>3, <1>7, <2>1 DEF LuaError
  <2>3. Fields(S)
    BY <1>4, RunningScript DEF RunningInv, RunSound
  <2>4. Fields(U)
    BY <1>2, <2>3 DEF Advanced
  <2>5. T.err
    BY <2>1, <2>4, ThrowAdvances
  <2>6. QED
    BY <1>4, <2>2, <2>5, RaiseStorage
<1>8. QED
  BY <1>5, <1>6, <1>7
-----------------------------------------------------------------------------
LEMMA StorageInit == Init => StorageInv
<1> SUFFICES ASSUME Init PROVE StorageInv
  OBVIOUS
<1>1. tx.status = "idle"
  BY DEF Init
<1>2. DOMAIN store = Slots
  BY DEF Init
<1>3. h.spec = store /\ {"spec", "taint"} \subseteq DOMAIN h
  BY DEF Init
<1>4. QED
  BY <1>1, <1>2, <1>3 DEF StorageInv, HistSound

LEMMA StorageNext == ControlInv /\ ResultInv /\ StorageInv /\ [Next]_vars => StorageInv'
<1> SUFFICES ASSUME ControlInv, ResultInv, StorageInv, [Next]_vars PROVE StorageInv'
  OBVIOUS
<1>1. CASE UNCHANGED vars
  BY <1>1 DEF vars, StorageInv, ScriptSound, CommitFaithful, StateSound, HistSound, Follows, FramesKept,
              KeptSound, SlotIn, Tabled, StoreFields, Linked
<1>2. ASSUME NEW c \in Contracts, (\E deposit \in {0, 1} : Invoke(c, deposit)) \/ Create(c)
      PROVE  StorageInv'
  <2>1. tx.status = "idle" /\ tx'.status = "running" /\ \E init \in BOOLEAN : Enter(c, init)
    <3>1. ASSUME NEW deposit, Invoke(c, deposit)
          PROVE  tx.status = "idle" /\ tx'.status = "running" /\ Enter(c, FALSE)
      BY <3>1 DEF Invoke
    <3>2. ASSUME Create(c)
          PROVE  tx.status = "idle" /\ tx'.status = "running" /\ Enter(c, TRUE)
      BY <3>2 DEF Create
    <3>3. QED
      BY <1>2, <3>1, <3>2
  <2>2. QED
    BY <2>1, StartStorage
<1>3. CASE Unwind \/ Return \/ LuaError
  BY <1>3, LeavesStorage
<1>4. CASE DelegateMissing \/ ApiError \/ Exit
  BY <1>4, RaisingStorage
<1>5. ASSUME NEW s \in Slots, Get(s[2]) \/ (\E v : Set(s[2], v)) \/ (\E k, v : Mutate(s[2], k, v))
      PROVE  StorageInv'
  BY <1>5, GetStorageKeeps, SetStorageKeeps, MutateStorage
<1>6. ASSUME NEW kind, NEW c, Call(kind, c)
      PROVE  StorageInv'
  BY <1>6, CallStorage
<1>7. ASSUME NEW to, Transfer(to, 1)
      PROVE  StorageInv'
  BY <1>7, TransferStorage
<1>8. QED
  BY <1>1, <1>2, <1>3, <1>4, <1>5, <1>6, <1>7 DEF Next

LEMMA ContractStorage == Spec => []StorageInv
<1>1. Spec => [](ControlInv /\ ResultInv /\ StorageInv)
  BY ControlInit, ResultInit, StorageInit, ControlNext, ResultNext, StorageNext, PTL DEF Spec
<1>2. QED
  BY <1>1, PTL

(* While a script runs with no exception pending, reading a slot gives what    *)
(* the script last wrote there, in whatever order it assigned, changed tables  *)
(* in place, called, failed and was undone (uvm_storage.cpp over the change    *)
(* list, the snapshots and the live tables; send_message in                    *)
(* simplechain_uvm_api.cpp and lauxlib.cpp).                                   *)
THEOREM ContractReadYourWrites == Spec => []ReadYourWrites
<1>1. StorageInv => ReadYourWrites
  <2> SUFFICES ASSUME StorageInv, Running, ~ S.err, NEW s \in Slots \ h.taint
               PROVE  View(S, store, s) = h.spec[s]
    BY DEF ReadYourWrites
  <2>1. SlotIn(S, store, h.spec, s)
    BY DEF StorageInv, Running, ScriptSound, Follows
  <2>2. View(S, store, s) = IF S.live[s] # Null THEN S.live[s] ELSE Latest(S.list, store, s)
    BY DEF View, GetLast
  <2>3. QED
    BY <2>1, <2>2 DEF SlotIn, SlotSound
<1>2. QED
  BY <1>1, ContractStorage, PTL

(* A call that succeeds leaves in every slot but a fast-map entry before       *)
(* block 1 what its script last wrote there (luaL_commit_storage_changes and   *)
(* apply_pendings).                                                            *)
THEOREM ContractCommitFaithful == Spec => [](tx.status = "ok" => CommitFaithful)
<1>1. StorageInv => (tx.status = "ok" => CommitFaithful)
  BY DEF StorageInv
<1>2. QED
  BY <1>1, ContractStorage, PTL

(* From block 1 on (MOD_CHANGE_LIST of uvm_storage.cpp), a call that succeeds  *)
(* leaves in every slot what its script last wrote there, changes inside       *)
(* tables included and nothing of a failed message: the head block number is a *)
(* constant of one evaluation.                                                 *)
THEOREM ContractCommitted ==
    ASSUME ModChangeList
    PROVE  Spec => []CommittedIsLastWritten
<1>1. (tx.status = "ok" => CommitFaithful) => CommittedIsLastWritten
  BY DEF CommitFaithful, CommittedIsLastWritten
<1>2. QED
  BY <1>1, ContractCommitFaithful, PTL
=============================================================================
