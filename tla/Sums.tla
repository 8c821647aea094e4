---------------------------------- MODULE Sums ----------------------------------
(***************************************************************************)
(* Sums over finite sets: what the books of users add up to.               *)
(***************************************************************************)
EXTENDS Integers, FiniteSets, Functions, FiniteSetTheorems, TLAPS

(* The argument taken first, and the equation of a running sum of f over   *)
(* the subsets of S.                                                       *)
First(s) == CHOOSE x \in s : TRUE
SumStep(f, g, s) == IF s = {} THEN 0 ELSE f[First(s)] + g[s \ {First(s)}]
Runs(f, g, S) == g = [s \in SUBSET S |-> SumStep(f, g, s)]

(* A set of finite sets that is not empty has one that contains no other.  *)
LEMMA Smallest ==
  ASSUME NEW S, IsFiniteSet(S), NEW B \in SUBSET SUBSET S, B # {}
  PROVE  \E T \in B : \A U \in B : U \subseteq T => U = T
<1>1. IsWellFoundedOn(StrictSubsetOrdering(S), SUBSET S)
  BY FS_StrictSubsetOrderingWellFounded, FS_FiniteSubsetsOfFinite
<1>2. PICK T \in B : \A U \in B : ~ (<<U, T>> \in StrictSubsetOrdering(S))
  BY <1>1, WFMin
<1>3. QED
  BY <1>2 DEF StrictSubsetOrdering

(* Numbers up to n have a greatest.                                        *)
THEOREM Greatest ==
  ASSUME NEW n \in Nat, NEW B \in SUBSET (1 .. n), B # {}
  PROVE  \E i \in B : \A j \in B : j <= i
<1>1. PICK Fam : Fam = { i .. n : i \in B }
  OBVIOUS
<1>2. PICK T \in Fam : \A U \in Fam : U \subseteq T => U = T
  <2>1. IsFiniteSet(1 .. n)
    BY FS_Interval
  <2>2. \A i \in B : i .. n \subseteq 1 .. n
    OBVIOUS
  <2>3. Fam \in SUBSET SUBSET (1 .. n) /\ Fam # {}
    BY <1>1, <2>2
  <2>4. PICK D : D = 1 .. n
    OBVIOUS
  <2>5. IsFiniteSet(D)
    BY <2>1, <2>4
  <2>6. Fam \in SUBSET SUBSET D
    BY <2>3, <2>4
  <2>7. Fam # {}
    BY <2>3
  <2>8. QED
    BY <2>5, <2>6, <2>7, Smallest
<1>3. PICK i \in B : T = i .. n
  BY <1>1
<1>4. ASSUME NEW j \in B, j > i
    PROVE  FALSE
  <2>1. j .. n \subseteq i .. n /\ j .. n \in Fam
    BY <1>1, <1>4
  <2>2. j .. n = i .. n
    BY <1>2, <1>3, <2>1
  <2>3. i \in i .. n
    OBVIOUS
  <2>4. i \notin j .. n
    BY <1>4
  <2>5. QED
    BY <2>2, <2>3, <2>4
<1>5. QED
  BY <1>4

LEMMA FirstIn == \A s : s # {} => First(s) \in s
BY DEF First

(* Two running sums agree wherever both are defined.                       *)
LEMMA RunsAgree ==
  ASSUME NEW f, NEW S, IsFiniteSet(S), NEW T \in SUBSET S, NEW g, NEW h,
         Runs(f, g, S), Runs(f, h, T)
  PROVE  \A s \in SUBSET T : g[s] = h[s]
<1> DEFINE B == { s \in SUBSET T : g[s] # h[s] }
<1>1. SUFFICES ASSUME B # {} PROVE FALSE
  OBVIOUS
<1>2. IsFiniteSet(T)
  BY FS_Subset
<1>3. PICK s \in B : \A u \in B : u \subseteq s => u = s
  <2>1. B \in SUBSET SUBSET T
    OBVIOUS
  <2> HIDE DEF B
  <2>2. QED
    BY <1>1, <1>2, <2>1, Smallest
<1>4. g[s] = SumStep(f, g, s) /\ h[s] = SumStep(f, h, s)
  BY DEF Runs
<1>5. s # {}
  BY <1>3, <1>4 DEF SumStep
<1> DEFINE r == s \ {First(s)}
<1>6. r \in SUBSET T /\ r \subseteq s /\ r # s
  BY <1>3, <1>5, FirstIn
<1>7. g[r] = h[r]
  BY <1>3, <1>6
<1>8. QED
  BY <1>3, <1>4, <1>5, <1>7 DEF SumStep

(* Every function on a finite set has a running sum.                       *)
LEMMA RunsExist ==
  ASSUME NEW f, NEW S, IsFiniteSet(S)
  PROVE  \E g : Runs(f, g, S)
<1> DEFINE B == { T \in SUBSET S : ~ \E g : Runs(f, g, T) }
<1>1. SUFFICES ASSUME B # {} PROVE FALSE
  OBVIOUS
<1>2. PICK T \in B : \A u \in B : u \subseteq T => u = T
  <2>1. B \in SUBSET SUBSET S
    OBVIOUS
  <2> HIDE DEF B
  <2>2. QED
    BY <1>1, <2>1, Smallest
<1> DEFINE G(u) == CHOOSE g : Runs(f, g, u)
<1>3. \A u \in SUBSET T : u # T => Runs(f, G(u), u)
  BY <1>2
<1> DEFINE Rest(s) == s \ {First(s)}
           h == [s \in SUBSET T |-> IF s = {} THEN 0 ELSE f[First(s)] + G(Rest(s))[Rest(s)]]
<1>4. \A s \in SUBSET T : s # {} => Rest(s) \in SUBSET T /\ Rest(s) # T /\ First(s) \in s
  BY FirstIn
<1>5. ASSUME NEW s \in SUBSET T, s # {}
      PROVE  h[Rest(s)] = G(Rest(s))[Rest(s)]
  <2> DEFINE r == Rest(s)
  <2>1. r \in SUBSET T /\ r # T
    BY <1>4, <1>5
  <2>2. Runs(f, G(r), r)
    BY <1>3, <2>1
  <2>3. G(r)[r] = SumStep(f, G(r), r)
    BY <2>2 DEF Runs
  <2>4. CASE r = {}
    BY <2>1, <2>3, <2>4 DEF SumStep
  <2>5. CASE r # {}
    <3>1. Rest(r) \in SUBSET r /\ Rest(r) \in SUBSET T /\ Rest(r) # T
      BY <1>4, <2>1, <2>5
    <3>2. Runs(f, G(Rest(r)), Rest(r))
      BY <1>3, <3>1
    <3>3. IsFiniteSet(r)
      BY <2>1, FS_Subset
    <3>4. \A u \in SUBSET Rest(r) : G(r)[u] = G(Rest(r))[u]
      <4> HIDE DEF G, Rest, r
      <4>1. QED
        BY <2>2, <3>1, <3>2, <3>3, RunsAgree
    <3>5. G(r)[r] = f[First(r)] + G(r)[Rest(r)]
      BY <2>3, <2>5 DEF SumStep
    <3>6. h[r] = f[First(r)] + G(Rest(r))[Rest(r)]
      BY <2>1, <2>5
    <3>7. Rest(r) \in SUBSET Rest(r)
      OBVIOUS
    <3>8. QED
      BY <3>4, <3>5, <3>6, <3>7
  <2>6. QED
    BY <2>4, <2>5
<1>6. ASSUME NEW s \in SUBSET T
      PROVE  h[s] = SumStep(f, h, s)
  <2>1. CASE s = {}
    BY <2>1 DEF SumStep
  <2>2. CASE s # {}
    <3>1. h[s] = f[First(s)] + G(Rest(s))[Rest(s)]
      BY <2>2
    <3>2. h[Rest(s)] = G(Rest(s))[Rest(s)]
      BY <1>5, <2>2
    <3> HIDE DEF h, G
    <3>3. QED
      BY <2>2, <3>1, <3>2 DEF SumStep
  <2>3. QED
    BY <2>1, <2>2
<1>7. Runs(f, h, T)
  BY <1>6 DEF Runs
<1>8. QED
  BY <1>2, <1>7

(* The sum of the community modules is the end of a running sum.           *)
LEMMA SumRuns ==
  ASSUME NEW f, NEW S, IsFiniteSet(S)
  PROVE  \E g : Runs(f, g, S) /\ SumFunctionOnSet(f, S) = g[S]
<1> DEFINE g == CHOOSE g : Runs(f, g, S)
<1>1. Runs(f, g, S)
  BY RunsExist
<1>2. SumFunctionOnSet(f, S) = g[S]
  BY DEF SumFunctionOnSet, FoldFunctionOnSet, MapThenFoldSet, Runs, SumStep, First
<1>3. QED
  BY <1>1, <1>2

(* The sum over no argument is zero.                                       *)
THEOREM SumEmpty == \A f : SumFunctionOnSet(f, {}) = 0
<1>1. SUFFICES ASSUME NEW f PROVE SumFunctionOnSet(f, {}) = 0
  OBVIOUS
<1>2. PICK g : Runs(f, g, {}) /\ SumFunctionOnSet(f, {}) = g[{}]
  BY SumRuns, FS_EmptySet
<1>3. g[{}] = SumStep(f, g, {})
  BY <1>2 DEF Runs
<1>4. QED
  BY <1>2, <1>3 DEF SumStep

(* A running sum over integers is an integer everywhere.                   *)
LEMMA RunsType ==
  ASSUME NEW f, NEW S, IsFiniteSet(S), NEW g, Runs(f, g, S), \A x \in S : f[x] \in Int
  PROVE  \A s \in SUBSET S : g[s] \in Int
<1> DEFINE B == { s \in SUBSET S : g[s] \notin Int }
<1>1. SUFFICES ASSUME B # {} PROVE FALSE
  OBVIOUS
<1>2. PICK s \in B : \A u \in B : u \subseteq s => u = s
  <2>1. B \in SUBSET SUBSET S
    OBVIOUS
  <2> HIDE DEF B
  <2>2. QED
    BY <1>1, <2>1, Smallest
<1>3. g[s] = SumStep(f, g, s)
  BY <1>2 DEF Runs
<1>4. s # {}
  BY <1>2, <1>3 DEF SumStep
<1> DEFINE r == s \ {First(s)}
<1>5. First(s) \in s /\ First(s) \in S /\ r \in SUBSET S /\ r \subseteq s /\ r # s
  BY <1>2, <1>4, FirstIn
<1>6. g[r] \in Int
  BY <1>2, <1>5
<1>7. f[First(s)] \in Int
  BY <1>5
<1>8. QED
  BY <1>2, <1>3, <1>4, <1>6, <1>7 DEF SumStep

(* It does not matter which argument is taken first.                       *)
LEMMA RunsRemove ==
  ASSUME NEW f, NEW S, IsFiniteSet(S), NEW g, Runs(f, g, S), \A x \in S : f[x] \in Int
  PROVE  \A s \in SUBSET S : \A x \in s : g[s] = f[x] + g[s \ {x}]
<1> DEFINE B == { s \in SUBSET S : \E x \in s : g[s] # f[x] + g[s \ {x}] }
<1>1. SUFFICES ASSUME B # {} PROVE FALSE
  OBVIOUS
<1>2. PICK s \in B : \A u \in B : u \subseteq s => u = s
  <2>1. B \in SUBSET SUBSET S
    OBVIOUS
  <2> HIDE DEF B
  <2>2. QED
    BY <1>1, <2>1, Smallest
<1>3. PICK x \in s : g[s] # f[x] + g[s \ {x}]
  BY <1>2
<1> DEFINE c == First(s)
<1>4. c \in s /\ s # {} /\ s \in SUBSET S
  BY <1>2, <1>3, FirstIn
<1>5. g[s] = f[c] + g[s \ {c}]
  BY <1>4 DEF Runs, SumStep
<1>6. x # c
  BY <1>3, <1>5
<1>7. ASSUME NEW u \in SUBSET s, u # s, NEW y \in u
      PROVE  g[u] = f[y] + g[u \ {y}]
  BY <1>2, <1>4, <1>7
<1>8. g[s \ {c}] = f[x] + g[(s \ {c}) \ {x}]
  BY <1>4, <1>6, <1>7
<1>9. g[s \ {x}] = f[c] + g[(s \ {x}) \ {c}]
  BY <1>4, <1>6, <1>7
<1>10. (s \ {c}) \ {x} = (s \ {x}) \ {c}
  OBVIOUS
<1>11. f[x] \in Int /\ f[c] \in Int /\ g[(s \ {x}) \ {c}] \in Int
  BY <1>4, RunsType
<1>12. PICK w : w = g[(s \ {c}) \ {x}] /\ w = g[(s \ {x}) \ {c}] /\ w \in Int
  BY <1>10, <1>11
<1>13. g[s] = f[c] + (f[x] + w)
  BY <1>5, <1>8, <1>12
<1>14. g[s \ {x}] = f[c] + w
  BY <1>9, <1>12
<1>15. f[c] + (f[x] + w) = f[x] + (f[c] + w)
  BY <1>11, <1>12
<1>16. QED
  BY <1>3, <1>13, <1>14, <1>15

(* A sum of integers is an integer.                                        *)
THEOREM SumType ==
  ASSUME NEW f, NEW S, IsFiniteSet(S), \A x \in S : f[x] \in Int
  PROVE  SumFunctionOnSet(f, S) \in Int
<1>1. PICK g : Runs(f, g, S) /\ SumFunctionOnSet(f, S) = g[S]
  BY SumRuns
<1>2. QED
  BY <1>1, RunsType

(* Any argument can be taken out of a sum.                                 *)
THEOREM SumRemove ==
  ASSUME NEW f, NEW S, IsFiniteSet(S), \A x \in S : f[x] \in Int, NEW x \in S
  PROVE  SumFunctionOnSet(f, S) = f[x] + SumFunctionOnSet(f, S \ {x})
<1>1. PICK g : Runs(f, g, S) /\ SumFunctionOnSet(f, S) = g[S]
  BY SumRuns
<1>2. g[S] = f[x] + g[S \ {x}]
  BY <1>1, RunsRemove
<1>3. S \ {x} \in SUBSET S /\ IsFiniteSet(S \ {x})
  BY FS_RemoveElement
<1>4. PICK h : Runs(f, h, S \ {x}) /\ SumFunctionOnSet(f, S \ {x}) = h[S \ {x}]
  BY <1>3, SumRuns
<1>5. g[S \ {x}] = h[S \ {x}]
  <2>1. \A s \in SUBSET (S \ {x}) : g[s] = h[s]
    BY <1>1, <1>3, <1>4, RunsAgree
  <2>2. QED
    BY <2>1
<1>6. QED
  BY <1>1, <1>2, <1>4, <1>5

(* Functions that agree have equal sums.                                   *)
THEOREM SumAgree ==
  ASSUME NEW f, NEW h, NEW S, IsFiniteSet(S), \A x \in S : f[x] = h[x]
  PROVE  SumFunctionOnSet(f, S) = SumFunctionOnSet(h, S)
<1>1. PICK g : Runs(f, g, S) /\ SumFunctionOnSet(f, S) = g[S]
  BY SumRuns
<1>2. Runs(h, g, S)
  <2>1. \A s \in SUBSET S : SumStep(f, g, s) = SumStep(h, g, s)
    BY FirstIn DEF SumStep
  <2>2. QED
    BY <1>1, <2>1 DEF Runs
<1>3. PICK k : Runs(h, k, S) /\ SumFunctionOnSet(h, S) = k[S]
  BY SumRuns
<1>4. \A s \in SUBSET S : g[s] = k[s]
  BY <1>2, <1>3, RunsAgree
<1>5. QED
  BY <1>1, <1>3, <1>4

(* Changing one argument changes the sum by the difference.                *)
THEOREM SumChange ==
  ASSUME NEW f, NEW h, NEW S, IsFiniteSet(S), \A x \in S : f[x] \in Int,
         NEW u \in S, h[u] \in Int, \A x \in S \ {u} : h[x] = f[x]
  PROVE  SumFunctionOnSet(h, S) = SumFunctionOnSet(f, S) + (h[u] - f[u])
<1>1. \A x \in S : h[x] \in Int
  OBVIOUS
<1>2. IsFiniteSet(S \ {u})
  BY FS_RemoveElement
<1>3. SumFunctionOnSet(h, S \ {u}) = SumFunctionOnSet(f, S \ {u})
  BY <1>2, SumAgree
<1>4. SumFunctionOnSet(f, S) = f[u] + SumFunctionOnSet(f, S \ {u})
  BY SumRemove
<1>5. SumFunctionOnSet(h, S) = h[u] + SumFunctionOnSet(h, S \ {u})
  BY <1>1, SumRemove
<1>6. SumFunctionOnSet(f, S \ {u}) \in Int
  BY <1>2, SumType
<1>7. QED
  BY <1>3, <1>4, <1>5, <1>6

(* Zeros add up to zero.                                                   *)
THEOREM SumZero ==
  ASSUME NEW f, NEW S, IsFiniteSet(S), \A x \in S : f[x] = 0
  PROVE  SumFunctionOnSet(f, S) = 0
<1>1. PICK g : Runs(f, g, S) /\ SumFunctionOnSet(f, S) = g[S]
  BY SumRuns
<1> DEFINE B == { s \in SUBSET S : g[s] # 0 }
<1>2. SUFFICES ASSUME B # {} PROVE FALSE
  BY <1>1
<1>3. PICK s \in B : \A u \in B : u \subseteq s => u = s
  <2>1. B \in SUBSET SUBSET S
    OBVIOUS
  <2> HIDE DEF B
  <2>2. QED
    BY <1>2, <2>1, Smallest
<1>4. g[s] = SumStep(f, g, s) /\ s \in SUBSET S /\ g[s] # 0
  BY <1>1, <1>3 DEF Runs
<1>5. s # {}
  BY <1>4 DEF SumStep
<1>6. First(s) \in s /\ First(s) \in S
  BY <1>4, <1>5, FirstIn
<1>7. g[s \ {First(s)}] = 0
  BY <1>3, <1>4, <1>6
<1>8. QED
  BY <1>4, <1>5, <1>6, <1>7 DEF SumStep

----------------------------------------------------------------------------
(* The same for a function on a finite set, as the books of users are      *)
(* kept: its sum is an integer, and adding to one entry adds to the sum.   *)
THEOREM BooksType ==
  ASSUME NEW S, IsFiniteSet(S), NEW f \in [S -> Int]
  PROVE  SumFunction(f) \in Int
<1>1. DOMAIN f = S /\ \A x \in S : f[x] \in Int
  OBVIOUS
<1>2. QED
  BY <1>1, SumType DEF SumFunction

THEOREM BooksZero ==
  ASSUME NEW S, IsFiniteSet(S), NEW f \in [S -> Int], \A x \in S : f[x] = 0
  PROVE  SumFunction(f) = 0
<1>1. DOMAIN f = S
  OBVIOUS
<1>2. QED
  BY <1>1, SumZero DEF SumFunction

Raised(f, h, u, d) ==
  /\ DOMAIN h = DOMAIN f
  /\ h[u] = f[u] + d
  /\ \A x \in DOMAIN f \ {u} : h[x] = f[x]

THEOREM BooksAdd ==
  ASSUME NEW S, IsFiniteSet(S), NEW f \in [S -> Int], NEW h,
         NEW u \in S, NEW d \in Int, Raised(f, h, u, d)
  PROVE  SumFunction(h) = SumFunction(f) + d
<1>1. DOMAIN f = S /\ \A x \in S : f[x] \in Int
  OBVIOUS
<1>2. DOMAIN h = S /\ h[u] \in Int /\ h[u] - f[u] = d /\ \A x \in S \ {u} : h[x] = f[x]
  BY <1>1 DEF Raised
<1>3. SumFunctionOnSet(h, S) = SumFunctionOnSet(f, S) + (h[u] - f[u])
  BY <1>1, <1>2, SumChange
<1>4. QED
  BY <1>1, <1>2, <1>3 DEF SumFunction

(* A sum of naturals is a natural and no less than any of its terms.       *)
THEOREM SumNat ==
  ASSUME NEW f, NEW S, IsFiniteSet(S), \A x \in S : f[x] \in Nat
  PROVE  SumFunctionOnSet(f, S) \in Nat
<1>1. PICK g : Runs(f, g, S) /\ SumFunctionOnSet(f, S) = g[S]
  BY SumRuns
<1> DEFINE B == { s \in SUBSET S : g[s] \notin Nat }
<1>2. SUFFICES ASSUME B # {} PROVE FALSE
  BY <1>1
<1>3. PICK s \in B : \A u \in B : u \subseteq s => u = s
  <2>1. B \in SUBSET SUBSET S
    OBVIOUS
  <2> HIDE DEF B
  <2>2. QED
    BY <1>2, <2>1, Smallest
<1>4. g[s] = SumStep(f, g, s) /\ s \in SUBSET S /\ g[s] \notin Nat
  BY <1>1, <1>3 DEF Runs
<1>5. s # {}
  BY <1>4 DEF SumStep
<1>6. First(s) \in s /\ First(s) \in S
  BY <1>4, <1>5, FirstIn
<1>7. g[s \ {First(s)}] \in Nat /\ f[First(s)] \in Nat
  BY <1>3, <1>4, <1>6
<1>8. QED
  BY <1>4, <1>5, <1>7 DEF SumStep

THEOREM BooksMember ==
  ASSUME NEW S, IsFiniteSet(S), NEW f \in [S -> Nat], NEW u \in S
  PROVE  SumFunction(f) \in Nat /\ f[u] <= SumFunction(f)
<1>1. DOMAIN f = S /\ \A x \in S : f[x] \in Nat /\ f[x] \in Int
  OBVIOUS
<1>2. IsFiniteSet(S \ {u})
  BY FS_RemoveElement
<1>3. SumFunctionOnSet(f, S) \in Nat /\ SumFunctionOnSet(f, S \ {u}) \in Nat
  BY <1>1, <1>2, SumNat
<1>4. SumFunctionOnSet(f, S) = f[u] + SumFunctionOnSet(f, S \ {u})
  BY <1>1, SumRemove
<1>5. QED
  BY <1>1, <1>3, <1>4 DEF SumFunction

(* A move from one entry to another, or to itself, leaves the sum alone.   *)
Shifted(f, h, from, to, d) ==
  /\ DOMAIN h = DOMAIN f
  /\ \A x \in DOMAIN f : h[x] = IF from = to THEN f[x]
                                ELSE IF x = from THEN f[x] - d
                                ELSE IF x = to THEN f[x] + d
                                ELSE f[x]

THEOREM BooksMove ==
  ASSUME NEW S, IsFiniteSet(S), NEW f \in [S -> Int], NEW h,
         NEW from \in S, NEW to \in S, NEW d \in Int, Shifted(f, h, from, to, d)
  PROVE  SumFunction(h) = SumFunction(f)
<1>0. /\ DOMAIN h = S
      /\ \A x \in S : h[x] = IF from = to THEN f[x]
                             ELSE IF x = from THEN f[x] - d
                             ELSE IF x = to THEN f[x] + d
                             ELSE f[x]
  BY DEF Shifted
<1>1. CASE from = to
  <2>1. \A x \in S : h[x] = f[x]
    BY <1>0, <1>1
  <2>2. SumFunctionOnSet(f, S) = SumFunctionOnSet(h, S)
    BY <2>1, SumAgree
  <2>3. QED
    BY <1>0, <2>2 DEF SumFunction
<1>2. CASE from # to
  <2> DEFINE mid == [x \in S |-> IF x = from THEN f[x] + (- d) ELSE f[x]]
  <2>1. mid \in [S -> Int] /\ - d \in Int /\ Raised(f, mid, from, - d)
    BY DEF Raised
  <2>2. Raised(mid, h, to, d)
    BY <1>0, <1>2 DEF Raised
  <2> HIDE DEF mid
  <2>3. SumFunction(mid) = SumFunction(f) + (- d)
    BY <2>1, BooksAdd
  <2>4. SumFunction(h) = SumFunction(mid) + d
    BY <2>1, <2>2, BooksAdd
  <2>5. SumFunction(f) \in Int
    BY BooksType
  <2>6. QED
    BY <2>3, <2>4, <2>5
<1>3. QED
  BY <1>1, <1>2


(* The sum of two functions, argument by argument, is the sum of both sums. *)
LEMMA SumBoth ==
  ASSUME NEW S, IsFiniteSet(S), NEW f, NEW h, NEW k,
         \A x \in S : f[x] \in Int /\ h[x] \in Int /\ k[x] = f[x] + h[x]
  PROVE  SumFunctionOnSet(k, S) = SumFunctionOnSet(f, S) + SumFunctionOnSet(h, S)
<1>1. PICK gf : Runs(f, gf, S) /\ SumFunctionOnSet(f, S) = gf[S]
  BY SumRuns
<1>2. PICK gh : Runs(h, gh, S) /\ SumFunctionOnSet(h, S) = gh[S]
  BY SumRuns
<1>3. PICK gk : Runs(k, gk, S) /\ SumFunctionOnSet(k, S) = gk[S]
  BY SumRuns
<1> DEFINE B == { s \in SUBSET S : gk[s] # gf[s] + gh[s] }
<1>4. SUFFICES ASSUME B # {} PROVE FALSE
  BY <1>1, <1>2, <1>3
<1>5. PICK s \in B : \A u \in B : u \subseteq s => u = s
  <2>1. B \in SUBSET SUBSET S
    OBVIOUS
  <2> HIDE DEF B
  <2>2. QED
    BY <1>4, <2>1, Smallest
<1>6. /\ gf[s] = SumStep(f, gf, s) /\ gh[s] = SumStep(h, gh, s) /\ gk[s] = SumStep(k, gk, s)
      /\ s \in SUBSET S /\ gk[s] # gf[s] + gh[s]
  BY <1>1, <1>2, <1>3, <1>5 DEF Runs
<1>7. s # {}
  BY <1>6 DEF SumStep
<1>8. PICK x : x = First(s) /\ x \in s /\ x \in S
  BY <1>6, <1>7, FirstIn
<1>9. PICK r \in SUBSET S : r = s \ {x}
  BY <1>6
<1>10. gk[r] = gf[r] + gh[r]
  BY <1>5, <1>6, <1>8, <1>9
<1>11. gf[r] \in Int /\ gh[r] \in Int
  <2>1. \A y \in S : f[y] \in Int /\ h[y] \in Int
    OBVIOUS
  <2>2. \A u \in SUBSET S : gf[u] \in Int
    BY <1>1, <2>1, RunsType
  <2>3. \A u \in SUBSET S : gh[u] \in Int
    BY <1>2, <2>1, RunsType
  <2>4. QED
    BY <2>2, <2>3
<1>12. gf[s] = f[x] + gf[r] /\ gh[s] = h[x] + gh[r] /\ gk[s] = k[x] + gk[r]
  BY <1>6, <1>7, <1>8, <1>9 DEF SumStep
<1>13. k[x] = f[x] + h[x] /\ f[x] \in Int /\ h[x] \in Int
  BY <1>8
<1>14. QED
  BY <1>6, <1>10, <1>11, <1>12, <1>13

THEOREM BooksBoth ==
  ASSUME NEW S, IsFiniteSet(S), NEW f \in [S -> Int], NEW h \in [S -> Int]
  PROVE  SumFunction([x \in S |-> f[x] + h[x]]) = SumFunction(f) + SumFunction(h)
<1>1. PICK k : k = [x \in S |-> f[x] + h[x]]
  OBVIOUS
<1>2. DOMAIN f = S /\ DOMAIN h = S /\ DOMAIN k = S
  BY <1>1
<1>3. \A x \in S : f[x] \in Int /\ h[x] \in Int /\ k[x] = f[x] + h[x]
  BY <1>1
<1>4. SumFunctionOnSet(k, S) = SumFunctionOnSet(f, S) + SumFunctionOnSet(h, S)
  BY <1>3, SumBoth
<1>5. QED
  BY <1>1, <1>2, <1>4 DEF SumFunction
============================================================================
