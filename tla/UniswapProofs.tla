----------------------------- MODULE UniswapProofs -----------------------------
(***************************************************************************)
(* Proofs about the liquidity pool: shares add up to the supply, asset 1   *)
(* is accounted for, the pool is never half empty, and no call lowers the  *)
(* value of a share.                                                       *)
(***************************************************************************)
EXTENDS Uniswap, Sums, TLAPS

(* Integer arithmetic, as the provers need it: one product at a time.      *)
LEMMA MulLe == \A a, b, c \in Int : a <= b /\ 0 <= c => a * c <= b * c
OBVIOUS

LEMMA MulLt == \A a, b, c \in Int : a < b /\ 0 < c => a * c < b * c
OBVIOUS

LEMMA CancelLe == \A a, b, c \in Int : a * c <= b * c /\ 0 < c => a <= b
OBVIOUS

LEMMA CancelLt == \A a, b, c \in Int : a * c < b * c /\ 0 < c => a < b
OBVIOUS

LEMMA Swap == \A a, b, c \in Int : (a * b) * c = (a * c) * b
OBVIOUS

LEMMA DivBounds ==
  \A n \in Int, d \in Nat \ {0} :
    /\ n \div d \in Int
    /\ (n \div d) * d <= n
    /\ n < (n \div d) * d + d
OBVIOUS

LEMMA DivNat == \A n \in Nat, d \in Nat \ {0} : n \div d \in Nat
OBVIOUS

----------------------------------------------------------------------------
(* Truncating a quotient of safe_numbers never gives more than the exact   *)
(* quotient, and gives the whole part of it.                               *)
LEMMA TruncatedBelow ==
  ASSUME NEW n \in Nat, NEW d \in Nat \ {0}
  PROVE  /\ ToInt(Quotient(n, d)) \in Nat
         /\ ToInt(Quotient(n, d)) * d <= n
<1> DEFINE q == (n * Scale) \div d
           r == q \div Scale
<1>0. Scale \in Nat \ {0}
  BY UniswapAssumption
<1>1. n * Scale \in Int /\ 0 <= n * Scale
  BY <1>0
<1>2. q \in Int /\ q * d <= n * Scale /\ n * Scale < q * d + d
  BY <1>1, DivBounds
<1>3. q \in Nat
  BY <1>1, DivNat
<1> HIDE DEF q
<1>4. r \in Int /\ r * Scale <= q /\ q < r * Scale + Scale
  BY <1>0, <1>2, DivBounds
<1>5. r \in Nat
  BY <1>0, <1>3, DivNat
<1> HIDE DEF r
<1>6. (r * Scale) * d <= q * d
  BY <1>0, <1>2, <1>4, MulLe
<1>7. (r * d) * Scale = (r * Scale) * d
  BY <1>0, <1>4, Swap
<1>8. (r * d) * Scale <= n * Scale
  BY <1>0, <1>2, <1>4, <1>6, <1>7
<1>9. r * d <= n
  <2>1. r * d \in Int
    BY <1>4
  <2>2. QED
    BY <1>0, <1>8, <2>1, CancelLe
<1>10. ToInt(Quotient(n, d)) = r
  BY DEF ToInt, Quotient, r, q
<1>11. QED
  BY <1>4, <1>5, <1>9, <1>10

(* A quotient that has no digits after the point, for a divisor of at most *)
(* Scale, is exact: a truncated one would miss by less than a unit.        *)
LEMMA WholeIsExact ==
  ASSUME NEW n \in Nat, NEW d \in Nat \ {0}, d <= Scale,
         ToInt(Quotient(n, d)) * Scale = Quotient(n, d)
  PROVE  n <= ToInt(Quotient(n, d)) * d
<1> DEFINE q == Quotient(n, d)
           r == ToInt(q)
<1>0. Scale \in Nat \ {0}
  BY UniswapAssumption
<1>1. n * Scale \in Int
  BY <1>0
<1>2. q \in Int /\ n * Scale < q * d + d
  BY <1>1, DivBounds DEF Quotient
<1>3. r \in Int /\ q = r * Scale
  BY TruncatedBelow
<1> HIDE DEF q, r
<1>4. (r * Scale) * d = (r * d) * Scale
  BY <1>0, <1>3, Swap
<1>5. n * Scale < (r * d) * Scale + Scale
  BY <1>0, <1>1, <1>2, <1>3, <1>4
<1>6. (r * d) * Scale + Scale = (r * d + 1) * Scale
  BY <1>0, <1>3
<1>7. n < r * d + 1
  <2>1. r * d + 1 \in Int
    BY <1>3
  <2>2. n * Scale < (r * d + 1) * Scale
    BY <1>5, <1>6
  <2>3. QED
    BY <1>0, <2>1, <2>2, CancelLt
<1>8. n <= r * d
  BY <1>3, <1>7
<1>9. QED
  BY <1>8 DEF q, r

(* Otherwise one unit more than the whole part is above the quotient.      *)
LEMMA NextIsAbove ==
  ASSUME NEW n \in Nat, NEW d \in Nat \ {0}
  PROVE  n <= (ToInt(Quotient(n, d)) + 1) * d
<1> DEFINE q == Quotient(n, d)
           r == ToInt(q)
<1>0. Scale \in Nat \ {0}
  BY UniswapAssumption
<1>1. n * Scale \in Int
  BY <1>0
<1>2. q \in Int /\ n * Scale < q * d + d
  BY <1>1, DivBounds DEF Quotient
<1> HIDE DEF q
<1>3. r \in Int /\ q < r * Scale + Scale
  BY <1>0, <1>2, DivBounds DEF ToInt
<1> HIDE DEF r
<1>4. q + 1 <= (r + 1) * Scale
  <2>1. (r + 1) * Scale = r * Scale + Scale
    BY <1>0, <1>3
  <2>2. r * Scale \in Int
    BY <1>0, <1>3
  <2>3. QED
    BY <1>0, <1>2, <1>3, <2>1, <2>2
<1>5. (q + 1) * d <= ((r + 1) * Scale) * d
  <2>1. (r + 1) * Scale \in Int /\ q + 1 \in Int
    BY <1>0, <1>2, <1>3
  <2>2. QED
    BY <1>4, <2>1, MulLe
<1>6. (q + 1) * d = q * d + d
  BY <1>2
<1>7. ((r + 1) * Scale) * d = ((r + 1) * d) * Scale
  BY <1>0, <1>3, Swap
<1>8. n * Scale <= ((r + 1) * d) * Scale
  <2>1. (q + 1) * d \in Int /\ ((r + 1) * d) * Scale \in Int
    BY <1>0, <1>2, <1>3
  <2>2. QED
    BY <1>1, <1>2, <1>5, <1>6, <1>7, <2>1
<1>9. n <= (r + 1) * d
  <2>1. (r + 1) * d \in Int
    BY <1>3
  <2>2. QED
    BY <1>0, <1>8, <2>1, CancelLe
<1>10. QED
  BY <1>9 DEF r, q

(* What a removal gives back is at most the tokens' part of the pool.      *)
LEMMA PartOfPool ==
  ASSUME NEW t \in Nat, NEW d \in Nat \ {0}, NEW p \in Nat
  PROVE  /\ ToInt(Quotient(t, d) * p) \in Nat
         /\ ToInt(Quotient(t, d) * p) * d <= t * p
<1> DEFINE q == Quotient(t, d)
           b == ToInt(q * p)
<1>0. Scale \in Nat \ {0}
  BY UniswapAssumption
<1>1. t * Scale \in Nat /\ t * Scale \in Int
  BY <1>0
<1>2. q \in Nat /\ q * d <= t * Scale
  BY <1>1, DivBounds, DivNat DEF Quotient
<1> HIDE DEF q
<1>3. q * p \in Nat /\ q * p \in Int
  BY <1>2
<1>4. b \in Nat /\ b * Scale <= q * p
  BY <1>0, <1>3, DivBounds, DivNat DEF ToInt
<1> HIDE DEF b
<1>5. (b * Scale) * d <= (q * p) * d
  <2>1. b * Scale \in Int
    BY <1>0, <1>4
  <2>2. QED
    BY <1>3, <1>4, <2>1, MulLe
<1>6. (q * p) * d = (q * d) * p /\ (b * Scale) * d = (b * d) * Scale
  BY <1>0, <1>2, <1>4, Swap
<1>7. (q * d) * p <= (t * Scale) * p
  <2>1. q * d \in Int
    BY <1>2
  <2>2. QED
    BY <1>1, <1>2, <2>1, MulLe
<1>8. (t * Scale) * p = (t * p) * Scale
  BY <1>0, Swap
<1>9. (b * d) * Scale <= (t * p) * Scale
  <2>1. (b * d) * Scale \in Int /\ (q * p) * d \in Int /\ (t * p) * Scale \in Int
    BY <1>0, <1>3, <1>4
  <2>2. QED
    BY <1>5, <1>6, <1>7, <1>8, <2>1
<1>10. b * d <= t * p
  <2>1. b * d \in Int /\ t * p \in Int
    BY <1>4
  <2>2. QED
    BY <1>0, <1>9, <2>1, CancelLe
<1>11. QED
  BY <1>4, <1>10 DEF b, q

----------------------------------------------------------------------------
(* Types of what the proofs talk about.                                    *)
SwapTypes ==
  /\ state \in {"none", "NOT_INITED", "COMMON"}
  /\ supply \in Int
  /\ users \in [Users -> Int \cup {Null}]
  /\ pool \in [Assets -> Nat]
  /\ bal \in [Users -> [Assets -> Int \cup {Null}]]
  /\ held \in [Assets -> Int]
  /\ feeRate \in 0 .. (Scale - 1)

(* The shares of all users.                                                *)
Shares == [u \in Users |-> Token!BalanceOf(u)]

SwapInv ==
  /\ SwapTypes
  /\ Shares \in [Users -> Nat]
  /\ SumFunction(Shares) = supply
  /\ Unified(pool, supply)
  /\ Accounted(1)
  /\ state = "none" => supply = 0

(* Nobody holds more shares than there are.                                *)
LEMMA SharesWithinSupply ==
  ASSUME SwapInv
  PROVE  supply \in Nat /\ \A u \in Users : Token!BalanceOf(u) \in Nat /\ Token!BalanceOf(u) <= supply
<1>1. \A u \in Users : SumFunction(Shares) \in Nat /\ Shares[u] <= SumFunction(Shares)
  BY UniswapAssumption, BooksMember DEF SwapInv
<1>2. \A u \in Users : Shares[u] = Token!BalanceOf(u) /\ Shares[u] \in Nat
  BY DEF Shares, SwapInv
<1>3. Creator \in Users
  BY UniswapAssumption
<1>4. QED
  BY <1>1, <1>2, <1>3 DEF SwapInv

(* Giving or taking tokens of one user.                                    *)
LEMMA WithTokensShares ==
  ASSUME SwapInv, NEW user \in Users, NEW delta \in Int, Token!BalanceOf(user) + delta >= 0,
         users' = WithTokens(user, delta)
  PROVE  /\ users' \in [Users -> Int \cup {Null}]
         /\ Shares' \in [Users -> Nat]
         /\ SumFunction(Shares') = supply + delta
<1>1. users \in [Users -> Int \cup {Null}] /\ Token!BalanceOf(user) \in Int
  BY SharesWithinSupply DEF SwapInv, SwapTypes
<1>2. users' = [users EXCEPT ![user] = Token!BalanceOf(user) + delta]
  BY DEF WithTokens
<1>3. Token!BalanceOf(user) + delta \in Nat
  BY <1>1
<1>4. /\ users'[user] = Token!BalanceOf(user) + delta
      /\ \A u \in Users \ {user} : users'[u] = users[u]
      /\ users' \in [Users -> Int \cup {Null}]
  BY <1>1, <1>2, <1>3
<1>5. /\ Shares'[user] = Shares[user] + delta
      /\ \A u \in Users \ {user} : Shares'[u] = Shares[u]
      /\ DOMAIN Shares' = Users /\ DOMAIN Shares = Users
  BY <1>3, <1>4 DEF Shares, Token!BalanceOf, Token!AsBalance
<1>6. Shares' \in [Users -> Nat]
  <2>1. \A u \in Users : Shares'[u] \in Nat
    <3>1. Shares'[user] \in Nat
      BY <1>3, <1>4 DEF Shares, Token!BalanceOf, Token!AsBalance
    <3>2. \A u \in Users \ {user} : Shares'[u] \in Nat
      BY <1>5 DEF SwapInv
    <3>3. QED
      BY <3>1, <3>2
  <2>2. Shares' = [u \in Users |-> Shares'[u]]
    BY DEF Shares
  <2>3. QED
    BY <2>1, <2>2
<1>7. SumFunction(Shares') = SumFunction(Shares) + delta
  <2> DEFINE f == Shares
             h == Shares'
  <2>1. f \in [Users -> Int] /\ IsFiniteSet(Users)
    BY UniswapAssumption DEF SwapInv
  <2>2. Raised(f, h, user, delta)
    BY <1>5 DEF Raised
  <2> HIDE DEF f, h
  <2>3. SumFunction(h) = SumFunction(f) + delta
    BY <2>1, <2>2, BooksAdd
  <2>4. QED
    BY <2>3 DEF f, h
<1>8. QED
  BY <1>4, <1>6, <1>7 DEF SwapInv

(* A transfer of tokens between users.                                     *)
LEMMA MovedShares ==
  ASSUME SwapInv, NEW from \in Users, NEW to \in Users, NEW amount \in Int,
         amount > 0, Token!BalanceOf(from) >= amount, users' = Token!Moved(from, to, amount)
  PROVE  /\ users' \in [Users -> Int \cup {Null}]
         /\ Shares' \in [Users -> Nat]
         /\ SumFunction(Shares') = supply
<1> DEFINE remain  == Token!BalanceOf(from) - amount
           debited == [users EXCEPT ![from] = IF remain > 0 THEN remain ELSE Null]
<1>1. users \in [Users -> Int \cup {Null}] /\ Null \notin Int
  BY UniswapAssumption DEF SwapInv, SwapTypes
<1>2. \A u \in Users : Token!BalanceOf(u) \in Nat
  BY SharesWithinSupply
<1>3. remain \in Nat
  BY <1>2
<1>4. /\ debited \in [Users -> Int \cup {Null}]
      /\ Token!AsBalance(debited[from]) = remain
      /\ \A u \in Users \ {from} : debited[u] = users[u]
  BY <1>1, <1>3 DEF Token!AsBalance
<1>5. users' = [debited EXCEPT ![to] = Token!AsBalance(debited[to]) + amount]
  BY DEF Token!Moved
<1> HIDE DEF debited, remain
<1>6. Token!AsBalance(debited[to]) = IF from = to THEN remain ELSE Token!BalanceOf(to)
  BY <1>4 DEF Token!AsBalance, Token!BalanceOf
<1>7. Token!AsBalance(debited[to]) + amount \in Nat
  BY <1>2, <1>3, <1>6
<1>8. /\ users' \in [Users -> Int \cup {Null}]
      /\ users'[to] = Token!AsBalance(debited[to]) + amount
      /\ \A u \in Users \ {to} : users'[u] = debited[u]
  BY <1>4, <1>5, <1>7
<1>9. \A u \in Users :
        Token!AsBalance(users'[u]) = IF from = to THEN Token!BalanceOf(u)
                                     ELSE IF u = from THEN Token!BalanceOf(u) - amount
                                     ELSE IF u = to THEN Token!BalanceOf(u) + amount
                                     ELSE Token!BalanceOf(u)
  <2> SUFFICES ASSUME NEW u \in Users
               PROVE  Token!AsBalance(users'[u]) =
                        IF from = to THEN Token!BalanceOf(u)
                        ELSE IF u = from THEN Token!BalanceOf(u) - amount
                        ELSE IF u = to THEN Token!BalanceOf(u) + amount
                        ELSE Token!BalanceOf(u)
    OBVIOUS
  <2>1. CASE u = to
    <3>1. Token!AsBalance(users'[u]) = Token!AsBalance(debited[to]) + amount
      BY <1>7, <1>8, <2>1 DEF Token!AsBalance
    <3>2. QED
      BY <1>2, <1>6, <2>1, <3>1 DEF remain
  <2>2. CASE u # to /\ u = from
    <3>1. Token!AsBalance(users'[u]) = remain
      BY <1>4, <1>8, <2>2
    <3>2. QED
      BY <2>2, <3>1 DEF remain
  <2>3. CASE u # to /\ u # from
    BY <1>4, <1>8, <2>3 DEF Token!BalanceOf
  <2>4. QED
    BY <2>1, <2>2, <2>3
<1>10. /\ DOMAIN Shares = Users /\ DOMAIN Shares' = Users
       /\ \A u \in Users : Shares'[u] = IF from = to THEN Shares[u]
                                        ELSE IF u = from THEN Shares[u] - amount
                                        ELSE IF u = to THEN Shares[u] + amount
                                        ELSE Shares[u]
  BY <1>9 DEF Shares, Token!BalanceOf
<1>11. Shares' \in [Users -> Nat]
  <2>1. \A u \in Users : Shares[u] = Token!BalanceOf(u)
    BY DEF Shares
  <2>2. \A u \in Users : Shares'[u] \in Nat
    BY <1>2, <1>10, <2>1
  <2>3. Shares' = [u \in Users |-> Shares'[u]]
    BY DEF Shares
  <2>4. QED
    BY <2>2, <2>3
<1>12. SumFunction(Shares') = SumFunction(Shares)
  <2> DEFINE f == Shares
             h == Shares'
  <2>1. f \in [Users -> Int] /\ IsFiniteSet(Users)
    BY UniswapAssumption DEF SwapInv
  <2>2. Shifted(f, h, from, to, amount)
    BY <1>10 DEF Shifted
  <2> HIDE DEF f, h
  <2>3. SumFunction(h) = SumFunction(f)
    BY <2>1, <2>2, BooksMove
  <2>4. QED
    BY <2>3 DEF f, h
<1>13. QED
  BY <1>8, <1>11, <1>12 DEF SwapInv

(* What a user's book of asset 1 gains or loses, the books add up to.      *)
LEMMA BookChanged ==
  ASSUME SwapInv, bal' \in [Users -> [Assets -> Int \cup {Null}]],
         NEW user \in Users, NEW d \in Int,
         AsBalance(bal'[user][1]) = AsBalance(bal[user][1]) + d,
         \A u \in Users \ {user} : bal'[u][1] = bal[u][1]
  PROVE  SumFunction(Book(1)') = SumFunction(Book(1)) + d
<1> DEFINE f == Book(1)
           h == Book(1)'
<1>1. f = [u \in Users |-> AsBalance(bal[u][1])] /\ h = [u \in Users |-> AsBalance(bal'[u][1])]
  BY DEF Book
<1>2. \A u \in Users : AsBalance(bal[u][1]) \in Int
  BY DEF AsBalance, Token!AsBalance
<1>3. f \in [Users -> Int]
  BY <1>1, <1>2
<1>4. Raised(f, h, user, d)
  BY <1>1 DEF Raised
<1>5. IsFiniteSet(Users)
  BY UniswapAssumption
<1> HIDE DEF f, h
<1>6. SumFunction(h) = SumFunction(f) + d
  BY <1>3, <1>4, <1>5, BooksAdd
<1>7. QED
  BY <1>6 DEF f, h

LEMMA BookSumType == SwapInv => SumFunction(Book(1)) \in Int
<1>1. \A u \in Users : AsBalance(bal[u][1]) \in Int
  BY DEF AsBalance, Token!AsBalance
<1>2. Book(1) \in [Users -> Int]
  BY <1>1 DEF Book
<1>3. QED
  BY <1>2, UniswapAssumption, BooksType

(* Steps that leave shares, pool and books alone.                          *)
LEMMA QuietSteps ==
  ASSUME SwapInv, UNCHANGED <<supply, users, pool, bal, held>>,
         state' \in {"none", "NOT_INITED", "COMMON"}, feeRate' \in 0 .. (Scale - 1),
         state' = "none" => state = "none"
  PROVE  SwapInv'
<1>1. SwapTypes'
  BY DEF SwapInv, SwapTypes
<1>2. Shares' = Shares /\ Book(1)' = Book(1)
  BY DEF Shares, Token!BalanceOf, Book
<1>3. Accounted(1)'
  BY <1>2 DEF SwapInv, Accounted
<1>4. QED
  BY <1>1, <1>2, <1>3 DEF SwapInv, Unified

LEMMA TokenCallKeeps ==
  ASSUME SwapInv, TokenCall
  PROVE  SwapInv'
<1>0. Amounts \subseteq Int /\ UNCHANGED swapVars
  BY UniswapAssumption DEF TokenCall
<1>1. UNCHANGED <<feeRate, pool, bal, held>>
  BY <1>0 DEF swapVars
<1>2. ASSUME NEW from \in Users, NEW to \in Users, NEW amount \in Amounts, amount > 0,
             Token!BalanceOf(from) >= amount, users' = Token!Moved(from, to, amount),
             UNCHANGED <<state, supply>>
      PROVE  SwapInv'
  <2>1. /\ users' \in [Users -> Int \cup {Null}]
        /\ Shares' \in [Users -> Nat]
        /\ SumFunction(Shares') = supply
    BY <1>0, <1>2, MovedShares
  <2>2. SwapTypes'
    BY <1>1, <1>2, <2>1 DEF SwapInv, SwapTypes
  <2>3. Accounted(1)' /\ Unified(pool, supply)'
    BY <1>1, <1>2 DEF SwapInv, Accounted, Book, Unified
  <2>4. QED
    BY <1>2, <2>1, <2>2, <2>3 DEF SwapInv
<1>3. PICK caller \in Users, user \in Users, amount \in Amounts :
        \/ Token!Transfer(caller, user, amount)
        \/ Token!Approve(caller, user, amount)
        \/ \E to \in Users : Token!TransferFrom(caller, user, to, amount)
  BY DEF TokenCall
<1>4. CASE Token!Transfer(caller, user, amount)
  BY <1>2, <1>4 DEF Token!Transfer
<1>5. CASE Token!Approve(caller, user, amount)
  <2>1. UNCHANGED <<state, supply, users>>
    BY <1>5 DEF Token!Approve
  <2>2. QED
    BY <1>1, <2>1, QuietSteps DEF SwapInv, SwapTypes
<1>6. CASE \E to \in Users : Token!TransferFrom(caller, user, to, amount)
  BY <1>2, <1>6 DEF Token!TransferFrom
<1>7. QED
  BY <1>3, <1>4, <1>5, <1>6

LEMMA DepositKeeps ==
  ASSUME SwapInv, NEW d \in Deposits, Deposit(d.user, d.asset, d.amount)
  PROVE  SwapInv'
<1> DEFINE u == d.user
           s == d.asset
           n == d.amount
<1>1. u \in Users /\ s \in Assets /\ n \in Int
  BY UniswapAssumption
<1>2. /\ bal'  = [bal EXCEPT ![u][s] = AsBalance(@) + n]
      /\ held' = [held EXCEPT ![s] = @ + n]
      /\ UNCHANGED <<state, supply, users, feeRate, pool>>
  BY DEF Deposit
<1> HIDE DEF u, s, n
<1>3. \A v \in Int \cup {Null} : AsBalance(v) \in Int
  BY DEF AsBalance, Token!AsBalance
<1>4. bal \in [Users -> [Assets -> Int \cup {Null}]] /\ held \in [Assets -> Int] /\ pool \in [Assets -> Nat]
  BY DEF SwapInv, SwapTypes
<1>5. bal[u][s] \in Int \cup {Null}
  BY <1>1, <1>4
<1>6. AsBalance(bal[u][s]) + n \in Int
  <2>1. AsBalance(bal[u][s]) \in Int
    BY <1>3, <1>5, Zenon
  <2>2. QED
    BY <1>1, <2>1
<1>7. bal' \in [Users -> [Assets -> Int \cup {Null}]] /\ held' \in [Assets -> Int]
  BY <1>1, <1>2, <1>4, <1>6
<1>8. 1 \in Assets
  BY DEF Assets
<1>9. Accounted(1)'
  <2>1. SumFunction(Book(1)) \in Int
    BY BookSumType
  <2>2. held[1] = pool[1] + SumFunction(Book(1)) /\ pool[1] \in Int /\ held[1] \in Int
    BY <1>4, <1>8 DEF SwapInv, Accounted
  <2>3. CASE s = 1
    <3>1. AsBalance(bal'[u][1]) = AsBalance(bal[u][1]) + n
      <4>1. bal'[u][1] = AsBalance(bal[u][1]) + n
        BY <1>1, <1>2, <1>4, <2>3
      <4>2. QED
        BY <1>6, <2>3, <4>1 DEF AsBalance, Token!AsBalance
    <3>2. \A w \in Users \ {u} : bal'[w][1] = bal[w][1]
      BY <1>2, <1>4
    <3>3. SumFunction(Book(1)') = SumFunction(Book(1)) + n
      BY <1>1, <1>7, <3>1, <3>2, BookChanged
    <3>4. held'[1] = held[1] + n
      BY <1>2, <1>4, <2>3, <1>8
    <3>5. QED
      BY <1>1, <1>2, <2>1, <2>2, <3>3, <3>4 DEF Accounted
  <2>4. CASE s # 1
    <3>1. held'[1] = held[1] /\ \A w \in Users : bal'[w][1] = bal[w][1]
      BY <1>2, <1>4, <1>8, <2>4
    <3>2. Book(1)' = Book(1)
      BY <3>1 DEF Book
    <3>3. QED
      BY <1>2, <2>2, <3>1, <3>2 DEF Accounted
  <2>5. QED
    BY <2>3, <2>4
<1>10. Shares' = Shares
  BY <1>2 DEF Shares, Token!BalanceOf
<1>11. SwapTypes' /\ Unified(pool, supply)'
  BY <1>2, <1>7 DEF SwapInv, SwapTypes, Unified
<1>12. QED
  BY <1>2, <1>9, <1>10, <1>11 DEF SwapInv

LEMMA WithdrawKeeps ==
  ASSUME SwapInv, NEW u \in Users, NEW s \in Assets, NEW n \in AssetAmounts, Withdraw(u, s, n)
  PROVE  SwapInv'
<1>1. n \in Int /\ Null \notin Int /\ 1 \in Assets
  BY UniswapAssumption DEF Assets
<1>2. /\ bal[u][s] # Null /\ n <= bal[u][s]
      /\ bal'  = [bal EXCEPT ![u][s] = IF @ = n THEN Null ELSE @ - n]
      /\ held' = [held EXCEPT ![s] = @ - n]
      /\ UNCHANGED <<state, supply, users, feeRate, pool>>
  BY DEF Withdraw
<1>3. bal \in [Users -> [Assets -> Int \cup {Null}]] /\ held \in [Assets -> Int] /\ pool \in [Assets -> Nat]
  BY DEF SwapInv, SwapTypes
<1>4. bal[u][s] \in Int
  BY <1>2, <1>3
<1> DEFINE v == IF bal[u][s] = n THEN Null ELSE bal[u][s] - n
<1>5. v \in Int \cup {Null} /\ AsBalance(v) = AsBalance(bal[u][s]) + (- n)
  BY <1>1, <1>4 DEF AsBalance, Token!AsBalance
<1>6. bal' = [bal EXCEPT ![u][s] = v]
  BY <1>2, <1>3
<1> HIDE DEF v
<1>7. bal' \in [Users -> [Assets -> Int \cup {Null}]] /\ held' \in [Assets -> Int]
  BY <1>1, <1>2, <1>3, <1>5, <1>6
<1>8. Accounted(1)'
  <2>1. SumFunction(Book(1)) \in Int
    BY BookSumType
  <2>2. held[1] = pool[1] + SumFunction(Book(1)) /\ pool[1] \in Int /\ held[1] \in Int
    BY <1>1, <1>3 DEF SwapInv, Accounted
  <2>3. CASE s = 1
    <3>1. AsBalance(bal'[u][1]) = AsBalance(bal[u][1]) + (- n)
      BY <1>3, <1>5, <1>6, <2>3
    <3>2. \A w \in Users \ {u} : bal'[w][1] = bal[w][1]
      BY <1>3, <1>6
    <3>3. - n \in Int
      BY <1>1
    <3>4. SumFunction(Book(1)') = SumFunction(Book(1)) + (- n)
      BY <1>7, <3>1, <3>2, <3>3, BookChanged
    <3>5. held'[1] = held[1] - n
      BY <1>1, <1>2, <1>3, <2>3
    <3>6. QED
      BY <1>1, <1>2, <2>1, <2>2, <3>4, <3>5 DEF Accounted
  <2>4. CASE s # 1
    <3>1. held'[1] = held[1] /\ \A w \in Users : bal'[w][1] = bal[w][1]
      BY <1>1, <1>2, <1>3, <1>6, <2>4
    <3>2. Book(1)' = Book(1)
      BY <3>1 DEF Book
    <3>3. QED
      BY <1>2, <2>2, <3>1, <3>2 DEF Accounted
  <2>5. QED
    BY <2>3, <2>4
<1>9. Shares' = Shares
  BY <1>2 DEF Shares, Token!BalanceOf
<1>10. SwapTypes' /\ Unified(pool, supply)'
  BY <1>2, <1>7 DEF SwapInv, SwapTypes, Unified
<1>11. QED
  BY <1>2, <1>8, <1>9, <1>10 DEF SwapInv

(* The fee of an exchange is at least one unit.                            *)
LEMMA FeeType ==
  ASSUME NEW n \in Int, n > 0, feeRate \in 0 .. (Scale - 1)
  PROVE  FeeOf(n) \in Int /\ FeeOf(n) >= 1
<1>0. Scale \in Nat \ {0} /\ feeRate \in Int
  BY UniswapAssumption
<1>1. n * feeRate \in Int
  BY <1>0
<1>2. n * feeRate + Scale - 1 \in Int
  BY <1>0, <1>1
<1>3. (n * feeRate + Scale - 1) \div Scale \in Int
  BY <1>0, <1>2
<1>4. QED
  BY <1>3 DEF FeeOf

(* The two pools after an exchange, and what it pays out.                  *)
Gets(n, s) == GetInputPrice(n - FeeOf(n), pool[s], pool[Other(s)])

LEMMA ExchangeStep ==
  ASSUME SwapInv, NEW d \in Deposits, NEW want \in AssetAmounts, NEW expiry \in Expiries,
         Exchange(d.user, d.asset, d.amount, want, expiry)
  PROVE  LET s   == d.asset
             n   == d.amount
             get == Gets(n, s)
         IN  /\ s \in Assets /\ Other(s) \in Assets /\ Other(s) # s
             /\ n \in Int /\ n > FeeOf(n) /\ FeeOf(n) \in Int /\ FeeOf(n) >= 1
             /\ get \in Int /\ get > 0
             /\ get * (pool[s] + (n - FeeOf(n))) <= (n - FeeOf(n)) * pool[Other(s)]
             /\ pool[s] \in Int /\ pool[s] > 0 /\ pool[Other(s)] \in Int /\ pool[Other(s)] > get
             /\ pool' \in [Assets -> Nat]
             /\ pool'[s] = pool[s] + n /\ pool'[Other(s)] = pool[Other(s)] - get
             /\ pool'[s] > 0 /\ pool'[Other(s)] > 0
             /\ held' \in [Assets -> Int]
             /\ held'[s] = held[s] + n /\ held'[Other(s)] = held[Other(s)] - get
             /\ UNCHANGED <<state, supply, users, feeRate, bal>>
<1> DEFINE s   == d.asset
           n   == d.amount
           fee == FeeOf(n)
           get == Gets(n, s)
           o   == Other(s)
           next == [pool EXCEPT ![s] = @ + n, ![o] = @ - get]
<1>1. s \in Assets /\ n \in Int
  BY UniswapAssumption
<1>2. o \in Assets /\ o # s
  BY <1>1 DEF Assets, Other
<1>3. pool \in [Assets -> Nat] /\ held \in [Assets -> Int] /\ feeRate \in 0 .. (Scale - 1)
  BY DEF SwapInv, SwapTypes
<1>4. /\ n > 0 /\ n > fee /\ \A x \in Assets : pool[x] > 0 /\ next[x] > 0
      /\ get > 0
      /\ pool' = next
      /\ held' = [held EXCEPT ![s] = @ + n, ![o] = @ - get]
      /\ UNCHANGED <<state, supply, users, feeRate, bal>>
  BY DEF Exchange, Gets
<1>5. fee \in Int /\ fee >= 1
  BY <1>1, <1>3, <1>4, FeeType
<1> DEFINE m == n - fee
<1> HIDE DEF fee
<1>6. m \in Nat /\ pool[s] \in Nat /\ pool[o] \in Nat
  BY <1>1, <1>2, <1>3, <1>4, <1>5
<1>7. m * pool[o] \in Nat /\ pool[s] + m \in Nat \ {0}
  BY <1>1, <1>2, <1>3, <1>4, <1>6
<1>8. get = ToInt(Quotient(m * pool[o], pool[s] + m))
  BY DEF Gets, GetInputPrice, fee
<1> HIDE DEF get, m
<1>9. get \in Nat /\ get * (pool[s] + m) <= m * pool[o]
  BY <1>7, <1>8, TruncatedBelow
<1>10. /\ next[s] = pool[s] + n /\ next[o] = pool[o] - get
       /\ DOMAIN next = Assets
  BY <1>2, <1>1, <1>3
<1>11. pool'[s] = pool[s] + n /\ pool'[o] = pool[o] - get /\ pool'[s] > 0 /\ pool'[o] > 0
  BY <1>1, <1>2, <1>4, <1>10
<1>12. pool' \in [Assets -> Nat]
  <2>1. \A x \in Assets : x = s \/ x = o
    BY <1>1, <1>2 DEF Assets
  <2>2. pool'[s] \in Nat /\ pool'[o] \in Nat
    BY <1>1, <1>6, <1>9, <1>11
  <2>3. \A x \in Assets : pool'[x] \in Nat
    BY <2>1, <2>2
  <2>4. pool' = [x \in Assets |-> pool'[x]]
    BY <1>3, <1>4
  <2>5. QED
    BY <2>3, <2>4
<1>13. held' \in [Assets -> Int] /\ held'[s] = held[s] + n /\ held'[o] = held[o] - get
  BY <1>1, <1>2, <1>3, <1>4, <1>9
<1>14. pool[o] > get
  BY <1>6, <1>9, <1>11
<1>15. /\ s \in Assets /\ o \in Assets /\ o # s
       /\ n \in Int /\ n > fee /\ fee \in Int /\ fee >= 1
       /\ get \in Int /\ get > 0
       /\ get * (pool[s] + (n - fee)) <= (n - fee) * pool[o]
       /\ pool[s] \in Int /\ pool[s] > 0 /\ pool[o] \in Int /\ pool[o] > get
  BY <1>1, <1>2, <1>4, <1>5, <1>6, <1>9, <1>14 DEF m
<1>16. QED
  BY <1>4, <1>11, <1>12, <1>13, <1>15 DEF get, fee

LEMMA ExchangeKeeps ==
  ASSUME SwapInv, NEW d \in Deposits, NEW want \in AssetAmounts, NEW expiry \in Expiries,
         Exchange(d.user, d.asset, d.amount, want, expiry)
  PROVE  SwapInv'
<1> DEFINE s   == d.asset
           n   == d.amount
           get == Gets(n, s)
           o   == Other(s)
<1>1. /\ s \in Assets /\ o \in Assets /\ o # s /\ n \in Int /\ get \in Int
      /\ pool[s] > 0 /\ pool[o] > get /\ get > 0
      /\ pool' \in [Assets -> Nat]
      /\ pool'[s] = pool[s] + n /\ pool'[o] = pool[o] - get
      /\ pool'[s] > 0 /\ pool'[o] > 0
      /\ held' \in [Assets -> Int]
      /\ held'[s] = held[s] + n /\ held'[o] = held[o] - get
      /\ UNCHANGED <<state, supply, users, feeRate, bal>>
  BY ExchangeStep
<1> HIDE DEF s, n, get, o
<1>2. SwapTypes'
  BY <1>1 DEF SwapInv, SwapTypes
<1>3. Assets = {1, 2} /\ ((s = 1 /\ o = 2) \/ (s = 2 /\ o = 1))
  BY <1>1 DEF Assets
<1>4. pool \in [Assets -> Nat] /\ held \in [Assets -> Int]
  BY DEF SwapInv, SwapTypes
<1>5. Unified(pool, supply)'
  <2>1. pool[1] # 0 \/ pool[2] # 0
    BY <1>1, <1>3, <1>4
  <2>2. supply # 0
    BY <2>1 DEF SwapInv, Unified
  <2>3. QED
    BY <1>1, <1>3, <2>2 DEF Unified
<1>6. Accounted(1)'
  <2>1. Book(1)' = Book(1) /\ SumFunction(Book(1)) \in Int
    BY <1>1, BookSumType DEF Book
  <2>2. held[1] = pool[1] + SumFunction(Book(1)) /\ pool[1] \in Int
    BY <1>3, <1>4 DEF SwapInv, Accounted
  <2>3. held'[1] = pool'[1] + SumFunction(Book(1))
    BY <1>1, <1>3, <2>1, <2>2
  <2>4. QED
    BY <2>1, <2>3 DEF Accounted
<1>7. Shares' = Shares
  BY <1>1 DEF Shares, Token!BalanceOf
<1>8. QED
  BY <1>1, <1>2, <1>5, <1>6, <1>7 DEF SwapInv

(* What an addition takes and mints.                                       *)
Adds(u, x, y, t) ==
  /\ x \in Nat \ {0} /\ y \in Nat /\ t \in Nat \ {0}
  /\ supply = 0 => y # 0
  /\ supply > 0 => /\ pool[1] > 0 /\ pool[2] > 0
                   /\ t * pool[1] <= x * supply
                   /\ pool[1] <= Scale => x * pool[2] <= y * pool[1]
  /\ bal[u][1] \in Int /\ bal[u][2] \in Int
  /\ bal'  = [bal EXCEPT ![u][1] = @ - x, ![u][2] = @ - y]
  /\ pool' = [pool EXCEPT ![1] = @ + x, ![2] = @ + y]
  /\ supply' = supply + t /\ users' = WithTokens(u, t)
  /\ UNCHANGED <<state, feeRate, held>>

LEMMA AddStep ==
  ASSUME SwapInv, NEW u \in Users, NEW x \in AssetAmounts, NEW most \in AssetAmounts,
         NEW expiry \in Expiries, AddLiquidity(u, x, most, expiry)
  PROVE  Adds(u, x, Asset2For(x, most), TokensFor(x))
<1> DEFINE y == Asset2For(x, most)
           t == TokensFor(x)
<1>1. x \in Nat \ {0} /\ most \in Nat \ {0}
  BY UniswapAssumption DEF AddLiquidity
<1>2. supply \in Nat
  BY SharesWithinSupply
<1>3. 1 \in Assets /\ 2 \in Assets /\ pool[1] \in Nat /\ pool[2] \in Nat
  BY DEF Assets, SwapInv, SwapTypes
<1>4. /\ \A s \in Assets : bal[u][s] # Null
      /\ t > 0
      /\ bal'  = [bal EXCEPT ![u][1] = @ - x, ![u][2] = @ - y]
      /\ pool' = [pool EXCEPT ![1] = @ + x, ![2] = @ + y]
      /\ supply' = supply + t /\ users' = WithTokens(u, t)
      /\ UNCHANGED <<state, feeRate, held>>
  BY DEF AddLiquidity
<1>5. bal[u][1] \in Int /\ bal[u][2] \in Int
  BY <1>3, <1>4 DEF SwapInv, SwapTypes
<1>6. CASE supply = 0
  <2>1. pool[1] = 0
    BY <1>6 DEF SwapInv, Unified
  <2>2. y = most
    BY <2>1 DEF Asset2For
  <2>3. t = x * MintFactor /\ MintFactor \in Nat
    BY <1>6, UniswapAssumption DEF TokensFor
  <2>4. t \in Nat
    BY <1>1, <2>3
  <2>5. QED
    BY <1>1, <1>4, <1>5, <1>6, <2>2, <2>4 DEF Adds
<1>7. CASE supply # 0
  <2>1. pool[1] \in Nat \ {0} /\ pool[2] \in Nat \ {0} /\ supply > 0
    BY <1>2, <1>3, <1>7 DEF SwapInv, Unified
  <2>2. x * supply \in Nat /\ x * pool[2] \in Nat
    BY <1>1, <1>2, <2>1
  <2>3. t = ToInt(Quotient(x * supply, pool[1]))
    BY <1>7 DEF TokensFor
  <2>4. t \in Nat /\ t * pool[1] <= x * supply
    BY <2>1, <2>2, <2>3, TruncatedBelow
  <2> DEFINE r == ToInt(Quotient(x * pool[2], pool[1]))
  <2>5. r \in Nat
    BY <2>1, <2>2, TruncatedBelow
  <2>6. y = IF r * Scale = Quotient(x * pool[2], pool[1]) THEN r ELSE r + 1
    BY <2>1 DEF Asset2For
  <2>7. y \in Nat
    BY <2>5, <2>6
  <2>8. ASSUME pool[1] <= Scale
        PROVE  x * pool[2] <= y * pool[1]
    <3>1. CASE r * Scale = Quotient(x * pool[2], pool[1])
      <4>1. x * pool[2] <= r * pool[1]
        BY <2>1, <2>2, <2>8, <3>1, WholeIsExact
      <4>2. QED
        BY <2>6, <3>1, <4>1
    <3>2. CASE r * Scale # Quotient(x * pool[2], pool[1])
      <4>1. x * pool[2] <= (r + 1) * pool[1]
        BY <2>1, <2>2, NextIsAbove
      <4>2. QED
        BY <2>6, <3>2, <4>1
    <3>3. QED
      BY <3>1, <3>2
  <2> HIDE DEF y, t, r
  <2>9. /\ x \in Nat \ {0} /\ y \in Nat /\ t \in Nat \ {0}
        /\ supply = 0 => y # 0
        /\ supply > 0 => /\ pool[1] > 0 /\ pool[2] > 0
                         /\ t * pool[1] <= x * supply
                         /\ pool[1] <= Scale => x * pool[2] <= y * pool[1]
    BY <1>1, <1>4, <1>7, <2>1, <2>4, <2>7, <2>8
  <2>10. QED
    <3>1. Adds(u, x, y, t)
      BY <1>4, <1>5, <2>9 DEF Adds, y, t
    <3>2. QED
      BY <3>1 DEF y, t
<1>8. QED
  BY <1>6, <1>7

LEMMA AddKeeps ==
  ASSUME SwapInv, NEW u \in Users, NEW x \in AssetAmounts, NEW most \in AssetAmounts,
         NEW expiry \in Expiries, AddLiquidity(u, x, most, expiry)
  PROVE  SwapInv'
<1> DEFINE y == Asset2For(x, most)
           t == TokensFor(x)
<1>0. Adds(u, x, y, t) /\ state # "none"
  BY AddStep DEF AddLiquidity
<1> HIDE DEF y, t
<1>1. /\ x \in Nat \ {0} /\ y \in Nat /\ t \in Nat \ {0}
      /\ supply = 0 => y # 0
      /\ supply > 0 => pool[1] > 0 /\ pool[2] > 0
      /\ bal[u][1] \in Int /\ bal[u][2] \in Int
      /\ bal'  = [bal EXCEPT ![u][1] = @ - x, ![u][2] = @ - y]
      /\ pool' = [pool EXCEPT ![1] = @ + x, ![2] = @ + y]
      /\ supply' = supply + t /\ users' = WithTokens(u, t)
      /\ UNCHANGED <<state, feeRate, held>>
  BY <1>0 DEF Adds
<1>2. supply \in Nat /\ Token!BalanceOf(u) \in Nat
  BY SharesWithinSupply
<1>3. /\ users' \in [Users -> Int \cup {Null}]
      /\ Shares' \in [Users -> Nat]
      /\ SumFunction(Shares') = supply + t
  <2>1. t \in Int /\ Token!BalanceOf(u) + t >= 0
    BY <1>1, <1>2
  <2>2. QED
    BY <1>1, <2>1, WithTokensShares
<1>4. /\ bal \in [Users -> [Assets -> Int \cup {Null}]] /\ pool \in [Assets -> Nat]
      /\ held \in [Assets -> Int] /\ Assets = {1, 2}
  BY DEF SwapInv, SwapTypes, Assets
<1>5. /\ bal' \in [Users -> [Assets -> Int \cup {Null}]]
      /\ bal'[u][1] = bal[u][1] - x
      /\ \A w \in Users \ {u} : bal'[w] = bal[w]
  BY <1>1, <1>4
<1>6. pool' \in [Assets -> Nat] /\ pool'[1] = pool[1] + x /\ pool'[2] = pool[2] + y
  BY <1>1, <1>4
<1>7. SwapTypes'
  BY <1>1, <1>2, <1>3, <1>5, <1>6 DEF SwapInv, SwapTypes
<1>8. Unified(pool, supply)'
  <2>1. supply' # 0 /\ pool'[1] # 0 /\ pool'[2] # 0
    BY <1>1, <1>2, <1>4, <1>6
  <2>2. QED
    BY <2>1 DEF Unified
<1>9. Accounted(1)'
  <2>1. AsBalance(bal'[u][1]) = AsBalance(bal[u][1]) + (- x) /\ - x \in Int
    BY <1>1, <1>5 DEF AsBalance, Token!AsBalance
  <2>2. SumFunction(Book(1)') = SumFunction(Book(1)) + (- x)
    BY <1>5, <2>1, BookChanged
  <2>3. held[1] = pool[1] + SumFunction(Book(1)) /\ SumFunction(Book(1)) \in Int /\ pool[1] \in Int
    BY <1>4, BookSumType DEF SwapInv, Accounted
  <2>4. held'[1] = pool'[1] + SumFunction(Book(1)')
    BY <1>1, <1>6, <2>2, <2>3
  <2>5. QED
    BY <2>4 DEF Accounted
<1>10. QED
  BY <1>0, <1>1, <1>3, <1>7, <1>8, <1>9 DEF SwapInv

(* What a removal gives back: no more than the tokens' part of each pool,  *)
(* and less than all of it as long as tokens are left.                     *)
LEMMA ReturnedPart ==
  ASSUME SwapInv, supply > 0, NEW t \in Nat \ {0}, t <= supply, NEW s \in Assets
  PROVE  /\ Returned(t)[s] \in Nat /\ Returned(t)[s] <= pool[s]
         /\ Returned(t)[s] * supply <= t * pool[s]
         /\ t < supply => Returned(t)[s] < pool[s]
<1>1. supply \in Nat \ {0} /\ pool[s] \in Nat /\ pool[s] > 0
  <2>1. pool[s] \in Nat /\ Assets = {1, 2}
    BY DEF SwapInv, SwapTypes, Assets
  <2>2. pool[1] # 0 /\ pool[2] # 0
    BY DEF SwapInv, Unified
  <2>3. QED
    BY <2>1, <2>2, SharesWithinSupply
<1>2. CASE t = supply
  <2>1. Returned(t)[s] = pool[s]
    BY <1>2 DEF Returned
  <2>2. pool[s] * supply <= supply * pool[s]
    BY <1>1
  <2>3. QED
    BY <1>1, <1>2, <2>1, <2>2
<1>3. CASE t # supply
  <2> DEFINE b == ToInt(Quotient(t, supply) * pool[s])
  <2>1. Returned(t)[s] = b
    BY <1>3 DEF Returned
  <2>2. b \in Nat /\ b * supply <= t * pool[s]
    BY <1>1, PartOfPool
  <2> HIDE DEF b
  <2>3. t * pool[s] < supply * pool[s] /\ supply * pool[s] = pool[s] * supply
    BY <1>1, <1>3, MulLt
  <2>4. b * supply < pool[s] * supply
    <3>1. b * supply \in Int /\ t * pool[s] \in Int /\ pool[s] * supply \in Int
      BY <1>1, <2>2
    <3>2. QED
      BY <2>2, <2>3, <3>1
  <2>5. b < pool[s]
    BY <1>1, <2>2, <2>4, CancelLt
  <2>6. QED
    BY <1>1, <2>1, <2>2, <2>5
<1>4. QED
  BY <1>2, <1>3

Removes(u, t, back) ==
  /\ supply > 0 /\ t \in Nat \ {0} /\ t <= supply /\ t <= Token!BalanceOf(u)
  /\ \A s \in Assets : /\ back[s] \in Nat /\ back[s] <= pool[s]
                       /\ back[s] * supply <= t * pool[s]
  /\ bal[u][1] = Null => bal[u][2] = Null
  /\ bal' = BooksAfterRemoval(u, back)
  /\ pool' = [s \in Assets |-> pool[s] - back[s]]
  /\ Unified(pool', supply - t)
  /\ supply' = supply - t /\ users' = WithTokens(u, - t)
  /\ UNCHANGED <<state, feeRate, held>>

LEMMA RemoveStep ==
  ASSUME SwapInv, NEW u \in Users, NEW t \in Amounts, NEW least \in [Assets -> AssetAmounts],
         NEW expiry \in Expiries, RemoveLiquidity(u, t, least, expiry)
  PROVE  Removes(u, t, Returned(t))
<1>1. t \in Int /\ t > 0 /\ supply > 0 /\ t <= Token!BalanceOf(u)
  BY UniswapAssumption DEF RemoveLiquidity
<1>2. t \in Nat \ {0} /\ t <= supply
  BY <1>1, SharesWithinSupply
<1>3. \A s \in Assets : /\ Returned(t)[s] \in Nat /\ Returned(t)[s] <= pool[s]
                        /\ Returned(t)[s] * supply <= t * pool[s]
  BY <1>1, <1>2, ReturnedPart
<1>4. QED
  BY <1>1, <1>2, <1>3 DEF RemoveLiquidity, Removes

LEMMA RemoveKeeps ==
  ASSUME SwapInv, NEW u \in Users, NEW t \in Amounts, NEW least \in [Assets -> AssetAmounts],
         NEW expiry \in Expiries, RemoveLiquidity(u, t, least, expiry)
  PROVE  SwapInv'
<1> DEFINE back == Returned(t)
<1>0. Removes(u, t, back) /\ state # "none"
  BY RemoveStep DEF RemoveLiquidity
<1> HIDE DEF back
<1>1. /\ supply > 0 /\ t \in Nat \ {0} /\ t <= supply /\ t <= Token!BalanceOf(u)
      /\ \A s \in Assets : back[s] \in Nat /\ back[s] <= pool[s]
      /\ bal[u][1] = Null => bal[u][2] = Null
      /\ bal' = BooksAfterRemoval(u, back)
      /\ pool' = [s \in Assets |-> pool[s] - back[s]]
      /\ Unified(pool', supply - t)
      /\ supply' = supply - t /\ users' = WithTokens(u, - t)
      /\ UNCHANGED <<state, feeRate, held>>
  BY <1>0 DEF Removes
<1>2. supply \in Nat /\ Token!BalanceOf(u) \in Nat
  BY SharesWithinSupply
<1>3. /\ users' \in [Users -> Int \cup {Null}]
      /\ Shares' \in [Users -> Nat]
      /\ SumFunction(Shares') = supply + (- t)
  <2>1. - t \in Int /\ Token!BalanceOf(u) + (- t) >= 0
    BY <1>1, <1>2
  <2>2. QED
    BY <1>1, <2>1, WithTokensShares
<1>4. /\ bal \in [Users -> [Assets -> Int \cup {Null}]] /\ pool \in [Assets -> Nat]
      /\ held \in [Assets -> Int] /\ Assets = {1, 2}
  BY DEF SwapInv, SwapTypes, Assets
<1>5. back[1] \in Nat /\ back[2] \in Nat /\ back[1] <= pool[1]
  BY <1>1, <1>4
<1>6. AsBalance(bal[u][1]) \in Int /\ (bal[u][2] # Null => bal[u][1] \in Int)
  BY <1>1, <1>4 DEF AsBalance, Token!AsBalance
<1> DEFINE b1 == AsBalance(bal[u][1]) + back[1]
           b2 == (IF bal[u][2] = Null THEN 0 ELSE bal[u][1]) + back[2]
<1>7. b1 \in Int /\ b2 \in Int
  BY <1>5, <1>6
<1>8. bal' = [bal EXCEPT ![u][1] = b1, ![u][2] = b2]
  BY <1>1, <1>4 DEF BooksAfterRemoval
<1>9. AsBalance(b1) = AsBalance(bal[u][1]) + back[1]
  BY <1>7 DEF AsBalance, Token!AsBalance
<1> HIDE DEF b1, b2
<1>10. /\ bal' \in [Users -> [Assets -> Int \cup {Null}]]
       /\ bal'[u][1] = b1
       /\ \A w \in Users \ {u} : bal'[w] = bal[w]
  BY <1>4, <1>7, <1>8
<1>11. pool' \in [Assets -> Nat] /\ pool'[1] = pool[1] - back[1]
  BY <1>1, <1>4
<1>12. SwapTypes'
  BY <1>1, <1>2, <1>3, <1>10, <1>11 DEF SwapInv, SwapTypes
<1>13. Unified(pool, supply)'
  BY <1>1 DEF Unified
<1>14. Accounted(1)'
  <2>1. SumFunction(Book(1)') = SumFunction(Book(1)) + back[1]
    <3>1. AsBalance(bal'[u][1]) = AsBalance(bal[u][1]) + back[1] /\ back[1] \in Int
      BY <1>5, <1>9, <1>10
    <3>2. QED
      BY <1>10, <3>1, BookChanged
  <2>2. held[1] = pool[1] + SumFunction(Book(1)) /\ SumFunction(Book(1)) \in Int /\ pool[1] \in Int
    BY <1>4, BookSumType DEF SwapInv, Accounted
  <2>3. held'[1] = pool'[1] + SumFunction(Book(1)')
    BY <1>1, <1>5, <1>11, <2>1, <2>2
  <2>4. QED
    BY <2>3 DEF Accounted
<1>15. supply' = SumFunction(Shares')
  BY <1>1, <1>2, <1>3
<1>16. QED
  BY <1>0, <1>1, <1>3, <1>12, <1>13, <1>14, <1>15 DEF SwapInv

----------------------------------------------------------------------------
LEMMA SwapInvInit == Init => SwapInv
<1> SUFFICES ASSUME Init PROVE SwapInv
  OBVIOUS
<1>1. /\ users = [u \in Users |-> Null] /\ supply = 0 /\ state = "none"
      /\ feeRate = 0 /\ pool = [s \in Assets |-> 0]
      /\ bal = [u \in Users |-> [s \in Assets |-> Null]]
      /\ held = [s \in Assets |-> 0]
  BY DEF Init, Token!Init
<1>2. Null \notin Int /\ IsFiniteSet(Users) /\ Scale \in Nat \ {0} /\ Assets = {1, 2}
  BY UniswapAssumption DEF Assets
<1>3. SwapTypes
  BY <1>1, <1>2 DEF SwapTypes
<1>4. Shares \in [Users -> Nat] /\ Shares \in [Users -> Int] /\ \A u \in Users : Shares[u] = 0
  BY <1>1, <1>2 DEF Shares, Token!BalanceOf, Token!AsBalance
<1>5. SumFunction(Shares) = 0
  BY <1>2, <1>4, BooksZero
<1>6. Book(1) \in [Users -> Int] /\ \A u \in Users : Book(1)[u] = 0
  BY <1>1, <1>2 DEF Book, AsBalance, Token!AsBalance
<1>7. SumFunction(Book(1)) = 0
  BY <1>2, <1>6, BooksZero
<1>8. QED
  BY <1>1, <1>2, <1>3, <1>4, <1>5, <1>7 DEF SwapInv, Unified, Accounted

LEMMA SwapInvInductive ==
  ASSUME SwapInv, [Next]_vars
  PROVE  SwapInv'
<1>0. feeRate \in 0 .. (Scale - 1) /\ state \in {"none", "NOT_INITED", "COMMON"}
  BY DEF SwapInv, SwapTypes
<1>1. CASE InitApi(Creator)
  <2>1. /\ state = "none" /\ state' = "NOT_INITED" /\ supply' = 0 /\ UNCHANGED users
        /\ UNCHANGED <<feeRate, pool, bal, held>>
    BY <1>1 DEF InitApi, Token!InitApi, swapVars
  <2>2. supply' = supply
    BY <2>1 DEF SwapInv
  <2>3. QED
    BY <1>0, <2>1, <2>2, QuietSteps
<1>2. ASSUME NEW u \in Users, NEW rate \in FeeRates, NEW min \in MinAmounts, InitConfig(u, rate, min)
      PROVE  SwapInv'
  BY <1>2, QuietSteps, UniswapAssumption DEF InitConfig
<1>3. ASSUME NEW u \in Users, NEW min \in MinAmounts, SetMinAddAmount(u, min)
      PROVE  SwapInv'
  BY <1>0, <1>3, QuietSteps DEF SetMinAddAmount
<1>4. CASE Tick
  BY <1>0, <1>4, QuietSteps DEF Tick, tokenVars
<1>5. CASE TokenCall
  BY <1>5, TokenCallKeeps
<1>6. ASSUME NEW d \in Deposits, Deposit(d.user, d.asset, d.amount)
      PROVE  SwapInv'
  BY <1>6, DepositKeeps
<1>7. ASSUME NEW d \in Deposits, NEW want \in AssetAmounts, NEW expiry \in Expiries,
             Exchange(d.user, d.asset, d.amount, want, expiry)
      PROVE  SwapInv'
  BY <1>7, ExchangeKeeps
<1>8. ASSUME NEW u \in Users, NEW x \in AssetAmounts, NEW most \in AssetAmounts,
             NEW expiry \in Expiries, AddLiquidity(u, x, most, expiry)
      PROVE  SwapInv'
  BY <1>8, AddKeeps
<1>9. ASSUME NEW u \in Users, NEW t \in Amounts, NEW least \in [Assets -> AssetAmounts],
             NEW expiry \in Expiries, RemoveLiquidity(u, t, least, expiry)
      PROVE  SwapInv'
  BY <1>9, RemoveKeeps
<1>10. ASSUME NEW u \in Users, NEW s \in Assets, NEW n \in AssetAmounts, Withdraw(u, s, n)
       PROVE  SwapInv'
  BY <1>10, WithdrawKeeps
<1>11. CASE UNCHANGED vars
  BY <1>0, <1>11, QuietSteps DEF vars, tokenVars, swapVars
<1>12. QED
  BY <1>1, <1>2, <1>3, <1>4, <1>5, <1>6, <1>7, <1>8, <1>9, <1>10, <1>11 DEF Next

LEMMA SwapInvHolds == Spec => []SwapInv
<1>1. SwapInv /\ [Next]_vars => SwapInv'
  BY SwapInvInductive
<1>2. QED
  BY <1>1, SwapInvInit, PTL DEF Spec

(* Shares and money are both accounted for, whatever order the calls of    *)
(* any number of users come in.                                            *)
THEOREM UniswapBooksAddUp == Spec => []BooksAddUp
<1>1. SwapInv => BooksAddUp
  BY DEF SwapInv, BooksAddUp, SupplyConserved, Asset1Accounted, Shares
<1>2. QED
  BY <1>1, SwapInvHolds, PTL

(* The pool is empty of both assets or of none, and no part of the tokens  *)
(* can be exchanged for all of an asset.                                   *)
THEOREM UniswapPoolUnified == Spec => []PoolUnified
<1>1. SwapInv => PoolUnified
  <2> SUFFICES ASSUME SwapInv, NEW t \in 1 .. supply, NEW s \in Assets, t < supply
               PROVE  Returned(t)[s] < pool[s]
    BY DEF PoolUnified, SwapInv
  <2>1. supply \in Nat
    BY SharesWithinSupply
  <2>2. t \in Nat \ {0} /\ supply > 0 /\ t <= supply
    BY <2>1
  <2>3. QED
    BY <2>2, ReturnedPart
<1>2. QED
  BY <1>1, SwapInvHolds, PTL

----------------------------------------------------------------------------
(* Products of four factors.                                               *)
LEMMA Regroup ==
  \A p, q, a, b \in Int : ((p * q) * a) * b = (a * p) * (b * q)
OBVIOUS

LEMMA Regroup2 ==
  \A p, q, a, b \in Int : (p * q) * (a * b) = (p * a) * (q * b)
OBVIOUS

LEMMA ProductLe ==
  ASSUME NEW a \in Nat, NEW b \in Nat, NEW c \in Nat, NEW d \in Nat, a <= b, c <= d
  PROVE  a * c <= b * d
<1>1. a * c <= b * c
  BY MulLe
<1>2. c * b <= d * b /\ c * b = b * c /\ d * b = b * d
  BY MulLe
<1>3. a * c \in Int /\ b * c \in Int /\ b * d \in Int
  OBVIOUS
<1>4. QED
  BY <1>1, <1>2, <1>3

(* An exchange leaves the product of the pools greater, by what the fee    *)
(* takes out of the amount that buys.                                      *)
LEMMA ProductGrows ==
  ASSUME NEW p \in Nat, NEW q \in Nat, NEW n \in Nat, NEW fee \in Nat, NEW g \in Nat,
         fee >= 1, n > fee, q > g, g * (p + (n - fee)) <= (n - fee) * q
  PROVE  p * q < (p + n) * (q - g)
<1> DEFINE m == n - fee
<1>1. m \in Nat /\ n = m + fee
  OBVIOUS
<1>2. g * (p + m) <= m * q
  OBVIOUS
<1> HIDE DEF m
<1>3. (p + n) * (q - g) = (p + m) * (q - g) + fee * (q - g)
  <2>1. \A a, b, c \in Int : (a + b) * c = a * c + b * c
    OBVIOUS
  <2>2. p + n = (p + m) + fee /\ p + m \in Int /\ q - g \in Int
    BY <1>1
  <2>3. QED
    BY <2>1, <2>2
<1>4. (p + m) * (q - g) = (p + m) * q - (p + m) * g
  BY <1>1
<1>5. (p + m) * q = p * q + m * q /\ (p + m) * g = g * (p + m)
  BY <1>1
<1>6. fee * (q - g) > 0
  <2>1. \A a, b \in Int : a > 0 /\ b > 0 => a * b > 0
    OBVIOUS
  <2>2. QED
    BY <2>1
<1>7. /\ p * q \in Int /\ m * q \in Int /\ g * (p + m) \in Int /\ fee * (q - g) \in Int
      /\ (p + m) * (q - g) \in Int /\ (p + m) * q \in Int
  BY <1>1
<1>8. QED
  BY <1>2, <1>3, <1>4, <1>5, <1>6, <1>7

LEMMA ExchangeGrows ==
  ASSUME SwapInv, NEW d \in Deposits, NEW want \in AssetAmounts, NEW expiry \in Expiries,
         Exchange(d.user, d.asset, d.amount, want, expiry)
  PROVE  pool[1] * pool[2] < pool'[1] * pool'[2] /\ supply' = supply
<1> DEFINE s   == d.asset
           n   == d.amount
           fee == FeeOf(n)
           get == Gets(n, s)
           o   == Other(s)
<1>1. /\ s \in Assets /\ o \in Assets /\ o # s
      /\ n \in Int /\ n > fee /\ fee \in Int /\ fee >= 1
      /\ get \in Int /\ get > 0
      /\ get * (pool[s] + (n - fee)) <= (n - fee) * pool[o]
      /\ pool[s] \in Int /\ pool[s] > 0 /\ pool[o] \in Int /\ pool[o] > get
      /\ pool'[s] = pool[s] + n /\ pool'[o] = pool[o] - get
      /\ supply' = supply
  BY ExchangeStep
<1> HIDE DEF s, n, fee, get, o
<1>2. (s = 1 /\ o = 2) \/ (s = 2 /\ o = 1)
  BY <1>1 DEF Assets
<1>3. /\ pool[s] \in Nat /\ pool[o] \in Nat /\ n \in Nat /\ fee \in Nat /\ get \in Nat
  BY <1>1
<1>4. pool[s] * pool[o] < (pool[s] + n) * (pool[o] - get)
  BY <1>1, <1>3, ProductGrows
<1>5. pool[s] * pool[o] < pool'[s] * pool'[o]
  BY <1>1, <1>4
<1>6. \A a, b \in Int : a * b = b * a
  OBVIOUS
<1>7. pool'[s] \in Int /\ pool'[o] \in Int
  BY <1>1
<1>8. QED
  BY <1>1, <1>2, <1>5, <1>6, <1>7

(* Only an exchange changes the pools and not the supply.                  *)
LEMMA PoolSteps ==
  ASSUME SwapInv, [Next]_vars
  PROVE  \/ UNCHANGED <<supply, pool>>
         \/ supply' = 0
         \/ pool[1] * pool[2] < pool'[1] * pool'[2] /\ supply' = supply
         \/ \E u \in Users, x, most \in AssetAmounts :
              Adds(u, x, Asset2For(x, most), TokensFor(x))
         \/ \E u \in Users, t \in Amounts : Removes(u, t, Returned(t))
<1>1. CASE InitApi(Creator)
  BY <1>1 DEF InitApi, Token!InitApi
<1>2. ASSUME NEW u \in Users, NEW rate \in FeeRates, NEW min \in MinAmounts, InitConfig(u, rate, min)
      PROVE  UNCHANGED <<supply, pool>>
  BY <1>2 DEF InitConfig
<1>3. ASSUME NEW u \in Users, NEW min \in MinAmounts, SetMinAddAmount(u, min)
      PROVE  UNCHANGED <<supply, pool>>
  BY <1>3 DEF SetMinAddAmount
<1>4. CASE Tick
  BY <1>4 DEF Tick, tokenVars
<1>5. CASE TokenCall
  <2>1. UNCHANGED pool
    BY <1>5 DEF TokenCall, swapVars
  <2>2. UNCHANGED supply
    BY <1>5 DEF TokenCall, Token!Transfer, Token!Approve, Token!TransferFrom
  <2>3. QED
    BY <2>1, <2>2
<1>6. ASSUME NEW d \in Deposits, Deposit(d.user, d.asset, d.amount)
      PROVE  UNCHANGED <<supply, pool>>
  BY <1>6 DEF Deposit
<1>7. ASSUME NEW d \in Deposits, NEW want \in AssetAmounts, NEW expiry \in Expiries,
             Exchange(d.user, d.asset, d.amount, want, expiry)
      PROVE  pool[1] * pool[2] < pool'[1] * pool'[2] /\ supply' = supply
  BY <1>7, ExchangeGrows
<1>8. ASSUME NEW u \in Users, NEW x \in AssetAmounts, NEW most \in AssetAmounts,
             NEW expiry \in Expiries, AddLiquidity(u, x, most, expiry)
      PROVE  Adds(u, x, Asset2For(x, most), TokensFor(x))
  BY <1>8, AddStep
<1>9. ASSUME NEW u \in Users, NEW t \in Amounts, NEW least \in [Assets -> AssetAmounts],
             NEW expiry \in Expiries, RemoveLiquidity(u, t, least, expiry)
      PROVE  Removes(u, t, Returned(t))
  BY <1>9, RemoveStep
<1>10. ASSUME NEW u \in Users, NEW s \in Assets, NEW n \in AssetAmounts, Withdraw(u, s, n)
       PROVE  UNCHANGED <<supply, pool>>
  BY <1>10 DEF Withdraw
<1>11. CASE UNCHANGED vars
  BY <1>11 DEF vars, tokenVars, swapVars
<1>12. QED
  BY <1>1, <1>2, <1>3, <1>4, <1>5, <1>6, <1>7, <1>8, <1>9, <1>10, <1>11 DEF Next

(* An exchange always leaves the pool richer, for any amounts and any fee  *)
(* rate: what rounding and the fee take stays in the pool.                 *)
THEOREM UniswapExchangePays == Spec => ExchangePays
<1>1. ASSUME SwapInv, [Next]_vars
      PROVE  [supply > 0 /\ supply' = supply /\ pool' # pool
                => pool[1] * pool[2] < pool'[1] * pool'[2]]_vars
  <2> SUFFICES ASSUME supply > 0, supply' = supply, pool' # pool
               PROVE  pool[1] * pool[2] < pool'[1] * pool'[2]
    OBVIOUS
  <2>1. supply \in Int
    BY <1>1 DEF SwapInv, SwapTypes
  <2>2. ASSUME NEW u \in Users, NEW x \in AssetAmounts, NEW most \in AssetAmounts,
               Adds(u, x, Asset2For(x, most), TokensFor(x))
        PROVE  FALSE
    <3> DEFINE t == TokensFor(x)
    <3>1. t \in Nat \ {0} /\ supply' = supply + t
      BY <2>2 DEF Adds
    <3> HIDE DEF t
    <3>2. QED
      BY <2>1, <3>1
  <2>3. ASSUME NEW u \in Users, NEW t \in Amounts, Removes(u, t, Returned(t))
        PROVE  FALSE
    BY <2>1, <2>3 DEF Removes
  <2>4. QED
    BY <1>1, <2>1, <2>2, <2>3, PoolSteps
<1>2. SwapInv /\ [Next]_vars
        => [supply > 0 /\ supply' = supply /\ pool' # pool
              => pool[1] * pool[2] < pool'[1] * pool'[2]]_vars
  BY <1>1
<1>3. QED
  BY <1>2, SwapInvHolds, PTL DEF Spec, ExchangePays

(* An addition that pays at least the pool's price and mints at most its   *)
(* part of the tokens keeps the value of a token.                          *)
LEMMA AdditionKeepsValue ==
  ASSUME NEW p \in Nat, NEW q \in Nat, NEW n \in Nat, NEW a \in Nat, NEW b \in Nat, NEW c \in Nat,
         a * p <= b * n, b * q <= c * p
  PROVE  ((p * q) * a) * a <= ((b * c) * n) * n
<1>0. /\ a * p \in Nat /\ a * q \in Nat /\ b * n \in Nat /\ b * q \in Nat
      /\ n * a \in Nat /\ c * p \in Nat /\ c * n \in Nat
  OBVIOUS
<1>1. ((p * q) * a) * a = (a * p) * (q * a)
  <2>1. ((p * q) * a) * a = (a * p) * (a * q)
    BY Regroup
  <2>2. QED
    BY <2>1
<1>2. (a * p) * (q * a) <= (b * n) * (q * a)
  BY <1>0, MulLe
<1>3. (b * n) * (q * a) = (b * q) * (n * a)
  BY Regroup2
<1>4. (b * q) * (n * a) <= (c * p) * (n * a)
  BY <1>0, MulLe
<1>5. (c * p) * (n * a) = (a * p) * (c * n)
  <2>1. (c * p) * (n * a) = (c * n) * (p * a)
    BY Regroup2
  <2>2. QED
    BY <2>1
<1>6. (a * p) * (c * n) <= (b * n) * (c * n)
  BY <1>0, MulLe
<1>7. (b * n) * (c * n) = ((b * c) * n) * n
  <2>1. ((b * c) * n) * n = (n * b) * (n * c)
    BY Regroup
  <2>2. QED
    BY <2>1
<1>8. /\ (a * p) * (q * a) \in Int /\ (b * n) * (q * a) \in Int /\ (c * p) * (n * a) \in Int
      /\ (b * n) * (c * n) \in Int
  BY <1>0
<1>9. QED
  BY <1>1, <1>2, <1>3, <1>4, <1>5, <1>6, <1>7, <1>8

(* A removal that leaves at least the other tokens' part of both pools     *)
(* keeps it too.                                                           *)
LEMMA RemovalKeepsValue ==
  ASSUME NEW p \in Nat, NEW q \in Nat, NEW n \in Nat, NEW a \in Nat, NEW b \in Nat, NEW c \in Nat,
         a * p <= b * n, a * q <= c * n
  PROVE  ((p * q) * a) * a <= ((b * c) * n) * n
<1>0. a * p \in Nat /\ a * q \in Nat /\ b * n \in Nat /\ c * n \in Nat
  OBVIOUS
<1>1. (a * p) * (a * q) <= (b * n) * (c * n)
  BY <1>0, ProductLe
<1>2. ((p * q) * a) * a = (a * p) * (a * q)
  BY Regroup
<1>3. ((b * c) * n) * n = (b * n) * (c * n)
  <2>1. ((b * c) * n) * n = (n * b) * (n * c)
    BY Regroup
  <2>2. QED
    BY <2>1
<1>4. QED
  BY <1>1, <1>2, <1>3

(* No call lowers the value of a share, as long as the pool of asset 1     *)
(* holds at most Scale units: beyond that a quotient of safe_numbers may   *)
(* look whole and is not, and an addition may pay less than a unit of      *)
(* asset 2 too little.                                                     *)
THEOREM UniswapShareValueKept == Spec /\ [](pool[1] <= Scale) => ShareValueKept
<1>1. ASSUME SwapInv, pool[1] <= Scale, [Next]_vars
      PROVE  [supply > 0 /\ supply' > 0
                => pool[1] * pool[2] * supply' * supply'
                     <= pool'[1] * pool'[2] * supply * supply]_vars
  <2> SUFFICES ASSUME supply > 0, supply' > 0
               PROVE  ((pool[1] * pool[2]) * supply') * supply'
                        <= ((pool'[1] * pool'[2]) * supply) * supply
    OBVIOUS
  <2> DEFINE p  == pool[1]
             q  == pool[2]
             p1 == pool'[1]
             q1 == pool'[2]
             n  == supply
             n1 == supply'
  <2>0. SwapInv' /\ p \in Nat /\ q \in Nat /\ n \in Nat
    BY <1>1, SwapInvInductive, SharesWithinSupply DEF SwapInv, SwapTypes, Assets
  <2>00. p1 \in Nat /\ q1 \in Nat /\ n1 \in Nat
    BY <2>0 DEF SwapInv, SwapTypes, Assets
  <2>1. CASE UNCHANGED <<supply, pool>>
    BY <2>0, <2>1
  <2>2. CASE pool[1] * pool[2] < pool'[1] * pool'[2] /\ supply' = supply
    <3>1. p * q <= p1 * q1 /\ p * q \in Int /\ p1 * q1 \in Int /\ n1 = n
      BY <2>0, <2>00, <2>2
    <3> HIDE DEF p, q, p1, q1, n, n1
    <3>2. (p * q) * n <= (p1 * q1) * n /\ (p * q) * n \in Int /\ (p1 * q1) * n \in Int
      BY <2>0, <3>1, MulLe
    <3>3. ((p * q) * n) * n <= ((p1 * q1) * n) * n
      BY <2>0, <3>2, MulLe
    <3>4. QED
      BY <3>1, <3>3 DEF p, q, p1, q1, n, n1
  <2>3. ASSUME NEW u \in Users, NEW x \in AssetAmounts, NEW most \in AssetAmounts,
               Adds(u, x, Asset2For(x, most), TokensFor(x))
        PROVE  ((p * q) * n1) * n1 <= ((p1 * q1) * n) * n
    <3> DEFINE y == Asset2For(x, most)
               t == TokensFor(x)
    <3>1. /\ x \in Nat /\ y \in Nat /\ t \in Nat
          /\ t * p <= x * n /\ x * q <= y * p
          /\ p1 = p + x /\ q1 = q + y /\ n1 = n + t
      BY <1>1, <2>3 DEF Adds, SwapInv, SwapTypes, Assets
    <3> HIDE DEF y, t, p, q, p1, q1, n, n1
    <3>2. n1 * p <= p1 * n
      <4>1. n1 * p = n * p + t * p /\ p1 * n = p * n + x * n /\ n * p = p * n
        BY <2>0, <3>1
      <4>2. n * p \in Int /\ t * p \in Int /\ x * n \in Int
        BY <2>0, <3>1
      <4>3. QED
        BY <3>1, <4>1, <4>2
    <3>3. p1 * q <= q1 * p
      <4>1. p1 * q = p * q + x * q /\ q1 * p = q * p + y * p /\ q * p = p * q
        BY <2>0, <3>1
      <4>2. p * q \in Int /\ x * q \in Int /\ y * p \in Int
        BY <2>0, <3>1
      <4>3. QED
        BY <3>1, <4>1, <4>2
    <3>4. QED
      BY <2>0, <2>00, <3>2, <3>3, AdditionKeepsValue
  <2>4. ASSUME NEW u \in Users, NEW t \in Amounts, Removes(u, t, Returned(t))
        PROVE  ((p * q) * n1) * n1 <= ((p1 * q1) * n) * n
    <3> DEFINE b == Returned(t)[1]
               c == Returned(t)[2]
    <3>1. /\ t \in Nat /\ b \in Nat /\ c \in Nat /\ b <= p /\ c <= q /\ t <= n
          /\ b * n <= t * p /\ c * n <= t * q
          /\ p1 = p - b /\ q1 = q - c /\ n1 = n - t
      BY <2>4 DEF Removes, Assets
    <3> HIDE DEF b, c, p, q, p1, q1, n, n1
    <3>2. n1 * p <= p1 * n
      <4>1. n1 * p = n * p - t * p /\ p1 * n = p * n - b * n /\ n * p = p * n
        BY <2>0, <3>1
      <4>2. n * p \in Int /\ t * p \in Int /\ b * n \in Int
        BY <2>0, <3>1
      <4>3. QED
        BY <3>1, <4>1, <4>2
    <3>3. n1 * q <= q1 * n
      <4>1. n1 * q = n * q - t * q /\ q1 * n = q * n - c * n /\ n * q = q * n
        BY <2>0, <3>1
      <4>2. n * q \in Int /\ t * q \in Int /\ c * n \in Int
        BY <2>0, <3>1
      <4>3. QED
        BY <3>1, <4>1, <4>2
    <3>4. QED
      BY <2>0, <2>00, <3>2, <3>3, RemovalKeepsValue
  <2>5. QED
    BY <1>1, <2>00, <2>1, <2>2, <2>3, <2>4, PoolSteps
<1>2. SwapInv /\ pool[1] <= Scale /\ [Next]_vars
        => [supply > 0 /\ supply' > 0
              => pool[1] * pool[2] * supply' * supply'
                   <= pool'[1] * pool'[2] * supply * supply]_vars
  BY <1>1
<1>3. QED
  BY <1>2, SwapInvHolds, PTL DEF Spec, ShareValueKept
================================================================================
