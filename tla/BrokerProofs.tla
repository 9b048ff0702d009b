---------------------------- MODULE BrokerProofs ----------------------------
(***************************************************************************)
(* The paper broker keeps its policy and its books balance, for every      *)
(* unit, rate, quote, target and number of fills.                          *)
(***************************************************************************)
EXTENDS Broker, WellFoundedInduction, TLAPS

(***************************************************************************)
(* What an order does to an account, for every unit, fee and minimum.      *)
(***************************************************************************)

\* Less-than on the naturals is well-founded.
LEMMA LessIsWellFounded ==
  \E R : IsWellFoundedOn(R, Nat) /\ \A a, b \in Nat : a < b => <<a, b>> \in R
<1>1. IsWellFoundedOn(OpToRel(<, Nat), Nat)
  BY NatLessThanWellFounded
<1>2. \A a, b \in Nat : a < b => <<a, b>> \in OpToRel(<, Nat)
  BY DEF OpToRel
<1> QED
  BY <1>1, <1>2, Zenon

\* A set of naturals that is not empty has a least member.
LEMMA LeastNumber ==
  ASSUME NEW T \in SUBSET Nat, T # {}
  PROVE  \E x \in T : \A y \in T : x <= y
<1>1. PICK R : IsWellFoundedOn(R, Nat) /\ \A a, b \in Nat : a < b => <<a, b>> \in R
  BY LessIsWellFounded
<1>2. IsWellFoundedOn(R, Nat) /\ T \subseteq Nat /\ T # {}
  BY <1>1
<1>3. PICK x \in T : \A y \in T : ~(<<y, x>> \in R)
  BY <1>2, WFMin, Zenon
<1>4. \A y \in T : ~(y < x)
  BY <1>1, <1>3
<1> QED
  BY <1>4

\* Rounding down never exceeds what is divided.
LEMMA FloorIsBelow ==
  ASSUME NEW x \in Nat, NEW y \in Nat \ {0}
  PROVE  x \div y \in Nat /\ (x \div y) * y <= x
OBVIOUS

\* Neither does anything below the rounded quotient.
LEMMA BelowFloor ==
  ASSUME NEW x \in Nat, NEW y \in Nat \ {0}, NEW d \in Int, d <= x \div y
  PROVE  d * y <= x
<1>1. x \div y \in Nat /\ (x \div y) * y <= x
  BY FloorIsBelow
<1>2. d * y <= (x \div y) * y
  BY <1>1
<1> QED
  BY <1>1, <1>2

\* A purchase costs its lots at the price, with the fee.
LEMMA PurchaseCost ==
  ASSUME NEW a \in Account, NEW delta \in Nat, NEW price \in Nat, AccountsAssumption
  PROVE  Settled(a, delta, price).cash = a.cash - delta * (price * (Unit + Fee))
<1>1. delta * price \in Nat
  OBVIOUS
<1>2. Abs(delta * price) = delta * price
  BY <1>1 DEF Abs
<1>3. delta * (price * (Unit + Fee)) = delta * price * Unit + delta * price * Fee
  BY DEF AccountsAssumption
<1> QED
  BY <1>2, <1>3 DEF Settled, Account, AccountsAssumption

\* A sale does not lower the cash, because the fee is part of what it brings.
LEMMA SaleBringsCash ==
  ASSUME NEW a \in Account, NEW delta \in Int, delta <= 0, NEW price \in Nat,
         AccountsAssumption
  PROVE  Settled(a, delta, price).cash >= a.cash
<1> DEFINE worth == (-delta) * price
<1>1. worth \in Nat /\ delta * price = -worth
  OBVIOUS
<1>2. Abs(delta * price) = worth
  BY <1>1 DEF Abs
<1>3. worth * Fee <= worth * Unit
  BY <1>1 DEF AccountsAssumption
<1>4. delta * price * Unit = -(worth * Unit)
  BY <1>1 DEF AccountsAssumption
<1>5. worth * Fee \in Nat /\ worth * Unit \in Nat
  BY <1>1 DEF AccountsAssumption
<1> QED
  BY <1>2, <1>3, <1>4, <1>5 DEF Settled, Account

\* A settled account is an account: its fees only grow.
LEMMA SettledIsAccount ==
  ASSUME NEW a \in Account, NEW delta \in Int, NEW price \in Nat, AccountsAssumption
  PROVE  Settled(a, delta, price) \in Account
<1>1. delta * price \in Int
  OBVIOUS
<1>2. Abs(delta * price) \in Nat
  BY <1>1 DEF Abs
<1>3. Abs(delta * price) * Fee \in Nat
  BY <1>2 DEF AccountsAssumption
<1>4. delta * price * Unit \in Int
  BY <1>1 DEF AccountsAssumption
<1> QED
  BY <1>3, <1>4 DEF Settled, Account

\* What an order is computed from is integers.
LEMMA OrderIsInteger ==
  ASSUME NEW p \in Policies, NEW a \in Account, NEW target \in Int,
         NEW mark \in Nat \ {0}, NEW buyAt \in Nat \ {0}, AccountsAssumption
  PROVE  /\ Equity(a, mark) \in Int
         /\ Clamp(p, target) \in Int
         /\ Wanted(p, a, target, mark) \in Int
         /\ Affordable(a, buyAt) \in Nat
         /\ Delta(p, a, target, mark, buyAt) \in Int
<1>1. Equity(a, mark) \in Int
  BY DEF Equity, Account, AccountsAssumption
<1>2. Clamp(p, target) \in Int
  BY DEF Clamp, Smaller, Larger, Policies
<1>3. mark * Unit * Unit * Unit \in Nat \ {0}
  BY DEF AccountsAssumption
<1>4. Wanted(p, a, target, mark) \in Int
  BY <1>1, <1>2, <1>3 DEF Wanted, Account
<1>5. Larger(a.cash, 0) \in Nat
  BY DEF Larger, Account
<1>6. buyAt * (Unit + Fee) \in Nat \ {0}
  BY DEF AccountsAssumption
<1>7. Affordable(a, buyAt) \in Nat
  BY <1>5, <1>6, FloorIsBelow DEF Affordable
<1>8. Delta(p, a, target, mark, buyAt) \in Int
  BY <1>4, <1>7 DEF Delta, Smaller
<1> QED
  BY <1>1, <1>2, <1>4, <1>7, <1>8

\* A filled order leaves a solvent account within its policy.
LEMMA OrderKeepsPolicy ==
  ASSUME NEW p \in Policies, NEW a \in Account, NEW target \in Int,
         NEW mark \in Nat \ {0}, NEW buyAt \in Nat \ {0}, NEW sellAt \in Nat,
         AccountsAssumption, WithinPolicy(p, a),
         Fills(p, a, target, mark, buyAt)
  PROVE  WithinPolicy(p, Settled(a, Delta(p, a, target, mark, buyAt),
                                 IF Wanted(p, a, target, mark) > 0 THEN buyAt ELSE sellAt))
<1> DEFINE wanted == Wanted(p, a, target, mark)
           delta  == Delta(p, a, target, mark, buyAt)
           price  == IF wanted > 0 THEN buyAt ELSE sellAt
           equity == Equity(a, mark)
<1>1. /\ equity \in Int /\ Clamp(p, target) \in Int /\ wanted \in Int
      /\ Affordable(a, buyAt) \in Nat /\ delta \in Int
  BY OrderIsInteger
<1>2. price \in Nat
  OBVIOUS
<1>3. ASSUME ~p.short PROVE Settled(a, delta, price).quantity >= 0
  <2>1. equity > 0 /\ a.quantity >= 0 /\ a.quantity \in Int
    BY <1>3 DEF Fills, WithinPolicy, Account
  <2>2. Clamp(p, target) >= 0
    BY <1>3 DEF Clamp, Smaller, Larger, Policies
  <2>3. Clamp(p, target) * equity \in Nat
    BY <1>1, <2>1, <2>2
  <2>4. mark * Unit * Unit * Unit \in Nat \ {0}
    BY DEF AccountsAssumption
  <2>5. wanted + a.quantity >= 0
    <3>1. (Clamp(p, target) * equity) \div (mark * Unit * Unit * Unit) \in Nat
      BY <2>3, <2>4, FloorIsBelow
    <3> QED
      BY <3>1, <2>1 DEF Wanted
  <2>6. delta + a.quantity >= 0
    BY <1>1, <2>1, <2>5 DEF Delta, Smaller
  <2> QED
    BY <1>1, <2>1, <2>6 DEF Settled
<1>4. ASSUME CannotBorrow(p) PROVE Settled(a, delta, price).cash >= 0
  <2>1. a.cash \in Nat
    BY <1>4 DEF WithinPolicy, Account
  <2>2. CASE wanted > 0
    <3>1. delta <= Affordable(a, buyAt) /\ delta \in Nat
      BY <1>1, <1>4, <2>2 DEF Delta, Smaller
    <3>2. Affordable(a, buyAt) = a.cash \div (buyAt * (Unit + Fee))
      BY <2>1 DEF Affordable, Larger
    <3>3. buyAt * (Unit + Fee) \in Nat \ {0}
      BY DEF AccountsAssumption
    <3>4. delta * (buyAt * (Unit + Fee)) <= a.cash
      <4> DEFINE cost == buyAt * (Unit + Fee)
      <4> HIDE DEF delta, cost
      <4>1. cost \in Nat \ {0} /\ delta \in Int /\ delta <= a.cash \div cost
        BY <3>1, <3>2, <3>3 DEF cost
      <4>2. delta * cost <= a.cash
        BY <2>1, <4>1, BelowFloor
      <4> QED
        BY <4>2 DEF cost
    <3>5. Settled(a, delta, buyAt).cash = a.cash - delta * (buyAt * (Unit + Fee))
      BY <3>1, PurchaseCost
    <3>6. delta * (buyAt * (Unit + Fee)) \in Int
      BY <3>1, <3>3
    <3> QED
      BY <2>1, <2>2, <3>4, <3>5, <3>6
  <2>3. CASE ~(wanted > 0)
    <3>1. delta <= 0
      BY <1>1, <2>3 DEF Delta
    <3>2. Settled(a, delta, sellAt).cash >= a.cash
      BY <1>1, <3>1, SaleBringsCash
    <3>3. Settled(a, delta, sellAt).cash \in Int
      BY <1>1, SettledIsAccount DEF Account
    <3> QED
      BY <2>1, <2>3, <3>2, <3>3
  <2> QED
    BY <2>2, <2>3
<1> QED
  BY <1>3, <1>4 DEF WithinPolicy

(***************************************************************************)
(* What the broker does with its account.                                  *)
(***************************************************************************)

\* Beyond NeverBeyondPolicy: the policy is one, and the account's amounts are
\* integers, without which the arithmetic of a fill says nothing.
IInv ==
  /\ policy \in Policies
  /\ account \in Account
  /\ NeverBeyondPolicy

\* A new broker holds nothing and owes nothing.
LEMMA IInvInitially == Init => IInv
<1>1. InitialEquity * Unit * Unit \in Nat
  BY AccountsAssumption, BrokerAssumption DEF AccountsAssumption, BrokerAssumption
<1> QED
  BY <1>1, BrokerAssumption
  DEF Init, IInv, NeverBeyondPolicy, WithinPolicy, Account, BrokerAssumption

\* The prices of a quote that is possible.
LEMMA PricesOfQuote ==
  ASSUME NEW quote \in Quotes
  PROVE  /\ Mid(quote) \in Nat \ {0}
         /\ BuyAt(quote) \in Nat \ {0}
         /\ SellAt(quote) \in Nat
<1>1. quote.bid \in Nat \ {0} /\ quote.ask \in Nat \ {0}
  BY BrokerAssumption DEF BrokerAssumption
<1>2. Unit + Slip \in Nat \ {0} /\ Unit - Slip \in Nat
  BY AccountsAssumption, BrokerAssumption DEF AccountsAssumption, BrokerAssumption
<1>3. Mid(quote) \in Nat \ {0}
  BY <1>1 DEF Mid
<1>4. BuyAt(quote) \in Nat \ {0}
  BY <1>1, <1>2 DEF BuyAt
<1>5. SellAt(quote) \in Nat
  BY <1>1, <1>2 DEF SellAt
<1> QED
  BY <1>3, <1>4, <1>5

\* A fill leaves the account within its policy.
LEMMA IInvPreserved == IInv /\ [Next]_vars => IInv'
<1> SUFFICES ASSUME IInv, [Next]_vars PROVE IInv'
  OBVIOUS
<1> USE AccountsAssumption
<1>1. CASE Next
  <2>1. PICK target \in Targets, quote \in Quotes : Order(target, quote)
    BY <1>1 DEF Next, Rebalance
  <2> DEFINE mark  == Mid(quote)
             buyAt == BuyAt(quote)
             delta == Delta(policy, account, target, mark, buyAt)
             price == IF Wanted(policy, account, target, mark) > 0 THEN buyAt ELSE SellAt(quote)
  <2>2. target \in Int
    BY BrokerAssumption DEF BrokerAssumption
  <2>3. mark \in Nat \ {0} /\ buyAt \in Nat \ {0} /\ SellAt(quote) \in Nat
    BY PricesOfQuote
  <2>4. /\ policy \in Policies /\ account \in Account /\ WithinPolicy(policy, account)
    BY DEF IInv, NeverBeyondPolicy
  <2>5. /\ Fills(policy, account, target, mark, buyAt)
        /\ account' = Settled(account, delta, price) /\ policy' = policy
    BY <2>1 DEF Order
  <2>6. WithinPolicy(policy, Settled(account, delta, price))
    BY <2>2, <2>3, <2>4, <2>5, OrderKeepsPolicy
  <2>7. Settled(account, delta, price) \in Account
    <3>1. delta \in Int
      BY <2>2, <2>3, <2>4, OrderIsInteger
    <3>2. price \in Nat
      BY <2>3
    <3> QED
      BY <2>4, <3>1, <3>2, SettledIsAccount
  <2> QED
    BY <2>4, <2>5, <2>6, <2>7 DEF IInv, NeverBeyondPolicy
<1>2. CASE UNCHANGED vars
  BY <1>2 DEF IInv, NeverBeyondPolicy, vars
<1> QED
  BY <1>1, <1>2

\* For every fee, slippage and minimum, and whatever the strategy asks for at
\* whatever quotes: no short position without permission, and no debt without
\* shorts or leverage.
THEOREM BrokerKeepsPolicy == Spec => []NeverBeyondPolicy
<1>1. IInv => NeverBeyondPolicy
  BY DEF IInv
<1> QED
  BY <1>1, IInvInitially, IInvPreserved, PTL DEF Spec

----------------------------------------------------------------------------
(* Fractions.                                                               *)

\* The recursion of Gcd has a solution, and Gcd is one: approximations up to
\* every divisor exist and agree.
LEMMA GcdUnfolds ==
  \A x, y \in Nat : Gcd[y][x] = IF y = 0 THEN x ELSE Gcd[x % y][y]
<1> DEFINE Is(f) == f = [y \in Nat |-> [x \in Nat |-> IF y = 0 THEN x ELSE f[x % y][y]]]
           UpTo(n, h) ==
             h = [y \in 0 .. n |-> [x \in Nat |-> IF y = 0 THEN x ELSE h[x % y][y]]]
<1>1. Gcd = CHOOSE f : Is(f)
  BY Zenon DEF Gcd
<1>2. \A x \in Nat, y \in Nat \ {0} : x % y \in 0 .. y - 1
  OBVIOUS
<1>3. \A n \in Nat : \E h : UpTo(n, h)
  <2> DEFINE T == {n \in Nat : ~\E h : UpTo(n, h)}
  <2> SUFFICES ASSUME T # {} PROVE FALSE
    BY ZenonT(30)
  <2>1. PICK n \in T : \A m \in T : n <= m
    BY LeastNumber
  <2>2. UpTo(0, [y \in 0 .. 0 |-> [x \in Nat |-> x]])
    OBVIOUS
  <2>3. n \in Nat /\ n # 0
    BY <2>1, <2>2
  <2>4. PICK h : UpTo(n - 1, h)
    <3> HIDE DEF UpTo
    <3>1. n - 1 \in Nat /\ n - 1 < n
      BY <2>3
    <3> QED
      BY <2>1, <3>1
  <2> DEFINE g == [y \in 0 .. n |-> [x \in Nat |-> IF y = 0 THEN x ELSE h[x % y][y]]]
  <2>5. \A y \in 0 .. n - 1 : g[y] = h[y]
    <3> SUFFICES ASSUME NEW y \in 0 .. n - 1 PROVE g[y] = h[y]
      OBVIOUS
    <3>1. y \in 0 .. n
      BY <2>3
    <3> QED
      BY <2>4, <3>1
  <2>6. g = [y \in 0 .. n |-> [x \in Nat |-> IF y = 0 THEN x ELSE h[x % y][y]]]
    OBVIOUS
  <2>7. \A y \in 0 .. n, x \in Nat : y # 0 => g[x % y] = h[x % y]
    <3> SUFFICES ASSUME NEW y \in 0 .. n, NEW x \in Nat, y # 0 PROVE g[x % y] = h[x % y]
      OBVIOUS
    <3>1. x % y \in 0 .. n - 1
      BY <1>2, <2>3
    <3> HIDE DEF g
    <3> QED
      BY <2>5, <3>1
  <2>8. UpTo(n, g)
    <3> HIDE DEF g
    <3>1. \A y \in 0 .. n : [x \in Nat |-> IF y = 0 THEN x ELSE h[x % y][y]]
                          = [x \in Nat |-> IF y = 0 THEN x ELSE g[x % y][y]]
      BY <2>7
    <3> QED
      BY <2>6, <3>1
  <2> QED
    BY <2>1, <2>8
<1>4. ASSUME NEW m \in Nat, NEW n \in Nat, m <= n, NEW h, NEW g, UpTo(m, h), UpTo(n, g)
      PROVE  \A y \in 0 .. m : \A x \in Nat : h[y][x] = g[y][x]
  <2> DEFINE T == {y \in 0 .. m : ~\A x \in Nat : h[y][x] = g[y][x]}
  <2> SUFFICES ASSUME T # {} PROVE FALSE
    OBVIOUS
  <2>1. PICK y \in T : \A z \in T : y <= z
    <3> HIDE DEF UpTo
    <3>1. T \in SUBSET Nat
      OBVIOUS
    <3> HIDE DEF T
    <3> QED
      BY <3>1, LeastNumber
  <2>2. PICK x \in Nat : h[y][x] # g[y][x]
    BY <2>1
  <2>3. y \in 0 .. m /\ y \in 0 .. n
    BY <1>4, <2>1
  <2>4. /\ h[y][x] = IF y = 0 THEN x ELSE h[x % y][y]
        /\ g[y][x] = IF y = 0 THEN x ELSE g[x % y][y]
    BY <1>4, <2>2, <2>3, SMTT(30)
  <2>5. y # 0 => x % y \in 0 .. m /\ x % y < y
    BY <1>2, <2>2, <2>3, SMTT(30)
  <2>6. y # 0 => h[x % y][y] = g[x % y][y]
    BY <2>1, <2>3, <2>5
  <2> QED
    BY <2>2, <2>4, <2>6
<1> DEFINE H(n) == CHOOSE h : UpTo(n, h)
           f == [y \in Nat |-> [x \in Nat |-> H(y)[y][x]]]
<1>u. ASSUME NEW n \in Nat, NEW h, UpTo(n, h), NEW y \in 0 .. n, NEW x \in Nat
      PROVE  h[y][x] = IF y = 0 THEN x ELSE h[x % y][y]
  BY <1>u
<1>5. \A n \in Nat : UpTo(n, H(n))
  BY <1>3, Zenon
<1>6. ASSUME NEW y \in Nat, NEW x \in Nat PROVE f[y][x] = IF y = 0 THEN x ELSE f[x % y][y]
  <2>1. UpTo(y, H(y)) /\ (y # 0 => UpTo(x % y, H(x % y)))
    <3>1. y # 0 => x % y \in Nat
      OBVIOUS
    <3> HIDE DEF UpTo, H
    <3> QED
      BY <1>5, <3>1
  <2> HIDE DEF H
  <2>2. H(y)[y][x] = IF y = 0 THEN x ELSE H(y)[x % y][y]
    <3>1. y \in 0 .. y
      OBVIOUS
    <3> HIDE DEF UpTo
    <3> QED
      BY <1>u, <2>1, <3>1
  <2>3. y # 0 => H(y)[x % y][y] = H(x % y)[x % y][y]
    <3> SUFFICES ASSUME y # 0 PROVE H(y)[x % y][y] = H(x % y)[x % y][y]
      OBVIOUS
    <3>1. PICK z \in Nat : z = x % y /\ z <= y
      BY <1>2
    <3>2. \A w \in 0 .. z : \A v \in Nat : H(z)[w][v] = H(y)[w][v]
      <4>1. z <= y /\ UpTo(z, H(z)) /\ UpTo(y, H(y))
        BY <2>1, <3>1
      <4> HIDE DEF UpTo
      <4> QED
        BY <1>4, <4>1
    <3>3. z \in 0 .. z /\ y \in Nat
      BY <3>1
    <3> QED
      BY <3>1, <3>2, <3>3
  <2>4. y # 0 => x % y \in Nat
    BY <1>2
  <2> QED
    BY <2>2, <2>3, <2>4
<1> HIDE DEF H
<1>7. Is(f)
  <2>1. f = [y \in Nat |-> [x \in Nat |-> f[y][x]]]
    OBVIOUS
  <2> HIDE DEF f
  <2>2. \A y \in Nat : [x \in Nat |-> f[y][x]]
                     = [x \in Nat |-> IF y = 0 THEN x ELSE f[x % y][y]]
    BY <1>6
  <2> QED
    BY <2>1, <2>2
<1>8. Is(Gcd)
  <2> HIDE DEF f, Is
  <2> QED
    BY <1>1, <1>7, Zenon
<1> QED
  BY <1>8

\* What divides both numbers, and is not zero unless both are.
LEMMA GcdDivides ==
  ASSUME NEW x \in Nat, NEW y \in Nat \ {0}
  PROVE  \E g \in Nat \ {0}, a \in Nat, b \in Nat : Gcd[y][x] = g /\ x = a * g /\ y = b * g
<1> DEFINE Divides(u, v) ==
             \E g \in Nat \ {0}, a \in Nat, b \in Nat : Gcd[v][u] = g /\ u = a * g /\ v = b * g
           T == {v \in Nat : v # 0 /\ ~\A u \in Nat : Divides(u, v)}
<1>1. ASSUME NEW u \in Nat \ {0} PROVE Divides(u, 0)
  <2>1. Gcd[0][u] = u
    BY GcdUnfolds
  <2>2. u = 1 * u /\ 0 = 0 * u
    OBVIOUS
  <2> QED
    BY <2>1, <2>2
<1>2. ASSUME NEW u \in Nat, NEW v \in Nat \ {0}, Divides(v, u % v)
      PROVE  Divides(u, v)
  <2>1. PICK g \in Nat \ {0}, a \in Nat, b \in Nat :
          Gcd[u % v][v] = g /\ v = a * g /\ u % v = b * g
    BY <1>2
  <2>2. Gcd[v][u] = g
    BY <2>1, GcdUnfolds
  <2>3. PICK q \in Nat, r \in Nat : r = u % v /\ u = v * q + r
    <3>0. 0 < v /\ v \in Nat /\ u \div v \in Nat /\ u % v \in Nat
      OBVIOUS
    <3>1. (u % v) + v * (u \div v) = u
      BY <3>0
    <3>2. PICK q \in Nat, r \in Nat : q = u \div v /\ r = u % v
      BY <3>0
    <3>3. r + v * q = u
      BY <3>1, <3>2
    <3>4. v * q \in Nat
      BY <3>0, <3>2
    <3>5. u = v * q + r
      BY <3>2, <3>3, <3>4
    <3> QED
      BY <3>2, <3>5
  <2>4. u = (a * g) * q + b * g
    <3>1. r = b * g /\ v * q = (a * g) * q
      BY <2>1, <2>3
    <3> QED
      BY <2>3, <3>1
  <2>5. (a * g) * q + b * g = (a * q + b) * g
    BY <2>1, <2>3
  <2>6. a * q + b \in Nat
    BY <2>1, <2>3
  <2>7. u = (a * q + b) * g
    BY <2>4, <2>5
  <2> QED
    BY <2>1, <2>2, <2>6, <2>7
<1> HIDE DEF Divides
<1>3. T = {}
  <2> SUFFICES ASSUME T # {} PROVE FALSE
    OBVIOUS
  <2>1. PICK v \in T : \A w \in T : v <= w
    BY LeastNumber
  <2>2. v \in Nat \ {0}
    BY <2>1
  <2>3. PICK u \in Nat : ~Divides(u, v)
    BY <2>1
  <2>4. u % v \in 0 .. v - 1
    BY <2>2
  <2>5. CASE u % v = 0
    BY <1>1, <1>2, <2>2, <2>3, <2>5
  <2>6. CASE u % v # 0
    <3>1. u % v \in Nat /\ u % v < v /\ v \in Nat
      BY <2>2, <2>4
    <3>2. u % v \notin T
      BY <2>1, <2>4, <3>1
    <3>3. Divides(v, u % v)
      BY <2>6, <3>1, <3>2
    <3> QED
      BY <1>2, <2>2, <2>3, <3>3
  <2> QED
    BY <2>5, <2>6
<1>4. Divides(x, y)
  BY <1>3
<1> QED
  BY <1>4 DEF Divides

\* A multiple is divided without a rest.
LEMMA ExactQuotient ==
  ASSUME NEW a \in Nat, NEW g \in Nat \ {0}
  PROVE  (a * g) \div g = a
<1>1. PICK n \in Nat : n = a * g
  OBVIOUS
<1>2. 0 < g /\ g \in Nat /\ n \div g \in Nat /\ n % g \in 0 .. g - 1
  OBVIOUS
<1>3. (n % g) + g * (n \div g) = n
  BY <1>2
<1>4. PICK q \in Nat, r \in 0 .. g - 1 : q = n \div g /\ r = n % g
  BY <1>2
<1>5. r + g * q = a * g
  BY <1>1, <1>3, <1>4
<1>6. g * (a - q) = r
  <2>1. g * (a - q) = a * g - g * q
    OBVIOUS
  <2> QED
    BY <1>2, <1>4, <1>5, <2>1
<1>7. a - q > 0 => g * (a - q) >= g
  BY <1>2
<1>8. a - q < 0 => g * (a - q) <= -g
  BY <1>2
<1>9. a = q
  BY <1>2, <1>6, <1>7, <1>8
<1> QED
  BY <1>1, <1>4, <1>9

\* A fraction in lowest terms has the value it is made of.
LEMMA FractionValue ==
  ASSUME NEW num \in Int, NEW den \in Nat \ {0}
  PROVE  /\ Fraction(num, den) \in Fractions
         /\ Fraction(num, den).num * den = num * Fraction(num, den).den
<1>1. Abs(num) \in Nat
  BY DEF Abs
<1>2. PICK g \in Nat \ {0}, a \in Nat, b \in Nat :
        Gcd[den][Abs(num)] = g /\ Abs(num) = a * g /\ den = b * g
  BY <1>1, GcdDivides
<1>3. Abs(num) \div g = a /\ den \div g = b
  BY <1>2, ExactQuotient
<1>4. b # 0
  BY <1>2
<1>5. PICK n \in {a, -a} : n = IF num < 0 THEN -a ELSE a
  OBVIOUS
<1>6. Fraction(num, den) = [num |-> n, den |-> b]
  BY <1>2, <1>3, <1>5 DEF Fraction, Abs
<1>7. num = n * g
  <2>1. CASE num < 0
    <3>1. -num = a * g /\ n = -a
      BY <1>2, <1>5, <2>1 DEF Abs
    <3>2. (-a) * g = -(a * g)
      OBVIOUS
    <3> QED
      BY <3>1, <3>2
  <2>2. CASE ~(num < 0)
    BY <1>2, <1>5, <2>2 DEF Abs
  <2> QED
    BY <2>1, <2>2
<1>8. n \in Int /\ b \in Nat \ {0}
  BY <1>4
<1>9. n * (b * g) = (n * g) * b
  BY <1>8
<1> QED
  BY <1>2, <1>6, <1>7, <1>8, <1>9 DEF Fractions

----------------------------------------------------------------------------
(* Arithmetic.                                                              *)

\* A common factor cancels.
LEMMA Cancel ==
  ASSUME NEW k \in Nat \ {0}, NEW x \in Int, NEW y \in Int, k * x = k * y
  PROVE  x = y
<1>1. PICK d \in Int : d = x - y
  OBVIOUS
<1>2. k * d = k * x - k * y
  BY <1>1
<1>3. k * d = 0
  BY <1>2
<1>4. d > 0 => k * d > 0
  OBVIOUS
<1>5. d < 0 => k * d < 0
  OBVIOUS
<1> QED
  BY <1>1, <1>3, <1>4, <1>5

\* The sign of a product.
LEMMA SignOfProduct ==
  ASSUME NEW x \in Int, NEW y \in Int
  PROVE  /\ x * y > 0 <=> (x > 0 /\ y > 0) \/ (x < 0 /\ y < 0)
         /\ x * y < 0 <=> (x > 0 /\ y < 0) \/ (x < 0 /\ y > 0)
<1>1. (x > 0 /\ y > 0) \/ (x < 0 /\ y < 0) => x * y > 0
  OBVIOUS
<1>2. (x > 0 /\ y < 0) \/ (x < 0 /\ y > 0) => x * y < 0
  OBVIOUS
<1>3. x = 0 \/ y = 0 => x * y = 0
  OBVIOUS
<1>4. x * y \in Int
  OBVIOUS
<1> QED
  BY <1>1, <1>2, <1>3, <1>4

\* What a fill realises: nothing unless it closes lots; then, for each lot it
\* closes, the difference of its price and the average.
LEMMA RealizedIs ==
  ASSUME NEW old \in Int, NEW avg \in Fractions, NEW delta \in Int, NEW price \in Nat,
         NEW r, r = RealizedOnFill(old, avg, delta, price)
  PROVE  /\ r \in Fractions
         /\ ~(old > 0 /\ delta < 0) /\ ~(old < 0 /\ delta > 0) => r.num = 0 /\ r.den = 1
         /\ (old > 0 /\ delta < 0) \/ (old < 0 /\ delta > 0) =>
              r.num * avg.den
                = (IF Abs(old) <= Abs(delta) THEN old ELSE -delta)
                    * (price * avg.den - avg.num) * r.den
<1>1. old = 0 \/ old * delta >= 0 <=> ~(old > 0 /\ delta < 0) /\ ~(old < 0 /\ delta > 0)
  BY SignOfProduct
<1>2. CASE old = 0 \/ old * delta >= 0
  BY <1>1, <1>2 DEF RealizedOnFill, Zero, Fractions
<1>3. CASE ~(old = 0 \/ old * delta >= 0)
  <2> DEFINE closed == Smaller(Abs(old), Abs(delta))
             side   == IF old > 0 THEN 1 ELSE -1
             diff   == price * avg.den - avg.num
             lots   == IF Abs(old) <= Abs(delta) THEN old ELSE -delta
  <2>1. side * closed = lots /\ lots \in Int
    BY <1>1, <1>3 DEF Smaller, Abs
  <2>2. diff \in Int /\ avg.den \in Nat \ {0}
    BY DEF Fractions
  <2>3. r = Fraction(side * closed * diff, avg.den)
    BY <1>3 DEF RealizedOnFill
  <2> HIDE DEF lots, diff, closed, side
  <2>4. r = Fraction(lots * diff, avg.den) /\ lots * diff \in Int
    BY <2>1, <2>2, <2>3
  <2>5. r \in Fractions /\ r.num * avg.den = (lots * diff) * r.den
    BY <2>2, <2>4, FractionValue
  <2> QED
    BY <1>1, <1>3, <2>5 DEF lots, diff
<1> QED
  BY <1>2, <1>3

\* The average entry price after a fill: kept while lots are closed, the
\* price when the position changes sides, of all lots when some are added.
LEMMA AverageIs ==
  ASSUME NEW old \in Int, NEW avg \in Fractions, NEW delta \in Int, NEW price \in Nat,
         NEW new \in Int, new = old + delta,
         NEW a, a = NewAverage(old, avg, delta, price)
  PROVE  /\ a \in Fractions
         /\ \/ new = 0 /\ a.num = 0 /\ a.den = 1
            \/ /\ old = 0 \/ (old > 0 /\ delta > 0) \/ (old < 0 /\ delta < 0)
               /\ a.num * (new * avg.den) = (old * avg.num + delta * price * avg.den) * a.den
            \/ /\ \/ delta = 0
                  \/ (old > 0 /\ delta < 0 /\ new > 0) \/ (old < 0 /\ delta > 0 /\ new < 0)
               /\ a = avg
            \/ /\ (old > 0 /\ delta < 0 /\ new < 0) \/ (old < 0 /\ delta > 0 /\ new > 0)
               /\ a.num = price /\ a.den = 1
<1>a. avg.num \in Int /\ avg.den \in Nat \ {0}
  BY DEF Fractions
<1>1. CASE new = 0
  BY <1>1 DEF NewAverage, Zero, Fractions
<1>2. CASE new # 0 /\ (old = 0 \/ old * delta > 0)
  <2>1. old = 0 \/ (old > 0 /\ delta > 0) \/ (old < 0 /\ delta < 0)
    BY <1>2, SignOfProduct
  <2> DEFINE num == Abs(old) * avg.num + Abs(delta) * price * avg.den
             den == Abs(new) * avg.den
  <2>2. a = Fraction(num, den)
    BY <1>2 DEF NewAverage
  <2>3. Abs(old) \in Nat /\ Abs(delta) \in Nat /\ Abs(new) \in Nat \ {0}
    BY <1>2 DEF Abs
  <2>4. num \in Int /\ den \in Nat \ {0}
    BY <1>a, <2>3
  <2>5. a \in Fractions /\ a.num * den = num * a.den
    <3> HIDE DEF num, den
    <3> QED
      BY <2>2, <2>4, FractionValue
  <2>6. a.num \in Int /\ a.den \in Nat \ {0}
    BY <2>5 DEF Fractions
  <2>7. PICK s \in {1, -1} : Abs(old) = s * old /\ Abs(delta) = s * delta /\ Abs(new) = s * new
    <3>1. CASE new > 0
      <4>1. old >= 0 /\ delta >= 0
        BY <2>1, <3>1
      <4> QED
        BY <3>1, <4>1 DEF Abs
    <3>2. CASE new < 0
      <4>1. old <= 0 /\ delta <= 0
        BY <2>1, <3>2
      <4> QED
        BY <3>2, <4>1 DEF Abs
    <3> QED
      BY <1>2, <3>1, <3>2
  <2>8. a.num * (s * new * avg.den) = (s * old * avg.num + s * delta * price * avg.den) * a.den
    BY <2>5, <2>7
  <2>9. a.num * (new * avg.den) = (old * avg.num + delta * price * avg.den) * a.den
    <3>1. PICK n \in Int, d \in Nat \ {0}, an \in Int, ad \in Nat \ {0} :
            n = a.num /\ d = a.den /\ an = avg.num /\ ad = avg.den
      BY <1>a, <2>6
    <3>2. n * (s * new * ad) = (s * old * an + s * delta * price * ad) * d
      BY <2>8, <3>1
    <3>3. n * (new * ad) = (old * an + delta * price * ad) * d
      <4>1. CASE s = 1
        BY <3>2, <4>1
      <4>2. CASE s = -1
        <5>1. n * (s * new * ad) = -(n * (new * ad))
          BY <4>2
        <5>2. (s * old * an + s * delta * price * ad) * d = -((old * an + delta * price * ad) * d)
          BY <4>2
        <5>3. n * (new * ad) \in Int /\ (old * an + delta * price * ad) * d \in Int
          OBVIOUS
        <5> QED
          BY <3>2, <5>1, <5>2, <5>3
      <4> QED
        BY <4>1, <4>2
    <3> QED
      BY <3>1, <3>3
  <2> QED
    BY <2>1, <2>5, <2>9
<1>3. CASE new # 0 /\ old # 0 /\ old * delta <= 0 /\ old * new > 0
  <2>1. a = avg
    BY <1>3 DEF NewAverage
  <2> QED
    BY <1>3, <2>1, SignOfProduct
<1>4. CASE new # 0 /\ old # 0 /\ old * delta <= 0 /\ ~(old * new > 0)
  <2>1. a = [num |-> price, den |-> 1]
    BY <1>4 DEF NewAverage
  <2>2. (old > 0 /\ delta < 0 /\ new < 0) \/ (old < 0 /\ delta > 0 /\ new > 0)
    BY <1>4, SignOfProduct
  <2> QED
    BY <2>1, <2>2 DEF Fractions
<1> QED
  <2>1. old * delta \in Int
    OBVIOUS
  <2> QED
    BY <1>1, <1>2, <1>3, <1>4, <2>1

\* A fill changes the position at its average price by what it costs and by
\* what it realises.
LEMMA FillBalances ==
  ASSUME NEW old \in Int, NEW avg \in Fractions, NEW delta \in Int, NEW price \in Nat,
         NEW new \in Int, new = old + delta,
         NEW a, a = NewAverage(old, avg, delta, price),
         NEW r, r = RealizedOnFill(old, avg, delta, price)
  PROVE  new * a.num * avg.den * r.den
           = old * avg.num * a.den * r.den + delta * price * a.den * avg.den * r.den
               + r.num * a.den * avg.den
<1>0. a \in Fractions
  BY AverageIs
<1>1. /\ r \in Fractions
      /\ ~(old > 0 /\ delta < 0) /\ ~(old < 0 /\ delta > 0) => r.num = 0 /\ r.den = 1
      /\ (old > 0 /\ delta < 0) \/ (old < 0 /\ delta > 0) =>
           r.num * avg.den
             = (IF Abs(old) <= Abs(delta) THEN old ELSE -delta)
                 * (price * avg.den - avg.num) * r.den
  BY RealizedIs
<1>2. PICK n \in Int, d \in Nat \ {0}, an \in Int, ad \in Nat \ {0}, rn \in Int,
           rd \in Nat \ {0} :
        /\ n = a.num /\ d = a.den /\ an = avg.num /\ ad = avg.den
        /\ rn = r.num /\ rd = r.den
  BY <1>0, <1>1 DEF Fractions
<1>3. CASE ~(old > 0 /\ delta < 0) /\ ~(old < 0 /\ delta > 0)
  <2>1. rn = 0 /\ rd = 1
    BY <1>1, <1>2, <1>3
  <2>2. SUFFICES new * n * ad = old * an * d + delta * price * d * ad
    BY <2>1, <1>2
  <2>3. CASE old = 0 \/ (old > 0 /\ delta > 0) \/ (old < 0 /\ delta < 0)
    <3>1. CASE new = 0
      <4>1. old = 0 /\ delta = 0
        BY <2>3, <3>1
      <4> QED
        BY <3>1, <4>1
    <3>2. CASE new # 0
      <4>1. n * (new * ad) = (old * an + delta * price * ad) * d \/ (delta = 0 /\ n = an /\ d = ad)
        BY <1>2, <1>3, <3>2, AverageIs
      <4>2. n * (new * ad) = new * n * ad
        OBVIOUS
      <4>3. (old * an + delta * price * ad) * d = old * an * d + delta * price * d * ad
        OBVIOUS
      <4>4. CASE delta = 0 /\ n = an /\ d = ad
        BY <4>4
      <4> QED
        BY <4>1, <4>2, <4>3, <4>4
    <3> QED
      BY <3>1, <3>2
  <2>4. CASE delta = 0 /\ old # 0
    <3>1. new = old
      BY <2>4
    <3>2. a = avg
      <4>1. new # 0
        BY <2>4
      <4> QED
        BY <2>4, <4>1, AverageIs
    <3>3. n = an /\ d = ad
      BY <1>2, <3>2
    <3> QED
      BY <2>4, <3>1, <3>3
  <2> QED
    BY <1>3, <2>3, <2>4
<1>4. CASE (old > 0 /\ delta < 0) \/ (old < 0 /\ delta > 0)
  <2>1. PICK lots \in Int : lots = IF Abs(old) <= Abs(delta) THEN old ELSE -delta
    OBVIOUS
  <2>2. rn * ad = lots * (price * ad - an) * rd
    BY <1>1, <1>2, <1>4, <2>1
  <2>3. SUFFICES new * n * ad * rd
                   = old * an * d * rd + delta * price * d * ad * rd
                       + (lots * (price * ad - an) * rd) * d
    <3>1. rn * d * ad = (rn * ad) * d
      OBVIOUS
    <3> QED
      BY <1>2, <2>2, <3>1
  <2>4. \/ new = 0 /\ n = 0 /\ d = 1
        \/ /\ (old > 0 /\ delta < 0 /\ new > 0) \/ (old < 0 /\ delta > 0 /\ new < 0)
           /\ n = an /\ d = ad
        \/ /\ (old > 0 /\ delta < 0 /\ new < 0) \/ (old < 0 /\ delta > 0 /\ new > 0)
           /\ n = price /\ d = 1
    BY <1>2, <1>4, AverageIs
  <2>5. CASE new = 0 /\ n = 0 /\ d = 1
    <3>1. lots = old /\ delta = -old
      BY <1>4, <2>1, <2>5 DEF Abs
    <3> QED
      BY <2>5, <3>1
  <2>6. CASE /\ (old > 0 /\ delta < 0 /\ new > 0) \/ (old < 0 /\ delta > 0 /\ new < 0)
             /\ n = an /\ d = ad
    <3>1. lots = -delta
      BY <1>4, <2>1, <2>6 DEF Abs
    <3> QED
      BY <2>6, <3>1
  <2>7. CASE /\ (old > 0 /\ delta < 0 /\ new < 0) \/ (old < 0 /\ delta > 0 /\ new > 0)
             /\ n = price /\ d = 1
    <3>1. lots = old
      BY <1>4, <2>1, <2>7 DEF Abs
    <3> QED
      BY <2>7, <3>1
  <2> QED
    BY <2>4, <2>5, <2>6, <2>7
<1> QED
  BY <1>3, <1>4

\* The books after a fill, from the books before it: x is what the initial
\* equity exceeds the cash and the fees by.
LEMMA BooksKept ==
  ASSUME NEW u \in Nat \ {0}, NEW x \in Int,
         NEW old \in Int, NEW an \in Int, NEW ad \in Nat \ {0},
         NEW sn \in Int, NEW sd \in Nat \ {0},
         NEW new \in Int, NEW n \in Int, NEW d \in Nat \ {0},
         NEW rn \in Int, NEW rd \in Nat \ {0},
         NEW tn \in Int, NEW td \in Nat \ {0},
         NEW cost \in Int,
         old * an * sd * u = x * ad * sd + sn * ad * u,
         new * n * ad * rd = old * an * d * rd + cost * d * ad * rd + rn * d * ad,
         tn * (sd * rd) = (sn * rd + rn * sd) * td
  PROVE  new * n * td * u = (x + cost * u) * d * td + tn * d * u
<1> DEFINE k == ad * sd * rd
<1>1. k \in Nat \ {0}
  OBVIOUS
<1>2. k * (new * n * td * u) = (td * u * sd) * (new * n * ad * rd)
  OBVIOUS
<1>3. (td * u * sd) * (new * n * ad * rd)
        = (td * d * rd) * (old * an * sd * u) + cost * u * (d * td * ad * sd * rd)
            + rn * (td * u * sd * d * ad)
  BY SMTT(60)
<1>4. (td * d * rd) * (old * an * sd * u)
        = x * (ad * sd * td * d * rd) + sn * (ad * u * td * d * rd)
  BY SMTT(60)
<1>5. k * ((x + cost * u) * d * td + tn * d * u)
        = x * (ad * sd * td * d * rd) + cost * u * (d * td * ad * sd * rd)
            + (d * u * ad) * (tn * (sd * rd))
  OBVIOUS
<1>6. (d * u * ad) * (tn * (sd * rd))
        = sn * (ad * u * td * d * rd) + rn * (td * u * sd * d * ad)
  BY SMTT(60)
<1>7. k * (new * n * td * u) = k * ((x + cost * u) * d * td + tn * d * u)
  BY <1>2, <1>3, <1>4, <1>5, <1>6
<1>8. new * n * td * u \in Int /\ (x + cost * u) * d * td + tn * d * u \in Int
  OBVIOUS
<1> HIDE DEF k
<1> QED
  BY <1>1, <1>7, <1>8, Cancel

----------------------------------------------------------------------------
(* The books.                                                               *)

\* Beyond ProfitAddsUp: the prices are fractions, and the account's amounts are
\* integers.
BooksInv ==
  /\ IInv
  /\ average \in Fractions /\ realized \in Fractions
  /\ fills \in 0 .. MaxFills
  /\ ProfitAddsUp

\* A new broker has its initial equity in cash.
LEMMA BooksStart == Init => BooksInv
<1> SUFFICES ASSUME Init PROVE BooksInv
  OBVIOUS
<1>1. IInv
  BY IInvInitially
<1>2. average = Zero /\ realized = Zero /\ fills = 0 /\ MaxFills \in Nat
  BY BrokerAssumption DEF Init, BrokerAssumption
<1>3. PICK e \in Nat : e = InitialEquity * Unit * Unit
  BY AccountsAssumption, BrokerAssumption DEF AccountsAssumption, BrokerAssumption
<1>4. account = [cash |-> e, quantity |-> 0, fees |-> 0]
  BY <1>3 DEF Init
<1>5. ProfitAddsUp
  BY <1>2, <1>3, <1>4, AccountsAssumption DEF ProfitAddsUp, Zero, AccountsAssumption
<1> QED
  BY <1>1, <1>2, <1>5 DEF BooksInv, Zero, Fractions

\* A fill keeps them.
LEMMA OrderKeepsBooks ==
  ASSUME BooksInv, NEW target \in Targets, NEW quote \in Quotes, Order(target, quote)
  PROVE  average' \in Fractions /\ realized' \in Fractions /\ ProfitAddsUp'
<1> USE AccountsAssumption, BrokerAssumption DEF AccountsAssumption, BrokerAssumption
<1> DEFINE mark  == Mid(quote)
           buyAt == BuyAt(quote)
           lots  == Delta(policy, account, target, mark, buyAt)
           paid  == IF Wanted(policy, account, target, mark) > 0 THEN buyAt ELSE SellAt(quote)
<1>1. policy \in Policies /\ account \in Account /\ average \in Fractions /\ realized \in Fractions
  BY DEF BooksInv, IInv
<1>2. mark \in Nat \ {0} /\ buyAt \in Nat \ {0} /\ SellAt(quote) \in Nat /\ target \in Int
  BY PricesOfQuote
<1>3. lots \in Int /\ paid \in Nat
  BY <1>1, <1>2, OrderIsInteger
<1>4. /\ account' = Settled(account, lots, paid)
      /\ realized' = Sum(realized, RealizedOnFill(account.quantity, average, lots, paid))
      /\ average' = NewAverage(account.quantity, average, lots, paid)
  BY DEF Order
<1> HIDE DEF mark, buyAt, lots, paid
<1>5. PICK delta \in Int, price \in Nat : delta = lots /\ price = paid
  BY <1>3
<1>6. PICK old \in Int, new \in Int : old = account.quantity /\ new = old + delta
  BY <1>1 DEF Account
<1>7. PICK r : r = RealizedOnFill(old, average, delta, price)
  OBVIOUS
<1>8. PICK a : a = NewAverage(old, average, delta, price)
  OBVIOUS
<1>9. a \in Fractions
  BY <1>1, <1>6, <1>8, AverageIs
<1>10. r \in Fractions
  BY <1>1, <1>7, RealizedIs
<1>11. PICK an \in Int, ad \in Nat \ {0}, sn \in Int, sd \in Nat \ {0}, n \in Int,
            d \in Nat \ {0}, rn \in Int, rd \in Nat \ {0} :
         /\ an = average.num /\ ad = average.den /\ sn = realized.num /\ sd = realized.den
         /\ n = a.num /\ d = a.den /\ rn = r.num /\ rd = r.den
  BY <1>1, <1>9, <1>10 DEF Fractions
<1>12. PICK t : t = Sum(realized, r)
  OBVIOUS
<1>13. t \in Fractions /\ t.num * (sd * rd) = (sn * rd + rn * sd) * t.den
  <2>1. t = Fraction(sn * rd + rn * sd, sd * rd)
    BY <1>11, <1>12 DEF Sum
  <2>2. sn * rd + rn * sd \in Int /\ sd * rd \in Nat \ {0}
    OBVIOUS
  <2> QED
    BY <2>1, <2>2, FractionValue
<1>14. PICK tn \in Int, td \in Nat \ {0} : tn = t.num /\ td = t.den
  BY <1>13 DEF Fractions
<1>15. /\ average' = a /\ realized' = t /\ account'.quantity = new
  BY <1>4, <1>5, <1>6, <1>7, <1>8, <1>12 DEF Settled
<1>16. PICK e \in Nat, c \in Int, f \in Nat, w \in Nat :
         /\ e = InitialEquity * Unit * Unit /\ c = account.cash /\ f = account.fees
         /\ w = Abs(delta * price) * Fee
  <2>1. delta * price \in Int
    OBVIOUS
  <2>2. Abs(delta * price) \in Nat
    BY <2>1 DEF Abs
  <2>3. InitialEquity * Unit * Unit \in Nat /\ Abs(delta * price) * Fee \in Nat
    BY <2>2
  <2> QED
    BY <1>1, <2>3 DEF Account
<1>17. account'.cash = c - delta * price * Unit - w /\ account'.fees = f + w
  BY <1>4, <1>5, <1>16 DEF Settled
<1>18. PICK u \in Nat \ {0} : u = Unit
  OBVIOUS
<1>19. PICK x \in Int : x = e - f - c
  BY <1>16
<1>20. old * an * sd * u = x * ad * sd + sn * ad * u
  <2>1. c * ad * sd + old * an * sd * u = (e - f) * ad * sd + sn * ad * u
    BY <1>6, <1>11, <1>16, <1>18 DEF BooksInv, ProfitAddsUp
  <2>2. x * ad * sd = (e - f) * ad * sd - c * ad * sd
    BY <1>19
  <2>3. /\ c * ad * sd \in Int /\ old * an * sd * u \in Int
        /\ (e - f) * ad * sd \in Int /\ sn * ad * u \in Int
    OBVIOUS
  <2> QED
    BY <2>1, <2>2, <2>3
<1>21. PICK cost \in Int : cost = delta * price
  OBVIOUS
<1>22. new * n * ad * rd = old * an * d * rd + cost * d * ad * rd + rn * d * ad
  BY <1>1, <1>6, <1>7, <1>8, <1>11, <1>21, FillBalances
<1>23. tn * (sd * rd) = (sn * rd + rn * sd) * td
  BY <1>13, <1>14
<1>24. new * n * td * u = (x + cost * u) * d * td + tn * d * u
  BY <1>20, <1>22, <1>23, BooksKept
<1>25. (c - cost * u - w) * d * td + new * n * td * u = (e - (f + w)) * d * td + tn * d * u
  <2>1. (e - (f + w)) * d * td = (x + cost * u) * d * td + (c - cost * u - w) * d * td
    BY <1>19
  <2>2. /\ (c - cost * u - w) * d * td \in Int /\ tn * d * u \in Int
        /\ (x + cost * u) * d * td \in Int
    OBVIOUS
  <2> QED
    BY <1>24, <2>1, <2>2
<1>26. ProfitAddsUp'
  BY <1>11, <1>14, <1>15, <1>16, <1>17, <1>18, <1>21, <1>25 DEF ProfitAddsUp
<1> QED
  BY <1>9, <1>13, <1>15, <1>26

\* Every step keeps the books.
LEMMA BooksPreserved == BooksInv /\ [Next]_vars => BooksInv'
<1> SUFFICES ASSUME BooksInv, [Next]_vars PROVE BooksInv'
  OBVIOUS
<1>1. IInv'
  BY IInvPreserved DEF BooksInv
<1>2. CASE Next
  <2>1. PICK target \in Targets, quote \in Quotes : Order(target, quote)
    BY <1>2 DEF Next, Rebalance
  <2>2. fills < MaxFills /\ fills' = fills + 1
    BY <1>2, <2>1 DEF Next, Rebalance, Order
  <2>3. fills' \in 0 .. MaxFills
    BY <2>2, BrokerAssumption DEF BooksInv, BrokerAssumption
  <2>4. average' \in Fractions /\ realized' \in Fractions /\ ProfitAddsUp'
    BY <2>1, OrderKeepsBooks
  <2> QED
    BY <1>1, <2>3, <2>4 DEF BooksInv
<1>3. CASE UNCHANGED vars
  BY <1>1, <1>3 DEF BooksInv, ProfitAddsUp, vars
<1> QED
  BY <1>2, <1>3

\* The broker's variables keep their types: its prices stay fractions with a
\* denominator, whatever it divides by.
THEOREM BrokerTyped == Spec => []TypeOK
<1>1. BooksInv => TypeOK
  BY DEF BooksInv, IInv, TypeOK
<1> QED
  BY <1>1, BooksStart, BooksPreserved, PTL DEF Spec

\* The books balance through every sequence of purchases, sales, partial closes
\* and reversals, at whatever quotes, rates and slippage.
THEOREM ProfitIsComplete == Spec => []ProfitAddsUp
<1>1. BooksInv => ProfitAddsUp
  BY DEF BooksInv
<1> QED
  BY <1>1, BooksStart, BooksPreserved, PTL DEF Spec
=============================================================================
