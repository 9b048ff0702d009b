--------------------------- MODULE BacktestProofs ---------------------------
(***************************************************************************)
(* A backtest, for every number of rows, every price, target and limit:    *)
(* its types and policy, the account recomputed from the rows, the deepest *)
(* drawdown and the equity points.                                         *)
(***************************************************************************)
EXTENDS Backtest, FiniteSetTheorems, WellFoundedInduction, TLAPS

(***************************************************************************)
(* What an order does to an account, for every unit, fee and minimum.      *)
(***************************************************************************)

\* Less-than on the naturals is well-founded.
LEMMA LessIsWellFounded ==
  \E R : IsWellFoundedOn(R, Nat) /\ \A a, b \in Nat : a < b => <<a, b>> \in R
<1>1. IsWellFoundedOn(OpToRel(<, Nat), Nat)
  BY NatLessThanWellFounded
<1>2. \A a, b \in Nat : a < b => <<a, b>> \in OpToRel(<, Nat)
  BY DEF OpToRel
<1> QED
  BY <1>1, <1>2, Zenon

\* A set of naturals that is not empty has a least member.
LEMMA LeastNumber ==
  ASSUME NEW T \in SUBSET Nat, T # {}
  PROVE  \E x \in T : \A y \in T : x <= y
<1>1. PICK R : IsWellFoundedOn(R, Nat) /\ \A a, b \in Nat : a < b => <<a, b>> \in R
  BY LessIsWellFounded
<1>2. IsWellFoundedOn(R, Nat) /\ T \subseteq Nat /\ T # {}
  BY <1>1
<1>3. PICK x \in T : \A y \in T : ~(<<y, x>> \in R)
  BY <1>2, WFMin, Zenon
<1>4. \A y \in T : ~(y < x)
  BY <1>1, <1>3
<1> QED
  BY <1>4

\* Rounding down never exceeds what is divided.
LEMMA FloorIsBelow ==
  ASSUME NEW x \in Nat, NEW y \in Nat \ {0}
  PROVE  x \div y \in Nat /\ (x \div y) * y <= x
OBVIOUS

\* Neither does anything below the rounded quotient.
LEMMA BelowFloor ==
  ASSUME NEW x \in Nat, NEW y \in Nat \ {0}, NEW d \in Int, d <= x \div y
  PROVE  d * y <= x
<1>1. x \div y \in Nat /\ (x \div y) * y <= x
  BY FloorIsBelow
<1>2. d * y <= (x \div y) * y
  BY <1>1
<1> QED
  BY <1>1, <1>2

\* A purchase costs its lots at the price, with the fee.
LEMMA PurchaseCost ==
  ASSUME NEW a \in Account, NEW delta \in Nat, NEW price \in Nat, AccountsAssumption
  PROVE  Settled(a, delta, price).cash = a.cash - delta * (price * (Unit + Fee))
<1>1. delta * price \in Nat
  OBVIOUS
<1>2. Abs(delta * price) = delta * price
  BY <1>1 DEF Abs
<1>3. delta * (price * (Unit + Fee)) = delta * price * Unit + delta * price * Fee
  BY DEF AccountsAssumption
<1> QED
  BY <1>2, <1>3 DEF Settled, Account, AccountsAssumption

\* A sale does not lower the cash, because the fee is part of what it brings.
LEMMA SaleBringsCash ==
  ASSUME NEW a \in Account, NEW delta \in Int, delta <= 0, NEW price \in Nat,
         AccountsAssumption
  PROVE  Settled(a, delta, price).cash >= a.cash
<1> DEFINE worth == (-delta) * price
<1>1. worth \in Nat /\ delta * price = -worth
  OBVIOUS
<1>2. Abs(delta * price) = worth
  BY <1>1 DEF Abs
<1>3. worth * Fee <= worth * Unit
  BY <1>1 DEF AccountsAssumption
<1>4. delta * price * Unit = -(worth * Unit)
  BY <1>1 DEF AccountsAssumption
<1>5. worth * Fee \in Nat /\ worth * Unit \in Nat
  BY <1>1 DEF AccountsAssumption
<1> QED
  BY <1>2, <1>3, <1>4, <1>5 DEF Settled, Account

\* A settled account is an account: its fees only grow.
LEMMA SettledIsAccount ==
  ASSUME NEW a \in Account, NEW delta \in Int, NEW price \in Nat, AccountsAssumption
  PROVE  Settled(a, delta, price) \in Account
<1>1. delta * price \in Int
  OBVIOUS
<1>2. Abs(delta * price) \in Nat
  BY <1>1 DEF Abs
<1>3. Abs(delta * price) * Fee \in Nat
  BY <1>2 DEF AccountsAssumption
<1>4. delta * price * Unit \in Int
  BY <1>1 DEF AccountsAssumption
<1> QED
  BY <1>3, <1>4 DEF Settled, Account

\* What an order is computed from is integers.
LEMMA OrderIsInteger ==
  ASSUME NEW p \in Policies, NEW a \in Account, NEW target \in Int,
         NEW mark \in Nat \ {0}, NEW buyAt \in Nat \ {0}, AccountsAssumption
  PROVE  /\ Equity(a, mark) \in Int
         /\ Clamp(p, target) \in Int
         /\ Wanted(p, a, target, mark) \in Int
         /\ Affordable(a, buyAt) \in Nat
         /\ Delta(p, a, target, mark, buyAt) \in Int
<1>1. Equity(a, mark) \in Int
  BY DEF Equity, Account, AccountsAssumption
<1>2. Clamp(p, target) \in Int
  BY DEF Clamp, Smaller, Larger, Policies
<1>3. mark * Unit * Unit * Unit \in Nat \ {0}
  BY DEF AccountsAssumption
<1>4. Wanted(p, a, target, mark) \in Int
  BY <1>1, <1>2, <1>3 DEF Wanted, Account
<1>5. Larger(a.cash, 0) \in Nat
  BY DEF Larger, Account
<1>6. buyAt * (Unit + Fee) \in Nat \ {0}
  BY DEF AccountsAssumption
<1>7. Affordable(a, buyAt) \in Nat
  BY <1>5, <1>6, FloorIsBelow DEF Affordable
<1>8. Delta(p, a, target, mark, buyAt) \in Int
  BY <1>4, <1>7 DEF Delta, Smaller
<1> QED
  BY <1>1, <1>2, <1>4, <1>7, <1>8

\* A filled order leaves a solvent account within its policy.
LEMMA OrderKeepsPolicy ==
  ASSUME NEW p \in Policies, NEW a \in Account, NEW target \in Int,
         NEW mark \in Nat \ {0}, NEW buyAt \in Nat \ {0}, NEW sellAt \in Nat,
         AccountsAssumption, WithinPolicy(p, a),
         Fills(p, a, target, mark, buyAt)
  PROVE  WithinPolicy(p, Settled(a, Delta(p, a, target, mark, buyAt),
                                 IF Wanted(p, a, target, mark) > 0 THEN buyAt ELSE sellAt))
<1> DEFINE wanted == Wanted(p, a, target, mark)
           delta  == Delta(p, a, target, mark, buyAt)
           price  == IF wanted > 0 THEN buyAt ELSE sellAt
           equity == Equity(a, mark)
<1>1. /\ equity \in Int /\ Clamp(p, target) \in Int /\ wanted \in Int
      /\ Affordable(a, buyAt) \in Nat /\ delta \in Int
  BY OrderIsInteger
<1>2. price \in Nat
  OBVIOUS
<1>3. ASSUME ~p.short PROVE Settled(a, delta, price).quantity >= 0
  <2>1. equity > 0 /\ a.quantity >= 0 /\ a.quantity \in Int
    BY <1>3 DEF Fills, WithinPolicy, Account
  <2>2. Clamp(p, target) >= 0
    BY <1>3 DEF Clamp, Smaller, Larger, Policies
  <2>3. Clamp(p, target) * equity \in Nat
    BY <1>1, <2>1, <2>2
  <2>4. mark * Unit * Unit * Unit \in Nat \ {0}
    BY DEF AccountsAssumption
  <2>5. wanted + a.quantity >= 0
    <3>1. (Clamp(p, target) * equity) \div (mark * Unit * Unit * Unit) \in Nat
      BY <2>3, <2>4, FloorIsBelow
    <3> QED
      BY <3>1, <2>1 DEF Wanted
  <2>6. delta + a.quantity >= 0
    BY <1>1, <2>1, <2>5 DEF Delta, Smaller
  <2> QED
    BY <1>1, <2>1, <2>6 DEF Settled
<1>4. ASSUME CannotBorrow(p) PROVE Settled(a, delta, price).cash >= 0
  <2>1. a.cash \in Nat
    BY <1>4 DEF WithinPolicy, Account
  <2>2. CASE wanted > 0
    <3>1. delta <= Affordable(a, buyAt) /\ delta \in Nat
      BY <1>1, <1>4, <2>2 DEF Delta, Smaller
    <3>2. Affordable(a, buyAt) = a.cash \div (buyAt * (Unit + Fee))
      BY <2>1 DEF Affordable, Larger
    <3>3. buyAt * (Unit + Fee) \in Nat \ {0}
      BY DEF AccountsAssumption
    <3>4. delta * (buyAt * (Unit + Fee)) <= a.cash
      <4> DEFINE cost == buyAt * (Unit + Fee)
      <4> HIDE DEF delta, cost
      <4>1. cost \in Nat \ {0} /\ delta \in Int /\ delta <= a.cash \div cost
        BY <3>1, <3>2, <3>3 DEF cost
      <4>2. delta * cost <= a.cash
        BY <2>1, <4>1, BelowFloor
      <4> QED
        BY <4>2 DEF cost
    <3>5. Settled(a, delta, buyAt).cash = a.cash - delta * (buyAt * (Unit + Fee))
      BY <3>1, PurchaseCost
    <3>6. delta * (buyAt * (Unit + Fee)) \in Int
      BY <3>1, <3>3
    <3> QED
      BY <2>1, <2>2, <3>4, <3>5, <3>6
  <2>3. CASE ~(wanted > 0)
    <3>1. delta <= 0
      BY <1>1, <2>3 DEF Delta
    <3>2. Settled(a, delta, sellAt).cash >= a.cash
      BY <1>1, <3>1, SaleBringsCash
    <3>3. Settled(a, delta, sellAt).cash \in Int
      BY <1>1, SettledIsAccount DEF Account
    <3> QED
      BY <2>1, <2>3, <3>2, <3>3
  <2> QED
    BY <2>2, <2>3
<1> QED
  BY <1>3, <1>4 DEF WithinPolicy

(***************************************************************************)
(* What the run does with its account.                                     *)
(***************************************************************************)

\* A run opens with cash and no position.
LEMMA OpenedIsAccount == Opened \in Account /\ Opened.cash \in Nat /\ Opened.quantity = 0
<1>1. InitialEquity * Unit * Unit \in Nat
  BY AccountsAssumption, BacktestAssumption DEF AccountsAssumption, BacktestAssumption
<1> QED
  BY <1>1 DEF Opened, Account

\* The execution prices of an open.
LEMMA PricesOfOpen ==
  ASSUME NEW open \in Prices
  PROVE  /\ open \in Nat \ {0}
         /\ BuyAt(open) \in Nat \ {0}
         /\ SellAt(open) \in Nat
<1>1. open \in Nat \ {0}
  BY BacktestAssumption DEF BacktestAssumption
<1>2. Unit + Friction \in Nat \ {0} /\ Unit - Friction \in Nat
  BY AccountsAssumption, BacktestAssumption DEF AccountsAssumption, BacktestAssumption
<1> QED
  BY <1>1, <1>2 DEF BuyAt, SellAt

\* A run begins with values of its types.
LEMMA TypeInitially == Init => TypeOK
<1> SUFFICES ASSUME Init PROVE TypeOK
  OBVIOUS
<1> USE OpenedIsAccount DEF Init
<1>1. policy \in Policies /\ total \in Nat
  BY BacktestAssumption DEF BacktestAssumption
<1>2. rows \in Seq(Row) /\ Len(rows) <= total
  BY <1>1, BacktestAssumption DEF BacktestAssumption
<1>3. peak \in Nat /\ peak >= Opened.cash /\ worst \in [equity : Int, peak : Nat]
  OBVIOUS
<1>4. curve \in Seq(Int) /\ Len(curve) = Len(rows)
  OBVIOUS
<1>5. points \in Seq(Nat) /\ fills \in Seq(Nat) /\ fillCount \in Nat
  OBVIOUS
<1> QED
  BY <1>1, <1>2, <1>3, <1>4, <1>5 DEF TypeOK

\* What an execution at an open does to the account and the fills.
LEMMA ExecuteKeeps ==
  ASSUME TypeOK, NeverBeyondPolicy, NEW open \in Prices, NEW row \in Nat,
         Execute(row, open), policy' = policy
  PROVE  /\ account' \in Account
         /\ fills' \in Seq(Nat) /\ fillCount' \in Nat
         /\ NeverBeyondPolicy'
<1> USE AccountsAssumption DEF TypeOK
<1>1. CASE pending # NoTarget /\ FillsAt(account, pending, open)
  <2> DEFINE buyAt == BuyAt(open)
             delta == Delta(policy, account, pending, open, buyAt)
             price == IF Wanted(policy, account, pending, open) > 0 THEN buyAt ELSE SellAt(open)
  <2>1. pending \in Int
    BY <1>1, BacktestAssumption DEF BacktestAssumption
  <2>2. open \in Nat \ {0} /\ buyAt \in Nat \ {0} /\ SellAt(open) \in Nat
    BY PricesOfOpen
  <2>3. Fills(policy, account, pending, open, buyAt) /\ WithinPolicy(policy, account)
    BY <1>1 DEF FillsAt, NeverBeyondPolicy
  <2>4. /\ account' = Settled(account, delta, price)
        /\ fills' = IF Len(fills) < MaxFills THEN Append(fills, row) ELSE fills
        /\ fillCount' = fillCount + 1
    BY <1>1 DEF Execute, Filled
  <2>5. WithinPolicy(policy, Settled(account, delta, price))
    BY <2>1, <2>2, <2>3, OrderKeepsPolicy
  <2>6. delta \in Int /\ price \in Nat
    BY <2>1, <2>2, OrderIsInteger
  <2>7. Settled(account, delta, price) \in Account
    BY <2>6, SettledIsAccount
  <2>8. fills' \in Seq(Nat) /\ fillCount' \in Nat
    BY <2>4
  <2> QED
    BY <2>4, <2>5, <2>7, <2>8 DEF NeverBeyondPolicy
<1>2. CASE ~(pending # NoTarget /\ FillsAt(account, pending, open))
  BY <1>2 DEF Execute, NeverBeyondPolicy
<1> QED
  BY <1>1, <1>2

\* What the close of a row does to peak, drawdown and curve.
LEMMA MarkKeeps ==
  ASSUME TypeOK, NEW equity \in Int, Mark(equity)
  PROVE  /\ peak' \in Nat /\ peak' >= Opened.cash
         /\ worst' \in [equity : Int, peak : Nat]
         /\ curve' \in Seq(Int) /\ Len(curve') = Len(curve) + 1
<1> USE OpenedIsAccount DEF TypeOK
<1>1. Larger(peak, equity) \in Nat /\ Larger(peak, equity) >= Opened.cash
  BY DEF Larger
<1>2. curve' = Append(curve, equity) /\ curve \in Seq(Int)
  BY DEF Mark
<1>3. peak' = Larger(peak, equity)
  BY DEF Mark
<1>4. \/ worst' = [equity |-> equity, peak |-> Larger(peak, equity)]
      \/ worst' = worst
  BY DEF Mark
<1>5. worst' \in [equity : Int, peak : Nat]
  BY <1>1, <1>4
<1>6. curve' \in Seq(Int) /\ Len(curve') = Len(curve) + 1
  BY <1>2
<1> QED
  BY <1>1, <1>3, <1>5, <1>6

\* Every row keeps the types and the policy.
LEMMA StepKeeps ==
  TypeOK /\ NeverBeyondPolicy /\ [Next]_vars => TypeOK' /\ NeverBeyondPolicy'
<1> SUFFICES ASSUME TypeOK, NeverBeyondPolicy, [Next]_vars
             PROVE  TypeOK' /\ NeverBeyondPolicy'
  OBVIOUS
<1>1. CASE Next
  <2>1. PICK open \in Prices, close \in Prices, target \in Targets \cup {NoTarget} :
          ProcessRow(open, close, target)
    BY <1>1 DEF Next
  <2> DEFINE row == Len(rows) + 1
  <2>2. rows \in Seq(Row) /\ Len(rows) \in Nat /\ row \in Nat /\ row <= total
    BY <1>1 DEF TypeOK, Next
  <2>3. /\ rows' = Append(rows, [open |-> open, close |-> close, target |-> target])
        /\ Execute(row, open) /\ TakeSignal(target)
        /\ Mark(Equity(account', close))
        /\ points' = IF Sampled(row) THEN Append(points, row) ELSE points
        /\ policy' = policy /\ total' = total
    BY <2>1 DEF ProcessRow
  <2>4. /\ account' \in Account
        /\ fills' \in Seq(Nat) /\ fillCount' \in Nat
        /\ NeverBeyondPolicy'
    BY <2>2, <2>3, ExecuteKeeps
  <2>5. rows' \in Seq(Row) /\ Len(rows') = row
    <3>1. [open |-> open, close |-> close, target |-> target] \in Row
      BY BacktestAssumption DEF Row, BacktestAssumption
    <3> QED
      BY <2>2, <2>3, <3>1
  <2>6. Equity(account', close) \in Int
    BY <2>4, AccountsAssumption, BacktestAssumption
    DEF Equity, Account, AccountsAssumption, BacktestAssumption
  <2>7. /\ peak' \in Nat /\ peak' >= Opened.cash
        /\ worst' \in [equity : Int, peak : Nat]
        /\ curve' \in Seq(Int) /\ Len(curve') = Len(curve) + 1
    BY <2>3, <2>6, MarkKeeps
  <2>8. {pending', lastSignal'} \subseteq Targets \cup {NoTarget}
    BY <2>3 DEF TakeSignal, TypeOK
  <2>9. points' \in Seq(Nat)
    BY <2>2, <2>3 DEF TypeOK
  <2> QED
    BY <2>2, <2>3, <2>4, <2>5, <2>7, <2>8, <2>9 DEF TypeOK
<1>2. CASE UNCHANGED vars
  BY <1>2 DEF TypeOK, NeverBeyondPolicy, vars
<1> QED
  BY <1>1, <1>2

\* Without a position the policy is kept.
LEMMA PolicyInitially == Init => NeverBeyondPolicy
BY OpenedIsAccount DEF Init, NeverBeyondPolicy, WithinPolicy

\* The types of a backtest, its peak, which never falls below the initial equity,
\* and its curve, which has a point for every row.
THEOREM BacktestTypes == Spec => []TypeOK
BY TypeInitially, PolicyInitially, StepKeeps, PTL DEF Spec

\* The price may do anything between the decision and the open at which it is
\* executed; the position stays within the policy.
THEOREM BacktestKeepsPolicy == Spec => []NeverBeyondPolicy
BY TypeInitially, PolicyInitially, StepKeeps, PTL DEF Spec

----------------------------------------------------------------------------
(* The account, recomputed.                                                 *)

\* The account recomputed from the rows, row by row.
HeldByRow ==
  \A i \in Nat :
    Held[i] = IF i <= 1 THEN Opened
              ELSE IF IsNews(i - 1) /\ FillsAt(Held[i - 1], rows[i - 1].target, rows[i].open)
                   THEN Filled(Held[i - 1], rows[i - 1].target, rows[i].open)
                   ELSE Held[i - 1]

\* The recursion of Held has a solution, and Held is one: approximations up to
\* every row exist and agree.
LEMMA HeldUnfolds == HeldByRow
<1> DEFINE step(x, i) == IF IsNews(i - 1) /\ FillsAt(x, rows[i - 1].target, rows[i].open)
                         THEN Filled(x, rows[i - 1].target, rows[i].open)
                         ELSE x
           Is(f) == f = [i \in Nat |-> IF i <= 1 THEN Opened ELSE step(f[i - 1], i)]
           UpTo(n, h) == h = [i \in 0 .. n |-> IF i <= 1 THEN Opened ELSE step(h[i - 1], i)]
<1>1. Held = CHOOSE f : Is(f)
  BY Zenon DEF Held
<1>2. ASSUME \E f : Is(f)
      PROVE  HeldByRow
  <2>1. Is(Held)
    BY <1>1, <1>2, Zenon
  <2> HIDE DEF step
  <2>2. \A i \in Nat : Held[i] = IF i <= 1 THEN Opened ELSE step(Held[i - 1], i)
    BY <2>1
  <2> QED
    BY <2>2 DEF step, HeldByRow
<1>3. \E f : Is(f)
  <2> HIDE DEF step
  <2>1. \A n \in Nat : \E h : UpTo(n, h)
    <3> DEFINE T == {n \in Nat : ~\E h : UpTo(n, h)}
    <3> SUFFICES ASSUME T # {} PROVE FALSE
      OBVIOUS
    <3>1. PICK n \in T : \A m \in T : n <= m
      BY LeastNumber
    <3>2. UpTo(0, [i \in 0 .. 0 |-> Opened])
      OBVIOUS
    <3>3. n # 0
      BY <3>1, <3>2
    <3>4. PICK h : UpTo(n - 1, h)
      <4> HIDE DEF UpTo
      <4>1. n \in Nat /\ n - 1 \in Nat /\ n - 1 < n
        BY <3>1, <3>3
      <4> QED
        BY <3>1, <4>1
    <3> DEFINE g == [i \in 0 .. n |-> IF i <= 1 THEN Opened ELSE step(h[i - 1], i)]
    <3>5. n \in Nat /\ \A i \in 0 .. n - 1 : g[i] = h[i]
      BY <3>3, <3>4
    <3>6. UpTo(n, g)
      <4>2. g = [i \in 0 .. n |-> IF i <= 1 THEN Opened ELSE step(h[i - 1], i)]
        OBVIOUS
      <4> HIDE DEF g
      <4>1. \A i \in 0 .. n : i > 1 => g[i - 1] = h[i - 1]
        BY <3>5
      <4>3. \A i \in 0 .. n : (IF i <= 1 THEN Opened ELSE step(h[i - 1], i))
                             = (IF i <= 1 THEN Opened ELSE step(g[i - 1], i))
        BY <4>1
      <4> QED
        BY <4>2, <4>3
    <3> QED
      BY <3>1, <3>6
  <2>2. ASSUME NEW m \in Nat, NEW n \in Nat, m <= n, NEW h, NEW g, UpTo(m, h), UpTo(n, g)
        PROVE  \A i \in 0 .. m : h[i] = g[i]
    <3> DEFINE T == {i \in 0 .. m : h[i] # g[i]}
    <3> SUFFICES ASSUME T # {} PROVE FALSE
      OBVIOUS
    <3>1. PICK i \in T : \A j \in T : i <= j
      <4> HIDE DEF UpTo
      <4>1. T \in SUBSET Nat
        OBVIOUS
      <4> HIDE DEF T
      <4> QED
        BY <4>1, LeastNumber
    <3>2. i > 1 => h[i - 1] = g[i - 1]
      BY <3>1
    <3> QED
      BY <2>2, <3>1, <3>2
  <2> DEFINE H(n) == CHOOSE h : UpTo(n, h)
             f == [n \in Nat |-> H(n)[n]]
  <2>3. \A n \in Nat : UpTo(n, H(n))
    BY <2>1, Zenon
  <2>4. ASSUME NEW i \in Nat PROVE f[i] = IF i <= 1 THEN Opened ELSE step(f[i - 1], i)
    <3>1. UpTo(i, H(i)) /\ (i > 1 => UpTo(i - 1, H(i - 1)))
      <4> HIDE DEF UpTo, H
      <4>1. i > 1 => i - 1 \in Nat
        OBVIOUS
      <4> QED
        BY <2>3, <4>1
    <3> HIDE DEF H
    <3>2. H(i)[i] = IF i <= 1 THEN Opened ELSE step(H(i)[i - 1], i)
      BY <3>1
    <3>3. i > 1 => H(i)[i - 1] = H(i - 1)[i - 1]
      <4> SUFFICES ASSUME i > 1 PROVE H(i)[i - 1] = H(i - 1)[i - 1]
        OBVIOUS
      <4>1. i - 1 \in Nat /\ i - 1 <= i /\ i - 1 \in 0 .. (i - 1)
        OBVIOUS
      <4>2. \A j \in 0 .. (i - 1) : H(i - 1)[j] = H(i)[j]
        BY <2>2, <3>1, <4>1
      <4> QED
        BY <4>1, <4>2
    <3> QED
      BY <3>2, <3>3
  <2> HIDE DEF H
  <2>5. Is(f)
    BY <2>4
  <2> QED
    BY <2>5
<1> QED
  BY <1>2, <1>3, Zenon

\* In every state, and so in the next.
LEMMA HeldUnfoldsNext == HeldByRow'
BY HeldUnfolds, PTL

----------------------------------------------------------------------------
(* Decisions and executions.                                                *)

\* The last signal is the target told last.
Latest ==
  LET told == Told(Len(rows)) IN
  \/ told = {} /\ lastSignal = NoTarget
  \/ \E j \in told : (\A k \in told : k <= j) /\ rows[j].target = lastSignal

\* What waits for the next open is the news of the last row.
Waiting == pending = IF IsNews(Len(rows)) THEN rows[Len(rows)].target ELSE NoTarget

\* A row more leaves the earlier rows, and what was told in them.
LEMMA RowsStay ==
  ASSUME TypeOK, NEW r, rows' = Append(rows, r)
  PROVE  /\ Len(rows) \in Nat /\ Len(rows') = Len(rows) + 1 /\ rows'[Len(rows) + 1] = r
         /\ \A i \in 1 .. Len(rows) : rows'[i] = rows[i]
         /\ \A i \in 0 .. Len(rows) : Told(i)' = Told(i) /\ IsNews(i)' = IsNews(i)
         /\ \A n \in Nat : n = Len(rows) =>
              Told(n + 1)' = Told(n) \cup {i \in {n + 1} : r.target # NoTarget}
<1>n. PICK n \in Nat : n = Len(rows)
  BY DEF TypeOK
<1>1. /\ n \in Nat /\ Len(rows') = n + 1 /\ rows'[n + 1] = r
      /\ \A i \in 1 .. n : rows'[i] = rows[i]
  BY <1>n DEF TypeOK
<1>2. \A i \in 0 .. n : Told(i)' = Told(i)
  BY <1>1 DEF Told
<1>3. \A i \in 0 .. n : IsNews(i)' = IsNews(i)
  <2> SUFFICES ASSUME NEW i \in 0 .. n PROVE IsNews(i)' = IsNews(i)
    OBVIOUS
  <2>1. CASE i = 0
    BY <2>1 DEF IsNews, Told
  <2>2. CASE i # 0
    <3>1. i \in 1 .. n /\ i - 1 \in 0 .. n
      BY <1>1, <2>2
    <3>2. Told(i)' = Told(i) /\ Told(i - 1)' = Told(i - 1) /\ rows'[i] = rows[i]
      BY <1>1, <1>2, <3>1
    <3>3. Told(i - 1) \subseteq 1 .. n
      BY <1>1, <3>1 DEF Told
    <3>4. \A j \in Told(i - 1) : rows'[j] = rows[j]
      BY <1>1, <3>3
    <3> QED
      BY <3>2, <3>4 DEF IsNews
  <2> QED
    BY <2>1, <2>2
<1>4. Told(n + 1)' = Told(n) \cup {i \in {n + 1} : r.target # NoTarget}
  <2>1. 1 .. (n + 1) = (1 .. n) \cup {n + 1}
    BY <1>1
  <2> QED
    BY <1>1, <2>1 DEF Told
<1> QED
  BY <1>n, <1>1, <1>2, <1>3, <1>4

\* The row's own target becomes the one that waits if it is news.
LEMMA SignalKept ==
  ASSUME TypeOK, Latest, NEW r \in Row, rows' = Append(rows, r), TakeSignal(r.target)
  PROVE  Latest' /\ Waiting'
<1>n. PICK n \in Nat : n = Len(rows)
  BY DEF TypeOK
<1> DEFINE told == Told(n)
<1>1. /\ n \in Nat /\ Len(rows') = n + 1 /\ rows'[n + 1] = r
      /\ \A i \in 1 .. n : rows'[i] = rows[i]
      /\ Told(n)' = told /\ Told(n + 1)' = told \cup {i \in {n + 1} : r.target # NoTarget}
      /\ told \subseteq 1 .. n
  <2>1. n \in 0 .. n
    OBVIOUS
  <2>2. Told(n)' = Told(n) /\ Told(n + 1)' = Told(n) \cup {i \in {n + 1} : r.target # NoTarget}
    BY <1>n, <2>1, RowsStay
  <2>3. Told(n) \subseteq 1 .. n
    BY DEF Told
  <2>4. /\ Len(rows') = n + 1 /\ rows'[n + 1] = r
        /\ \A i \in 1 .. n : rows'[i] = rows[i]
    BY <1>n, RowsStay
  <2> QED
    BY <2>2, <2>3, <2>4
<1>2. \/ told = {} /\ lastSignal = NoTarget
      \/ \E j \in told : (\A k \in told : k <= j) /\ rows[j].target = lastSignal
  BY <1>n DEF Latest
<1>3. /\ pending' = IF IsSignal(r.target) THEN r.target ELSE NoTarget
      /\ lastSignal' = IF IsSignal(r.target) THEN r.target ELSE lastSignal
      /\ IsSignal(r.target) <=> r.target # NoTarget /\ r.target # lastSignal
  BY DEF TakeSignal, IsSignal
<1>4. IsNews(n + 1)' <=> /\ r.target # NoTarget
                         /\ \A j \in told : (\A k \in told : k <= j) => rows[j].target # r.target
  <2>0. PICK m \in Nat : m = n + 1 /\ m - 1 = n
    OBVIOUS
  <2>2. Told(m - 1)' = told
    BY <1>1, <2>0
  <2>3. n + 1 \in Told(n + 1)' <=> r.target # NoTarget
    BY <1>1
  <2> HIDE DEF told
  <2>4. \A j \in told : rows'[j] = rows[j]
    BY <1>1
  <2>5. IsNews(m)' <=>
          /\ m \in Told(m)'
          /\ \A j \in Told(m - 1)' : (\A k \in Told(m - 1)' : k <= j)
                                  => rows'[j].target # rows'[m].target
    BY DEF IsNews
  <2> QED
    BY <1>1, <2>0, <2>2, <2>3, <2>4, <2>5
<1> HIDE DEF told
<1>5. IsNews(n + 1)' <=> IsSignal(r.target)
  <2>1. CASE told = {} /\ lastSignal = NoTarget
    BY <1>3, <1>4, <2>1
  <2>2. ASSUME NEW j \in told, \A k \in told : k <= j, rows[j].target = lastSignal
        PROVE  IsNews(n + 1)' <=> IsSignal(r.target)
    <3>1. \A i \in told : (\A k \in told : k <= i) => i = j
      BY <1>1, <2>2
    <3> QED
      BY <1>3, <1>4, <2>2, <3>1
  <2> QED
    BY <1>2, <2>1, <2>2
<1>6. Waiting'
  BY <1>1, <1>3, <1>5 DEF Waiting
<1>7. Latest'
  <2> DEFINE told2 == Told(n + 1)'
  <2>1. CASE r.target = NoTarget
    <3>1. told2 = told /\ lastSignal' = lastSignal
      BY <1>1, <1>3, <2>1
    <3>2. \A j \in told : rows'[j] = rows[j]
      BY <1>1
    <3>3. \/ told2 = {} /\ lastSignal' = NoTarget
          \/ \E j \in told2 : (\A k \in told2 : k <= j) /\ rows'[j].target = lastSignal'
      BY <1>2, <3>1, <3>2
    <3> QED
      BY <1>1, <3>3 DEF Latest
  <2>2. CASE r.target # NoTarget
    <3>1. n + 1 \in told2 /\ \A k \in told2 : k <= n + 1
      <4>1. told2 = told \cup {n + 1}
        BY <1>1, <2>2
      <4> HIDE DEF told2
      <4>2. \A k \in told : k <= n + 1
        BY <1>1
      <4> QED
        BY <4>1, <4>2
    <3>2. rows'[n + 1].target = lastSignal'
      BY <1>1, <1>3, <2>2
    <3> QED
      BY <1>1, <3>1, <3>2 DEF Latest
  <2> QED
    BY <2>1, <2>2
<1> QED
  BY <1>6, <1>7

\* A row more leaves the accounts held before it.
LEMMA HeldStays ==
  ASSUME TypeOK, NEW r, rows' = Append(rows, r), policy' = policy
  PROVE  \A i \in 0 .. Len(rows) : Held'[i] = Held[i]
<1> DEFINE T == {i \in 0 .. Len(rows) : Held'[i] # Held[i]}
<1> SUFFICES ASSUME T # {} PROVE FALSE
  OBVIOUS
<1>1. Len(rows) \in Nat /\ T \in SUBSET Nat
  BY DEF TypeOK
<1>2. PICK i \in T : \A j \in T : i <= j
  BY <1>1, LeastNumber
<1>3. i \in 0 .. Len(rows) /\ Held'[i] # Held[i] /\ i \in Nat
  BY <1>1, <1>2
<1>4. i <= 1 => Held'[i] = Opened /\ Held[i] = Opened
  BY <1>3, HeldUnfolds, HeldUnfoldsNext DEF HeldByRow, Opened
<1>5. i > 1
  BY <1>3, <1>4
<1>6. i - 1 \in 1 .. Len(rows) /\ i \in 1 .. Len(rows) /\ i - 1 \in 0 .. Len(rows)
  BY <1>1, <1>3, <1>5
<1>7. Held'[i - 1] = Held[i - 1]
  BY <1>1, <1>2, <1>6
<1>8. rows'[i - 1] = rows[i - 1] /\ rows'[i] = rows[i] /\ IsNews(i - 1)' = IsNews(i - 1)
  BY <1>6, RowsStay
<1> DEFINE x == Held[i - 1]
           t == rows[i - 1].target
           o == rows[i].open
<1>9. Held[i] = IF IsNews(i - 1) /\ FillsAt(x, t, o) THEN Filled(x, t, o) ELSE x
  BY <1>3, <1>5, HeldUnfolds DEF HeldByRow
<1>10. Held'[i] = IF IsNews(i - 1)' /\ FillsAt(Held[i - 1], rows[i - 1].target, rows[i].open)'
                  THEN Filled(Held[i - 1], rows[i - 1].target, rows[i].open)'
                  ELSE Held'[i - 1]
  BY <1>3, <1>5, HeldUnfoldsNext DEF HeldByRow
<1>11. /\ FillsAt(Held[i - 1], rows[i - 1].target, rows[i].open)' = FillsAt(x, t, o)
       /\ Filled(Held[i - 1], rows[i - 1].target, rows[i].open)' = Filled(x, t, o)
  BY <1>7, <1>8 DEF FillsAt, Filled, BuyAt, SellAt
<1> QED
  BY <1>3, <1>7, <1>8, <1>9, <1>10, <1>11

\* The row after row n trades there, on what row n decided.
TradesAfter(n, open) == IsNews(n) /\ FillsAt(Held[n], rows[n].target, open)

\* Before the first row nothing is news.
LEMMA NoNewsAtFirst == ~IsNews(0)
BY DEF IsNews, Told

\* A row more trades at its open what the row before it decided.
LEMMA TradedGrows ==
  ASSUME TypeOK, NEW r, rows' = Append(rows, r), policy' = policy, NEW n \in Nat, n = Len(rows)
  PROVE  /\ Traded' = Traded \cup {i \in {n + 1} : TradesAfter(n, r.open)}
         /\ Held'[n + 1] = IF n > 0 /\ TradesAfter(n, r.open)
                           THEN Filled(Held[n], rows[n].target, r.open)
                           ELSE IF n > 0 THEN Held[n] ELSE Opened
<1>a. /\ Len(rows') = n + 1 /\ rows'[n + 1] = r
      /\ \A i \in 1 .. n : rows'[i] = rows[i]
      /\ \A i \in 0 .. n : IsNews(i)' = IsNews(i)
      /\ \A i \in 0 .. n : Held'[i] = Held[i]
  BY RowsStay, HeldStays
<1> DEFINE Trades(i) == IsNews(i - 1) /\ FillsAt(Held[i - 1], rows[i - 1].target, rows[i].open)
<1>1. ASSUME NEW i \in 2 .. n + 1
      PROVE  /\ i <= n => Trades(i)' = Trades(i)
             /\ i = n + 1 => /\ Trades(i)' = TradesAfter(n, r.open)
                             /\ Filled(Held[i - 1], rows[i - 1].target, rows[i].open)'
                                  = Filled(Held[n], rows[n].target, r.open)
  <2>1. i - 1 \in 1 .. n /\ i - 1 \in 0 .. n /\ (i <= n => i \in 1 .. n) /\ (i = n + 1 => i - 1 = n)
    OBVIOUS
  <2>2. /\ rows'[i - 1] = rows[i - 1] /\ Held'[i - 1] = Held[i - 1]
        /\ IsNews(i - 1)' = IsNews(i - 1) /\ (i <= n => rows'[i] = rows[i])
    BY <1>a, <2>1
  <2>3. i <= n => Trades(i)' = Trades(i)
    BY <2>2 DEF FillsAt, BuyAt
  <2>4. i = n + 1 => Trades(i)' = TradesAfter(n, r.open)
    BY <1>a, <2>1, <2>2 DEF FillsAt, BuyAt, TradesAfter
  <2>5. i = n + 1 => Filled(Held[i - 1], rows[i - 1].target, rows[i].open)'
                       = Filled(Held[n], rows[n].target, r.open)
    BY <1>a, <2>1, <2>2 DEF Filled, BuyAt, SellAt
  <2> QED
    BY <2>3, <2>4, <2>5
<1>2. Traded' = {i \in 2 .. n + 1 : Trades(i)'}
  BY <1>a DEF Traded
<1>3. Traded = {i \in 2 .. n : Trades(i)}
  BY DEF Traded
<1>4. n = 0 => ~TradesAfter(n, r.open)
  BY NoNewsAtFirst DEF TradesAfter
<1>5. Traded' = Traded \cup {i \in {n + 1} : TradesAfter(n, r.open)}
  <2> HIDE DEF Trades
  <2>1. \A i \in 2 .. n : Trades(i)' = Trades(i)
    BY <1>1
  <2>2. n > 0 => n + 1 \in 2 .. n + 1 /\ Trades(n + 1)' = TradesAfter(n, r.open)
    <3>1. PICK m \in Nat : m = n + 1
      OBVIOUS
    <3>2. n > 0 => m \in 2 .. n + 1
      BY <3>1
    <3>3. n > 0 => Trades(m)' = TradesAfter(n, r.open)
      BY <1>1, <3>1, <3>2
    <3> QED
      BY <3>1, <3>2, <3>3
  <2>3. \A i \in 2 .. n + 1 : i \in 2 .. n \/ i = n + 1
    OBVIOUS
  <2> QED
    BY <1>2, <1>3, <1>4, <2>1, <2>2, <2>3
<1>6. Held'[n + 1] = IF n > 0 /\ TradesAfter(n, r.open)
                     THEN Filled(Held[n], rows[n].target, r.open)
                     ELSE IF n > 0 THEN Held[n] ELSE Opened
  <2>1. PICK m \in Nat : m = n + 1
    OBVIOUS
  <2>2. CASE n = 0
    <3>1. Held'[m] = Opened
      BY <2>1, <2>2, HeldUnfoldsNext DEF HeldByRow, Opened
    <3> QED
      BY <2>1, <2>2, <3>1
  <2>3. CASE n > 0
    <3>1. m \in 2 .. n + 1 /\ m > 1 /\ m - 1 = n /\ n \in 0 .. n
      BY <2>1, <2>3
    <3>2. Held'[m] = IF Trades(m)' THEN Filled(Held[m - 1], rows[m - 1].target, rows[m].open)'
                     ELSE Held'[m - 1]
      BY <3>1, HeldUnfoldsNext DEF HeldByRow
    <3> HIDE DEF Trades
    <3>3. /\ Trades(m)' = TradesAfter(n, r.open)
          /\ Filled(Held[m - 1], rows[m - 1].target, rows[m].open)'
               = Filled(Held[n], rows[n].target, r.open)
      BY <1>1, <2>1, <3>1
    <3>4. Held'[m - 1] = Held[n]
      BY <1>a, <3>1
    <3> QED
      BY <2>1, <2>3, <3>2, <3>3, <3>4
  <2> QED
    BY <2>2, <2>3
<1> QED
  BY <1>5, <1>6

\* Traded rows are rows after the first.
LEMMA TradedRows ==
  ASSUME TypeOK
  PROVE  Traded \subseteq 2 .. Len(rows) /\ IsFiniteSet(Traded) /\ Cardinality(Traded) \in Nat
<1>1. Traded \subseteq 2 .. Len(rows)
  BY DEF Traded
<1>2. IsFiniteSet(2 .. Len(rows))
  BY FS_Interval DEF TypeOK
<1> QED
  BY <1>1, <1>2, FS_Subset, FS_CardinalityType

\* The execution at an open keeps the account at the one recomputed from the
\* rows, and the fills at the first of its trades.
LEMMA ExecutionKept ==
  ASSUME TypeOK, Waiting, ExecutedAtNextOpen, NEW r \in Row, rows' = Append(rows, r),
         policy' = policy, Execute(Len(rows) + 1, r.open)
  PROVE  ExecutedAtNextOpen'
<1>n. PICK n \in Nat : n = Len(rows)
  BY DEF TypeOK
<1>a. /\ Len(rows') = n + 1 /\ Execute(n + 1, r.open)
      /\ account = Held[n] /\ fillCount = Cardinality(Traded)
      /\ Len(fills) = Smaller(MaxFills, fillCount)
      /\ \A k \in 1 .. Len(fills) :
           fills[k] \in Traded /\ Cardinality({i \in Traded : i < fills[k]}) = k - 1
      /\ pending = IF IsNews(n) THEN rows[n].target ELSE NoTarget
      /\ fills \in Seq(Nat) /\ Len(fills) \in Nat /\ MaxFills \in Nat
  <2>1. Len(rows') = n + 1 /\ Execute(n + 1, r.open)
    BY <1>n, RowsStay
  <2>2. fills \in Seq(Nat) /\ Len(fills) \in Nat
    BY DEF TypeOK
  <2>3. MaxFills \in Nat
    BY BacktestAssumption DEF BacktestAssumption
  <2>4. /\ account = Held[n] /\ fillCount = Cardinality(Traded)
        /\ Len(fills) = Smaller(MaxFills, fillCount)
        /\ \A k \in 1 .. Len(fills) :
             fills[k] \in Traded /\ Cardinality({i \in Traded : i < fills[k]}) = k - 1
    BY <1>n, Zenon DEF ExecutedAtNextOpen
  <2>5. pending = IF IsNews(n) THEN rows[n].target ELSE NoTarget
    BY <1>n DEF Waiting
  <2> QED
    BY <2>1, <2>2, <2>3, <2>4, <2>5
<1>b. /\ Traded' = Traded \cup {i \in {n + 1} : TradesAfter(n, r.open)}
      /\ Held'[n + 1] = IF n > 0 /\ TradesAfter(n, r.open)
                        THEN Filled(Held[n], rows[n].target, r.open)
                        ELSE IF n > 0 THEN Held[n] ELSE Opened
  BY <1>n, TradedGrows
<1>c. Traded \subseteq 2 .. n /\ IsFiniteSet(Traded) /\ Cardinality(Traded) \in Nat
  BY <1>n, TradedRows
<1>d. IsNews(n) => n > 0 /\ rows[n].target # NoTarget
  BY <1>n, NoNewsAtFirst DEF IsNews, Told
<1>e. pending # NoTarget /\ FillsAt(account, pending, r.open) <=> TradesAfter(n, r.open)
  BY <1>a, <1>d DEF TradesAfter
<1>f. account' = Held'[n + 1]
  <2>1. n = 0 => Held[n] = Opened
    BY HeldUnfolds DEF HeldByRow
  <2>2. TradesAfter(n, r.open) => n > 0 /\ pending = rows[n].target
    BY <1>a, <1>d DEF TradesAfter
  <2> QED
    BY <1>a, <1>b, <1>e, <2>1, <2>2 DEF Execute
<1>1. CASE TradesAfter(n, r.open)
  <2>1. /\ fills' = IF Len(fills) < MaxFills THEN Append(fills, n + 1) ELSE fills
        /\ fillCount' = fillCount + 1
        /\ Traded' = Traded \cup {n + 1}
    BY <1>a, <1>b, <1>e, <1>1 DEF Execute
  <2>2. n + 1 \notin Traded
    BY <1>c
  <2>3. Cardinality(Traded') = Cardinality(Traded) + 1
    BY <1>c, <2>1, <2>2, FS_AddElement
  <2>4. ASSUME NEW k \in 1 .. Len(fills)
        PROVE  fills[k] \in Traded' /\ Cardinality({i \in Traded' : i < fills[k]}) = k - 1
    <3>1. fills[k] \in Traded /\ fills[k] \in 2 .. n
      BY <1>a, <1>c
    <3>2. ~(n + 1 < fills[k])
      BY <3>1
    <3>3. {i \in Traded' : i < fills[k]} = {i \in Traded : i < fills[k]}
      <4> HIDE DEF Traded
      <4> QED
        BY <2>1, <3>2
    <3> QED
      BY <1>a, <2>1, <3>1, <3>3
  <2>5. CASE Len(fills) < MaxFills
    <3>1. Len(fills) = fillCount
      BY <1>a, <1>c, <2>5 DEF Smaller
    <3>2. /\ Len(fills') = Len(fills) + 1 /\ fills'[Len(fills) + 1] = n + 1
          /\ \A k \in 1 .. Len(fills) : fills'[k] = fills[k]
      BY <1>a, <2>1, <2>5
    <3>3. {i \in Traded' : i < n + 1} = Traded
      <4>1. \A i \in Traded : i < n + 1
        BY <1>c
      <4>2. ~(n + 1 < n + 1)
        OBVIOUS
      <4> QED
        BY <2>1, <4>1, <4>2
    <3>4. Len(fills') = Smaller(MaxFills, fillCount')
      BY <1>a, <2>1, <2>5, <3>1, <3>2 DEF Smaller
    <3>5. ASSUME NEW k \in 1 .. Len(fills')
          PROVE  fills'[k] \in Traded' /\ Cardinality({i \in Traded' : i < fills'[k]}) = k - 1
      <4>1. CASE k = Len(fills) + 1
        <5>1. fills'[k] = n + 1
          BY <3>2, <4>1
        <5>2. fills'[k] \in Traded' /\ {i \in Traded' : i < fills'[k]} = Traded
          BY <2>1, <3>3, <5>1
        <5>3. Cardinality(Traded) = k - 1
          BY <1>a, <3>1, <4>1
        <5> QED
          BY <5>2, <5>3
      <4>2. CASE k # Len(fills) + 1
        <5>1. k \in 1 .. Len(fills)
          BY <1>a, <3>2, <4>2
        <5> QED
          BY <2>4, <3>2, <5>1
      <4> QED
        BY <4>1, <4>2
    <3> QED
      BY <1>a, <1>f, <2>1, <2>3, <3>4, <3>5 DEF ExecutedAtNextOpen
  <2>6. CASE ~(Len(fills) < MaxFills)
    <3>1. Len(fills) = Smaller(MaxFills, fillCount')
      BY <1>a, <1>c, <2>1, <2>6 DEF Smaller
    <3> QED
      BY <1>a, <1>f, <2>1, <2>3, <2>4, <2>6, <3>1 DEF ExecutedAtNextOpen
  <2> QED
    BY <2>5, <2>6
<1>2. CASE ~TradesAfter(n, r.open)
  <2>1. Traded' = Traded /\ fills' = fills /\ fillCount' = fillCount
    BY <1>a, <1>b, <1>e, <1>2 DEF Execute
  <2> QED
    BY <1>a, <1>f, <2>1 DEF ExecutedAtNextOpen
<1> QED
  BY <1>1, <1>2

\* An empty run: nothing told, nothing traded.
LEMMA ExecutionInitially == Init => Latest /\ Waiting /\ ExecutedAtNextOpen
<1> SUFFICES ASSUME Init PROVE Latest /\ Waiting /\ ExecutedAtNextOpen
  OBVIOUS
<1>1. rows = <<>> /\ Len(rows) = 0 /\ Len(fills) = 0 /\ fillCount = 0 /\ account = Opened
  BY DEF Init
<1>2. Latest
  BY <1>1 DEF Latest, Told, Init
<1>3. Waiting
  BY <1>1, NoNewsAtFirst DEF Waiting, Init
<1>4. Held[0] = Opened
  BY HeldUnfolds DEF HeldByRow
<1>5. Traded = {} /\ Cardinality(Traded) = 0
  BY <1>1, FS_EmptySet DEF Traded
<1>6. Len(fills) = Smaller(MaxFills, fillCount)
  BY <1>1, BacktestAssumption DEF Smaller, BacktestAssumption
<1> QED
  BY <1>1, <1>2, <1>3, <1>4, <1>5, <1>6 DEF ExecutedAtNextOpen

\* A step that changes nothing leaves the account recomputed from the rows.
LEMMA HeldUnchanged ==
  ASSUME TypeOK, UNCHANGED vars
  PROVE  \A i \in Nat : Held'[i] = Held[i]
<1> DEFINE T == {i \in Nat : Held'[i] # Held[i]}
<1> SUFFICES ASSUME T # {} PROVE FALSE
  OBVIOUS
<1>1. PICK i \in T : \A j \in T : i <= j
  BY LeastNumber
<1>2. i \in Nat /\ Held'[i] # Held[i]
  BY <1>1
<1>3. i > 1
  BY <1>2, HeldUnfolds, HeldUnfoldsNext DEF HeldByRow, Opened
<1>4. i - 1 \in Nat /\ Held'[i - 1] = Held[i - 1]
  BY <1>1, <1>3
<1>5. rows' = rows /\ policy' = policy
  BY DEF vars
<1>6. IsNews(i - 1)' = IsNews(i - 1)
  BY <1>5 DEF IsNews, Told
<1> DEFINE x == Held[i - 1]
           t == rows[i - 1].target
           o == rows[i].open
<1>7. Held[i] = IF IsNews(i - 1) /\ FillsAt(x, t, o) THEN Filled(x, t, o) ELSE x
  BY <1>2, <1>3, HeldUnfolds DEF HeldByRow
<1>8. Held'[i] = IF IsNews(i - 1)' /\ FillsAt(Held[i - 1], rows[i - 1].target, rows[i].open)'
                 THEN Filled(Held[i - 1], rows[i - 1].target, rows[i].open)'
                 ELSE Held'[i - 1]
  BY <1>2, <1>3, HeldUnfoldsNext DEF HeldByRow
<1>9. /\ FillsAt(Held[i - 1], rows[i - 1].target, rows[i].open)' = FillsAt(x, t, o)
      /\ Filled(Held[i - 1], rows[i - 1].target, rows[i].open)' = Filled(x, t, o)
  BY <1>4, <1>5 DEF FillsAt, Filled, BuyAt, SellAt
<1> QED
  BY <1>2, <1>4, <1>6, <1>7, <1>8, <1>9

\* A step keeps what was decided, what waits, and what was executed.
LEMMA ExecutionStep ==
  ASSUME TypeOK, Latest, Waiting, ExecutedAtNextOpen, [Next]_vars
  PROVE  Latest' /\ Waiting' /\ ExecutedAtNextOpen'
<1>1. CASE Next
  <2>1. PICK open \in Prices, close \in Prices, target \in Targets \cup {NoTarget} :
          ProcessRow(open, close, target)
    BY <1>1 DEF Next
  <2> DEFINE r == [open |-> open, close |-> close, target |-> target]
  <2>2. r \in Row /\ r.open = open /\ r.target = target
    BY BacktestAssumption DEF Row, BacktestAssumption
  <2>3. /\ rows' = Append(rows, r) /\ policy' = policy
        /\ Execute(Len(rows) + 1, open) /\ TakeSignal(target)
    BY <2>1 DEF ProcessRow
  <2> HIDE DEF r
  <2>4. Latest' /\ Waiting'
    BY <2>2, <2>3, SignalKept
  <2>5. ExecutedAtNextOpen'
    BY <2>2, <2>3, ExecutionKept
  <2> QED
    BY <2>4, <2>5
<1>2. CASE UNCHANGED vars
  <2>1. /\ rows' = rows /\ policy' = policy /\ account' = account /\ pending' = pending
        /\ lastSignal' = lastSignal /\ fills' = fills /\ fillCount' = fillCount
    BY <1>2 DEF vars
  <2>2. Latest' /\ Waiting'
    BY <2>1 DEF Latest, Waiting, IsNews, Told
  <2>3. \A i \in Nat : Held'[i] = Held[i]
    BY <1>2, HeldUnchanged
  <2>4. Len(rows) \in Nat
    BY DEF TypeOK
  <2>5. Traded' = Traded
    <3>1. ASSUME NEW i \in 2 .. Len(rows)
          PROVE  (IsNews(i - 1) /\ FillsAt(Held[i - 1], rows[i - 1].target, rows[i].open))'
                   = (IsNews(i - 1) /\ FillsAt(Held[i - 1], rows[i - 1].target, rows[i].open))
      <4>1. Held'[i - 1] = Held[i - 1]
        BY <2>3, <2>4
      <4> QED
        BY <2>1, <4>1 DEF IsNews, Told, FillsAt, BuyAt
    <3> QED
      BY <2>1, <3>1 DEF Traded
  <2> QED
    BY <2>1, <2>2, <2>3, <2>4, <2>5 DEF ExecutedAtNextOpen
<1> QED
  BY <1>1, <1>2

\* A decision is executed once, at the next open: the account and the fills of
\* every run are those recomputed from its rows.
THEOREM DecisionsAreDelayed == Spec => []ExecutedAtNextOpen
<1>1. Init => TypeOK /\ NeverBeyondPolicy /\ Latest /\ Waiting /\ ExecutedAtNextOpen
  BY TypeInitially, PolicyInitially, ExecutionInitially
<1>2. TypeOK /\ NeverBeyondPolicy /\ Latest /\ Waiting /\ ExecutedAtNextOpen /\ [Next]_vars
        => (TypeOK /\ NeverBeyondPolicy /\ Latest /\ Waiting /\ ExecutedAtNextOpen)'
  BY StepKeeps, ExecutionStep
<1> QED
  BY <1>1, <1>2, PTL DEF Spec

----------------------------------------------------------------------------
(* The drawdown.                                                            *)

\* The initial equity and the closes up to row i, the last of them, and the
\* highest of them.
UpTo(i) == {Opened.cash} \cup {curve[j] : j \in 1 .. i}
ClosedAt(i) == IF i = 0 THEN Opened.cash ELSE curve[i]
IsTop(i, p) == p \in UpTo(i) /\ \A top \in UpTo(i) : top <= p

Drawdowns == {d \in [equity : UpTo(Len(curve)), peak : UpTo(Len(curve))] :
                \E i \in 0 .. Len(curve) : d.equity = ClosedAt(i) /\ IsTop(i, d.peak)}

\* The peak is the highest equity so far, the worst drawdown the deepest.
Deepest ==
  /\ IsTop(Len(curve), peak)
  /\ worst \in Drawdowns
  /\ \A d \in Drawdowns : ~Deeper(d, worst)

\* The worst drawdown of Deepest is the one reported.
LEMMA DeepestIsWorst == Deepest => DrawdownIsWorst
BY DEF Deepest, DrawdownIsWorst, Drawdowns, UpTo, ClosedAt, IsTop

\* The initial equity is positive.
LEMMA OpenedIsPositive == Opened.cash \in Nat \ {0}
<1>1. InitialEquity * Unit * Unit \in Nat \ {0}
  BY AccountsAssumption, BacktestAssumption DEF AccountsAssumption, BacktestAssumption
<1> QED
  BY <1>1 DEF Opened

\* Before the first close the initial equity is the only drawdown.
LEMMA DeepestInitially == Init => Deepest
<1> SUFFICES ASSUME Init PROVE Deepest
  OBVIOUS
<1>1. /\ curve = <<>> /\ Len(curve) = 0 /\ peak = Opened.cash
      /\ worst = [equity |-> Opened.cash, peak |-> Opened.cash]
  BY DEF Init
<1>2. UpTo(0) = {Opened.cash} /\ Opened.cash \in Int
  BY OpenedIsPositive DEF UpTo
<1>3. \A p : IsTop(0, p) <=> p = Opened.cash
  BY <1>2 DEF IsTop
<1>4. ClosedAt(0) = Opened.cash
  BY DEF ClosedAt
<1>5. \A d : d \in Drawdowns <=> d = [equity |-> Opened.cash, peak |-> Opened.cash]
  <2> DEFINE c == Opened.cash
  <2>1. UpTo(0) = {c} /\ (\A p : IsTop(0, p) <=> p = c) /\ ClosedAt(0) = c
    BY <1>2, <1>3, <1>4
  <2> HIDE DEF c
  <2>2. Drawdowns = {d \in [equity : {c}, peak : {c}] : TRUE}
    BY <1>1, <2>1 DEF Drawdowns
  <2> QED
    BY <2>2 DEF c
<1>6. ~Deeper(worst, worst)
  BY <1>1, <1>2 DEF Deeper
<1> QED
  BY <1>1, <1>3, <1>5, <1>6 DEF Deepest

\* Of three drawdowns from positive peaks, what is no deeper than one is no
\* deeper than a deeper one.
LEMMA DeeperThanAll ==
  ASSUME NEW a \in Int, NEW p \in Nat \ {0}, NEW b \in Int, NEW q \in Nat \ {0},
         NEW c \in Int, NEW r \in Nat \ {0},
         ~(a * q < b * p), c * q < b * r
  PROVE  ~(a * r < c * p)
<1> SUFFICES ASSUME a * r < c * p PROVE FALSE
  OBVIOUS
<1>1. (a * r) * q < (c * p) * q
  <2> DEFINE x == a * r
             y == c * p
  <2>1. x \in Int /\ y \in Int /\ x < y
    OBVIOUS
  <2> HIDE DEF x, y
  <2>2. x * q < y * q
    BY <2>1
  <2> QED
    BY <2>2 DEF x, y
<1>2. (c * q) * p < (b * r) * p
  <2> DEFINE x == c * q
             y == b * r
  <2>1. x \in Int /\ y \in Int /\ x < y
    OBVIOUS
  <2> HIDE DEF x, y
  <2>2. x * p < y * p
    BY <2>1
  <2> QED
    BY <2>2 DEF x, y
<1>3. (b * p) * r <= (a * q) * r
  <2> DEFINE x == b * p
             y == a * q
  <2>1. x \in Int /\ y \in Int /\ x <= y
    OBVIOUS
  <2> HIDE DEF x, y
  <2>2. x * r <= y * r
    BY <2>1
  <2> QED
    BY <2>2 DEF x, y
<1>4. (c * p) * q = (c * q) * p /\ (b * r) * p = (b * p) * r /\ (a * q) * r = (a * r) * q
  OBVIOUS
<1>5. (a * r) * q \in Int /\ (c * p) * q \in Int /\ (b * r) * p \in Int
  OBVIOUS
<1> QED
  BY <1>1, <1>2, <1>3, <1>4, <1>5

\* A close more adds one drawdown, from the highest equity up to it.
LEMMA DrawdownsGrow ==
  ASSUME curve \in Seq(Int), IsTop(Len(curve), peak), NEW e \in Int, Mark(e)
  PROVE  /\ IsTop(Len(curve), peak)'
         /\ Drawdowns' = Drawdowns \cup {[equity |-> e, peak |-> peak']}
<1>n. PICK n \in Nat : n = Len(curve)
  OBVIOUS
<1>m. PICK m \in Nat : m = n + 1
  BY <1>n
<1> DEFINE dd == [equity |-> e, peak |-> peak']
<1>1. /\ Len(curve') = m /\ curve'[m] = e
      /\ \A j \in 1 .. n : curve'[j] = curve[j]
      /\ peak' = Larger(peak, e)
  BY <1>n, <1>m DEF Mark
<1>2. \A i \in 0 .. n : UpTo(i)' = UpTo(i) /\ ClosedAt(i)' = ClosedAt(i)
  <2> SUFFICES ASSUME NEW i \in 0 .. n PROVE UpTo(i)' = UpTo(i) /\ ClosedAt(i)' = ClosedAt(i)
    OBVIOUS
  <2>1. \A j \in 1 .. i : curve'[j] = curve[j]
    BY <1>n, <1>1
  <2>2. i # 0 => curve'[i] = curve[i]
    BY <1>n, <1>1
  <2> QED
    BY <2>1, <2>2 DEF UpTo, ClosedAt, Opened
<1>3. UpTo(m)' = UpTo(n) \cup {e} /\ ClosedAt(m)' = e
  <2>1. 1 .. m = (1 .. n) \cup {m} /\ m # 0
    BY <1>m
  <2>2. UpTo(m)' = {Opened.cash} \cup {curve'[j] : j \in 1 .. m}
    BY DEF UpTo, Opened
  <2>3. {curve'[j] : j \in 1 .. m} = {curve[j] : j \in 1 .. n} \cup {e}
    <3>1. {curve'[j] : j \in 1 .. m} = {curve'[j] : j \in 1 .. n} \cup {curve'[m]}
      BY <2>1
    <3>2. {curve'[j] : j \in 1 .. n} = {curve[j] : j \in 1 .. n}
      BY <1>1
    <3> QED
      BY <1>1, <3>1, <3>2
  <2> QED
    BY <1>1, <2>1, <2>2, <2>3 DEF UpTo, ClosedAt
<1>4. UpTo(n) \subseteq Int /\ peak \in UpTo(n) /\ \A top \in UpTo(n) : top <= peak
  BY <1>n, OpenedIsPositive DEF UpTo, IsTop
<1>5. peak' \in UpTo(m)' /\ \A top \in UpTo(m)' : top <= peak'
  BY <1>1, <1>3, <1>4 DEF Larger
<1>6. \A p : IsTop(m, p)' <=> p = peak'
  <2>1. UpTo(m)' \subseteq Int
    BY <1>3, <1>4
  <2>2. ASSUME NEW p PROVE IsTop(m, p)' <=> p \in UpTo(m)' /\ \A top \in UpTo(m)' : top <= p
    BY DEF IsTop
  <2> QED
    BY <1>5, <2>1, <2>2
<1>7. \A i \in 0 .. n : \A p : IsTop(i, p)' <=> IsTop(i, p)
  BY <1>2 DEF IsTop
<1>8. \A i \in 0 .. n : UpTo(i) \subseteq UpTo(n) /\ ClosedAt(i) \in UpTo(n)
  BY <1>n DEF UpTo, ClosedAt
<1>9. UpTo(n) \subseteq UpTo(m)' /\ e \in UpTo(m)'
  BY <1>3
<1>10. ASSUME NEW d
       PROVE  d \in Drawdowns' <=> d \in Drawdowns \cup {dd}
  <2>1. d \in Drawdowns' <=>
          /\ d \in [equity : UpTo(m)', peak : UpTo(m)']
          /\ \E i \in 0 .. m : d.equity = ClosedAt(i)' /\ IsTop(i, d.peak)'
    BY <1>1 DEF Drawdowns
  <2>2. d \in Drawdowns <=>
          /\ d \in [equity : UpTo(n), peak : UpTo(n)]
          /\ \E i \in 0 .. n : d.equity = ClosedAt(i) /\ IsTop(i, d.peak)
    BY <1>n DEF Drawdowns
  <2>3. \A i \in 0 .. m : i \in 0 .. n \/ i = m
    BY <1>m
  <2>4. n \in 0 .. n /\ m \in 0 .. m /\ \A i \in 0 .. n : i \in 0 .. m
    BY <1>m
  <2>5. ASSUME d \in Drawdowns PROVE d \in Drawdowns'
    BY <1>2, <1>7, <1>9, <2>1, <2>2, <2>4, <2>5
  <2>6. d = dd => /\ d \in [equity : UpTo(m)', peak : UpTo(m)']
                  /\ d.equity = ClosedAt(m)' /\ IsTop(m, d.peak)'
    BY <1>3, <1>5, <1>6, <1>9
  <2>7. d = dd => d \in Drawdowns'
    BY <2>1, <2>4, <2>6
  <2>8. ASSUME d \in Drawdowns' PROVE d \in Drawdowns \cup {dd}
    <3>1. PICK i \in 0 .. m : d.equity = ClosedAt(i)' /\ IsTop(i, d.peak)'
      BY <2>1, <2>8
    <3>2. CASE i \in 0 .. n
      <4>1. d.equity = ClosedAt(i) /\ IsTop(i, d.peak)
        BY <1>2, <1>7, <3>1, <3>2
      <4>2. d.equity \in UpTo(n) /\ d.peak \in UpTo(n)
        BY <1>8, <3>2, <4>1 DEF IsTop
      <4>3. d \in [equity : UpTo(n), peak : UpTo(n)]
        BY <2>1, <2>8, <4>2
      <4> QED
        BY <2>2, <3>2, <4>1, <4>3
    <3>3. CASE i = m
      <4>1. d.equity = e /\ d.peak = peak'
        BY <1>3, <1>6, <3>1, <3>3
      <4>2. d = [equity |-> d.equity, peak |-> d.peak]
        BY <2>1, <2>8
      <4> QED
        BY <4>1, <4>2
    <3> QED
      BY <2>3, <3>2, <3>3
  <2> QED
    BY <2>5, <2>7, <2>8
<1>11. IsTop(Len(curve), peak)'
  BY <1>1, <1>6
<1> QED
  BY <1>10, <1>11

\* Drawdowns are integers, from positive peaks.
LEMMA DrawdownsTyped ==
  ASSUME curve \in Seq(Int)
  PROVE  Drawdowns \subseteq [equity : Int, peak : Nat \ {0}]
<1>1. UpTo(Len(curve)) \subseteq Int
  BY OpenedIsPositive DEF UpTo
<1>2. \A i, p : IsTop(i, p) => p >= Opened.cash
  BY DEF IsTop, UpTo
<1> SUFFICES ASSUME NEW d \in Drawdowns PROVE d \in [equity : Int, peak : Nat \ {0}]
  OBVIOUS
<1>3. d \in [equity : Int, peak : Int] /\ d.peak >= Opened.cash
  BY <1>1, <1>2 DEF Drawdowns
<1>4. d.peak \in Nat \ {0}
  BY <1>3, OpenedIsPositive
<1> QED
  BY <1>3, <1>4

\* A close keeps the peak the highest and the worst drawdown the deepest.
LEMMA DeepestKept ==
  ASSUME curve \in Seq(Int), curve' \in Seq(Int), Deepest, NEW e \in Int, Mark(e)
  PROVE  Deepest'
<1> DEFINE dd == [equity |-> e, peak |-> peak']
<1>1. IsTop(Len(curve), peak)' /\ Drawdowns' = Drawdowns \cup {dd}
  BY DrawdownsGrow DEF Deepest
<1>2. worst' = IF Deeper(dd, worst) THEN dd ELSE worst
  BY DEF Mark
<1>3. worst \in Drawdowns /\ \A d \in Drawdowns : ~Deeper(d, worst)
  BY DEF Deepest
<1>4. /\ Drawdowns \subseteq [equity : Int, peak : Nat \ {0}]
      /\ Drawdowns' \subseteq [equity : Int, peak : Nat \ {0}]
  <2>1. (curve \in Seq(Int) => Drawdowns \subseteq [equity : Int, peak : Nat \ {0}])'
    BY DrawdownsTyped, PTL
  <2> QED
    BY <2>1, DrawdownsTyped
<1>5. worst' \in Drawdowns'
  BY <1>1, <1>2, <1>3
<1>6. ASSUME NEW d \in Drawdowns' PROVE ~Deeper(d, worst')
  <2>1. d \in [equity : Int, peak : Nat \ {0}] /\ dd \in [equity : Int, peak : Nat \ {0}]
        /\ worst \in [equity : Int, peak : Nat \ {0}]
    BY <1>1, <1>3, <1>4
  <2>2. \A x \in Int : ~(x < x)
    OBVIOUS
  <2>3. CASE ~Deeper(dd, worst)
    BY <1>1, <1>2, <1>3, <2>3
  <2>4. CASE Deeper(dd, worst) /\ d \in Drawdowns
    <3>1. ~Deeper(d, worst) /\ worst' = dd
      BY <1>2, <1>3, <2>4
    <3>2. ~(d.equity * worst.peak < worst.equity * d.peak)
      BY <3>1 DEF Deeper
    <3>3. dd.equity * worst.peak < worst.equity * dd.peak
      BY <2>4 DEF Deeper
    <3> HIDE DEF dd
    <3>4. /\ d.equity \in Int /\ worst.equity \in Int /\ dd.equity \in Int
          /\ d.peak \in Nat \ {0} /\ worst.peak \in Nat \ {0} /\ dd.peak \in Nat \ {0}
      BY <2>1
    <3>5. ~(d.equity * dd.peak < dd.equity * d.peak)
      BY <3>2, <3>3, <3>4, DeeperThanAll
    <3> QED
      BY <3>1, <3>5 DEF Deeper
  <2>5. CASE Deeper(dd, worst) /\ d = dd
    <3>1. worst' = d
      BY <1>2, <2>5
    <3>2. d.equity * d.peak \in Int
      BY <2>1
    <3> QED
      BY <2>2, <3>1, <3>2 DEF Deeper
  <2> QED
    BY <1>1, <2>3, <2>4, <2>5
<1> QED
  BY <1>1, <1>5, <1>6 DEF Deepest

\* The drawdown reported is the deepest of any close.
THEOREM DrawdownIsDeepest == Spec => []DrawdownIsWorst
<1>1. Init => TypeOK /\ NeverBeyondPolicy /\ Deepest
  BY TypeInitially, PolicyInitially, DeepestInitially
<1>2. TypeOK /\ NeverBeyondPolicy /\ Deepest /\ [Next]_vars
        => (TypeOK /\ NeverBeyondPolicy /\ Deepest)'
  <2> SUFFICES ASSUME TypeOK, NeverBeyondPolicy, Deepest, [Next]_vars PROVE Deepest'
    BY StepKeeps
  <2>1. TypeOK'
    BY StepKeeps
  <2>2. curve \in Seq(Int) /\ curve' \in Seq(Int) /\ account' \in Account
    BY <2>1 DEF TypeOK
  <2>3. CASE Next
    <3>1. PICK open \in Prices, close \in Prices, target \in Targets \cup {NoTarget} :
            ProcessRow(open, close, target)
      BY <2>3 DEF Next
    <3>2. Mark(Equity(account', close))
      BY <3>1 DEF ProcessRow
    <3>3. Equity(account', close) \in Int
      BY <2>2, AccountsAssumption, BacktestAssumption
         DEF Equity, Account, AccountsAssumption, BacktestAssumption
    <3> QED
      BY <2>2, <3>2, <3>3, DeepestKept
  <2>4. CASE UNCHANGED vars
    <3>1. curve' = curve /\ peak' = peak /\ worst' = worst
      BY <2>4 DEF vars
    <3>2. \A i : UpTo(i)' = UpTo(i) /\ ClosedAt(i)' = ClosedAt(i)
      BY <3>1 DEF UpTo, ClosedAt, Opened
    <3>3. \A i, p : IsTop(i, p)' <=> IsTop(i, p)
      BY <3>2 DEF IsTop
    <3>4. Drawdowns' = Drawdowns
      BY <3>1, <3>2, <3>3 DEF Drawdowns
    <3>5. IsTop(Len(curve), peak)'
      BY <3>1, <3>2 DEF IsTop, Deepest
    <3> QED
      BY <3>1, <3>4, <3>5 DEF Deepest, Deeper
  <2> QED
    BY <2>3, <2>4
<1> QED
  BY <1>1, <1>2, DeepestIsWorst, PTL DEF Spec

----------------------------------------------------------------------------
(* The equity points.                                                       *)

\* What is divided is below the next multiple.
LEMMA FloorIsNear ==
  ASSUME NEW x \in Nat, NEW y \in Nat \ {0}
  PROVE  x \div y \in Nat /\ x < (x \div y) * y + y
OBVIOUS

\* Strides cover the file within the points it may have.
LEMMA StrideCovers ==
  ASSUME total \in Nat
  PROVE  Stride \in Nat \ {0} /\ MaxPoints * Stride >= total
<1> DEFINE M == MaxPoints
           q == (total + M - 1) \div M
<1>1. M \in Nat \ {0} /\ total + M - 1 \in Nat
  BY BacktestAssumption DEF BacktestAssumption
<1>2. q \in Nat /\ total + M - 1 < q * M + M
  BY <1>1, FloorIsNear
<1>3. Stride = Larger(1, q)
  BY DEF Stride
<1> HIDE DEF q
<1>4. q * M \in Nat /\ q * M >= total
  BY <1>1, <1>2
<1>5. CASE q >= 1
  <2>1. Stride = q
    BY <1>2, <1>3, <1>5 DEF Larger
  <2> QED
    BY <1>1, <1>2, <1>4, <1>5, <2>1
<1>6. CASE q = 0
  <2>1. q * M = 0
    BY <1>1, <1>6
  <2>2. Stride = 1 /\ total = 0
    BY <1>3, <1>4, <1>6, <2>1 DEF Larger
  <2> QED
    BY <1>1, <2>2
<1> QED
  BY <1>2, <1>5, <1>6

\* Points stand a stride apart from the first row; the last row has one too.
Spaced ==
  /\ total >= 2
  /\ Len(points) = 0 => Len(rows) = 0
  /\ Len(points) > 0 => points[1] = 1
  /\ Len(rows) < total => /\ Len(points) * Stride - Stride < Len(rows)
                          /\ Len(rows) <= Len(points) * Stride
  /\ Len(rows) = total => points[Len(points)] = total /\ Len(points) <= MaxPoints + 1

\* Points so spaced span a finished run.
LEMMA SpacedSpansRun == TypeOK /\ Spaced => CurveSpansRun
BY DEF TypeOK, Spaced, CurveSpansRun

\* Before the first row there is no point.
LEMMA SpacedInitially == Init => Spaced
<1> SUFFICES ASSUME Init PROVE Spaced
  OBVIOUS
<1>1. rows = <<>> /\ points = <<>> /\ total \in Nat /\ total >= 2
  BY BacktestAssumption DEF Init, BacktestAssumption
<1>2. Stride \in Nat \ {0}
  BY <1>1, StrideCovers
<1> QED
  BY <1>1, <1>2 DEF Spaced

\* A row that is a multiple of strides after the first one.
LEMMA OnStride ==
  ASSUME NEW n \in Nat, NEW l \in Nat, NEW s \in Nat \ {0}, l * s - s < n, n <= l * s
  PROVE  n % s = 0 <=> n = l * s
<1>0. n % s \in 0 .. s - 1 /\ n \div s \in Nat /\ s \in Nat /\ 0 < s
  OBVIOUS
<1>1. (n % s) + s * (n \div s) = n
  BY <1>0
<1> DEFINE q == n \div s
<1>2. ASSUME n % s = 0 PROVE n = l * s
  <2>1. s * q = n /\ q \in Nat
    BY <1>0, <1>1, <1>2
  <2> HIDE DEF q
  <2>2. CASE q <= l - 1
    <3>1. s * q <= (l - 1) * s
      BY <2>1, <2>2
    <3>2. (l - 1) * s = l * s - s
      OBVIOUS
    <3> QED
      BY <2>1, <3>1, <3>2
  <2>3. CASE q >= l
    <3>1. s * q >= l * s
      BY <2>1, <2>3
    <3> QED
      BY <2>1, <3>1
  <2> QED
    BY <2>1, <2>2, <2>3
<1>3. ASSUME n = l * s PROVE n % s = 0
  <2> DEFINE r == n % s
  <2>1. q \in Nat /\ r \in 0 .. s - 1 /\ l * s = s * q + r
    BY <1>0, <1>1, <1>3
  <2> HIDE DEF q, r
  <2>2. CASE q = l
    BY <2>1, <2>2 DEF r
  <2>3. CASE q <= l - 1
    <3>1. s * q <= (l - 1) * s /\ (l - 1) * s = l * s - s
      BY <2>1, <2>3
    <3> QED
      BY <2>1, <3>1
  <2>4. CASE q >= l + 1
    <3>1. s * q >= (l + 1) * s /\ (l + 1) * s = l * s + s
      BY <2>1, <2>4
    <3> QED
      BY <2>1, <3>1
  <2> QED
    BY <2>1, <2>2, <2>3, <2>4
<1> QED
  BY <1>2, <1>3

\* Fewer strides than points may be needed before the last row.
LEMMA PointsBounded ==
  ASSUME NEW n \in Nat, NEW l \in Nat, NEW s \in Nat \ {0}, NEW m \in Nat \ {0},
         NEW t \in Nat, l * s - s < n, n < t, m * s >= t
  PROVE  l <= m
<1> SUFFICES ASSUME l >= m + 1 PROVE FALSE
  OBVIOUS
<1>1. l * s >= (m + 1) * s /\ (m + 1) * s = m * s + s
  OBVIOUS
<1> QED
  BY <1>1

\* A row adds the point it has to.
LEMMA SpacedKept ==
  ASSUME TypeOK, Spaced, Len(rows) < total, NEW r,
         rows' = Append(rows, r), total' = total,
         points' = IF Sampled(Len(rows) + 1) THEN Append(points, Len(rows) + 1) ELSE points
  PROVE  Spaced'
<1>s. Stride \in Nat \ {0} /\ MaxPoints * Stride >= total /\ Stride' = Stride
  BY StrideCovers DEF TypeOK, Stride
<1>n. PICK n \in Nat, l \in Nat, s \in Nat \ {0} :
        n = Len(rows) /\ l = Len(points) /\ s = Stride
  BY <1>s DEF TypeOK
<1>1. /\ total \in Nat /\ total >= 2 /\ total' = total /\ n < total
      /\ l * s - s < n /\ n <= l * s
      /\ l > 0 => points[1] = 1
      /\ MaxPoints \in Nat \ {0} /\ MaxPoints * s >= total
      /\ Len(rows') = n + 1 /\ points \in Seq(Nat)
  BY <1>s, <1>n, BacktestAssumption DEF TypeOK, Spaced, BacktestAssumption
<1>2. n % s = 0 <=> n = l * s
  BY <1>1, OnStride
<1>3. l <= MaxPoints
  BY <1>1, PointsBounded
<1>4. Sampled(n + 1) <=> n = l * s \/ n + 1 = total
  BY <1>n, <1>2 DEF Sampled
<1>5. CASE Sampled(n + 1)
  <2>1. /\ Len(points') = l + 1 /\ points'[l + 1] = n + 1
        /\ l > 0 => points'[1] = points[1]
    BY <1>n, <1>1, <1>5
  <2>2. l = 0 => n = 0
    BY <1>1
  <2>3. points'[1] = 1
    BY <1>1, <2>1, <2>2
  <2>4. n = l * s \/ n + 1 = total
    BY <1>4, <1>5
  <2>5. (l + 1) * s = l * s + s
    OBVIOUS
  <2>6. n + 1 < total => (l + 1) * s - s < n + 1 /\ n + 1 <= (l + 1) * s
    BY <1>1, <2>4, <2>5
  <2> HIDE DEF Stride
  <2>7. Len(points') * Stride' = (l + 1) * s /\ Stride' = s
    BY <1>s, <1>n, <2>1
  <2> QED
    BY <1>1, <1>3, <2>1, <2>3, <2>6, <2>7, SMTT(30) DEF Spaced
<1>6. CASE ~Sampled(n + 1)
  <2>1. points' = points /\ n # l * s /\ n + 1 # total
    BY <1>n, <1>4, <1>6
  <2>2. n < l * s
    BY <1>1, <2>1
  <2>3. l > 0
    BY <1>1, <2>2
  <2>4. l * s - s < n + 1 /\ n + 1 <= l * s
    BY <1>1, <2>2
  <2>5. Len(points') * Stride' = l * s /\ Stride' = s /\ Len(points') = l
    BY <1>s, <1>n, <2>1
  <2> QED
    BY <1>1, <2>1, <2>3, <2>4, <2>5 DEF Spaced
<1> QED
  BY <1>5, <1>6

\* The equity curve of a finished run spans it, in no more points than it may.
THEOREM CurveIsComplete == Spec => []CurveSpansRun
<1>1. Init => TypeOK /\ NeverBeyondPolicy /\ Spaced
  BY TypeInitially, PolicyInitially, SpacedInitially
<1>2. TypeOK /\ NeverBeyondPolicy /\ Spaced /\ [Next]_vars
        => (TypeOK /\ NeverBeyondPolicy /\ Spaced)'
  <2> SUFFICES ASSUME TypeOK, NeverBeyondPolicy, Spaced, [Next]_vars PROVE Spaced'
    BY StepKeeps
  <2>1. CASE Next
    <3>1. PICK open \in Prices, close \in Prices, target \in Targets \cup {NoTarget} :
            ProcessRow(open, close, target)
      BY <2>1 DEF Next
    <3>2. /\ rows' = Append(rows, [open |-> open, close |-> close, target |-> target])
          /\ points' = IF Sampled(Len(rows) + 1) THEN Append(points, Len(rows) + 1) ELSE points
          /\ total' = total
      BY <3>1 DEF ProcessRow
    <3>3. Len(rows) < total
      BY <2>1 DEF Next
    <3> QED
      BY <3>2, <3>3, SpacedKept
  <2>2. CASE UNCHANGED vars
    BY <2>2 DEF vars, Spaced, Stride
  <2> QED
    BY <2>1, <2>2
<1> QED
  BY <1>1, <1>2, SpacedSpansRun, PTL DEF Spec
=============================================================================
