------------------------------- MODULE Broker -------------------------------
(***************************************************************************)
(* PaperBroker (broker.py): the account of a paper session with its        *)
(* average entry price and its realised profit.                            *)
(***************************************************************************)
EXTENDS Accounts

CONSTANTS
  Slip,          \* slippage_bps
  InitialEquity, \* initial_equity, in ticks
  Configs,       \* policies a broker may be created with
  Targets,       \* target fractions of the strategy
  Quotes,        \* quotes at the time of an order
  MaxFills       \* bound: fills of a broker

ASSUME BrokerAssumption ==
  /\ Slip \in 0 .. Unit
  /\ InitialEquity \in Nat \ {0}
  /\ Configs \subseteq Policies
  /\ Targets \subseteq Int
  /\ Quotes \subseteq [bid : Nat \ {0}, ask : Nat \ {0}]
  /\ \A q \in Quotes : q.bid <= q.ask /\ (q.bid + q.ask) % 2 = 0
  /\ MaxFills \in Nat

VARIABLES
  policy,   \* allow_short and max_leverage
  account,  \* cash, quantity, fees_paid
  average,  \* avg_entry_price, in ticks / Unit
  realized, \* realized_pnl, in ticks / Unit
  fills     \* orders filled

vars == <<policy, account, average, realized, fills>>

----------------------------------------------------------------------------
(* Prices of positions are fractions in lowest terms.                        *)

Gcd[y \in Nat] == [x \in Nat |-> IF y = 0 THEN x ELSE Gcd[x % y][y]]

Fraction(num, den) ==
  LET g == Gcd[den][Abs(num)] IN
  [num |-> IF num < 0 THEN -(Abs(num) \div g) ELSE num \div g, den |-> den \div g]

Zero == [num |-> 0, den |-> 1]

Init ==
  /\ policy \in Configs
  /\ account = [cash |-> InitialEquity * Unit * Unit, quantity |-> 0, fees |-> 0]
  /\ average = Zero /\ realized = Zero
  /\ fills = 0

Mid(quote)    == (quote.bid + quote.ask) \div 2
BuyAt(quote)  == quote.ask * (Unit + Slip)
SellAt(quote) == quote.bid * (Unit - Slip)

\* Mutant: a position that changes sides realises the whole order.
RealizedOfOrder(old, avg, delta, price) ==
  IF old = 0 \/ old * delta >= 0 THEN Zero
  ELSE Fraction((IF old > 0 THEN 1 ELSE -1) * Abs(delta) * (price * avg.den - avg.num), avg.den)

\* _realized_on_fill: the profit of the lots a fill closes.
RealizedOnFill(old, avg, delta, price) ==
  IF old = 0 \/ old * delta >= 0 THEN Zero
  ELSE LET closed == Smaller(Abs(old), Abs(delta))
           side   == IF old > 0 THEN 1 ELSE -1
       IN Fraction(side * closed * (price * avg.den - avg.num), avg.den)

\* _new_average: of the lots that were added, kept while lots are closed,
\* the price of the fill when the position changes sides.
NewAverage(old, avg, delta, price) ==
  LET new == old + delta IN
  CASE new = 0 -> Zero
    [] new # 0 /\ (old = 0 \/ old * delta > 0) ->
         Fraction(Abs(old) * avg.num + Abs(delta) * price * avg.den, Abs(new) * avg.den)
    [] new # 0 /\ old # 0 /\ old * delta <= 0 /\ old * new > 0 -> avg
    [] OTHER -> [num |-> price, den |-> 1]

Sum(f, g) == Fraction(f.num * g.den + g.num * f.den, f.den * g.den)

Order(target, quote) ==
  LET mark  == Mid(quote)
      buyAt == BuyAt(quote)
      delta == Delta(policy, account, target, mark, buyAt)
      price == IF Wanted(policy, account, target, mark) > 0 THEN buyAt ELSE SellAt(quote)
  IN /\ Fills(policy, account, target, mark, buyAt)
     /\ account' = Settled(account, delta, price)
     /\ realized' = Sum(realized, RealizedOnFill(account.quantity, average, delta, price))
     /\ average' = NewAverage(account.quantity, average, delta, price)
     /\ fills' = fills + 1
     /\ UNCHANGED policy

\* rebalance_to_fraction; an order that is not filled changes nothing.
Rebalance ==
  /\ fills < MaxFills
  /\ \E target \in Targets, quote \in Quotes : Order(target, quote)

Next == Rebalance

Spec == Init /\ [][Next]_vars

----------------------------------------------------------------------------
(* Properties.                                                               *)

Fractions == [num : Int, den : Nat \ {0}]

\* Types of the account and of its prices.
TypeOK ==
  /\ policy \in Policies
  /\ account \in Account
  /\ average \in Fractions /\ realized \in Fractions
  /\ fills \in 0 .. MaxFills

\* A broker that may not short never holds a negative position, and one that
\* may not borrow either never spends cash it does not have, whatever targets
\* and quotes come and whatever the spread, slippage and fee of a fill are.
NeverBeyondPolicy == WithinPolicy(policy, account)

\* The books balance: cash and the position at its average entry price are the
\* initial equity, plus the realised profit, minus the fees; through partial
\* closes and reversals of the position.
ProfitAddsUp ==
  account.cash * average.den * realized.den
    + account.quantity * average.num * realized.den * Unit
  = (InitialEquity * Unit * Unit - account.fees) * average.den * realized.den
    + realized.num * average.den * Unit
=============================================================================
