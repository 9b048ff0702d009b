------------------------------ MODULE Accounts ------------------------------
(***************************************************************************)
(* The cash and the position of a single-symbol account, and the order     *)
(* that brings it to a target fraction: what the paper broker (broker.py)  *)
(* and both backtest engines (engine.py, main.rs) compute alike.           *)
(*                                                                         *)
(* The floats of the code are scaled integers here.  Prices and notionals  *)
(* are in ticks, execution prices in ticks / Unit, targets, leverage and   *)
(* rates in 1 / Unit, cash and fees in ticks / Unit ^ 2.  A quantity is a  *)
(* whole number of lots, rounded down.                                     *)
(***************************************************************************)
EXTENDS Integers

CONSTANTS
  Unit,       \* denominator of targets and rates
  Fee,        \* fee_bps
  MinNotional \* minimum_order_notional

\* The code demands only that rates are not negative; a fee above the price
\* of what is sold is left out.
ASSUME AccountsAssumption ==
  /\ Unit \in Nat \ {0}
  /\ Fee \in 0 .. Unit
  /\ MinNotional \in Nat

Policies == [short : BOOLEAN, leverage : Nat \ {0}]
Account  == [cash : Int, quantity : Int, fees : Nat]

Abs(x)        == IF x < 0 THEN -x ELSE x
Larger(x, y)  == IF x < y THEN y ELSE x
Smaller(x, y) == IF x < y THEN x ELSE y

Equity(a, mark) == a.cash + a.quantity * mark * Unit * Unit

Clamp(p, target) ==
  Smaller(p.leverage, Larger(IF p.short THEN -p.leverage ELSE 0, target))

\* Lots between the position and the target.
Wanted(p, a, target, mark) ==
  ((Clamp(p, target) * Equity(a, mark)) \div (mark * Unit * Unit * Unit)) - a.quantity

TooSmall(delta, mark) == Abs(delta * mark) < MinNotional

CannotBorrow(p) == ~p.short /\ p.leverage <= Unit

\* Mutant: the fee is left out of what an order costs.
AffordableWithoutFee(a, buyAt) == Larger(a.cash, 0) \div (buyAt * Unit)

\* Lots that cash pays for, with the fee.
Affordable(a, buyAt) == Larger(a.cash, 0) \div (buyAt * (Unit + Fee))

\* Lots ordered; buyAt is the execution price of a purchase.
Delta(p, a, target, mark, buyAt) ==
  LET wanted == Wanted(p, a, target, mark) IN
  IF wanted > 0 /\ CannotBorrow(p) THEN Smaller(wanted, Affordable(a, buyAt)) ELSE wanted

\* No order for a bankrupt account, nor one below the minimum.
Fills(p, a, target, mark, buyAt) ==
  /\ Equity(a, mark) > 0
  /\ ~TooSmall(Wanted(p, a, target, mark), mark)
  /\ ~TooSmall(Delta(p, a, target, mark, buyAt), mark)

\* Mutant: the fee takes the sign of the order.
SettledWithSignedFee(a, delta, price) ==
  LET fee == delta * price * Fee IN
  [cash     |-> a.cash - delta * price * Unit - fee,
   quantity |-> a.quantity + delta,
   fees     |-> a.fees + fee]

\* The account once delta lots are exchanged at the price.
Settled(a, delta, price) ==
  LET fee == Abs(delta * price) * Fee IN
  [cash     |-> a.cash - delta * price * Unit - fee,
   quantity |-> a.quantity + delta,
   fees     |-> a.fees + fee]

\* What a policy without shorts, or without shorts and leverage, promises.
WithinPolicy(p, a) ==
  /\ ~p.short => a.quantity >= 0
  /\ CannotBorrow(p) => a.cash >= 0
=============================================================================
