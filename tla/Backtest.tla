------------------------------ MODULE Backtest ------------------------------
(***************************************************************************)
(* The streaming backtest: PythonArrowEngine.run_range (engine.py) and     *)
(* EngineState (main.rs), which do the same for every row of the prepared  *)
(* signals.  A row has an open, a close and the target the strategy        *)
(* decided at its close, or none.                                          *)
(***************************************************************************)
EXTENDS Accounts, Sequences, FiniteSets

CONSTANTS
  Friction,      \* half of spread_bps, and slippage_bps
  InitialEquity, \* initial_equity, in ticks
  Configs,       \* policies of a backtest
  Prices,        \* open and close prices
  Targets,       \* target fractions
  NoTarget,      \* a row without a target
  MaxPoints,     \* max_equity_points
  MaxFills,      \* max_fills_returned
  MaxRows        \* bound: rows of the prepared signals

ASSUME BacktestAssumption ==
  /\ Friction \in 0 .. Unit
  /\ InitialEquity \in Nat \ {0}
  /\ Configs \subseteq Policies
  /\ Prices \subseteq Nat \ {0}
  /\ Targets \subseteq Int /\ NoTarget \notin Targets
  /\ MaxPoints \in Nat \ {0}
  /\ {MaxFills, MaxRows} \subseteq Nat

VARIABLES
  policy,     \* allow_short and max_leverage
  total,      \* rows of the Parquet file
  rows,       \* rows processed
  account,    \* cash, quantity, fees_paid
  pending,    \* pending_target, for the next open
  lastSignal, \* last_signal_target
  peak,       \* peak_equity
  worst,      \* max_drawdown: an equity and the peak before it
  curve,      \* equity at every close
  points,     \* rows of the equity points
  fills,      \* rows of the fills returned
  fillCount   \* fill_count

vars == <<policy, total, rows, account, pending, lastSignal, peak, worst, curve, points,
          fills, fillCount>>

Opened == [cash |-> InitialEquity * Unit * Unit, quantity |-> 0, fees |-> 0]

\* prepare_signals refuses a range of fewer than two bars.
Init ==
  /\ policy \in Configs
  /\ total \in 2 .. MaxRows
  /\ rows = <<>>
  /\ account = Opened
  /\ pending = NoTarget /\ lastSignal = NoTarget
  /\ peak = Opened.cash
  /\ worst = [equity |-> peak, peak |-> peak]
  /\ curve = <<>> /\ points = <<>> /\ fills = <<>> /\ fillCount = 0

----------------------------------------------------------------------------

BuyAt(open)  == open * (Unit + Friction)
SellAt(open) == open * (Unit - Friction)

FillsAt(a, target, open) == Fills(policy, a, target, open, BuyAt(open))

\* _rebalance, of an order that is filled.
Filled(a, target, open) ==
  Settled(a, Delta(policy, a, target, open, BuyAt(open)),
          IF Wanted(policy, a, target, open) > 0 THEN BuyAt(open) ELSE SellAt(open))

\* Mutant: every row's target is a signal.
IsEverySignal(target) == target # NoTarget

\* A target is a signal when it differs from the signal before it.
IsSignal(target) == target \notin {NoTarget, lastSignal}

\* Rows between two equity points.
Stride == Larger(1, (total + MaxPoints - 1) \div MaxPoints)

\* Mutant: rows are counted from one.
SampledFromSecond(row) == row % Stride = 0 \/ row = total

\* The rows of the equity points.
Sampled(row) == (row - 1) % Stride = 0 \/ row = total

\* d is a deeper drawdown than e.
Deeper(d, e) == d.equity * e.peak < e.equity * d.peak

\* Mutant: the drawdown is taken from the peak before the bar's own equity.
MarkWithoutPeak(equity) ==
  LET drawdown == [equity |-> equity, peak |-> Larger(peak, equity)] IN
  /\ peak' = peak
  /\ worst' = IF Deeper(drawdown, worst) THEN drawdown ELSE worst
  /\ curve' = Append(curve, equity)

\* Peak, drawdown and curve at a close.
Mark(equity) ==
  LET drawdown == [equity |-> equity, peak |-> Larger(peak, equity)] IN
  /\ peak' = drawdown.peak
  /\ worst' = IF Deeper(drawdown, worst) THEN drawdown ELSE worst
  /\ curve' = Append(curve, equity)

\* The pending target is executed at this row's open.
Execute(row, open) ==
  IF pending # NoTarget /\ FillsAt(account, pending, open)
  THEN /\ account' = Filled(account, pending, open)
       /\ fills' = IF Len(fills) < MaxFills THEN Append(fills, row) ELSE fills
       /\ fillCount' = fillCount + 1
  ELSE UNCHANGED <<account, fills, fillCount>>

\* This row's target waits for the next open.
TakeSignal(target) ==
  /\ pending' = IF IsSignal(target) THEN target ELSE NoTarget
  /\ lastSignal' = IF IsSignal(target) THEN target ELSE lastSignal

ProcessRow(open, close, target) ==
  LET row == Len(rows) + 1 IN
  /\ rows' = Append(rows, [open |-> open, close |-> close, target |-> target])
  /\ Execute(row, open)
  /\ TakeSignal(target)
  /\ Mark(Equity(account', close))
  /\ points' = IF Sampled(row) THEN Append(points, row) ELSE points
  /\ UNCHANGED <<policy, total>>

Next ==
  /\ Len(rows) < total
  /\ \E open, close \in Prices, target \in Targets \cup {NoTarget} :
       ProcessRow(open, close, target)

Spec == Init /\ [][Next]_vars

----------------------------------------------------------------------------
(* Properties.                                                               *)

Row == [open : Nat \ {0}, close : Nat \ {0}, target : Targets \cup {NoTarget}]

\* Types; the peak is never below the initial equity.
TypeOK ==
  /\ policy \in Policies /\ total \in Nat
  /\ rows \in Seq(Row) /\ Len(rows) <= total
  /\ account \in Account
  /\ {pending, lastSignal} \subseteq Targets \cup {NoTarget}
  /\ peak \in Nat /\ peak >= Opened.cash
  /\ worst \in [equity : Int, peak : Nat]
  /\ curve \in Seq(Int) /\ Len(curve) = Len(rows)
  /\ points \in Seq(Nat) /\ fills \in Seq(Nat) /\ fillCount \in Nat

\* Whatever the prices do between the decision and the open that executes it,
\* the policy of the account is kept.
NeverBeyondPolicy == WithinPolicy(policy, account)

\* The latest signal at the close of row i: rows before it with a target.
Told(i) == {j \in 1 .. i : rows[j].target # NoTarget}
IsNews(i) ==
  /\ i \in Told(i)
  /\ \A j \in Told(i - 1) : (\A k \in Told(i - 1) : k <= j) => rows[j].target # rows[i].target

\* The account after the open of row i, from the rows alone: a new target is
\* executed once, at the open of the next row.
Held[i \in Nat] ==
  IF i <= 1 THEN Opened
  ELSE IF IsNews(i - 1) /\ FillsAt(Held[i - 1], rows[i - 1].target, rows[i].open)
       THEN Filled(Held[i - 1], rows[i - 1].target, rows[i].open)
       ELSE Held[i - 1]

\* The rows at whose open it trades.
Traded == {i \in 2 .. Len(rows) :
             IsNews(i - 1) /\ FillsAt(Held[i - 1], rows[i - 1].target, rows[i].open)}

\* "Strategy decisions are delayed to the next bar open" and an unchanged target
\* is executed only once: the account depends on opens up to the last row and on
\* targets of the rows before it; the fills reported are its first MaxFills, in
\* the order of the rows.
ExecutedAtNextOpen ==
  /\ account = Held[Len(rows)]
  /\ fillCount = Cardinality(Traded)
  /\ Len(fills) = Smaller(MaxFills, fillCount)
  /\ \A k \in 1 .. Len(fills) :
       fills[k] \in Traded /\ Cardinality({i \in Traded : i < fills[k]}) = k - 1

\* The drawdown reported is the deepest of any close, from the highest of the
\* initial equity and the closes up to it.
DrawdownIsWorst ==
  LET upTo(i) == {Opened.cash} \cup {curve[j] : j \in 1 .. i}
      drawdowns == {d \in [equity : upTo(Len(curve)), peak : upTo(Len(curve))] :
                      \E i \in 0 .. Len(curve) :
                        /\ d.equity = (IF i = 0 THEN Opened.cash ELSE curve[i])
                        /\ d.peak \in upTo(i) /\ \A top \in upTo(i) : top <= d.peak}
  IN worst \in drawdowns /\ \A d \in drawdowns : ~Deeper(d, worst)

\* The equity curve of a finished run begins with its first row, ends with its
\* last, and has at most one point more than it may have.
CurveSpansRun ==
  Len(rows) = total =>
    /\ points[1] = 1 /\ points[Len(points)] = total
    /\ Len(points) <= MaxPoints + 1
=============================================================================
