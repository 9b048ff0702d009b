------------------------------ MODULE Candles ------------------------------
(***************************************************************************)
(* Candle aggregation (market.py): CandleAggregator, the bars it closes    *)
(* and aggregate_trades_to_bars.  Prices and volumes are what the trades   *)
(* say, so a bar is the trades it counted and the trade its close is from. *)
(***************************************************************************)
EXTENDS Integers, Sequences, SequencesExt

CONSTANT TF  \* timeframe_seconds

ASSUME TFAssumption == TF \in Nat \ {0}

\* A trade: its id, the exchange's sequence number, and its timestamp.
TradeOf(id, ts) == [id |-> id, ts |-> ts]

Bar == [ts : Nat, trades : Seq(Nat), close : Nat]

\* aggregator.current before the first trade.
NoBar == [ts |-> -1, trades |-> <<>>, close |-> 0]

Bucket(t) == t - (t % TF)

\* A bar without trades at the close of the one before.
FlatBar(ts, close) == [ts |-> ts, trades |-> <<>>, close |-> close]

\* _advance_to_bucket: the bars it closes on the way from cur to bucket.
ClosedUpTo(cur, bucket) ==
  [i \in 1 .. (bucket - cur.ts) \div TF |->
     IF i = 1 THEN cur ELSE FlatBar(cur.ts + (i - 1) * TF, cur.close)]

\* advance_to.
AdvanceTo(cur, t) ==
  IF cur = NoBar \/ Bucket(t) <= cur.ts
  THEN [current |-> cur, closed |-> <<>>]
  ELSE [current |-> FlatBar(Bucket(t), cur.close), closed |-> ClosedUpTo(cur, Bucket(t))]

Counted(bar, id) == [ts |-> bar.ts, trades |-> Append(bar.trades, id), close |-> id]

\* A trade of a bar that is closed already.
IsLate(cur, trade) == cur # NoBar /\ Bucket(trade.ts) < cur.ts

\* add_trade: a late trade changes nothing.
AddTrade(cur, trade) ==
  LET moved == AdvanceTo(cur, trade.ts)
  IN IF cur = NoBar
     THEN [current |-> Counted(FlatBar(Bucket(trade.ts), trade.id), trade.id),
           closed |-> <<>>]
     ELSE IF IsLate(cur, trade)
     THEN [current |-> cur, closed |-> <<>>]
     ELSE [moved EXCEPT !.current = Counted(@, trade.id)]

\* aggregate_trades_to_bars over trades in order, with its last bar.
BarsOf(trades, end) ==
  LET built[k \in 0 .. Len(trades)] ==
        IF k = 0
        THEN [current |-> NoBar, closed |-> <<>>]
        ELSE LET before == built[k - 1]
                 next   == AddTrade(before.current, trades[k])
             IN [current |-> next.current, closed |-> before.closed \o next.closed]
      all   == built[Len(trades)]
      final == AdvanceTo(all.current, end)
  IN [current |-> final.current, closed |-> all.closed \o final.closed]

\* The trades counted in a sequence of bars.
TradesIn(bars) == UNION {ToSet(bars[k].trades) : k \in DOMAIN bars}
=============================================================================
