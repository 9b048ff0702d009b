----------------------------- MODULE LivePaper -----------------------------
(***************************************************************************)
(* A paper session (live.py) between the exchange, its REST history, its   *)
(* WebSocket feed (market.py) and the bar table of the database            *)
(* (storage.py).  A sub-minute timeframe starts from trades and asks again *)
(* for what a lost connection missed; a whole-minute one starts from the   *)
(* exchange's own candles and asks for nothing more.                       *)
(*                                                                         *)
(* The session is one asyncio task.  Each action is what it does between   *)
(* two awaits; at every await the market goes on, the connection may drop  *)
(* and the task may be cancelled, by a stop request or with the process.   *)
(***************************************************************************)
EXTENDS Candles, FiniteSets

CONSTANTS
  Sources,      \* what a timeframe starts from: "trades", "candles" or both
  Required,     \* bars the strategy and the configuration ask for, at least 2
  Staleness,    \* max_staleness_seconds: how old the latest trade may be
  PageSize,     \* trades in a page of the REST history (1000)
  MaxPages,     \* bootstrap_max_trade_pages
  SnapshotSize, \* trades the feed replays when it is subscribed to
  Targets,      \* target fractions the strategy decides for
  MaxTime,      \* bound: the clock, in seconds
  MaxTrades,    \* bound: trades at the exchange
  MaxPerSecond, \* bound: trades at the exchange in one second
  MaxInbox,     \* bound: messages received and not read
  MaxSessions,  \* bound: sessions started
  MaxDrops      \* bound: connections lost

ASSUME LiveAssumption ==
  /\ Required \in Nat \ {0, 1}
  /\ {Staleness, SnapshotSize, MaxTime, MaxTrades, MaxPerSecond, MaxInbox, MaxSessions,
      MaxDrops}
       \subseteq Nat
  /\ {PageSize, MaxPages} \subseteq Nat \ {0}
  /\ Sources \subseteq {"trades", "candles"}
  /\ Required * TF <= MaxTime

Hold == "hold"   \* decision.target_fraction is None
ASSUME HoldAssumption == Hold \notin Targets

VARIABLES
  now,      \* the clock
  market,   \* timestamps of the trades at the exchange; trade i has id i
  up,       \* the WebSocket is connected
  inbox,    \* messages it has received and the session has not read
  db,       \* rows of the bars table, by bucket
  source,   \* whether timeframe_seconds is below a minute, "trades", or not
  phase,    \* stopped, bootstrapping, running or error
  asked,    \* the time the bootstrap asked for history up to
  pages,    \* pages its fetch took
  refusal,  \* why it was refused
  agg,      \* aggregator.current
  lastId,   \* _last_trade_id, 0 for None
  since,    \* interval of the bar the bootstrap left open
  first,    \* first trade id the session counts from, 0 before it has one
  live,     \* bars closed since the session runs: the tail of its history
  at,       \* where the task waits
  batch,    \* trades a catch-up has still to handle
  todo,     \* closed bars _handle_aggregation has still to handle
  decision, \* of the strategy, for the first of them
  target,   \* _last_target_fraction
  position, \* target of the last fill of the broker
  equity,   \* position in the last equity row
  late,     \* trades dropped because their bar was closed
  left      \* what is left of the bounds on sessions and drops

feed    == <<up, inbox>>
boot    == <<source, asked, pages, refusal>>
account == <<decision, target, position, equity>>
work    == <<at, batch, todo>>
book    == <<agg, lastId, since, first, late>>
vars    == <<now, market, feed, db, phase, boot, book, live, work, account, left>>

Ids        == 1 .. Len(market)
Buckets    == {Bucket(t) : t \in 0 .. MaxTime}
Trade(i)   == TradeOf(i, market[i])
TradeMsg(i) == [kind |-> "trade", id |-> i]
QuoteMsg(t) == [kind |-> "quote", ts |-> t]

\* The market has traded once before the program starts.
Init ==
  /\ now = Required * TF
  /\ market = <<0>>
  /\ up = FALSE /\ inbox = <<>>
  /\ db = [b \in Buckets |-> NoBar]
  /\ source \in Sources
  /\ phase = "stopped" /\ asked = 0 /\ pages = 0 /\ refusal = "none"
  /\ agg = NoBar /\ lastId = 0 /\ since = 0 /\ first = 0 /\ late = {}
  /\ live = <<>>
  /\ at = "read" /\ batch = <<>> /\ todo = <<>>
  /\ decision = Hold /\ target = Hold /\ position = Hold /\ equity = Hold
  /\ left = [sessions |-> MaxSessions, drops |-> MaxDrops]

----------------------------------------------------------------------------
(* The world outside.                                                       *)

Tick ==
  /\ now < MaxTime
  /\ now' = now + 1
  /\ UNCHANGED <<market, feed, db, phase, boot, book, live, work, account, left>>

\* Messages reach a connected session in order.
Send(msg) ==
  IF up THEN Len(inbox) < MaxInbox /\ inbox' = Append(inbox, msg) ELSE UNCHANGED inbox

MarketTrade ==
  /\ Len(market) < MaxTrades
  /\ Cardinality({i \in Ids : market[i] = now}) < MaxPerSecond
  /\ market' = Append(market, now)
  /\ Send(TradeMsg(Len(market) + 1))
  /\ UNCHANGED <<now, up, db, phase, boot, book, live, work, account, left>>

MarketQuote ==
  /\ up
  /\ Send(QuoteMsg(now))
  /\ UNCHANGED <<now, market, up, db, phase, boot, book, live, work, account, left>>

\* What was received and not read is lost with the connection.
Drop ==
  /\ up /\ left.drops > 0
  /\ up' = FALSE /\ inbox' = <<>>
  /\ left' = [left EXCEPT !.drops = @ - 1]
  /\ UNCHANGED <<now, market, db, phase, boot, book, live, work, account>>

----------------------------------------------------------------------------
(* fetch_trade_history(from, upto): pages of PageSize trades, until the     *)
(* latest is recent enough, the pages run out or there is no further trade. *)
(* A trade in the very millisecond of the cut-off is left out with the rest *)
(* of its second.                                                           *)

Available(from, upto) == {i \in Ids : from <= market[i] /\ market[i] < upto}

Oldest(ids, n) == {i \in ids : Cardinality({j \in ids : j < i}) < n}

IsRecent(ids, upto) == \E i \in ids : market[i] >= upto - Staleness

\* Mutant: the page limit is not looked at.
PagesUnlimited(ids, upto) ==
  LET enough == {k \in 1 .. MaxTrades + 1 :
                   \/ IsRecent(Oldest(ids, k * PageSize), upto)
                   \/ (k - 1) * PageSize >= Cardinality(ids)}
  IN CHOOSE k \in enough : \A j \in enough : k <= j

\* Pages read: until the trades are recent, or a page brings no further trade.
PagesRead(ids, upto) ==
  LET enough == {k \in 1 .. MaxPages :
                   \/ IsRecent(Oldest(ids, k * PageSize), upto)
                   \/ k = MaxPages
                   \/ (k - 1) * PageSize >= Cardinality(ids)}
  IN CHOOSE k \in enough : \A j \in enough : k <= j

Fetch(from, upto) ==
  LET ids == Available(from, upto)
      k   == PagesRead(ids, upto)
      got == Oldest(ids, k * PageSize)
  IN [ids |-> got, pages |-> k, complete |-> IsRecent(got, upto)]

\* The ids of a fetch follow each other.
InOrder(ids) == [k \in 1 .. Cardinality(ids) |-> Min(ids) + k - 1]

----------------------------------------------------------------------------
(* start and _bootstrap.                                                    *)

StartSession ==
  /\ phase \in {"stopped", "error"} /\ left.sessions > 0
  /\ left' = [left EXCEPT !.sessions = @ - 1]
  /\ phase' = "bootstrapping" /\ asked' = now /\ pages' = 0 /\ refusal' = "none"
  /\ UNCHANGED <<now, market, feed, db, source, book, live, work, account>>

Stored == {b \in Buckets : db[b] # NoBar}

Lookback == (Required + 4) * TF

FetchStart ==
  LET baseline == asked - Lookback
      recent   == Stored # {} /\ asked - Max(Stored) <= 2 * Lookback
      start    == IF recent /\ Max(Stored) - TF > baseline THEN Max(Stored) - TF
                  ELSE baseline
  IN start - (start % TF)

\* The merged bars that are kept: the newest Required, as a set.
Newest(bars, n) == {b \in bars : Cardinality({c \in bars : b.ts < c.ts}) < n}

\* The session runs with these completed bars, stored first, and this bar.
Boot(completed, current, id) ==
  /\ db' = [b \in Buckets |->
              IF \E c \in completed : c.ts = b THEN CHOOSE c \in completed : c.ts = b
              ELSE db[b]]
  /\ agg' = current /\ since' = current.ts
  /\ lastId' = id
  /\ first' = IF id = 0 THEN 0 ELSE id + 1
  /\ phase' = "running" /\ refusal' = "none"
  /\ live' = <<>> /\ late' = {}
  /\ at' = "read" /\ batch' = <<>> /\ todo' = <<>>
  /\ decision' = Hold /\ target' = Hold /\ position' = Hold /\ equity' = Hold

Refuse(why) ==
  /\ phase' = "error" /\ refusal' = why
  /\ UNCHANGED <<db, book, live, work, account>>

\* The trades answered: bars are rebuilt from them over what was stored.
BootFromTrades(history) ==
  LET ids       == InOrder(history.ids)
      built     == BarsOf([k \in DOMAIN ids |-> Trade(ids[k])], asked)
      fetched   == {built.closed[k] : k \in DOMAIN built.closed}
      older     == {db[b] : b \in {c \in Stored :
                      c < built.current.ts /\ \A f \in fetched : f.ts # c}}
      completed == Newest(fetched \union older, Required)
  IN IF ~history.complete THEN Refuse("page limit")
     ELSE IF Cardinality(completed) < Required THEN Refuse("too few bars")
     ELSE Boot(completed, built.current, Max(history.ids))

\* No trade answered: the stored bars, then a flat bar at the last close.
BootFromStored ==
  LET bars == {db[b] : b \in Stored}
  IN IF Cardinality(bars) >= Required
     THEN Boot(Newest(bars, Required), FlatBar(Bucket(asked), db[Max(Stored)].close), 0)
     ELSE Refuse("no trades")

\* fetch_ohlc: the exchange's candles up to the one that is under way.
FetchOhlc == BarsOf([i \in Ids |-> Trade(i)], now)

\* _bootstrap_ohlc: candles come without trade ids, so that no trade is the
\* last one seen.
BootFromCandles ==
  LET candles   == FetchOhlc
      completed == Newest(ToSet(candles.closed), Required)
  IN IF Cardinality(completed) < Required THEN Refuse("too few bars")
     ELSE Boot(completed, candles.current, 0)

Bootstrap ==
  /\ phase = "bootstrapping"
  /\ IF source = "candles"
     THEN BootFromCandles /\ UNCHANGED pages
     ELSE LET history == Fetch(FetchStart, asked)
          IN /\ pages' = history.pages
             /\ IF history.ids = {} THEN BootFromStored ELSE BootFromTrades(history)
  /\ UNCHANGED <<now, market, feed, source, asked, left>>

----------------------------------------------------------------------------
(* _run, one event at a time.                                               *)

Running == phase = "running"

\* The stream connects and yields "connected"; for a sub-minute session it
\* replays the latest trades (trade_snapshot).
Connect ==
  /\ Running /\ ~up /\ at = "read" /\ batch = <<>>
  /\ up' = TRUE
  /\ LET replayed == InOrder({i \in Ids : i + SnapshotSize > Len(market)})
     IN inbox' = IF source = "candles" THEN <<>>
                 ELSE [k \in DOMAIN replayed |-> TradeMsg(replayed[k])]
  /\ at' = "connected"
  /\ UNCHANGED <<now, market, db, phase, boot, book, live, batch, todo, account, left>>

\* Mutant: the session goes on without asking for what it missed.
SkipCatchUp ==
  /\ Running /\ at = "connected"
  /\ at' = "read"
  /\ UNCHANGED <<now, market, feed, db, phase, boot, book, live, batch, todo,
                 account, left>>

\* max(0, last trade time - 2 * timeframe_seconds).
CatchUpFrom == IF market[lastId] < 2 * TF THEN 0 ELSE market[lastId] - 2 * TF

\* _catch_up_subminute_trades: asks from two bars before the last trade on.
CatchUp ==
  /\ Running /\ at = "connected"
  /\ IF lastId = 0 \/ source = "candles"
     THEN UNCHANGED batch
     ELSE batch' = InOrder(Fetch(CatchUpFrom, now).ids)
  /\ at' = "read"
  /\ UNCHANGED <<now, market, feed, db, phase, boot, book, live, todo, account, left>>

\* The REST request fails: the exception ends the task.
CatchUpFails ==
  /\ Running /\ at = "connected" /\ lastId # 0 /\ source = "trades"
  /\ phase' = "error" /\ up' = FALSE /\ inbox' = <<>>
  /\ UNCHANGED <<now, market, db, boot, book, live, work, account, left>>

\* add_trade or advance_to answered; its closed bars are handled next.
Aggregate(next) ==
  /\ agg' = next.current
  /\ todo' = next.closed
  /\ at' = IF next.closed = <<>> THEN "read" ELSE "bar"

\* Mutant: trades are not compared with the last one seen.
CountEveryTrade(i) ==
  /\ lastId' = i /\ UNCHANGED since
  /\ first' = IF first = 0 THEN i ELSE first
  /\ late' = IF IsLate(agg, Trade(i)) THEN late \union {i} ELSE late
  /\ Aggregate(AddTrade(agg, Trade(i)))

\* A trade of the feed or of a catch-up; one that was seen is skipped.
HandleTrade(i) ==
  IF i <= lastId
  THEN UNCHANGED <<book, at, todo>>
  ELSE /\ lastId' = i /\ UNCHANGED since
       /\ first' = IF first = 0 THEN i ELSE first
       /\ late' = IF IsLate(agg, Trade(i)) THEN late \union {i} ELSE late
       /\ Aggregate(AddTrade(agg, Trade(i)))

HandleClock(t) ==
  /\ Aggregate(AdvanceTo(agg, t))
  /\ UNCHANGED <<lastId, since, first, late>>

Reading == Running /\ at = "read"

CatchUpTrade ==
  /\ Reading /\ batch # <<>>
  /\ HandleTrade(Head(batch))
  /\ batch' = Tail(batch)
  /\ UNCHANGED <<now, market, feed, db, phase, boot, live, account, left>>

Receive ==
  /\ Reading /\ batch = <<>> /\ inbox # <<>>
  /\ inbox' = Tail(inbox)
  /\ IF Head(inbox).kind = "trade"
     THEN HandleTrade(Head(inbox).id)
     ELSE HandleClock(Head(inbox).ts)
  /\ UNCHANGED <<now, market, up, db, phase, boot, live, batch, account, left>>

\* Mutant: a clock event moves no bar.
IgnoreClock ==
  /\ Reading /\ batch = <<>> /\ up /\ inbox = <<>>
  /\ UNCHANGED vars

\* No message for a second: the stream yields the local clock.
ClockEvent ==
  /\ Reading /\ batch = <<>> /\ up /\ inbox = <<>>
  /\ HandleClock(now)
  /\ UNCHANGED <<now, market, feed, db, phase, boot, live, batch, account, left>>

\* Mutant: only the last of the closed bars is handled.
CloseLastBar ==
  /\ Running /\ at = "bar"
  /\ LET bar == todo[Len(todo)]
     IN /\ db' = [db EXCEPT ![bar.ts] = bar]
        /\ live' = Append(live, bar)
  /\ todo' = <<todo[Len(todo)]>>
  /\ decision' \in Targets \union {Hold}
  /\ at' = "decided"
  /\ UNCHANGED <<now, market, feed, phase, boot, book, batch, target, position,
                 equity, left>>

\* _on_closed_bar up to its first await: the row, the history, the strategy.
CloseBar ==
  /\ Running /\ at = "bar"
  /\ LET bar == Head(todo)
     IN /\ db' = [db EXCEPT ![bar.ts] = bar]
        /\ live' = Append(live, bar)
  /\ decision' \in Targets \union {Hold}
  /\ at' = "decided"
  /\ UNCHANGED <<now, market, feed, phase, boot, book, batch, todo, target,
                 position, equity, left>>

\* The strategy raises: the row is stored, the task ends.
StrategyFails ==
  /\ Running /\ at = "bar"
  /\ db' = [db EXCEPT ![Head(todo).ts] = Head(todo)]
  /\ live' = Append(live, Head(todo))
  /\ phase' = "error" /\ up' = FALSE /\ inbox' = <<>>
  /\ UNCHANGED <<now, market, boot, book, work, account, left>>

\* A new target is remembered, and filled unless the broker skips the order.
Rebalance ==
  /\ Running /\ at = "decided"
  /\ IF decision \in {Hold, target}
     THEN UNCHANGED <<target, position>>
     ELSE /\ target' = decision
          /\ position' \in {decision, position}
  /\ at' = "account"
  /\ UNCHANGED <<now, market, feed, db, phase, boot, book, live, batch, todo,
                 decision, equity, left>>

\* The equity row; the next closed bar, or the next event.
SaveEquity ==
  /\ Running /\ at = "account"
  /\ equity' = position
  /\ decision' = Hold
  /\ todo' = Tail(todo)
  /\ at' = IF Tail(todo) = <<>> THEN "read" ELSE "bar"
  /\ UNCHANGED <<now, market, feed, db, phase, boot, book, live, batch, target,
                 position, left>>

\* stop, or the end of the process: the task is cancelled where it waits.
Stop ==
  /\ phase \in {"running", "error"}
  /\ phase' = "stopped" /\ up' = FALSE /\ inbox' = <<>>
  /\ UNCHANGED <<now, market, db, boot, book, live, work, account, left>>

HandleBar == CloseBar \/ Rebalance \/ SaveEquity

RunStep ==
  \/ Connect \/ CatchUp \/ CatchUpTrade \/ Receive \/ ClockEvent \/ HandleBar

Next ==
  \/ Tick \/ MarketTrade \/ MarketQuote \/ Drop
  \/ StartSession \/ Bootstrap \/ RunStep
  \/ CatchUpFails \/ StrategyFails \/ Stop

Spec == Init /\ [][Next]_vars

\* Time passes, and the event loop runs the session's task when it can go on.
FairSpec == Spec /\ WF_vars(RunStep) /\ WF_vars(Tick)

----------------------------------------------------------------------------
(* Properties.                                                              *)

\* Every variable has its type.
TypeOK ==
  /\ now \in 0 .. MaxTime
  /\ market \in Seq(0 .. MaxTime)
  /\ up \in BOOLEAN
  /\ inbox \in Seq([kind : {"trade"}, id : Nat] \union [kind : {"quote"}, ts : Nat])
  /\ db \in [Buckets -> Bar \union {NoBar}]
  /\ source \in Sources
  /\ phase \in {"stopped", "bootstrapping", "running", "error"}
  /\ asked \in 0 .. MaxTime /\ pages \in 0 .. MaxPages
  /\ refusal \in {"none", "page limit", "too few bars", "no trades"}
  /\ agg \in Bar \union {NoBar}
  /\ lastId \in Nat /\ since \in Nat /\ first \in Nat /\ late \subseteq Nat
  /\ live \in Seq(Bar) /\ todo \in Seq(Bar) /\ batch \in Seq(Nat)
  /\ at \in {"read", "connected", "bar", "decided", "account"}
  /\ {decision, target, position, equity} \subseteq Targets \union {Hold}
  /\ left \in [sessions : Nat, drops : Nat]

\* The bars of the running session that it closed, is closing or builds; the
\* first of todo is part of live once its row is written.
Waiting == IF at = "bar" \/ todo = <<>> THEN todo ELSE Tail(todo)
SessionBars == Append(live \o Waiting, agg)

\* A trade is counted at most once, in the order of the exchange and in the bar
\* of its own interval, however often the feed and the REST history replay it.
TradesCountedOnce ==
  Running =>
    /\ \A bar \in ToSet(SessionBars) :
         /\ \A m, n \in DOMAIN bar.trades : m < n => bar.trades[m] < bar.trades[n]
         /\ \A id \in ToSet(bar.trades) : Bucket(market[id]) = bar.ts
    /\ \A j, k \in DOMAIN SessionBars : j < k =>
         \A a \in ToSet(SessionBars[j].trades), b \in ToSet(SessionBars[k].trades) : a < b

\* No trade is skipped by a reconnection of a sub-minute session: what it has
\* gone past it has counted, or had to drop because the bar was closed.  The
\* trades missed are no more than a page of the REST history (see the README).
NoTradeSkipped ==
  Running /\ source = "trades" /\ first # 0 =>
    first .. lastId \subseteq late \union TradesIn(SessionBars)

\* The bars the strategy is shown and the database keeps are an append-only
\* tape without holes.
Tape == INSTANCE BarTape WITH tape <- live
BarsAreTape == Tape!Spec

\* A bar whose interval is over is closed, also in a market without trades,
\* unless the session ends or its connection is lost.
Behind == Running /\ up /\ now >= agg.ts + TF
BarsClose == Behind ~> ~Behind

\* "reached its page limit before catching up to live data" (live.py:235-239):
\* a session is refused with this message only when it read all its pages.
RefusedAtPageLimit == refusal = "page limit" => pages = MaxPages
=============================================================================
