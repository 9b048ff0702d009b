------------------------------ MODULE Decisions ------------------------------
(***************************************************************************)
(* How a strategy turns rows into a target: once over all rows of a        *)
(* backtest (build_signals) and bar by bar over the bounded history of a   *)
(* live session (on_live_bar).  What the indicators or the model say about *)
(* the last bar of a window is abstracted to an outcome.                   *)
(***************************************************************************)
EXTENDS Integers, Sequences

CONSTANTS
  Context,     \* bars of one context window
  Warmup,      \* rows at the start of a frame whose features are not finite
  Stride,      \* TimesFM: prediction_stride
  HistorySize, \* maxlen of the session's deque of bars
  NoTarget     \* target_fraction is None

MinimumBars == Context + Warmup

\* history_size = max(5_000, minimum_bars + 16), and minimum_bars covers the
\* context, as those of MarketLM and MarketHybrid do by their definition.
ASSUME DecisionAssumption ==
  /\ Context \in Nat \ {0} /\ Warmup \in Nat /\ Stride \in Nat \ {0}
  /\ HistorySize \in Nat /\ HistorySize > MinimumBars
  /\ NoTarget \notin {"long", "short", "flat"}

\* bullish, bearish, neither, or a bar some feature of which is not finite
Outcome == {"up", "down", "none", "gap"}

\* threshold: MarketHybrid's model_policy and forecast_*, and the SMA crossover
\* hold:      MarketLM's long_flat and long_short, median_sign_long_short
\* timesfm:   a forecast every Stride bars
\* crossing:  RSI and WaveTrend, which decide only when something happens
Kind == {"threshold", "hold", "timesfm", "crossing"}

\* "short" is the flat target in the modes that are never short.
Order(o) == CASE o = "up" -> "long" [] o = "down" -> "short" [] OTHER -> "flat"

----------------------------------------------------------------------------
(* A frame of rows: predict_frame, _forward_fill and _targets, with a       *)
(* prediction for every bar (prediction_stride 1) but from TimesFM.         *)

\* The window of Context rows that ends in row j is finite.
ValidEndpoint(rows, j) ==
  /\ j >= MinimumBars
  /\ \A i \in (j - Context + 1)..j : rows[i] # "gap"

\* TimesFM: every Stride-th row from the first whole context on.
Forecasts(rows) == {j \in Context..Len(rows) : (j - Context) % Stride = 0}

\* RSI and WaveTrend: the rows where something happens; null is neither.
Crossings(rows) == {j \in 1..Len(rows) : rows[j] \in {"up", "down"}}

Predicted(rows) == {j \in 1..Len(rows) : ValidEndpoint(rows, j)}

\* The rows that set the target (_targets); the rows between them repeat it.
Acting(kind, rows) ==
  CASE kind = "threshold" -> Predicted(rows)
    [] kind = "hold"      -> Predicted(rows) \cap Crossings(rows)
    [] kind = "timesfm"   -> Forecasts(rows)
    [] kind = "crossing"  -> Crossings(rows)

Last(S) == CHOOSE j \in S : \A k \in S : k <= j

Target(kind, rows) ==
  IF Acting(kind, rows) = {} THEN "flat" ELSE Order(rows[Last(Acting(kind, rows))])

----------------------------------------------------------------------------
(* One bar of a live session.                                               *)

\* The deque: the newest HistorySize of the rows.
Kept(rows) ==
  IF Len(rows) > HistorySize
    THEN SubSeq(rows, Len(rows) - HistorySize + 1, Len(rows))
    ELSE rows

\* Mutant: the stride must be exceeded.
DueLater(rows, last) ==
  /\ Len(rows) >= Context
  /\ last = 0 \/ Len(rows) - last > Stride

\* TimesFM forecasts when Stride bars have passed since the last time it did;
\* before the first time, 0, as soon as its context is there.  A session compares
\* timestamps, which are rows as long as its bars have no hole.
Due(rows, last) ==
  /\ Len(rows) >= Context
  /\ last = 0 \/ Len(rows) - last >= Stride

\* predict_live: the frame is the deque, however short its memory.
LivePrediction(kind, rows) ==
  IF Len(Kept(rows)) < MinimumBars THEN NoTarget ELSE Target(kind, Kept(rows))

LiveForecast(rows, last) ==
  IF Due(rows, last) THEN Order(rows[Len(rows)]) ELSE NoTarget

LiveCrossing(rows) ==
  IF Len(Kept(rows)) >= MinimumBars /\ rows[Len(rows)] \in {"up", "down"}
    THEN Order(rows[Len(rows)]) ELSE NoTarget

\* on_live_bar for the newest of rows; last is the row of the last forecast.
Decide(kind, rows, last) ==
  CASE kind \in {"threshold", "hold"} -> LivePrediction(kind, rows)
    [] kind = "timesfm"              -> LiveForecast(rows, last)
    [] kind = "crossing"             -> LiveCrossing(rows)

\* The row that decides is one the deque still answers for.  TimesFM, RSI and
\* WaveTrend say nothing between two decisions, and the session keeps the last.
Remembered(kind, rows) ==
  \/ Acting(kind, rows) = {}
  \/ kind \in {"timesfm", "crossing"}
  \/ Last(Acting(kind, rows)) >= Len(rows) - Len(Kept(rows)) + MinimumBars
=============================================================================
