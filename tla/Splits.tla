------------------------------- MODULE Splits -------------------------------
(***************************************************************************)
(* The chronological splits of a prepared dataset (marketlm/dataset.py)    *)
(* and the windows the two trainers read from it.  Rows are numbered from  *)
(* 0 in time order; a row is dropped when a label of it would cross a hole *)
(* in the data, so that k rows are never fewer than k bars apart and a     *)
(* label that looks s bars ahead looks at most s rows ahead.               *)
(***************************************************************************)
EXTENDS Integers, Sequences

CONSTANTS
  Timeframe,        \* seconds of one bar
  Horizons,         \* forecast horizons in seconds, sorted
  PurgeSeconds,     \* purge_seconds, 0 when the request gives none
  Patch,            \* bars of one patch
  ContextPatches,   \* patches of one context window
  FuturePatches,    \* MarketHybrid: the largest JEPA target offset
  TrainParts,       \* train_fraction and
  ValidationParts,  \* validation_fraction, in units of
  Parts,            \* 1 / Parts
  Slack             \* rows demanded beyond one window: 32 in the code

LongestHorizon == Horizons[Len(Horizons)]

\* What validate_data and validate_hybrid let through.
ASSUME DataAssumption ==
  /\ Timeframe \in Nat \ {0}
  /\ Horizons \in Seq(Nat \ {0})
  /\ Len(Horizons) > 0
  /\ \A i \in 1..Len(Horizons) :
       Horizons[i] % Timeframe = 0 /\ Horizons[i] <= LongestHorizon
  /\ PurgeSeconds \in Nat
  /\ PurgeSeconds = 0 \/ PurgeSeconds >= LongestHorizon

ASSUME WindowAssumption ==
  /\ Patch \in Nat \ {0}
  /\ ContextPatches \in Nat \ {0}
  /\ FuturePatches \in Nat \ {0}
  /\ FuturePatches * Patch <= LongestHorizon \div Timeframe
  /\ Slack \in Nat

ASSUME FractionAssumption ==
  /\ TrainParts \in Nat \ {0}
  /\ ValidationParts \in Nat \ {0}
  /\ Parts \in Nat
  /\ TrainParts + ValidationParts < Parts

----------------------------------------------------------------------------
(* The parameters of the request, in bars.                                  *)

ContextBars  == Patch * ContextPatches
HorizonSteps == LongestHorizon \div Timeframe
FutureBars   == FuturePatches * Patch

\* Mutant: the gap is what the request gives, also when it gives none.
PurgeAsRequested == (PurgeSeconds + Timeframe - 1) \div Timeframe

\* effective_purge_seconds, and its ceiling in bars
EffectivePurge ==
  IF PurgeSeconds > LongestHorizon THEN PurgeSeconds ELSE LongestHorizon
PurgeSteps == (EffectivePurge + Timeframe - 1) \div Timeframe

MinimumRows == ContextBars + Patch + HorizonSteps + Slack

----------------------------------------------------------------------------
(* The splits: the first and the last endpoint a window may have.           *)

TrainBoundary(rows)      == (rows * TrainParts) \div Parts
ValidationBoundary(rows) == (rows * (TrainParts + ValidationParts)) \div Parts

SplitName == {"train", "validation", "test"}

SplitEndpoints(rows) ==
  [ train      |-> [first |-> ContextBars - 1,
                    last  |-> TrainBoundary(rows) - Patch - 1],
    validation |-> [first |-> TrainBoundary(rows) + PurgeSteps,
                    last  |-> ValidationBoundary(rows) - Patch - 1],
    test       |-> [first |-> ValidationBoundary(rows) + PurgeSteps,
                    last  |-> rows - Patch - 1] ]

\* Anything else is a ValueError: too few rows, or a split is empty.
Usable(rows) ==
  /\ rows >= MinimumRows
  /\ \A s \in SplitName :
       SplitEndpoints(rows)[s].first <= SplitEndpoints(rows)[s].last

\* The rows the normalisation is fitted on: features, then targets.
FeatureFit(rows) == 0..(TrainBoundary(rows) - 1)
TargetFit(rows)  ==
  SplitEndpoints(rows).train.first .. SplitEndpoints(rows).train.last

----------------------------------------------------------------------------
(* The windows, and how far ahead of its endpoint a sample looks.           *)

Window(e)       == (e - ContextBars + 1)..(e + Patch)
HybridWindow(e) == (e - ContextBars + 1)..(e + FutureBars)

\* MarketLM draws endpoints from the whole split; MarketHybrid first cuts it
\* so that the future patches of the last window exist.
Endpoints(rows, s) ==
  SplitEndpoints(rows)[s].first .. SplitEndpoints(rows)[s].last
HybridEndpoints(rows, s) ==
  LET split == SplitEndpoints(rows)[s]
      room  == rows - FutureBars - 1
  IN  split.first .. (IF room < split.last THEN room ELSE split.last)

\* The last row whose data a sample with endpoint e can depend on: its next
\* patch, its JEPA targets and its furthest label.
Reach(e) == {e + Patch, e + FutureBars, e + HorizonSteps}

----------------------------------------------------------------------------
(* Chronology: nothing a training sample is made from is as late as the     *)
(* first endpoint it is validated on, nor a validation sample as late as    *)
(* the first test endpoint; and no window leaves the data.  The semantics   *)
(* text stored with the tensors promises the first two ("chronological and  *)
(* separated by a purge gap", "fit on the training period only").           *)

Chronological(rows) ==
  /\ \A e \in Endpoints(rows, "train"), v \in Endpoints(rows, "validation") :
       \A r \in Reach(e) : r < v
  /\ \A e \in Endpoints(rows, "validation"), v \in Endpoints(rows, "test") :
       \A r \in Reach(e) : r < v
  /\ \A r \in FeatureFit(rows) \cup TargetFit(rows),
        v \in Endpoints(rows, "validation") : r < v

WindowsInside(rows) ==
  \A s \in SplitName :
    /\ \A e \in Endpoints(rows, s) : Window(e) \subseteq 0..(rows - 1)
    /\ \A e \in HybridEndpoints(rows, s) : HybridWindow(e) \subseteq 0..(rows - 1)
=============================================================================
