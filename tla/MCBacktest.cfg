\* Up to four rows, two prices, three targets.
SPECIFICATION Spec
CONSTANTS
  Unit = 10
  Fee = 1
  MinNotional = 2
  Friction = 1
  InitialEquity = 12
  Configs <- MCConfigs
  Prices = {2, 5}
  Targets <- MCTargets
  NoTarget = NoTarget
  MaxPoints = 2
  MaxFills = 1
  MaxRows = 4
INVARIANTS TypeOK NeverBeyondPolicy ExecutedAtNextOpen DrawdownIsWorst CurveSpansRun
CHECK_DEADLOCK FALSE
