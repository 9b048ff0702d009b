\* A market whose last trade is older than the staleness a bootstrap allows.
SPECIFICATION Spec
CONSTANTS
  TF = 1
  Sources = {"trades"}
  Required = 2
  Staleness = 5
  PageSize = 4
  MaxPages = 3
  SnapshotSize = 1
  Targets = {"long"}
  MaxTime = 8
  MaxTrades = 1
  MaxPerSecond = 1
  MaxInbox = 1
  MaxSessions = 1
  MaxDrops = 0
INVARIANT RefusedAtPageLimit
CHECK_DEADLOCK FALSE
