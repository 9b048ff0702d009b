\* Two sessions over one database, 2-second bars, a lost connection.
SPECIFICATION FairSpec
CONSTANTS
  TF = 2
  Sources = {"trades", "candles"}
  Required = 2
  Staleness = 5
  PageSize = 4
  MaxPages = 1
  SnapshotSize = 1
  Targets = {"long"}
  MaxTime = 8
  MaxTrades = 4
  MaxPerSecond = 1
  MaxInbox = 1
  MaxSessions = 2
  MaxDrops = 1
INVARIANTS TypeOK TradesCountedOnce NoTradeSkipped
PROPERTIES BarsAreTape BarsClose
CHECK_DEADLOCK FALSE
