\* Three policies, five targets, three quotes, four fills.
SPECIFICATION Spec
CONSTANTS
  Unit = 10
  Fee = 1
  MinNotional = 2
  Slip = 1
  InitialEquity = 20
  MaxFills = 4
  Configs <- MCConfigs
  Targets <- MCTargets
  Quotes <- MCQuotes
INVARIANTS TypeOK NeverBeyondPolicy ProfitAddsUp
CHECK_DEADLOCK FALSE
