SPECIFICATION Spec
CONSTANTS
  s1 = s1
  s2 = s2
  Session = {s1, s2}
  Plans <- MCHold
  Bootstraps <- MCBootstraps
  Context = 1
  Warmup = 1
  Stride = 2
  HistorySize = 3
  Outcomes = {"up", "none", "gap"}
  MaxBars = 3
  MaxStops = 0
  MaxDrops = 0
  MaxInbox = 2
  NoTarget = NoTarget
  NoSession = NoSession
  Stop = Stop
INVARIANTS
  RetainsTarget
CHECK_DEADLOCK FALSE
SYMMETRY Alike
