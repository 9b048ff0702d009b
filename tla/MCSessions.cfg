SPECIFICATION Spec
CONSTANTS
  s1 = s1
  s2 = s2
  Session = {s1, s2}
  Plans <- MCPlans
  Bootstraps <- MCBootstraps
  Context = 1
  Warmup = 1
  Stride = 2
  HistorySize = 3
  Outcomes = {"up", "none", "gap"}
  MaxBars = 2
  MaxStops = 1
  MaxDrops = 1
  MaxInbox = 2
  NoTarget = NoTarget
  NoSession = NoSession
  Stop = Stop
INVARIANTS
  TypeOK
  OneRunningSession
  PageIsOneSession
  LiveMatchesBatch
PROPERTIES
  StoppedIsSilent
CHECK_DEADLOCK FALSE
SYMMETRY Alike
