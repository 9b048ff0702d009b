\* Two processes, one of which may be killed anywhere; holders are quick.
SPECIFICATION FairSpec
CONSTANTS
  Proc = {p1, p2}
  MaxUpdates = 2
  MaxHold = 1
  Faults = {"crash", "unlink"}
  NoLock = NoLock
INVARIANTS TypeOK MutualExclusion
PROPERTIES ReleasesOwnLock UpdateEnds UpdatesAreAtomic
CHECK_DEADLOCK FALSE
