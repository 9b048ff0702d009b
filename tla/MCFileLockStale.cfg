\* Three processes: one is killed holding the lock, two find its file stale.
SPECIFICATION Spec
CONSTANTS
  Proc = {p1, p2, p3}
  MaxUpdates = 1
  MaxHold = 1
  Faults = {"crash"}
  NoLock = NoLock
SYMMETRY Symmetry
INVARIANT MutualExclusion
CHECK_DEADLOCK FALSE
