\* A training run and a preparation run, with one fault of each kind.
SPECIFICATION FairSpec
CONSTANTS
  Run = {train, prepare}
  PrepareOnly = {prepare}
  MaxRestarts = 1
  MaxResumes = 1
  MaxKills = 1
  MaxDefers = 1
  MaxFaults = 2
INVARIANTS TypeOK SingleManagedGpuJob CompletedHasArtifacts
PROPERTIES ReportIsFinal EveryRunEnds
CHECK_DEADLOCK FALSE
