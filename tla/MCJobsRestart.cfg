\* The API process ends once, before the worker has recorded its pid.
SPECIFICATION Spec
CONSTANTS
  Run = {train, prepare}
  PrepareOnly = {prepare}
  MaxRestarts = 1
  MaxResumes = 0
  MaxKills = 0
  MaxDefers = 0
  MaxFaults = 2
INVARIANT SingleGpuJob
CHECK_DEADLOCK FALSE
