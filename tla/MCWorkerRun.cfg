SPECIFICATION Spec
CONSTANTS
  w1 = w1
  w2 = w2
  encoder = encoder
  jepa = jepa
  policy = policy
  Workers = {w1, w2}
  Trainer = w1
  NoWorker = NoWorker
  Orphan = Orphan
  NoFile = NoFile
  Timeframe = 1
  Horizons <- MCHorizons
  PurgeSeconds = 0
  Patch = 1
  ContextPatches = 2
  FuturePatches = 2
  TrainParts = 2
  ValidationParts = 1
  Parts = 4
  Slack = 4
  RowCounts = {9, 24}
  MaxAttempts = 2
  MaxMishaps = 1
  Stages <- MCStages
  ValidationInterval = 1
  CheckpointInterval = 2
  Losses = {1}
  Scores = {1, 2}
  MinimumDelta = 0
  Metric = "hybrid_score"
  MaxLaunches = 2
INVARIANTS
  TypeOK
  ReadyIsComplete
  NoLookahead
  BestIsHighest
  WeightsFollowSchedule
  CompletedFiles
PROPERTIES
  PublishedIsImmutable
  WorkersEnd
