--------------------------- MODULE WorkerRunProofs ---------------------------
(***************************************************************************)
(* The worker of a run: the splits of its data, the loop that trains on    *)
(* them, and the cache of prepared tensors it opens, in three parts, for   *)
(* every request the validators accept, every schedule and outcome of the  *)
(* validations, and every sequence of stops, kills and lock timeouts.      *)
(***************************************************************************)
EXTENDS WorkerRun, FiniteSetTheorems, TLAPS

----------------------------------------------------------------------------
(***************************************************************************)
(* Part 1, Splits: they are chronological and every window lies inside the *)
(* data, for every number of rows.                                         *)
(***************************************************************************)

\* Division rounds down, and so keeps the order.
LEMMA DivMonotone ==
  ASSUME NEW a \in Nat, NEW b \in Nat, NEW t \in Nat \ {0}, a <= b
  PROVE  a \div t \in Nat /\ a \div t <= b \div t
<1> DEFINE qa == a \div t
           qb == b \div t
<1>1. qa \in Int /\ qb \in Int /\ qa * t <= a /\ b < (qb + 1) * t /\ qa >= 0
  OBVIOUS
<1>2. qa \in Int /\ qb \in Int /\ qa * t < (qb + 1) * t
  BY <1>1
<1>3. ASSUME NEW x \in Int, NEW y \in Int, x * t < (y + 1) * t PROVE x <= y
  <2>1. ASSUME x >= y + 1 PROVE x * t >= (y + 1) * t
    BY <2>1
  <2> QED
    BY <1>3, <2>1
<1> HIDE DEF qa, qb
<1>4. qa <= qb
  BY <1>2, <1>3
<1> QED
  BY <1>1, <1>4 DEF qa, qb

LEMMA DivExact ==
  ASSUME NEW a \in Nat, NEW t \in Nat \ {0}
  PROVE  (a * t) \div t = a
<1> DEFINE q == (a * t) \div t
<1>1. q \in Int /\ q * t <= a * t /\ a * t < (q + 1) * t
  OBVIOUS
<1>2. ASSUME NEW x \in Int, NEW y \in Int, x * t < (y + 1) * t PROVE x <= y
  <2>1. ASSUME x >= y + 1 PROVE x * t >= (y + 1) * t
    BY <2>1
  <2> QED
    BY <1>2, <2>1
<1>3. ASSUME NEW x \in Int, NEW y \in Int, x * t <= y * t PROVE x <= y
  <2>1. y * t < (y + 1) * t
    OBVIOUS
  <2>2. x * t < (y + 1) * t
    BY <1>3, <2>1
  <2> QED
    BY <1>2, <2>2
<1> HIDE DEF q
<1>4. q <= a /\ a <= q
  BY <1>1, <1>2, <1>3
<1> QED
  BY <1>1, <1>4 DEF q

\* What the bars of the request are: the purge gap is never shorter than the
\* longest label, nor the JEPA future.
LEMMA RequestBars ==
  /\ ContextBars \in Nat \ {0}
  /\ HorizonSteps \in Nat
  /\ FutureBars \in Nat \ {0}
  /\ PurgeSteps \in Nat
  /\ FutureBars <= HorizonSteps
  /\ HorizonSteps <= PurgeSteps
<1>1. LongestHorizon \in Nat /\ Timeframe \in Nat \ {0} /\ PurgeSeconds \in Nat
  BY DataAssumption DEF LongestHorizon
<1>2. Patch \in Nat \ {0} /\ ContextPatches \in Nat \ {0} /\ FuturePatches \in Nat \ {0}
  BY WindowAssumption
<1>3. ContextBars \in Nat \ {0} /\ FutureBars \in Nat \ {0}
  BY <1>2 DEF ContextBars, FutureBars
<1>4. EffectivePurge \in Nat /\ EffectivePurge >= LongestHorizon
  BY <1>1 DEF EffectivePurge
<1>5. /\ EffectivePurge + Timeframe - 1 \in Nat
      /\ LongestHorizon <= EffectivePurge + Timeframe - 1
  BY <1>1, <1>4
<1>6. /\ HorizonSteps \in Nat
      /\ HorizonSteps <= PurgeSteps
      /\ PurgeSteps \in Nat
  BY <1>1, <1>5, DivMonotone DEF HorizonSteps, PurgeSteps
<1> QED
  BY <1>3, <1>6, WindowAssumption DEF FutureBars, HorizonSteps

\* The boundaries cut the rows in order.
LEMMA Boundaries ==
  ASSUME NEW rows \in Nat
  PROVE  /\ TrainBoundary(rows) \in Nat
         /\ ValidationBoundary(rows) \in Nat
         /\ TrainBoundary(rows) <= ValidationBoundary(rows)
         /\ ValidationBoundary(rows) <= rows
<1>2. ASSUME NEW p \in Nat \ {0} PROVE (rows * p) \div p = rows
  BY DivExact
<1>3. /\ TrainParts \in Nat /\ ValidationParts \in Nat /\ Parts \in Nat \ {0}
      /\ TrainParts + ValidationParts <= Parts
  BY FractionAssumption
<1>4. ASSUME NEW m \in Nat, NEW n \in Nat, m <= n
      PROVE  rows * m \in Nat /\ rows * n \in Nat /\ rows * m <= rows * n
  BY <1>4
<1>5. /\ rows * TrainParts \in Nat
      /\ rows * (TrainParts + ValidationParts) \in Nat
      /\ rows * Parts \in Nat
      /\ rows * TrainParts <= rows * (TrainParts + ValidationParts)
      /\ rows * (TrainParts + ValidationParts) <= rows * Parts
  BY <1>3, <1>4
<1>6. /\ (rows * TrainParts) \div Parts \in Nat
      /\ (rows * TrainParts) \div Parts
           <= (rows * (TrainParts + ValidationParts)) \div Parts
  BY <1>3, <1>5, DivMonotone
<1>7. /\ (rows * (TrainParts + ValidationParts)) \div Parts \in Nat
      /\ (rows * (TrainParts + ValidationParts)) \div Parts <= (rows * Parts) \div Parts
  BY <1>3, <1>5, DivMonotone
<1> QED
  BY <1>2, <1>3, <1>6, <1>7 DEF TrainBoundary, ValidationBoundary

\* No label, next patch or JEPA target of a training sample, and no row the
\* normalisation is fitted on, reaches the first validation endpoint; nor does
\* a validation sample reach the first test endpoint.
THEOREM SplitsAreChronological ==
  ASSUME NEW rows \in Nat
  PROVE  Chronological(rows)
<1> DEFINE tb == TrainBoundary(rows)
           vb == ValidationBoundary(rows)
<1>1. tb \in Nat /\ vb \in Nat
  BY Boundaries
<1>2. Patch \in Nat \ {0}
  BY WindowAssumption
<1>3. ASSUME NEW e \in Endpoints(rows, "train"),
             NEW v \in Endpoints(rows, "validation"), NEW r \in Reach(e)
      PROVE  r < v
  <2> HIDE DEF tb, vb
  <2>1. e \in Int /\ e <= tb - Patch - 1
    BY <1>1, <1>2, RequestBars DEF Endpoints, SplitEndpoints, tb
  <2>2. v \in Int /\ tb + PurgeSteps <= v
    BY <1>1, <1>2, RequestBars DEF Endpoints, SplitEndpoints, tb, vb
  <2> QED
    BY <1>1, <1>2, <2>1, <2>2, RequestBars DEF Reach
<1>4. ASSUME NEW e \in Endpoints(rows, "validation"),
             NEW v \in Endpoints(rows, "test"), NEW r \in Reach(e)
      PROVE  r < v
  <2> HIDE DEF tb, vb
  <2>1. e \in Int /\ e <= vb - Patch - 1
    BY <1>1, <1>2, RequestBars DEF Endpoints, SplitEndpoints, tb, vb
  <2>2. v \in Int /\ vb + PurgeSteps <= v
    BY <1>1, <1>2, RequestBars DEF Endpoints, SplitEndpoints, tb, vb
  <2> QED
    BY <1>1, <1>2, <2>1, <2>2, RequestBars DEF Reach
<1>5. ASSUME NEW r \in FeatureFit(rows) \cup TargetFit(rows),
             NEW v \in Endpoints(rows, "validation")
      PROVE  r < v
  <2> HIDE DEF tb, vb
  <2>1. r \in Int /\ r <= tb - 1
    BY <1>1, <1>2, RequestBars DEF FeatureFit, TargetFit, SplitEndpoints, tb
  <2>2. v \in Int /\ tb + PurgeSteps <= v
    BY <1>1, <1>2, RequestBars DEF Endpoints, SplitEndpoints, tb, vb
  <2> QED
    BY <1>1, <2>1, <2>2, RequestBars
<1> QED
  BY <1>3, <1>4, <1>5 DEF Chronological

\* Every window the two trainers may read is inside the tensors, whenever the
\* preparation accepted the rows.
THEOREM WindowsStayInside ==
  ASSUME NEW rows \in Nat, Usable(rows)
  PROVE  WindowsInside(rows)
<1> DEFINE tb == TrainBoundary(rows)
           vb == ValidationBoundary(rows)
<1>1. tb \in Nat /\ vb \in Nat /\ tb <= vb /\ vb <= rows
  BY Boundaries
<1>2. Patch \in Nat \ {0}
  BY WindowAssumption
<1>3. ContextBars - 1 <= tb - Patch - 1
  BY DEF Usable, SplitEndpoints, SplitName
<1>4. ASSUME NEW s \in SplitName, NEW e \in Endpoints(rows, s)
      PROVE  e \in Int /\ e >= ContextBars - 1 /\ e <= rows - Patch - 1
  <2> HIDE DEF tb, vb
  <2>1. CASE s = "train"
    BY <1>1, <1>2, <1>3, <2>1, RequestBars DEF Endpoints, SplitEndpoints, tb, vb
  <2>2. CASE s = "validation"
    BY <1>1, <1>2, <1>3, <2>2, RequestBars DEF Endpoints, SplitEndpoints, tb, vb
  <2>3. CASE s = "test"
    BY <1>1, <1>2, <1>3, <2>3, RequestBars DEF Endpoints, SplitEndpoints, tb, vb
  <2> QED
    BY <2>1, <2>2, <2>3 DEF SplitName
<1>5. ASSUME NEW s \in SplitName
      PROVE  \A e \in Endpoints(rows, s) : Window(e) \subseteq 0..(rows - 1)
  BY <1>2, <1>4, RequestBars DEF Window
<1>6. ASSUME NEW s \in SplitName, NEW e \in HybridEndpoints(rows, s)
      PROVE  HybridWindow(e) \subseteq 0..(rows - 1)
  <2>1. SplitEndpoints(rows)[s].first \in Int /\ SplitEndpoints(rows)[s].last \in Int
    BY <1>1, <1>2, RequestBars DEF SplitName, SplitEndpoints
  <2>2. e \in Endpoints(rows, s) /\ e <= rows - FutureBars - 1
    BY <2>1, RequestBars DEF HybridEndpoints, Endpoints
  <2> QED
    BY <1>4, <2>2, RequestBars DEF HybridWindow
<1> QED
  BY <1>5, <1>6 DEF WindowsInside

----------------------------------------------------------------------------
(***************************************************************************)
(* Part 2, Training: what a run directory holds.                           *)
(***************************************************************************)
(* The inductive invariant.                                                 *)

On == phase \in Working

\* The checkpoint a restart takes is a maximum, and the run is not behind it.
Ordered ==
  /\ SavedSteps = {} \/ \E n \in SavedSteps : \A m \in SavedSteps : m <= n
  /\ On /\ files["final"] = NoFile => \A n \in SavedSteps : n <= step

\* Which stage trains, and what the tail of the loop has to work with.
Located ==
  /\ phase \in {"validate", "hybrid", "select", "judge", "checkpoint"} => step > 0
  /\ phase = "train" => step < MaxSteps /\ stage = StageForStep(step)
  /\ phase \in {"select", "hybrid"} => measured \in Measurements
  /\ phase = "judge" => measured \in Measurements /\ best.score > NoScore
  /\ phase \in {"off", "stopped", "failed"} => best = NoBest /\ weights = Untrained
       /\ step = 0 /\ stage = 1 /\ moments = {} /\ ~restored

\* What a restart knows, what the process knows and what best_hybrid.pt holds.
InOrder ==
  /\ Known.score <= KeptScore /\ best.score <= KeptScore
  /\ On => Known.score <= best.score /\ best.loss <= Known.loss
  /\ phase = "select" =>
       IF Metric = "hybrid_score" THEN Known.score < best.score ELSE best.loss < Known.loss

\* A validation that best_hybrid.pt does not know of yet.
Pending == phase = "hybrid" \/ (phase = "select" /\ Metric = "total")

\* As long as no restart fell behind, nothing recorded has been forgotten.
Remembered ==
  /\ "score" \notin lost =>
       /\ ~On => Known.score = top.score /\ KeptScore = top.score
       /\ On /\ ~Pending => best.score = top.score /\ KeptScore = top.score
       /\ On /\ Pending => /\ KeptScore = best.score
                           /\ top.score = IF measured.score > best.score
                                            THEN measured.score ELSE best.score
  /\ "loss" \notin lost => top.loss = IF On THEN best.loss ELSE Known.loss

\* A model is not later than one that knows as good a score.
NotLater(s, b) ==
  files["best_hybrid"] # NoFile /\ KeptScore <= b.score => files["best_hybrid"].step <= s

BestNotLater ==
  /\ On => NotLater(step, best)
  /\ IF LatestCheckpoint = NoFile
       THEN files["best_hybrid"] # NoFile => KeptScore > NoScore
       ELSE NotLater(LatestCheckpoint.step, LatestCheckpoint.best)

\* The files after the loop.
Winner == IF Metric = "hybrid_score" THEN "best_hybrid" ELSE "best_loss"
Key    == IF Metric = "hybrid_score" THEN "score" ELSE "loss"

Selected ==
  IF phase = "select" THEN files[Winner] = Payload(best)
                      ELSE Key \notin lost => files["best"] = files[Winner]

Closed ==
  /\ phase = "finish" => early
  /\ early => phase \in {"finish", "fill", "completed"} /\ files["best_hybrid"] # NoFile
  /\ phase = "fill" => files["final"] = Payload(best)
  /\ phase \in {"fill", "completed"} =>
       /\ files["final"] # NoFile
       /\ IF early THEN files["final"].weights = files["best_hybrid"].weights
                   ELSE files["final"].step = MaxSteps
  /\ phase = "completed" => \A f \in FileName : files[f] # NoFile

TrainInv ==
  /\ TrainTypeOK /\ WeightsFollowSchedule
  /\ Ordered /\ Located /\ InOrder /\ Remembered /\ BestNotLater /\ Selected /\ Closed

----------------------------------------------------------------------------
(* The schedule.                                                            *)

\* A step has a stage, whose modules are modules.
LEMMA StagesAreThere ==
  /\ MaxSteps \in Nat \ {0}
  /\ \A n \in Nat : StageForStep(n) \in StageIds
  /\ 1 \in StageIds
  /\ \A k \in StageIds : Trainable(k) \subseteq Modules /\ Stages[k].patience \in Nat
<1>1. Len(Stages) \in StageIds /\ 1 \in StageIds
  BY ScheduleAssumption DEF StageIds
<1>2. MaxSteps \in Nat \ {0}
  BY <1>1, ScheduleAssumption DEF MaxSteps
<1>3. ASSUME NEW n \in Nat PROVE StageForStep(n) \in StageIds
  <2> DEFINE P == {k \in StageIds : Stages[k].end <= n}
  <2>1. IsFiniteSet(StageIds)
    BY ScheduleAssumption, FS_Interval DEF StageIds
  <2>2. Cardinality(P) \in Nat
    <3>1. P \in SUBSET StageIds
      OBVIOUS
    <3>2. IsFiniteSet(P)
      BY <2>1, <3>1, FS_Subset
    <3> QED
      BY <3>2, FS_CardinalityType
  <2>3. StageForStep(n) = IF Cardinality(P) < Len(Stages) THEN Cardinality(P) + 1 ELSE Len(Stages)
    BY DEF StageForStep
  <2> HIDE DEF P
  <2> QED
    BY <2>2, <2>3, ScheduleAssumption DEF StageIds
<1>4. \A k \in StageIds : Trainable(k) \subseteq Modules
  BY DEF Trainable, Modules
<1> QED
  BY <1>1, <1>2, <1>3, <1>4, ScheduleAssumption

\* A step adds one to what the schedule gives the modules of its stage.
LEMMA NextScheduled ==
  ASSUME NEW m
  PROVE  /\ Scheduled(m, 0) = 0
         /\ \A n \in Nat : Scheduled(m, n) \in Nat
         /\ \A n \in Nat : Scheduled(m, n + 1) =
              Scheduled(m, n) + IF m \in Trainable(StageForStep(n)) THEN 1 ELSE 0
         /\ \A k, n \in Nat : k <= n => Scheduled(m, k) <= Scheduled(m, n)
<1> DEFINE T(i) == m \in Trainable(StageForStep(i))
           D(n) == {i \in 0..(n - 1) : T(i)}
<1>1. \A n \in Nat : Scheduled(m, n) = Cardinality(D(n))
  BY DEF Scheduled
<1> HIDE DEF T
<1>2. ASSUME NEW n \in Nat PROVE IsFiniteSet(D(n)) /\ Cardinality(D(n)) \in Nat
  <2>1. IsFiniteSet(0..(n - 1)) /\ D(n) \in SUBSET (0..(n - 1))
    BY FS_Interval
  <2>2. IsFiniteSet(D(n))
    BY <2>1, FS_Subset
  <2> QED
    BY <2>2, FS_CardinalityType
<1>3. D(0) = {}
  OBVIOUS
<1>4. ASSUME NEW n \in Nat
      PROVE  Cardinality(D(n + 1)) = Cardinality(D(n)) + IF T(n) THEN 1 ELSE 0
  <2>1. CASE T(n)
    <3>1. D(n + 1) = D(n) \cup {n} /\ n \notin D(n)
      BY <2>1
    <3> QED
      BY <2>1, <3>1, <1>2, FS_AddElement
  <2>2. CASE ~T(n)
    <3>1. D(n + 1) = D(n)
      BY <2>2
    <3> QED
      BY <2>2, <3>1, <1>2
  <2> QED
    BY <2>1, <2>2
<1>5. ASSUME NEW k \in Nat, NEW n \in Nat, k <= n
      PROVE  Cardinality(D(k)) <= Cardinality(D(n))
  <2>1. D(k) \in SUBSET D(n)
    BY <1>5
  <2> QED
    BY <2>1, <1>2, FS_Subset
<1>6. Cardinality(D(0)) = 0
  BY <1>3, FS_EmptySet
<1> HIDE DEF D
<1>7. \A n \in Nat : n + 1 \in Nat
  OBVIOUS
<1> QED
  BY <1>1, <1>2, <1>4, <1>5, <1>6, <1>7 DEF T

----------------------------------------------------------------------------
(* Checkpoints.                                                             *)

Bests == [loss : Losses \cup {NoLoss}, score : Scores \cup {NoScore}]

\* The fields of a file, and of what a process knows of its validations.
LEMMA FileFacts ==
  /\ NoBest \in Bests /\ NoScore \in Int /\ NoLoss \in Int
  /\ \A b \in Bests : /\ b.loss \in Int /\ b.score \in Int
                      /\ b.score >= NoScore /\ b.loss <= NoLoss
  /\ NoFile \notin Files
  /\ \A p \in Files :
       /\ p.step \in Nat /\ p.step <= MaxSteps /\ p.stage \in StageIds
       /\ p.weights \in [Modules -> Nat] /\ p.moments \subseteq Modules
       /\ p.restored \in BOOLEAN /\ p.best \in Bests
<1>1. NoScore \in Int /\ NoLoss \in Int /\ NoBest \in Bests
  BY TrainingAssumption DEF NoScore, NoLoss, NoBest, Bests
<1>2. ASSUME NEW b \in Bests
      PROVE  b.loss \in Int /\ b.score \in Int /\ b.score >= NoScore /\ b.loss <= NoLoss
  <2>1. b.loss \in Losses \cup {NoLoss} /\ b.score \in Scores \cup {NoScore}
    BY DEF Bests
  <2>2. \A x \in Losses : x \in Nat /\ x < NoLoss
    BY TrainingAssumption DEF NoLoss
  <2>3. \A x \in Scores : x \in Nat /\ x >= NoScore
    BY TrainingAssumption DEF NoScore
  <2> QED
    BY <1>1, <2>1, <2>2, <2>3
<1>3. ASSUME NEW p \in Files
      PROVE  /\ p.step \in Nat /\ p.step <= MaxSteps /\ p.stage \in StageIds
             /\ p.weights \in [Modules -> Nat] /\ p.moments \subseteq Modules
             /\ p.restored \in BOOLEAN /\ p.best \in Bests
  BY StagesAreThere DEF Files, Bests
<1> QED
  BY <1>1, <1>2, <1>3, NoFileAssumption

\* What a validation measures beats nothing at all.
LEMMA Measured ==
  /\ \A x \in Scores : x \in Int /\ x > NoScore
  /\ \A x \in Losses : x \in Int /\ x < NoLoss
<1>1. \A x \in Scores : x \in Nat
  BY TrainingAssumption
<1>2. NoScore \in Int /\ NoScore < 0
  BY TrainingAssumption DEF NoScore
<1>3. \A x \in Losses : x \in Int /\ x < NoLoss
  BY TrainingAssumption DEF NoLoss
<1> QED
  BY <1>1, <1>2, <1>3

\* What the type invariant says of each variable.
LEMMA TypeFacts ==
  ASSUME TrainTypeOK
  PROVE  /\ phase \in {"off"} \cup Working \cup Ended
         /\ start \in Nat /\ step \in Nat /\ start <= step /\ step <= MaxSteps
         /\ stage \in StageIds /\ weights \in [Modules -> Nat] /\ moments \subseteq Modules
         /\ best \in Bests /\ top \in Bests /\ restored \in BOOLEAN /\ early \in BOOLEAN
         /\ patience \in [best : Scores \cup {NoScore}, misses : Nat]
         /\ patience.best \in Int /\ patience.misses \in Nat
         /\ files \in [FileName -> Files \cup {NoFile}]
         /\ saved \in [1..MaxSteps -> Files \cup {NoFile}]
         /\ SavedSteps \subseteq 1..MaxSteps
         /\ \A n \in SavedSteps : saved[n] \in Files /\ saved[n].step = n
         /\ KeptScore \in Int /\ KeptScore >= NoScore
<1>1. /\ files \in [FileName -> Files \cup {NoFile}]
      /\ saved \in [1..MaxSteps -> Files \cup {NoFile}]
      /\ SavedSteps \subseteq 1..MaxSteps
      /\ \A n \in SavedSteps : saved[n] \in Files /\ saved[n].step = n
  BY DEF TrainTypeOK, SavedSteps
<1>2. KeptScore \in Int /\ KeptScore >= NoScore
  BY <1>1, FileFacts DEF KeptScore, FileName
<1>3. start \in Nat /\ step \in Nat /\ start <= step /\ step <= MaxSteps
  BY StagesAreThere DEF TrainTypeOK
<1>4. patience.best \in Int /\ patience.misses \in Nat
  <2>1. patience.best \in Scores \cup {NoScore} /\ patience.misses \in Nat
    BY DEF TrainTypeOK
  <2>2. \A x \in Scores : x \in Int
    BY TrainingAssumption
  <2>3. NoScore \in Int
    BY FileFacts
  <2> QED
    BY <2>1, <2>2, <2>3
<1> QED
  BY <1>1, <1>2, <1>3, <1>4 DEF TrainTypeOK, Bests

\* What a save writes.
LEMMA PayloadFacts ==
  ASSUME TrainTypeOK, NEW b \in Bests
  PROVE  /\ Payload(b) \in Files
         /\ Payload(b).step = step /\ Payload(b).weights = weights
         /\ Payload(b).restored = restored /\ Payload(b).best = b
<1>1. step \in 0..MaxSteps
  BY TypeFacts, StagesAreThere
<1> QED
  BY <1>1, TypeFacts DEF Payload, Files, Bests

\* What a restart finds.
LEMMA LatestFacts ==
  ASSUME TrainTypeOK, Ordered
  PROVE  /\ LatestCheckpoint \in Files \cup {NoFile}
         /\ LatestCheckpoint = NoFile <=> files["final"] = NoFile /\ SavedSteps = {}
         /\ files["final"] # NoFile => LatestCheckpoint = files["final"]
         /\ files["final"] = NoFile /\ SavedSteps # {} =>
              \E n \in SavedSteps : /\ LatestCheckpoint = saved[n]
                                    /\ \A m \in SavedSteps : m <= n
         /\ Known \in Bests
         /\ Known = IF LatestCheckpoint = NoFile THEN NoBest ELSE LatestCheckpoint.best
<1>1. files["final"] \in Files \cup {NoFile}
  BY TypeFacts DEF FileName
<1>2. CASE files["final"] # NoFile
  BY <1>1, <1>2, FileFacts DEF LatestCheckpoint, Known
<1>3. CASE files["final"] = NoFile /\ SavedSteps = {}
  BY <1>3, FileFacts DEF LatestCheckpoint, Known
<1>4. CASE files["final"] = NoFile /\ SavedSteps # {}
  <2> DEFINE top1 == CHOOSE n \in SavedSteps : \A m \in SavedSteps : m <= n
  <2>1. \E n \in SavedSteps : \A m \in SavedSteps : m <= n
    BY <1>4 DEF Ordered
  <2>2. top1 \in SavedSteps /\ \A m \in SavedSteps : m <= top1
    BY <2>1
  <2>3. LatestCheckpoint = saved[top1]
    BY <1>4 DEF LatestCheckpoint
  <2> HIDE DEF top1
  <2>4. saved[top1] \in Files
    BY <2>2, TypeFacts
  <2> QED
    BY <1>4, <2>2, <2>3, <2>4, FileFacts DEF Known
<1> QED
  BY <1>2, <1>3, <1>4

\* Without a save, a restart finds the same.
LEMMA SameLatest ==
  ASSUME UNCHANGED <<files, saved>>
  PROVE  /\ SavedSteps' = SavedSteps /\ LatestCheckpoint' = LatestCheckpoint
         /\ Known' = Known /\ KeptScore' = KeptScore
<1>1. SavedSteps' = SavedSteps
  BY DEF SavedSteps
<1>2. LatestCheckpoint' = LatestCheckpoint
  BY <1>1 DEF LatestCheckpoint
<1> QED
  BY <1>1, <1>2 DEF Known, KeptScore

\* A periodic checkpoint is the one a restart finds, unless final.pt is there.
LEMMA SavedLatest ==
  ASSUME TrainTypeOK, Ordered, On, step > 0, SaveStep, UNCHANGED files
  PROVE  /\ saved' \in [1..MaxSteps -> Files \cup {NoFile}]
         /\ SavedSteps' = SavedSteps \cup {step}
         /\ \A n \in SavedSteps' : saved'[n] = IF n = step THEN Payload(best) ELSE saved[n]
         /\ \E n \in SavedSteps' : \A m \in SavedSteps' : m <= n
         /\ files["final"] = NoFile => \A n \in SavedSteps' : n <= step
         /\ LatestCheckpoint' = IF files["final"] = NoFile THEN Payload(best) ELSE LatestCheckpoint
<1> DEFINE P == Payload(best)
<1>1. step \in 1..MaxSteps /\ P \in Files /\ P # NoFile
  BY TypeFacts, PayloadFacts, FileFacts
<1>2. saved' = [saved EXCEPT ![step] = P]
  BY DEF SaveStep
<1> HIDE DEF P
<1>3. saved' \in [1..MaxSteps -> Files \cup {NoFile}]
  BY <1>1, <1>2, TypeFacts
<1>4. SavedSteps' = SavedSteps \cup {step} /\ saved'[step] = P
  BY <1>1, <1>2, TypeFacts, StagesAreThere DEF SavedSteps
<1>5. \A n \in SavedSteps' : saved'[n] = IF n = step THEN P ELSE saved[n]
  BY <1>1, <1>2, <1>4, TypeFacts
<1>6. \E n \in SavedSteps' : \A m \in SavedSteps' : m <= n
  <2>1. SavedSteps \subseteq Int /\ step \in Int
    BY TypeFacts
  <2>2. CASE SavedSteps = {}
    BY <1>4, <2>1, <2>2
  <2>3. ASSUME NEW n \in SavedSteps, \A m \in SavedSteps : m <= n
        PROVE  \E k \in SavedSteps' : \A m \in SavedSteps' : m <= k
    <3>1. CASE n <= step
      <4>1. \A m \in SavedSteps' : m <= step
        BY <1>4, <2>1, <2>3, <3>1
      <4> QED
        BY <1>4, <4>1
    <3>2. CASE step < n
      <4>1. \A m \in SavedSteps' : m <= n
        BY <1>4, <2>1, <2>3, <3>2
      <4> QED
        BY <1>4, <4>1
    <3> QED
      BY <2>1, <3>1, <3>2
  <2> QED
    BY <2>2, <2>3 DEF Ordered
<1>7. files["final"] = NoFile => \A n \in SavedSteps' : n <= step
  BY <1>1, <1>4 DEF Ordered
<1>8. CASE files["final"] = NoFile
  <2> DEFINE last == CHOOSE n \in SavedSteps' : \A m \in SavedSteps' : m <= n
  <2>1. last \in SavedSteps' /\ \A m \in SavedSteps' : m <= last
    BY <1>6
  <2>2. last = step
    <3>1. last <= step /\ step <= last /\ last \in Int /\ step \in Int
      BY <1>1, <1>4, <1>7, <1>8, <2>1, TypeFacts
    <3> HIDE DEF last
    <3> QED
      BY <3>1
  <2>3. LatestCheckpoint' = saved'[last]
    BY <1>4, <1>8 DEF LatestCheckpoint
  <2> QED
    BY <1>3, <1>4, <1>5, <1>6, <1>7, <1>8, <2>2, <2>3 DEF P
<1>9. CASE files["final"] # NoFile
  <2>1. LatestCheckpoint' = LatestCheckpoint
    BY <1>9 DEF LatestCheckpoint
  <2> QED
    BY <1>3, <1>4, <1>5, <1>6, <1>7, <1>9, <2>1 DEF P
<1> QED
  BY <1>8, <1>9

----------------------------------------------------------------------------
(* How the steps keep the invariant.                                        *)

\* A model on schedule stays so; what is lost stays lost.
LEMMA StaysOnSchedule ==
  ASSUME NEW p, OnSchedule(p), lost \subseteq lost'
  PROVE  OnSchedule(p)'
BY DEF OnSchedule

\* What the files hold is on schedule when what is saved is.
LEMMA ScheduleFollows ==
  ASSUME WeightsFollowSchedule, OnSchedule(Payload(best))', lost \subseteq lost',
         \/ files' = files
         \/ \A f \in FileName :
              files'[f] \in {files[f], Payload(best)', files["best_loss"], files["best_hybrid"]}
         \/ \A f \in FileName : files'[f] \in {files[f], Payload(best)'},
         \/ SavedSteps' = SavedSteps /\ saved' = saved
         \/ \A n \in SavedSteps' :
              saved'[n] = Payload(best) \/ (n \in SavedSteps /\ saved'[n] = saved[n])
  PROVE  WeightsFollowSchedule'
<1>1. ASSUME NEW f \in FileName, files'[f] # NoFile PROVE OnSchedule(files[f])'
  <2>1. CASE files'[f] = Payload(best)'
    BY <2>1 DEF OnSchedule, Payload
  <2>2. CASE files'[f] \in {files[f], files["best_loss"], files["best_hybrid"]}
    BY <1>1, <2>2 DEF WeightsFollowSchedule, OnSchedule, FileName
  <2> QED
    BY <2>1, <2>2
<1>2. ASSUME NEW n \in SavedSteps' PROVE OnSchedule(saved[n])'
  BY DEF WeightsFollowSchedule, OnSchedule
<1> QED
  BY <1>1, <1>2 DEF WeightsFollowSchedule

\* The head of the loop enters the stage of the step it is at, before Train uses it.
LEMMA NextStepKeeps == TrainInv /\ NextStep => TrainInv'
<1> SUFFICES ASSUME TrainInv, NextStep PROVE TrainInv'
  OBVIOUS
<1> USE DEF TrainInv, On, memory, history
<1>t. TrainTypeOK /\ Ordered
  OBVIOUS
<1>s. /\ UNCHANGED <<files, saved>> /\ SavedSteps' = SavedSteps
      /\ LatestCheckpoint' = LatestCheckpoint /\ Known' = Known /\ KeptScore' = KeptScore
  BY SameLatest DEF NextStep
<1>1. TrainTypeOK'
  <2>1. /\ phase' \in {"off"} \cup Working \cup Ended
        /\ early' \in BOOLEAN /\ stop' \in BOOLEAN /\ launches' \in 0..MaxLaunches
    BY <1>t, <1>s, TypeFacts, FileFacts, StagesAreThere, TrainingAssumption
      DEF NextStep, TrainTypeOK, Working, Ended
  <2>2. start' \in 0..MaxSteps /\ step' \in start'..MaxSteps /\ stage' \in StageIds
    BY <1>t, <1>s, TypeFacts, FileFacts, StagesAreThere, TrainingAssumption
      DEF NextStep, Located
  <2>3. weights' \in [Modules -> Nat] /\ moments' \subseteq Modules /\ restored' \in BOOLEAN
    BY <1>t, <1>s, TypeFacts, FileFacts, StagesAreThere, TrainingAssumption
      DEF NextStep, Untrained, KeptMoments
  <2>4. best' \in Bests /\ top' \in Bests /\ lost' \subseteq {"loss", "score"}
    BY <1>t, <1>s, TypeFacts, FileFacts, StagesAreThere, TrainingAssumption
      DEF NextStep, Bests, NoBest, TrainTypeOK
  <2>5. patience' \in [best : Scores \cup {NoScore}, misses : Nat]
    BY <1>t, <1>s, TypeFacts, FileFacts, StagesAreThere, TrainingAssumption
      DEF NextStep, Fresh, Bests
  <2>6. /\ files' \in [FileName -> Files \cup {NoFile}]
        /\ saved' \in [1..MaxSteps -> Files \cup {NoFile}]
        /\ \A n \in SavedSteps' : saved'[n].step = n
    BY <1>t, <1>s, TypeFacts, FileFacts, StagesAreThere, TrainingAssumption
      DEF NextStep, TrainTypeOK
  <2> QED
    BY <2>1, <2>2, <2>3, <2>4, <2>5, <2>6 DEF TrainTypeOK, Bests
<1>2. WeightsFollowSchedule'
  BY <1>t, <1>s, TypeFacts, FileFacts, StaysOnSchedule, NextScheduled DEF NextStep,
    WeightsFollowSchedule, Working, Ended, OnSchedule, Payload, Located, Untrained
<1>3. Ordered'
  BY <1>t, <1>s, TypeFacts, FileFacts DEF NextStep, Ordered, Working, Ended, Located, Closed
<1>4. Located'
  BY <1>t, <1>s, TypeFacts, FileFacts, StagesAreThere
    DEF NextStep, Located, Working, Ended, Untrained
<1>5. InOrder'
  BY <1>t, <1>s, TypeFacts, FileFacts, LatestFacts DEF NextStep, InOrder, Working, Ended,
    Located, Remembered, Pending, Measurements, NoBest
<1>6. Remembered'
  BY <1>t, <1>s, TypeFacts, FileFacts, LatestFacts DEF NextStep, Remembered, Working,
    Ended, Located, InOrder, Pending, Measurements, NoBest
<1>7. BestNotLater'
  BY <1>t, <1>s, TypeFacts, FileFacts, LatestFacts DEF NextStep, BestNotLater, Working,
    Ended, Located, InOrder, Remembered, Pending, Measurements, NoBest, NotLater,
    FileName
<1>8. Selected'
  BY <1>t, <1>s, TypeFacts, FileFacts DEF NextStep, Selected, Working, Ended, Winner, Key,
    FileName, Payload, Closed, InOrder
<1>9. Closed'
  BY <1>t, <1>s, TypeFacts, FileFacts DEF NextStep, Closed, Working, Ended,
    FileName, Payload, Located, InOrder, KeptScore
<1> QED
  BY <1>1, <1>2, <1>3, <1>4, <1>5, <1>6, <1>7, <1>8, <1>9

\* A step moves the weights of the stage's modules, and so does the schedule.
LEMMA TrainKeeps == TrainInv /\ Train => TrainInv'
<1> SUFFICES ASSUME TrainInv, Train PROVE TrainInv'
  OBVIOUS
<1> USE DEF TrainInv, On, memory, history
<1>t. TrainTypeOK /\ Ordered
  OBVIOUS
<1>s. /\ UNCHANGED <<files, saved>> /\ SavedSteps' = SavedSteps
      /\ LatestCheckpoint' = LatestCheckpoint /\ Known' = Known /\ KeptScore' = KeptScore
  BY SameLatest DEF Train
<1>1. TrainTypeOK'
  <2>1. /\ phase' \in {"off"} \cup Working \cup Ended
        /\ early' \in BOOLEAN /\ stop' \in BOOLEAN /\ launches' \in 0..MaxLaunches
    BY <1>t, <1>s, TypeFacts, FileFacts, StagesAreThere, TrainingAssumption
      DEF Train, TrainTypeOK, Working, Ended
  <2>2. start' \in 0..MaxSteps /\ step' \in start'..MaxSteps /\ stage' \in StageIds
    BY <1>t, <1>s, TypeFacts, FileFacts, StagesAreThere, TrainingAssumption
      DEF Train, Located
  <2>3. weights' \in [Modules -> Nat] /\ moments' \subseteq Modules /\ restored' \in BOOLEAN
    BY <1>t, <1>s, TypeFacts, FileFacts, StagesAreThere, TrainingAssumption
      DEF Train, Untrained
  <2>4. best' \in Bests /\ top' \in Bests /\ lost' \subseteq {"loss", "score"}
    BY <1>t, <1>s, TypeFacts, FileFacts, StagesAreThere, TrainingAssumption
      DEF Train, Bests, NoBest, TrainTypeOK
  <2>5. patience' \in [best : Scores \cup {NoScore}, misses : Nat]
    BY <1>t, <1>s, TypeFacts, FileFacts, StagesAreThere, TrainingAssumption
      DEF Train, Bests
  <2>6. /\ files' \in [FileName -> Files \cup {NoFile}]
        /\ saved' \in [1..MaxSteps -> Files \cup {NoFile}]
        /\ \A n \in SavedSteps' : saved'[n].step = n
    BY <1>t, <1>s, TypeFacts, FileFacts, StagesAreThere, TrainingAssumption
      DEF Train, TrainTypeOK
  <2> QED
    BY <2>1, <2>2, <2>3, <2>4, <2>5, <2>6 DEF TrainTypeOK, Bests
<1>2. WeightsFollowSchedule'
  <2>1. /\ step' = step + 1 /\ restored' = restored /\ lost' = lost
        /\ \A m \in Modules : weights'[m] = weights[m] + IF m \in Trainable(stage) THEN 1 ELSE 0
    BY DEF Train
  <2>2. stage = StageForStep(step) /\ step \in Nat
    BY <1>t, TypeFacts DEF Train, Located
  <2>3. ASSUME NEW m \in Modules
        PROVE  IF restored' THEN "score" \notin lost' => weights'[m] <= Scheduled(m, step')
                            ELSE weights'[m] = Scheduled(m, step')
    <3>1. weights[m] \in Nat /\ Scheduled(m, step) \in Nat
      BY <1>t, <2>2, TypeFacts, NextScheduled
    <3>2. IF restored THEN "score" \notin lost => weights[m] <= Scheduled(m, step)
                      ELSE weights[m] = Scheduled(m, step)
      BY DEF WeightsFollowSchedule, OnSchedule, Payload
    <3>3. Scheduled(m, step') = Scheduled(m, step) + IF m \in Trainable(stage) THEN 1 ELSE 0
      BY <2>1, <2>2, NextScheduled
    <3> QED
      BY <2>1, <3>1, <3>2, <3>3
  <2>4. OnSchedule(Payload(best))'
    BY <2>3 DEF OnSchedule, Payload
  <2> QED
    BY <1>s, <2>1, <2>4, StaysOnSchedule DEF WeightsFollowSchedule
<1>3. Ordered'
  BY <1>t, <1>s, TypeFacts, FileFacts, SMTT(30)
    DEF Train, Ordered, Working, Ended, Located, Closed
<1>4. Located'
  BY <1>t, <1>s, TypeFacts, FileFacts, StagesAreThere
    DEF Train, Located, Working, Ended, Untrained
<1>5. InOrder'
  BY <1>t, <1>s, TypeFacts, FileFacts, LatestFacts DEF Train, InOrder, Working, Ended,
    Located, Remembered, Pending, Measurements, NoBest
<1>6. Remembered'
  BY <1>t, <1>s, TypeFacts, FileFacts, LatestFacts DEF Train, Remembered, Working, Ended,
    Located, InOrder, Pending, Measurements, NoBest
<1>7. BestNotLater'
  <2>1. files["best_hybrid"] \in Files \cup {NoFile}
    BY <1>t, TypeFacts DEF FileName
  <2>2. files["best_hybrid"] # NoFile => files["best_hybrid"].step \in Nat
    BY <2>1, FileFacts
  <2>3. step' = step + 1 /\ best' = best /\ step \in Nat /\ phase = "train"
    BY <1>t, TypeFacts DEF Train
  <2> QED
    BY <1>s, <2>2, <2>3 DEF BestNotLater, NotLater, Working
<1>8. Selected'
  BY <1>t, <1>s, TypeFacts, FileFacts DEF Train, Selected, Working, Ended, Winner, Key,
    FileName, Payload, Closed, InOrder
<1>9. Closed'
  BY <1>t, <1>s, TypeFacts, FileFacts DEF Train, Closed, Working, Ended, FileName,
    Payload, Located, InOrder, KeptScore
<1> QED
  BY <1>1, <1>2, <1>3, <1>4, <1>5, <1>6, <1>7, <1>8, <1>9

\* Early stopping needs a validation, which has left a best_hybrid.pt.
LEMMA JudgeKeeps == TrainInv /\ Judge => TrainInv'
<1> SUFFICES ASSUME TrainInv, Judge PROVE TrainInv'
  OBVIOUS
<1> USE DEF TrainInv, On, memory, history
<1>t. TrainTypeOK /\ Ordered
  OBVIOUS
<1>s. /\ UNCHANGED <<files, saved>> /\ SavedSteps' = SavedSteps
      /\ LatestCheckpoint' = LatestCheckpoint /\ Known' = Known /\ KeptScore' = KeptScore
  BY SameLatest DEF Judge
<1>1. TrainTypeOK'
  <2>1. /\ phase' \in {"off"} \cup Working \cup Ended
        /\ early' \in BOOLEAN /\ stop' \in BOOLEAN /\ launches' \in 0..MaxLaunches
    BY <1>t, <1>s, TypeFacts, FileFacts, StagesAreThere, TrainingAssumption
      DEF Judge, TrainTypeOK, Working, Ended
  <2>2. start' \in 0..MaxSteps /\ step' \in start'..MaxSteps /\ stage' \in StageIds
    BY <1>t, <1>s, TypeFacts, FileFacts, StagesAreThere, TrainingAssumption
      DEF Judge, Located
  <2>3. weights' \in [Modules -> Nat] /\ moments' \subseteq Modules /\ restored' \in BOOLEAN
    BY <1>t, <1>s, TypeFacts, FileFacts, StagesAreThere, TrainingAssumption
      DEF Judge, Untrained
  <2>4. best' \in Bests /\ top' \in Bests /\ lost' \subseteq {"loss", "score"}
    BY <1>t, <1>s, TypeFacts, FileFacts, StagesAreThere, TrainingAssumption
      DEF Judge, Bests, NoBest, TrainTypeOK
  <2>a. measured.score \in Scores
    BY DEF Judge, Located, Measurements
  <2>b. /\ patience.misses \in Nat /\ patience.best \in Scores \cup {NoScore}
        /\ patience.misses + 1 \in Nat
    BY <1>t, TypeFacts
  <2>5. patience' \in [best : Scores \cup {NoScore}, misses : Nat]
    BY <2>a, <2>b DEF Judge
  <2>6. /\ files' \in [FileName -> Files \cup {NoFile}]
        /\ saved' \in [1..MaxSteps -> Files \cup {NoFile}]
        /\ \A n \in SavedSteps' : saved'[n].step = n
    BY <1>t, <1>s, TypeFacts, FileFacts, StagesAreThere, TrainingAssumption
      DEF Judge, TrainTypeOK
  <2> QED
    BY <2>1, <2>2, <2>3, <2>4, <2>5, <2>6 DEF TrainTypeOK, Bests
<1>2. WeightsFollowSchedule'
  BY <1>t, <1>s, TypeFacts, FileFacts, StaysOnSchedule, NextScheduled DEF Judge,
    WeightsFollowSchedule, Working, Ended, OnSchedule, Payload, Located, Untrained
<1>3. Ordered'
  BY <1>t, <1>s, TypeFacts, FileFacts DEF Judge, Ordered, Working, Ended, Located, Closed
<1>4. Located'
  BY <1>t, <1>s, TypeFacts, FileFacts, StagesAreThere
    DEF Judge, Located, Working, Ended, Untrained
<1>5. InOrder'
  BY <1>t, <1>s, TypeFacts, FileFacts, LatestFacts DEF Judge, InOrder, Working, Ended,
    Located, Remembered, Pending, Measurements, NoBest
<1>6. Remembered'
  BY <1>t, <1>s, TypeFacts, FileFacts, LatestFacts DEF Judge, Remembered, Working, Ended,
    Located, InOrder, Pending, Measurements, NoBest
<1>7. BestNotLater'
  BY <1>t, <1>s, TypeFacts, FileFacts, LatestFacts DEF Judge, BestNotLater, Working, Ended,
    Located, InOrder, Remembered, Pending, Measurements, NoBest, NotLater, FileName
<1>8. Selected'
  BY <1>t, <1>s, TypeFacts, FileFacts DEF Judge, Selected, Working, Ended, Winner, Key,
    FileName, Payload, Closed, InOrder
<1>9. Closed'
  <2>1. phase' \in {"finish", "checkpoint"} /\ (phase' = "finish" <=> early')
    BY DEF Judge
  <2>2. files["best_hybrid"] # NoFile
    BY <1>t, TypeFacts, FileFacts DEF Judge, Located, InOrder, KeptScore
  <2> QED
    BY <1>s, <2>1, <2>2 DEF Closed
<1> QED
  BY <1>1, <1>2, <1>3, <1>4, <1>5, <1>6, <1>7, <1>8, <1>9

\* A signal only sets the flag.
LEMMA SignalKeeps == TrainInv /\ Signal => TrainInv'
<1> SUFFICES ASSUME TrainInv, Signal PROVE TrainInv'
  OBVIOUS
<1> USE DEF TrainInv, On, memory, history
<1>t. TrainTypeOK /\ Ordered
  OBVIOUS
<1>s. /\ UNCHANGED <<files, saved>> /\ SavedSteps' = SavedSteps
      /\ LatestCheckpoint' = LatestCheckpoint /\ Known' = Known /\ KeptScore' = KeptScore
  BY SameLatest DEF Signal
<1>1. TrainTypeOK'
  <2>1. /\ phase' \in {"off"} \cup Working \cup Ended
        /\ early' \in BOOLEAN /\ stop' \in BOOLEAN /\ launches' \in 0..MaxLaunches
    BY <1>t, <1>s, TypeFacts, FileFacts, StagesAreThere, TrainingAssumption
      DEF Signal, TrainTypeOK, Working, Ended
  <2>2. start' \in 0..MaxSteps /\ step' \in start'..MaxSteps /\ stage' \in StageIds
    BY <1>t, <1>s, TypeFacts, FileFacts, StagesAreThere, TrainingAssumption
      DEF Signal, Located
  <2>3. weights' \in [Modules -> Nat] /\ moments' \subseteq Modules /\ restored' \in BOOLEAN
    BY <1>t, <1>s, TypeFacts, FileFacts, StagesAreThere, TrainingAssumption
      DEF Signal, Untrained
  <2>4. best' \in Bests /\ top' \in Bests /\ lost' \subseteq {"loss", "score"}
    BY <1>t, <1>s, TypeFacts, FileFacts, StagesAreThere, TrainingAssumption
      DEF Signal, Bests, NoBest, TrainTypeOK
  <2>5. patience' \in [best : Scores \cup {NoScore}, misses : Nat]
    BY <1>t, <1>s, TypeFacts, FileFacts, StagesAreThere, TrainingAssumption
      DEF Signal, Bests
  <2>6. /\ files' \in [FileName -> Files \cup {NoFile}]
        /\ saved' \in [1..MaxSteps -> Files \cup {NoFile}]
        /\ \A n \in SavedSteps' : saved'[n].step = n
    BY <1>t, <1>s, TypeFacts, FileFacts, StagesAreThere, TrainingAssumption
      DEF Signal, TrainTypeOK
  <2> QED
    BY <2>1, <2>2, <2>3, <2>4, <2>5, <2>6 DEF TrainTypeOK, Bests
<1>2. WeightsFollowSchedule'
  BY <1>t, <1>s, TypeFacts, FileFacts, StaysOnSchedule, NextScheduled DEF Signal,
    WeightsFollowSchedule, Working, Ended, OnSchedule, Payload, Located, Untrained
<1>3. Ordered'
  BY <1>t, <1>s, TypeFacts, FileFacts DEF Signal, Ordered, Working, Ended, Located, Closed
<1>4. Located'
  BY <1>t, <1>s, TypeFacts, FileFacts, StagesAreThere
    DEF Signal, Located, Working, Ended, Untrained
<1>5. InOrder'
  BY <1>t, <1>s, TypeFacts, FileFacts, LatestFacts DEF Signal, InOrder, Working, Ended,
    Located, Remembered, Pending, Measurements, NoBest
<1>6. Remembered'
  BY <1>t, <1>s, TypeFacts, FileFacts, LatestFacts DEF Signal, Remembered, Working, Ended,
    Located, InOrder, Pending, Measurements, NoBest
<1>7. BestNotLater'
  BY <1>t, <1>s, TypeFacts, FileFacts, LatestFacts DEF Signal, BestNotLater, Working,
    Ended, Located, InOrder, Remembered, Pending, Measurements, NoBest, NotLater,
    FileName
<1>8. Selected'
  BY <1>t, <1>s, TypeFacts, FileFacts DEF Signal, Selected, Working, Ended, Winner, Key,
    FileName, Payload, Closed, InOrder
<1>9. Closed'
  BY <1>t, <1>s, TypeFacts, FileFacts DEF Signal, Closed, Working, Ended, FileName,
    Payload, Located, InOrder, KeptScore
<1> QED
  BY <1>1, <1>2, <1>3, <1>4, <1>5, <1>6, <1>7, <1>8, <1>9

\* A restart takes over the latest checkpoint, and what the run was good for with it.
LEMMA LaunchKeeps == TrainInv /\ Launch => TrainInv'
<1> SUFFICES ASSUME TrainInv, Launch PROVE TrainInv'
  OBVIOUS
<1> USE DEF TrainInv, On, memory, history
<1>t. TrainTypeOK /\ Ordered
  OBVIOUS
<1>s. /\ UNCHANGED <<files, saved>> /\ SavedSteps' = SavedSteps
      /\ LatestCheckpoint' = LatestCheckpoint /\ Known' = Known /\ KeptScore' = KeptScore
  BY SameLatest DEF Launch
<1>a. /\ phase' = "loop" /\ phase \notin Working /\ start' = step' /\ best' = Known
      /\ patience' = Fresh /\ early' = FALSE /\ stop' = FALSE /\ launches' = launches + 1
      /\ launches < MaxLaunches /\ UNCHANGED history
      /\ stage' \in StageIds
      /\ LatestCheckpoint = NoFile =>
           /\ step' = 0 /\ weights' = Untrained /\ moments' = {} /\ restored' = FALSE
      /\ LatestCheckpoint # NoFile =>
           /\ step' = LatestCheckpoint.step /\ weights' = LatestCheckpoint.weights
           /\ restored' = LatestCheckpoint.restored
           /\ moments' \subseteq LatestCheckpoint.moments
           /\ LatestCheckpoint \in Files
  <2> DEFINE from == IF LatestCheckpoint = NoFile THEN 0 ELSE LatestCheckpoint.step
             at == IF from < MaxSteps THEN from ELSE MaxSteps - 1
  <2>1. LatestCheckpoint \in Files \cup {NoFile}
    BY <1>t, LatestFacts
  <2>2. from \in Nat /\ MaxSteps \in Nat \ {0}
    BY <2>1, FileFacts, StagesAreThere
  <2>3. at \in Nat
    BY <2>2
  <2>4. stage' = StageForStep(at)
    BY DEF Launch
  <2>5. stage' \in StageIds
    <3> HIDE DEF at
    <3> QED
      BY <2>3, <2>4, StagesAreThere
  <2> QED
    BY <2>1, <2>5 DEF Launch, Known, Working, Ended
<1>b. /\ LatestCheckpoint \in Files \cup {NoFile} /\ Known \in Bests
      /\ LatestCheckpoint # NoFile => Known = LatestCheckpoint.best
      /\ LatestCheckpoint = NoFile => Known = NoBest
  BY <1>t, LatestFacts
<1>1. TrainTypeOK'
  <2>1. phase' \in {"off"} \cup Working \cup Ended /\ early' \in BOOLEAN /\ stop' \in BOOLEAN
    BY <1>a DEF Working
  <2>2. launches' \in 0..MaxLaunches
    BY <1>t, <1>a, TrainingAssumption DEF TrainTypeOK
  <2>3. step' \in Nat /\ step' <= MaxSteps
    BY <1>a, FileFacts, StagesAreThere
  <2>4. start' \in 0..MaxSteps /\ step' \in start'..MaxSteps /\ stage' \in StageIds
    BY <1>a, <2>3, StagesAreThere
  <2>5. weights' \in [Modules -> Nat] /\ moments' \subseteq Modules /\ restored' \in BOOLEAN
    <3>1. CASE LatestCheckpoint = NoFile
      <4>1. Untrained \in [Modules -> Nat]
        BY DEF Untrained
      <4> QED
        BY <1>a, <3>1, <4>1
    <3>2. CASE LatestCheckpoint # NoFile
      BY <1>a, <3>2, FileFacts
    <3> QED
      BY <3>1, <3>2
  <2>6. best' \in Bests /\ top' \in Bests /\ lost' \subseteq {"loss", "score"}
    BY <1>t, <1>a, <1>b, TypeFacts DEF TrainTypeOK
  <2>7. patience' \in [best : Scores \cup {NoScore}, misses : Nat]
    BY <1>a DEF Fresh
  <2>8. /\ files' \in [FileName -> Files \cup {NoFile}]
        /\ saved' \in [1..MaxSteps -> Files \cup {NoFile}]
        /\ \A n \in SavedSteps' : saved'[n].step = n
    BY <1>t, <1>s, TypeFacts DEF TrainTypeOK
  <2> QED
    BY <2>1, <2>2, <2>4, <2>5, <2>6, <2>7, <2>8 DEF TrainTypeOK, Bests
<1>2. WeightsFollowSchedule'
  <2>1. CASE LatestCheckpoint = NoFile
    <3>1. OnSchedule(Payload(best))'
      BY <1>a, <2>1, NextScheduled DEF OnSchedule, Payload, Untrained
    <3> QED
      BY <1>s, <1>a, <3>1, StaysOnSchedule DEF WeightsFollowSchedule
  <2>2. CASE LatestCheckpoint # NoFile
    <3>1. OnSchedule(LatestCheckpoint)
      <4>1. files["final"] # NoFile => OnSchedule(files["final"])
        BY DEF WeightsFollowSchedule, FileName
      <4> QED
        BY <1>t, <2>2, <4>1, LatestFacts DEF WeightsFollowSchedule
    <3>2. OnSchedule(Payload(best))'
      BY <1>a, <2>2, <3>1 DEF OnSchedule, Payload
    <3> QED
      BY <1>s, <1>a, <3>2, StaysOnSchedule DEF WeightsFollowSchedule
  <2> QED
    BY <2>1, <2>2
<1>3. Ordered'
  <2>1. On' /\ files["final"] = NoFile => \A n \in SavedSteps : n <= step'
    BY <1>t, <1>a, LatestFacts, TypeFacts
  <2> QED
    BY <1>s, <2>1 DEF Ordered
<1>4. Located'
  BY <1>t, <1>s, TypeFacts, FileFacts, StagesAreThere
    DEF Launch, Located, Working, Ended, Untrained
<1>5. InOrder'
  BY <1>t, <1>s, TypeFacts, FileFacts, LatestFacts DEF Launch, InOrder, Working, Ended,
    Located, Remembered, Pending, Measurements, NoBest
<1>6. Remembered'
  BY <1>t, <1>s, TypeFacts, FileFacts, LatestFacts DEF Launch, Remembered, Working, Ended,
    Located, InOrder, Pending, Measurements, NoBest
<1>7. BestNotLater'
  BY <1>t, <1>s, TypeFacts, FileFacts, LatestFacts DEF Launch, BestNotLater, Working,
    Ended, Located, InOrder, Remembered, Pending, Measurements, NoBest, NotLater,
    FileName
<1>8. Selected'
  BY <1>t, <1>s, TypeFacts, FileFacts DEF Launch, Selected, Working, Ended, Winner, Key,
    FileName, Payload, Closed, InOrder
<1>9. Closed'
  BY <1>t, <1>s, TypeFacts, FileFacts DEF Launch, Closed, Working, Ended, FileName,
    Payload, Located, InOrder, KeptScore
<1> QED
  BY <1>1, <1>2, <1>3, <1>4, <1>5, <1>6, <1>7, <1>8, <1>9

\* A validation records before it saves: the score stays pending, the loss does not.
LEMMA ValidateKeeps == TrainInv /\ Validate => TrainInv'
<1> SUFFICES ASSUME TrainInv, Validate PROVE TrainInv'
  OBVIOUS
<1> USE DEF TrainInv, On, memory, history
<1>t. TrainTypeOK /\ Ordered
  OBVIOUS
<1>a. PICK m \in Measurements :
        /\ measured' = m /\ phase = "validate"
        /\ top' = [loss  |-> IF m.loss < top.loss THEN m.loss ELSE top.loss,
                   score |-> IF m.score > top.score THEN m.score ELSE top.score]
        /\ IF m.loss < best.loss
             THEN /\ best' = [best EXCEPT !.loss = m.loss]
                  /\ files' = [files EXCEPT !["best_loss"] = Payload(best')]
                  /\ phase' = IF Metric = "total" THEN "select" ELSE "hybrid"
             ELSE best' = best /\ files' = files /\ phase' = "hybrid"
        /\ UNCHANGED <<start, step, stage, weights, moments, patience, early, restored,
                       stop, saved, launches, lost>>
  BY DEF Validate, Save
<1>b. /\ best \in Bests /\ top \in Bests /\ m.loss \in Losses /\ m.score \in Scores
      /\ m.loss \in Int /\ m.score \in Int /\ m.score > NoScore
      /\ best' \in Bests /\ top' \in Bests /\ best'.score = best.score
      /\ best'.loss = IF m.loss < best.loss THEN m.loss ELSE best.loss
  <2>1. m.loss \in Losses /\ m.score \in Scores
    BY DEF Measurements
  <2>2. m.loss \in Int /\ m.score \in Int /\ m.score > NoScore
    BY <2>1, Measured
  <2>3. best \in Bests /\ top \in Bests
    BY <1>t, TypeFacts
  <2>4. best' \in Bests /\ best'.score = best.score
        /\ best'.loss = IF m.loss < best.loss THEN m.loss ELSE best.loss
    BY <1>a, <2>1, <2>3 DEF Bests
  <2>5. top' \in Bests
    BY <1>a, <2>1, <2>3 DEF Bests
  <2> QED
    BY <2>1, <2>2, <2>3, <2>4, <2>5
<1>c. Payload(best)' = Payload(best') /\ Payload(best') \in Files
  BY <1>t, <1>a, <1>b, PayloadFacts DEF Payload
<1>d. /\ files' \in [FileName -> Files \cup {NoFile}]
      /\ \A g \in FileName \ {"best_loss"} : files'[g] = files[g]
      /\ files'["best_loss"] = IF m.loss < best.loss THEN Payload(best)' ELSE files["best_loss"]
  BY <1>t, <1>a, <1>c, TypeFacts DEF FileName
<1>s. /\ SavedSteps' = SavedSteps /\ LatestCheckpoint' = LatestCheckpoint
      /\ Known' = Known /\ KeptScore' = KeptScore
  <2>1. SavedSteps' = SavedSteps /\ files'["final"] = files["final"]
        /\ files'["best_hybrid"] = files["best_hybrid"]
    BY <1>a, <1>d DEF SavedSteps, FileName
  <2>2. LatestCheckpoint' = LatestCheckpoint
    BY <1>a, <2>1 DEF LatestCheckpoint
  <2> QED
    BY <2>1, <2>2 DEF Known, KeptScore
<1>1. TrainTypeOK'
  <2>1. /\ phase' \in {"off"} \cup Working \cup Ended
        /\ early' \in BOOLEAN /\ stop' \in BOOLEAN /\ launches' \in 0..MaxLaunches
    BY <1>t, <1>a, <1>b, <1>c, <1>d, <1>s, TypeFacts, FileFacts, StagesAreThere,
      TrainingAssumption DEF TrainTypeOK, Working, Ended
  <2>2. start' \in 0..MaxSteps /\ step' \in start'..MaxSteps /\ stage' \in StageIds
    BY <1>t, <1>a, <1>b, <1>c, <1>d, <1>s, TypeFacts, FileFacts, StagesAreThere,
      TrainingAssumption DEF Located
  <2>3. weights' \in [Modules -> Nat] /\ moments' \subseteq Modules /\ restored' \in BOOLEAN
    BY <1>t, <1>a, <1>b, <1>c, <1>d, <1>s, TypeFacts, FileFacts, StagesAreThere,
      TrainingAssumption DEF Untrained
  <2>4. best' \in Bests /\ top' \in Bests /\ lost' \subseteq {"loss", "score"}
    BY <1>t, <1>a, <1>b, <1>c, <1>d, <1>s, TypeFacts, FileFacts, StagesAreThere,
      TrainingAssumption DEF Bests, NoBest, TrainTypeOK
  <2>5. patience' \in [best : Scores \cup {NoScore}, misses : Nat]
    BY <1>t, <1>a, <1>b, <1>c, <1>d, <1>s, TypeFacts, FileFacts, StagesAreThere,
      TrainingAssumption DEF Bests
  <2>6. /\ files' \in [FileName -> Files \cup {NoFile}]
        /\ saved' \in [1..MaxSteps -> Files \cup {NoFile}]
        /\ \A n \in SavedSteps' : saved'[n].step = n
    BY <1>t, <1>a, <1>b, <1>c, <1>d, <1>s, TypeFacts, FileFacts, StagesAreThere,
      TrainingAssumption DEF TrainTypeOK
  <2> QED
    BY <2>1, <2>2, <2>3, <2>4, <2>5, <2>6 DEF TrainTypeOK, Bests
<1>2. WeightsFollowSchedule'
  <2>1. OnSchedule(Payload(best))'
    BY <1>a DEF WeightsFollowSchedule, OnSchedule, Payload
  <2>2. \A f \in FileName : files'[f] \in {files[f], Payload(best)'}
    BY <1>d DEF FileName
  <2>3. SavedSteps' = SavedSteps /\ saved' = saved /\ lost' = lost
    BY <1>a, <1>s
  <2> QED
    BY <2>1, <2>2, <2>3, ScheduleFollows
<1>3. Ordered'
  BY <1>t, <1>a, <1>b, <1>c, <1>d, <1>s, TypeFacts, FileFacts
    DEF Ordered, Working, Ended, Located, Closed, FileName
<1>4. Located'
  BY <1>t, <1>a, <1>b, <1>c, <1>d, <1>s, TypeFacts, FileFacts, StagesAreThere
    DEF Located, Working, Ended, Untrained
<1>5. InOrder'
  BY <1>t, <1>a, <1>b, <1>c, <1>d, <1>s, TypeFacts, FileFacts, LatestFacts, SMTT(30)
    DEF InOrder, Working, Ended, Located, Remembered, Pending, Measurements, NoBest
<1>6. Remembered'
  BY <1>t, <1>a, <1>b, <1>c, <1>d, <1>s, TypeFacts, FileFacts, LatestFacts
    DEF Remembered, Working, Ended, Located, InOrder, Pending, Measurements, NoBest
<1>7. BestNotLater'
  BY <1>t, <1>a, <1>b, <1>c, <1>d, <1>s, TypeFacts, FileFacts, LatestFacts
    DEF BestNotLater, Working, Ended, Located, InOrder, Remembered, Pending, Measurements,
      NoBest, NotLater, FileName
<1>8. Selected'
  <2>1. Metric \in {"hybrid_score", "total"}
    BY TrainingAssumption
  <2>2. Key \notin lost => files["best"] = files[Winner]
    BY <1>a DEF Selected
  <2>3. CASE Metric = "hybrid_score"
    BY <1>a, <1>d, <2>2, <2>3 DEF Selected, Winner, Key, FileName
  <2>4. CASE Metric = "total"
    <3>1. Winner = "best_loss" /\ Key = "loss"
      BY <2>4 DEF Winner, Key
    <3>2. CASE m.loss < best.loss
      BY <1>a, <1>d, <2>4, <3>1, <3>2 DEF Selected
    <3>3. CASE ~(m.loss < best.loss)
      BY <1>a, <2>2, <3>1, <3>3 DEF Selected
    <3> QED
      BY <3>2, <3>3
  <2> QED
    BY <2>1, <2>3, <2>4
<1>9. Closed'
  BY <1>t, <1>a, <1>b, <1>c, <1>d, <1>s, TypeFacts, FileFacts
    DEF Closed, Working, Ended, FileName, Payload, Located, InOrder, KeptScore
<1> QED
  BY <1>1, <1>2, <1>3, <1>4, <1>5, <1>6, <1>7, <1>8, <1>9

\* best_hybrid.pt takes the pending score if it is higher than any the run knows of.
LEMMA SaveBestHybridKeeps == TrainInv /\ SaveBestHybrid => TrainInv'
<1> SUFFICES ASSUME TrainInv, SaveBestHybrid PROVE TrainInv'
  OBVIOUS
<1> USE DEF TrainInv, On, memory, history
<1>t. TrainTypeOK /\ Ordered
  OBVIOUS
<1>a. /\ phase = "hybrid"
      /\ IF measured.score > best.score
           THEN /\ best' = [best EXCEPT !.score = measured.score]
                /\ files' = [files EXCEPT !["best_hybrid"] = Payload(best')]
                /\ phase' = IF Metric = "hybrid_score" THEN "select" ELSE "judge"
           ELSE best' = best /\ files' = files /\ phase' = "judge"
      /\ UNCHANGED <<start, step, stage, weights, moments, measured, patience, early,
                     restored, stop, saved, launches, top, lost>>
  BY DEF SaveBestHybrid, Save
<1>b. /\ best \in Bests /\ measured \in Measurements
      /\ measured.score \in Int /\ measured.score > NoScore
      /\ best' \in Bests /\ best'.loss = best.loss
      /\ best'.score = IF measured.score > best.score THEN measured.score ELSE best.score
  <2>1. measured \in Measurements /\ measured.score \in Scores
    BY <1>a DEF Located, Measurements
  <2>2. measured.score \in Int /\ measured.score > NoScore
    BY <2>1, Measured
  <2>3. best \in Bests
    BY <1>t, TypeFacts
  <2>4. best' \in Bests /\ best'.loss = best.loss
        /\ best'.score = IF measured.score > best.score THEN measured.score ELSE best.score
    BY <1>a, <2>1, <2>3 DEF Bests
  <2> QED
    BY <2>1, <2>2, <2>3, <2>4
<1>c. /\ Payload(best)' = Payload(best') /\ Payload(best') \in Files
      /\ Payload(best').best = best' /\ Payload(best').step = step
  BY <1>t, <1>a, <1>b, PayloadFacts DEF Payload
<1>d. /\ files' \in [FileName -> Files \cup {NoFile}]
      /\ \A g \in FileName \ {"best_hybrid"} : files'[g] = files[g]
      /\ files'["best_hybrid"] =
           IF measured.score > best.score THEN Payload(best)' ELSE files["best_hybrid"]
  BY <1>t, <1>a, <1>c, TypeFacts DEF FileName
<1>s. /\ SavedSteps' = SavedSteps /\ LatestCheckpoint' = LatestCheckpoint /\ Known' = Known
      /\ KeptScore' = IF measured.score > best.score THEN measured.score ELSE KeptScore
  <2>1. SavedSteps' = SavedSteps /\ files'["final"] = files["final"]
    BY <1>a, <1>d DEF SavedSteps, FileName
  <2>2. LatestCheckpoint' = LatestCheckpoint
    BY <1>a, <2>1 DEF LatestCheckpoint
  <2>3. KeptScore' = IF measured.score > best.score THEN measured.score ELSE KeptScore
    BY <1>b, <1>c, <1>d, FileFacts DEF KeptScore
  <2> QED
    BY <2>1, <2>2, <2>3 DEF Known
<1>1. TrainTypeOK'
  <2>1. /\ phase' \in {"off"} \cup Working \cup Ended
        /\ early' \in BOOLEAN /\ stop' \in BOOLEAN /\ launches' \in 0..MaxLaunches
    BY <1>t, <1>a, <1>b, <1>c, <1>d, <1>s, TypeFacts, FileFacts, StagesAreThere,
      TrainingAssumption DEF TrainTypeOK, Working, Ended
  <2>2. start' \in 0..MaxSteps /\ step' \in start'..MaxSteps /\ stage' \in StageIds
    BY <1>t, <1>a, <1>b, <1>c, <1>d, <1>s, TypeFacts, FileFacts, StagesAreThere,
      TrainingAssumption DEF Located
  <2>3. weights' \in [Modules -> Nat] /\ moments' \subseteq Modules /\ restored' \in BOOLEAN
    BY <1>t, <1>a, <1>b, <1>c, <1>d, <1>s, TypeFacts, FileFacts, StagesAreThere,
      TrainingAssumption DEF Untrained
  <2>4. best' \in Bests /\ top' \in Bests /\ lost' \subseteq {"loss", "score"}
    BY <1>t, <1>a, <1>b, <1>c, <1>d, <1>s, TypeFacts, FileFacts, StagesAreThere,
      TrainingAssumption DEF Bests, NoBest, TrainTypeOK
  <2>5. patience' \in [best : Scores \cup {NoScore}, misses : Nat]
    BY <1>t, <1>a, <1>b, <1>c, <1>d, <1>s, TypeFacts, FileFacts, StagesAreThere,
      TrainingAssumption DEF Bests
  <2>6. /\ files' \in [FileName -> Files \cup {NoFile}]
        /\ saved' \in [1..MaxSteps -> Files \cup {NoFile}]
        /\ \A n \in SavedSteps' : saved'[n].step = n
    BY <1>t, <1>a, <1>b, <1>c, <1>d, <1>s, TypeFacts, FileFacts, StagesAreThere,
      TrainingAssumption DEF TrainTypeOK
  <2> QED
    BY <2>1, <2>2, <2>3, <2>4, <2>5, <2>6 DEF TrainTypeOK, Bests
<1>2. WeightsFollowSchedule'
  <2>1. OnSchedule(Payload(best))'
    BY <1>a DEF WeightsFollowSchedule, OnSchedule, Payload
  <2>2. \A f \in FileName : files'[f] \in {files[f], Payload(best)'}
    BY <1>d DEF FileName
  <2>3. SavedSteps' = SavedSteps /\ saved' = saved /\ lost' = lost
    BY <1>a, <1>s
  <2> QED
    BY <2>1, <2>2, <2>3, ScheduleFollows
<1>3. Ordered'
  BY <1>t, <1>a, <1>b, <1>c, <1>d, <1>s, TypeFacts, FileFacts
    DEF Ordered, Working, Ended, Located, Closed, FileName
<1>4. Located'
  BY <1>t, <1>a, <1>b, <1>c, <1>d, <1>s, TypeFacts, FileFacts, StagesAreThere
    DEF Located, Working, Ended, Untrained
<1>5. InOrder'
  BY <1>t, <1>a, <1>b, <1>c, <1>d, <1>s, TypeFacts, FileFacts, LatestFacts
    DEF InOrder, Working, Ended, Located, Remembered, Pending, Measurements, NoBest
<1>6. Remembered'
  BY <1>t, <1>a, <1>b, <1>c, <1>d, <1>s, TypeFacts, FileFacts, LatestFacts
    DEF Remembered, Working, Ended, Located, InOrder, Pending, Measurements, NoBest
<1>7. BestNotLater'
  BY <1>t, <1>a, <1>b, <1>c, <1>d, <1>s, TypeFacts, FileFacts, LatestFacts, SMTT(30)
    DEF BestNotLater, Working, Ended, Located, InOrder, Remembered, Pending, Measurements,
      NoBest, NotLater, FileName
<1>8. Selected'
  BY <1>t, <1>a, <1>b, <1>c, <1>d, <1>s, TypeFacts, FileFacts DEF Selected, Working, Ended,
    Winner, Key, FileName, Payload, Closed, InOrder
<1>9. Closed'
  BY <1>t, <1>a, <1>b, <1>c, <1>d, <1>s, TypeFacts, FileFacts
    DEF Closed, Working, Ended, FileName, Payload, Located, InOrder, KeptScore
<1> QED
  BY <1>1, <1>2, <1>3, <1>4, <1>5, <1>6, <1>7, <1>8, <1>9

\* best.pt follows the file of its metric.
LEMMA SelectBestKeeps == TrainInv /\ SelectBest => TrainInv'
<1> SUFFICES ASSUME TrainInv, SelectBest PROVE TrainInv'
  OBVIOUS
<1> USE DEF TrainInv, On, memory, history
<1>t. TrainTypeOK /\ Ordered
  OBVIOUS
<1>a. /\ phase = "select" /\ files' = [files EXCEPT !["best"] = Payload(best)]
      /\ phase' = IF Metric = "total" THEN "hybrid" ELSE "judge"
      /\ UNCHANGED <<start, step, stage, weights, moments, best, measured, patience, early,
                     restored, stop, saved, launches, top, lost>>
  BY DEF SelectBest, Save
<1>b. best \in Bests /\ Metric \in {"hybrid_score", "total"}
  BY <1>t, TypeFacts, TrainingAssumption
<1>c. Payload(best)' = Payload(best) /\ Payload(best) \in Files
  BY <1>t, <1>a, <1>b, PayloadFacts DEF Payload
<1>d. /\ files' \in [FileName -> Files \cup {NoFile}]
      /\ \A g \in FileName \ {"best"} : files'[g] = files[g]
      /\ files'["best"] = Payload(best)'
  BY <1>t, <1>a, <1>c, TypeFacts DEF FileName
<1>s. /\ SavedSteps' = SavedSteps /\ LatestCheckpoint' = LatestCheckpoint
      /\ Known' = Known /\ KeptScore' = KeptScore
  <2>1. SavedSteps' = SavedSteps /\ files'["final"] = files["final"]
        /\ files'["best_hybrid"] = files["best_hybrid"]
    BY <1>a, <1>d DEF SavedSteps, FileName
  <2>2. LatestCheckpoint' = LatestCheckpoint
    BY <1>a, <2>1 DEF LatestCheckpoint
  <2> QED
    BY <2>1, <2>2 DEF Known, KeptScore
<1>1. TrainTypeOK'
  <2>1. /\ phase' \in {"off"} \cup Working \cup Ended
        /\ early' \in BOOLEAN /\ stop' \in BOOLEAN /\ launches' \in 0..MaxLaunches
    BY <1>t, <1>a, <1>b, <1>c, <1>d, <1>s, TypeFacts, FileFacts, StagesAreThere,
      TrainingAssumption DEF TrainTypeOK, Working, Ended
  <2>2. start' \in 0..MaxSteps /\ step' \in start'..MaxSteps /\ stage' \in StageIds
    BY <1>t, <1>a, <1>b, <1>c, <1>d, <1>s, TypeFacts, FileFacts, StagesAreThere,
      TrainingAssumption DEF Located
  <2>3. weights' \in [Modules -> Nat] /\ moments' \subseteq Modules /\ restored' \in BOOLEAN
    BY <1>t, <1>a, <1>b, <1>c, <1>d, <1>s, TypeFacts, FileFacts, StagesAreThere,
      TrainingAssumption DEF Untrained
  <2>4. best' \in Bests /\ top' \in Bests /\ lost' \subseteq {"loss", "score"}
    BY <1>t, <1>a, <1>b, <1>c, <1>d, <1>s, TypeFacts, FileFacts, StagesAreThere,
      TrainingAssumption DEF Bests, NoBest, TrainTypeOK
  <2>5. patience' \in [best : Scores \cup {NoScore}, misses : Nat]
    BY <1>t, <1>a, <1>b, <1>c, <1>d, <1>s, TypeFacts, FileFacts, StagesAreThere,
      TrainingAssumption DEF Bests
  <2>6. /\ files' \in [FileName -> Files \cup {NoFile}]
        /\ saved' \in [1..MaxSteps -> Files \cup {NoFile}]
        /\ \A n \in SavedSteps' : saved'[n].step = n
    BY <1>t, <1>a, <1>b, <1>c, <1>d, <1>s, TypeFacts, FileFacts, StagesAreThere,
      TrainingAssumption DEF TrainTypeOK
  <2> QED
    BY <2>1, <2>2, <2>3, <2>4, <2>5, <2>6 DEF TrainTypeOK, Bests
<1>2. WeightsFollowSchedule'
  <2>1. OnSchedule(Payload(best))'
    BY <1>a DEF WeightsFollowSchedule, OnSchedule, Payload
  <2>2. \A f \in FileName : files'[f] \in {files[f], Payload(best)'}
    BY <1>d DEF FileName
  <2>3. SavedSteps' = SavedSteps /\ saved' = saved /\ lost' = lost
    BY <1>a, <1>s
  <2> QED
    BY <2>1, <2>2, <2>3, ScheduleFollows
<1>3. Ordered'
  BY <1>t, <1>a, <1>b, <1>c, <1>d, <1>s, TypeFacts, FileFacts
    DEF Ordered, Working, Ended, Located, Closed, FileName
<1>4. Located'
  <2>1. measured \in Measurements
    BY <1>a DEF Located
  <2>2. phase' = "judge" => best.score > NoScore
    <3>1. phase' = "judge" => Metric = "hybrid_score"
      BY <1>a, <1>b
    <3>2. Known \in Bests
      BY <1>t, LatestFacts
    <3> QED
      BY <1>a, <1>b, <3>1, <3>2, FileFacts DEF InOrder
  <2> QED
    BY <1>a, <2>1, <2>2 DEF Located
<1>5. InOrder'
  BY <1>t, <1>a, <1>b, <1>c, <1>d, <1>s, TypeFacts, FileFacts, LatestFacts
    DEF InOrder, Working, Ended, Located, Remembered, Pending, Measurements, NoBest
<1>6. Remembered'
  BY <1>t, <1>a, <1>b, <1>c, <1>d, <1>s, TypeFacts, FileFacts, LatestFacts
    DEF Remembered, Working, Ended, Located, InOrder, Pending, Measurements, NoBest
<1>7. BestNotLater'
  BY <1>t, <1>a, <1>b, <1>c, <1>d, <1>s, TypeFacts, FileFacts, LatestFacts
    DEF BestNotLater, Working, Ended, Located, InOrder, Remembered, Pending, Measurements,
      NoBest, NotLater, FileName
<1>8. Selected'
  BY <1>t, <1>a, <1>b, <1>c, <1>d, <1>s, TypeFacts, FileFacts DEF Selected, Working, Ended,
    Winner, Key, FileName, Payload, Closed, InOrder
<1>9. Closed'
  BY <1>t, <1>a, <1>b, <1>c, <1>d, <1>s, TypeFacts, FileFacts
    DEF Closed, Working, Ended, FileName, Payload, Located, InOrder, KeptScore
<1> QED
  BY <1>1, <1>2, <1>3, <1>4, <1>5, <1>6, <1>7, <1>8, <1>9

\* After early stopping the weights go back to best_hybrid.pt, which holds no
\* more training than the step unless a restart has forgotten a score.
LEMMA FinishKeeps == TrainInv /\ Finish => TrainInv'
<1> SUFFICES ASSUME TrainInv, Finish PROVE TrainInv'
  OBVIOUS
<1> USE DEF TrainInv, On, memory, history
<1>t. TrainTypeOK /\ Ordered
  OBVIOUS
<1> DEFINE back == early /\ files["best_hybrid"] # NoFile
<1>a. /\ phase = "finish" \/ (phase = "loop" /\ step = MaxSteps)
      /\ phase' = "fill"
      /\ weights' = IF back THEN files["best_hybrid"].weights ELSE weights
      /\ restored' = (restored \/ weights' # weights)
      /\ files' = [files EXCEPT !["final"] = Payload(best)']
      /\ UNCHANGED <<start, step, stage, moments, best, measured, patience, early,
                     stop, saved, launches, top, lost>>
  BY DEF Finish
<1>b. /\ best \in Bests /\ weights' \in [Modules -> Nat] /\ restored' \in BOOLEAN
      /\ files["best_hybrid"] \in Files \cup {NoFile}
  <2>1. files["best_hybrid"] \in Files \cup {NoFile}
    BY <1>t, TypeFacts DEF FileName
  <2> QED
    BY <1>t, <1>a, <2>1, TypeFacts, FileFacts
<1>c. /\ Payload(best)' \in Files
      /\ Payload(best)'.step = step /\ Payload(best)'.best = best
      /\ Payload(best)'.weights = weights'
  <2>1. step \in 0..MaxSteps
    BY <1>t, TypeFacts, StagesAreThere
  <2>2. Payload(best)' = [step |-> step, stage |-> stage, weights |-> weights', moments |-> moments,
                          best |-> best, restored |-> restored']
    BY <1>a DEF Payload
  <2>3. Payload(best)' \in Files
    BY <1>t, <1>b, <2>1, <2>2, TypeFacts DEF Files, Bests
  <2> QED
    BY <2>2, <2>3
<1>d. /\ files' \in [FileName -> Files \cup {NoFile}]
      /\ \A g \in FileName \ {"final"} : files'[g] = files[g]
      /\ files'["final"] = Payload(best)' /\ files'["final"] # NoFile
  BY <1>t, <1>a, <1>c, TypeFacts, FileFacts DEF FileName
<1>s. /\ SavedSteps' = SavedSteps /\ LatestCheckpoint' = Payload(best)'
      /\ Known' = best /\ KeptScore' = KeptScore
  <2>1. SavedSteps' = SavedSteps /\ files'["best_hybrid"] = files["best_hybrid"]
    BY <1>a, <1>d DEF SavedSteps, FileName
  <2>2. LatestCheckpoint' = Payload(best)' /\ LatestCheckpoint' # NoFile
    BY <1>d DEF LatestCheckpoint
  <2> QED
    BY <1>c, <2>1, <2>2 DEF Known, KeptScore
<1>1. TrainTypeOK'
  <2>1. /\ phase' \in {"off"} \cup Working \cup Ended
        /\ early' \in BOOLEAN /\ stop' \in BOOLEAN /\ launches' \in 0..MaxLaunches
    BY <1>t, <1>a, <1>b, <1>c, <1>d, <1>s, TypeFacts, FileFacts, StagesAreThere,
      TrainingAssumption DEF TrainTypeOK, Working, Ended, Forget
  <2>2. start' \in 0..MaxSteps /\ step' \in start'..MaxSteps /\ stage' \in StageIds
    BY <1>t, <1>a, <1>b, <1>c, <1>d, <1>s, TypeFacts, FileFacts, StagesAreThere,
      TrainingAssumption DEF Forget, Located
  <2>3. weights' \in [Modules -> Nat] /\ moments' \subseteq Modules /\ restored' \in BOOLEAN
    BY <1>t, <1>a, <1>b, <1>c, <1>d, <1>s, TypeFacts, FileFacts, StagesAreThere,
      TrainingAssumption DEF Forget, Untrained, KeptMoments
  <2>4. best' \in Bests /\ top' \in Bests /\ lost' \subseteq {"loss", "score"}
    BY <1>t, <1>a, <1>b, <1>c, <1>d, <1>s, TypeFacts, FileFacts, StagesAreThere,
      TrainingAssumption DEF Forget, Bests, NoBest, Behind, TrainTypeOK
  <2>5. patience' \in [best : Scores \cup {NoScore}, misses : Nat]
    BY <1>t, <1>a, <1>b, <1>c, <1>d, <1>s, TypeFacts, FileFacts, StagesAreThere,
      TrainingAssumption DEF Forget, Fresh, Bests
  <2>6. /\ files' \in [FileName -> Files \cup {NoFile}]
        /\ saved' \in [1..MaxSteps -> Files \cup {NoFile}]
        /\ \A n \in SavedSteps' : saved'[n].step = n
    BY <1>t, <1>a, <1>b, <1>c, <1>d, <1>s, TypeFacts, FileFacts, StagesAreThere,
      TrainingAssumption DEF TrainTypeOK
  <2> QED
    BY <2>1, <2>2, <2>3, <2>4, <2>5, <2>6 DEF TrainTypeOK, Bests
<1>2. WeightsFollowSchedule'
  <2>1. OnSchedule(Payload(best))'
    <3>1. /\ step' = step /\ lost' = lost /\ weights' \in [Modules -> Nat]
          /\ weights \in [Modules -> Nat] /\ step \in Nat /\ restored \in BOOLEAN
      BY <1>t, <1>a, <1>b, TypeFacts
    <3>2. OnSchedule(Payload(best))
      BY DEF WeightsFollowSchedule
    <3>3. CASE restored' = restored /\ weights' = weights
      BY <3>1, <3>2, <3>3 DEF OnSchedule, Payload
    <3>4. CASE restored' /\ "score" \in lost
      BY <3>1, <3>4 DEF OnSchedule, Payload
    <3>5. CASE restored' /\ "score" \notin lost /\ back
      <4> DEFINE h == files["best_hybrid"]
      <4>1. h \in Files /\ h.step \in Nat /\ h.weights \in [Modules -> Nat] /\ weights' = h.weights
        BY <1>a, <1>b, <3>5, FileFacts
      <4>2. h.step <= step
        <5>1. best.score = KeptScore /\ phase \in Working /\ ~Pending
          BY <1>a, <3>5 DEF Remembered, Pending, Working
        <5> QED
          BY <1>t, <3>5, <5>1, TypeFacts DEF BestNotLater, NotLater
      <4>3. OnSchedule(h)
        BY <3>5 DEF WeightsFollowSchedule, FileName
      <4> HIDE DEF h
      <4>4. ASSUME NEW m \in Modules PROVE weights'[m] <= Scheduled(m, step)
        <5>1. h.weights[m] <= Scheduled(m, h.step)
          <6>1. Scheduled(m, h.step) \in Nat /\ h.weights[m] \in Nat
            BY <4>1, NextScheduled
          <6> QED
            BY <3>5, <4>3, <6>1 DEF OnSchedule
        <5>2. Scheduled(m, h.step) <= Scheduled(m, step)
          BY <3>1, <4>1, <4>2, NextScheduled
        <5>3. Scheduled(m, h.step) \in Nat /\ Scheduled(m, step) \in Nat /\ h.weights[m] \in Nat
          BY <3>1, <4>1, NextScheduled
        <5> QED
          BY <4>1, <5>1, <5>2, <5>3
      <4> QED
        BY <3>1, <3>5, <4>4 DEF OnSchedule, Payload
    <3> QED
      BY <1>a, <3>1, <3>3, <3>4, <3>5
  <2>2. \A f \in FileName : files'[f] \in {files[f], Payload(best)'}
    BY <1>d DEF FileName
  <2>3. SavedSteps' = SavedSteps /\ saved' = saved /\ lost' = lost
    BY <1>a, <1>s
  <2> QED
    BY <2>1, <2>2, <2>3, ScheduleFollows
<1>3. Ordered'
  BY <1>t, <1>a, <1>b, <1>c, <1>d, <1>s, TypeFacts, FileFacts
    DEF Ordered, Working, Ended, Located, Closed, FileName
<1>4. Located'
  BY <1>t, <1>a, <1>b, <1>c, <1>d, <1>s, TypeFacts, FileFacts, StagesAreThere
    DEF Located, Working, Ended, Forget, Untrained
<1>5. InOrder'
  BY <1>t, <1>a, <1>b, <1>c, <1>d, <1>s, TypeFacts, FileFacts, LatestFacts
    DEF InOrder, Working, Ended, Located, Remembered, Pending, Measurements, Forget, NoBest
<1>6. Remembered'
  BY <1>t, <1>a, <1>b, <1>c, <1>d, <1>s, TypeFacts, FileFacts, LatestFacts
    DEF Remembered, Working, Ended, Located, InOrder, Pending, Measurements, Forget, NoBest
<1>7. BestNotLater'
  BY <1>t, <1>a, <1>b, <1>c, <1>d, <1>s, TypeFacts, FileFacts, LatestFacts
    DEF BestNotLater, Working, Ended, Located, InOrder, Remembered, Pending, Measurements,
    Forget, NoBest, NotLater, FileName
<1>8. Selected'
  BY <1>t, <1>a, <1>b, <1>c, <1>d, <1>s, TypeFacts, FileFacts DEF Selected, Working, Ended,
    Winner, Key, FileName, Payload, Closed, InOrder, Behind, Forget
<1>9. Closed'
  BY <1>t, <1>a, <1>b, <1>c, <1>d, <1>s, TypeFacts, FileFacts
    DEF Closed, Working, Ended, Forget, FileName, Payload, Located, InOrder, KeptScore
<1> QED
  BY <1>1, <1>2, <1>3, <1>4, <1>5, <1>6, <1>7, <1>8, <1>9

\* Every file is there in the end, and best.pt is the file of its metric.
LEMMA FillKeeps == TrainInv /\ Fill => TrainInv'
<1> SUFFICES ASSUME TrainInv, Fill PROVE TrainInv'
  OBVIOUS
<1> USE DEF TrainInv, On, memory, history
<1>t. TrainTypeOK /\ Ordered
  OBVIOUS
<1>a. /\ phase = "fill" /\ phase' = "completed"
      /\ UNCHANGED <<start, step, stage, weights, moments, best, measured, patience, early,
                     restored, stop, saved, launches, top, lost>>
  BY DEF Fill
<1>b. best \in Bests /\ Metric \in {"hybrid_score", "total"}
  BY <1>t, TypeFacts, TrainingAssumption
<1>c. /\ Payload(best)' = Payload(best) /\ Payload(best) \in Files /\ Payload(best) # NoFile
      /\ Payload(best).best = best /\ Payload(best).step = step /\ Payload(best).weights = weights
      /\ files["final"] = Payload(best)
  BY <1>t, <1>a, <1>b, PayloadFacts, FileFacts DEF Payload, Closed
<1>d. /\ files' \in [FileName -> Files \cup {NoFile}]
      /\ files'["final"] = files["final"]
      /\ files'["best_loss"] =
           IF files["best_loss"] = NoFile THEN Payload(best) ELSE files["best_loss"]
      /\ files'["best_hybrid"] =
           IF files["best_hybrid"] = NoFile THEN Payload(best) ELSE files["best_hybrid"]
      /\ files'["best"] = IF files["best"] = NoFile THEN files'[Winner] ELSE files["best"]
      /\ \A f \in FileName : files'[f] # NoFile
  BY <1>t, <1>b, <1>c, TypeFacts DEF FileName, Fill, Winner
<1>s. /\ SavedSteps' = SavedSteps /\ LatestCheckpoint' = Payload(best)
      /\ LatestCheckpoint = Payload(best) /\ Known' = best /\ Known = best
      /\ KeptScore' = IF files["best_hybrid"] = NoFile THEN best.score ELSE KeptScore
  <2>1. SavedSteps' = SavedSteps
    BY <1>a, <1>d DEF SavedSteps, FileName
  <2>2. LatestCheckpoint' = Payload(best) /\ LatestCheckpoint = Payload(best)
    BY <1>c, <1>d DEF LatestCheckpoint
  <2> QED
    BY <1>c, <1>d, <2>1, <2>2 DEF Known, KeptScore
<1>1. TrainTypeOK'
  <2>1. /\ phase' \in {"off"} \cup Working \cup Ended
        /\ early' \in BOOLEAN /\ stop' \in BOOLEAN /\ launches' \in 0..MaxLaunches
    BY <1>t, <1>a, <1>b, <1>c, <1>d, <1>s, TypeFacts, FileFacts, StagesAreThere,
      TrainingAssumption DEF TrainTypeOK, Working, Ended
  <2>2. start' \in 0..MaxSteps /\ step' \in start'..MaxSteps /\ stage' \in StageIds
    BY <1>t, <1>a, <1>b, <1>c, <1>d, <1>s, TypeFacts, FileFacts, StagesAreThere,
      TrainingAssumption DEF Located
  <2>3. weights' \in [Modules -> Nat] /\ moments' \subseteq Modules /\ restored' \in BOOLEAN
    BY <1>t, <1>a, <1>b, <1>c, <1>d, <1>s, TypeFacts, FileFacts, StagesAreThere,
      TrainingAssumption DEF Untrained
  <2>4. best' \in Bests /\ top' \in Bests /\ lost' \subseteq {"loss", "score"}
    BY <1>t, <1>a, <1>b, <1>c, <1>d, <1>s, TypeFacts, FileFacts, StagesAreThere,
      TrainingAssumption DEF Bests, NoBest, TrainTypeOK
  <2>5. patience' \in [best : Scores \cup {NoScore}, misses : Nat]
    BY <1>t, <1>a, <1>b, <1>c, <1>d, <1>s, TypeFacts, FileFacts, StagesAreThere,
      TrainingAssumption DEF Bests
  <2>6. /\ files' \in [FileName -> Files \cup {NoFile}]
        /\ saved' \in [1..MaxSteps -> Files \cup {NoFile}]
        /\ \A n \in SavedSteps' : saved'[n].step = n
    BY <1>t, <1>a, <1>b, <1>c, <1>d, <1>s, TypeFacts, FileFacts, StagesAreThere,
      TrainingAssumption DEF TrainTypeOK
  <2> QED
    BY <2>1, <2>2, <2>3, <2>4, <2>5, <2>6 DEF TrainTypeOK, Bests
<1>2. WeightsFollowSchedule'
  <2>1. OnSchedule(Payload(best))'
    BY <1>a DEF WeightsFollowSchedule, OnSchedule, Payload
  <2>2. \A f \in FileName :
          files'[f] \in {files[f], Payload(best)', files["best_loss"], files["best_hybrid"]}
    BY <1>c, <1>d DEF FileName, Winner
  <2>3. SavedSteps' = SavedSteps /\ saved' = saved /\ lost' = lost
    BY <1>a, <1>s
  <2> QED
    BY <2>1, <2>2, <2>3, ScheduleFollows
<1>3. Ordered'
  BY <1>t, <1>a, <1>b, <1>c, <1>d, <1>s, TypeFacts, FileFacts
    DEF Ordered, Working, Ended, Located, Closed, FileName
<1>4. Located'
  BY <1>t, <1>a, <1>b, <1>c, <1>d, <1>s, TypeFacts, FileFacts, StagesAreThere
    DEF Located, Working, Ended, Untrained
<1>5. InOrder'
  BY <1>t, <1>a, <1>b, <1>c, <1>d, <1>s, TypeFacts, FileFacts, LatestFacts
    DEF InOrder, Working, Ended, Located, Remembered, Pending, Measurements, NoBest
<1>6. Remembered'
  BY <1>t, <1>a, <1>b, <1>c, <1>d, <1>s, TypeFacts, FileFacts, LatestFacts
    DEF Remembered, Working, Ended, Located, InOrder, Pending, Measurements, NoBest
<1>7. BestNotLater'
  BY <1>t, <1>a, <1>b, <1>c, <1>d, <1>s, TypeFacts, FileFacts, LatestFacts
    DEF BestNotLater, Working, Ended, Located, InOrder, Remembered, Pending, Measurements,
      NoBest, NotLater, FileName
<1>8. Selected'
  BY <1>t, <1>a, <1>b, <1>c, <1>d, <1>s, TypeFacts, FileFacts DEF Selected, Working, Ended,
    Winner, Key, FileName, Payload, Closed, InOrder
<1>9. Closed'
  BY <1>t, <1>a, <1>b, <1>c, <1>d, <1>s, TypeFacts, FileFacts
    DEF Closed, Working, Ended, FileName, Payload, Located, InOrder, KeptScore
<1> QED
  BY <1>1, <1>2, <1>3, <1>4, <1>5, <1>6, <1>7, <1>8, <1>9

\* A periodic checkpoint is as late as the run.
LEMMA CheckpointKeeps == TrainInv /\ Checkpoint => TrainInv'
<1> SUFFICES ASSUME TrainInv, Checkpoint PROVE TrainInv'
  OBVIOUS
<1> USE DEF TrainInv, On, memory, history
<1>t. TrainTypeOK /\ Ordered
  OBVIOUS
<1>a. /\ phase = "checkpoint" /\ phase' = "loop" /\ step > 0 /\ On
      /\ SaveStep \/ UNCHANGED saved
      /\ UNCHANGED <<start, step, stage, weights, moments, best, measured, patience, early,
                     restored, stop, files, launches, top, lost>>
  BY DEF Checkpoint, Located, Working
<1>b. /\ best \in Bests /\ Payload(best) \in Files /\ Payload(best).best = best
      /\ Payload(best).step = step /\ Payload(best) # NoFile
  BY <1>t, TypeFacts, PayloadFacts, FileFacts
<1>d. KeptScore' = KeptScore
  BY <1>a DEF KeptScore
<1>s. /\ saved' \in [1..MaxSteps -> Files \cup {NoFile}]
      /\ SavedSteps' = SavedSteps \cup {step} \/ SavedSteps' = SavedSteps
      /\ SavedSteps' = {} \/ \E n \in SavedSteps' : \A k \in SavedSteps' : k <= n
      /\ files["final"] = NoFile => \A n \in SavedSteps' : n <= step
      /\ \A n \in SavedSteps' : saved'[n] = saved[n] \/ (n = step /\ saved'[n] = Payload(best))
      /\ \A n \in SavedSteps' : saved'[n].step = n
      /\ \/ LatestCheckpoint' = LatestCheckpoint /\ Known' = Known
         \/ LatestCheckpoint' = Payload(best) /\ Known' = best
  <2>1. CASE SaveStep /\ step > 0
    <3>1. /\ saved' \in [1..MaxSteps -> Files \cup {NoFile}]
          /\ SavedSteps' = SavedSteps \cup {step}
          /\ \A n \in SavedSteps' : saved'[n] = IF n = step THEN Payload(best) ELSE saved[n]
          /\ \E n \in SavedSteps' : \A k \in SavedSteps' : k <= n
          /\ files["final"] = NoFile => \A n \in SavedSteps' : n <= step
          /\ LatestCheckpoint' = IF files["final"] = NoFile THEN Payload(best) ELSE LatestCheckpoint
      BY <1>t, <1>a, <2>1, SavedLatest
    <3>2. \A n \in SavedSteps' : saved'[n].step = n
      BY <1>t, <1>b, <3>1, TypeFacts
    <3> QED
      BY <1>b, <3>1, <3>2 DEF Known
  <2>2. CASE UNCHANGED saved
    <3>1. SavedSteps' = SavedSteps /\ LatestCheckpoint' = LatestCheckpoint /\ Known' = Known
      BY <1>a, <2>2, SameLatest
    <3> QED
      BY <1>t, <1>a, <2>2, <3>1, TypeFacts DEF Ordered
  <2> QED
    BY <1>a, <2>1, <2>2
<1>1. TrainTypeOK'
  <2>1. /\ phase' \in {"off"} \cup Working \cup Ended
        /\ early' \in BOOLEAN /\ stop' \in BOOLEAN /\ launches' \in 0..MaxLaunches
    BY <1>t, <1>a, <1>b, <1>d, <1>s, TypeFacts, FileFacts, StagesAreThere,
      TrainingAssumption DEF TrainTypeOK, Working, Ended
  <2>2. start' \in 0..MaxSteps /\ step' \in start'..MaxSteps /\ stage' \in StageIds
    BY <1>t, <1>a, <1>b, <1>d, <1>s, TypeFacts, FileFacts, StagesAreThere,
      TrainingAssumption DEF Located
  <2>3. weights' \in [Modules -> Nat] /\ moments' \subseteq Modules /\ restored' \in BOOLEAN
    BY <1>t, <1>a, <1>b, <1>d, <1>s, TypeFacts, FileFacts, StagesAreThere,
      TrainingAssumption DEF Untrained
  <2>4. best' \in Bests /\ top' \in Bests /\ lost' \subseteq {"loss", "score"}
    BY <1>t, <1>a, <1>b, <1>d, <1>s, TypeFacts, FileFacts, StagesAreThere,
      TrainingAssumption DEF Bests, NoBest, TrainTypeOK
  <2>5. patience' \in [best : Scores \cup {NoScore}, misses : Nat]
    BY <1>t, <1>a, <1>b, <1>d, <1>s, TypeFacts, FileFacts, StagesAreThere,
      TrainingAssumption DEF Bests
  <2>6. /\ files' \in [FileName -> Files \cup {NoFile}]
        /\ saved' \in [1..MaxSteps -> Files \cup {NoFile}]
        /\ \A n \in SavedSteps' : saved'[n].step = n
    BY <1>t, <1>a, <1>b, <1>d, <1>s, TypeFacts, FileFacts, StagesAreThere,
      TrainingAssumption DEF TrainTypeOK
  <2> QED
    BY <2>1, <2>2, <2>3, <2>4, <2>5, <2>6 DEF TrainTypeOK, Bests
<1>2. WeightsFollowSchedule'
  <2>1. OnSchedule(Payload(best))'
    BY <1>a DEF WeightsFollowSchedule, OnSchedule, Payload
  <2>2. \A n \in SavedSteps' :
          saved'[n] = Payload(best) \/ (n \in SavedSteps /\ saved'[n] = saved[n])
    BY <1>b, <1>s, FileFacts DEF SavedSteps
  <2>3. files' = files /\ lost' = lost
    BY <1>a
  <2> QED
    BY <2>1, <2>2, <2>3, ScheduleFollows
<1>3. Ordered'
  BY <1>t, <1>a, <1>b, <1>d, <1>s, TypeFacts, FileFacts
    DEF Ordered, Working, Ended, Located, Closed, FileName
<1>4. Located'
  BY <1>t, <1>a, <1>b, <1>d, <1>s, TypeFacts, FileFacts, StagesAreThere
    DEF Located, Working, Ended, Untrained
<1>5. InOrder'
  BY <1>t, <1>a, <1>b, <1>d, <1>s, TypeFacts, FileFacts, LatestFacts
    DEF InOrder, Working, Ended, Located, Remembered, Pending, Measurements, NoBest
<1>6. Remembered'
  BY <1>t, <1>a, <1>b, <1>d, <1>s, TypeFacts, FileFacts, LatestFacts
    DEF Remembered, Working, Ended, Located, InOrder, Pending, Measurements, NoBest
<1>7. BestNotLater'
  BY <1>t, <1>a, <1>b, <1>d, <1>s, TypeFacts, FileFacts, LatestFacts DEF BestNotLater,
    Working, Ended, Located, InOrder, Remembered, Pending, Measurements, NoBest,
    NotLater, FileName
<1>8. Selected'
  BY <1>t, <1>a, <1>b, <1>d, <1>s, TypeFacts, FileFacts DEF Selected, Working, Ended,
    Winner, Key, FileName, Payload, Closed, InOrder
<1>9. Closed'
  BY <1>t, <1>a, <1>b, <1>d, <1>s, TypeFacts, FileFacts
    DEF Closed, Working, Ended, FileName, Payload, Located, InOrder, KeptScore
<1> QED
  BY <1>1, <1>2, <1>3, <1>4, <1>5, <1>6, <1>7, <1>8, <1>9

\* An interrupt saves what the process has trained, or forgets what it has measured.
LEMMA InterruptKeeps == TrainInv /\ Interrupt => TrainInv'
<1> SUFFICES ASSUME TrainInv, Interrupt PROVE TrainInv'
  OBVIOUS
<1> USE DEF TrainInv, On, memory, history
<1>t. TrainTypeOK /\ Ordered
  OBVIOUS
<1>a. /\ phase = "loop" /\ phase' = "stopped" /\ stop' = FALSE /\ On
      /\ (SaveStep /\ step > 0) \/ UNCHANGED saved
      /\ Forget
      /\ UNCHANGED <<files, launches, top>>
      /\ lost' = lost \cup Behind'
  <2>1. step > start => step > 0
    BY <1>t, TypeFacts
  <2> QED
    BY <2>1 DEF Interrupt, Working
<1>b. /\ best \in Bests /\ Payload(best) \in Files /\ Payload(best).best = best
      /\ Payload(best).step = step /\ Payload(best) # NoFile
  BY <1>t, TypeFacts, PayloadFacts, FileFacts
<1>d. KeptScore' = KeptScore
  BY <1>a DEF KeptScore
<1>s. /\ saved' \in [1..MaxSteps -> Files \cup {NoFile}]
      /\ SavedSteps' = SavedSteps \cup {step} \/ SavedSteps' = SavedSteps
      /\ SavedSteps' = {} \/ \E n \in SavedSteps' : \A k \in SavedSteps' : k <= n
      /\ files["final"] = NoFile => \A n \in SavedSteps' : n <= step
      /\ \A n \in SavedSteps' : saved'[n] = saved[n] \/ (n = step /\ saved'[n] = Payload(best))
      /\ \A n \in SavedSteps' : saved'[n].step = n
      /\ \/ LatestCheckpoint' = LatestCheckpoint /\ Known' = Known
         \/ LatestCheckpoint' = Payload(best) /\ Known' = best
  <2>1. CASE SaveStep /\ step > 0
    <3>1. /\ saved' \in [1..MaxSteps -> Files \cup {NoFile}]
          /\ SavedSteps' = SavedSteps \cup {step}
          /\ \A n \in SavedSteps' : saved'[n] = IF n = step THEN Payload(best) ELSE saved[n]
          /\ \E n \in SavedSteps' : \A k \in SavedSteps' : k <= n
          /\ files["final"] = NoFile => \A n \in SavedSteps' : n <= step
          /\ LatestCheckpoint' = IF files["final"] = NoFile THEN Payload(best) ELSE LatestCheckpoint
      BY <1>t, <1>a, <2>1, SavedLatest
    <3>2. \A n \in SavedSteps' : saved'[n].step = n
      BY <1>t, <1>b, <3>1, TypeFacts
    <3> QED
      BY <1>b, <3>1, <3>2 DEF Known
  <2>2. CASE UNCHANGED saved
    <3>1. SavedSteps' = SavedSteps /\ LatestCheckpoint' = LatestCheckpoint /\ Known' = Known
      BY <1>a, <2>2, SameLatest
    <3> QED
      BY <1>t, <1>a, <2>2, <3>1, TypeFacts DEF Ordered
  <2> QED
    BY <1>a, <2>1, <2>2
<1>1. TrainTypeOK'
  <2>1. /\ phase' \in {"off"} \cup Working \cup Ended
        /\ early' \in BOOLEAN /\ stop' \in BOOLEAN /\ launches' \in 0..MaxLaunches
    BY <1>t, <1>a, <1>b, <1>d, <1>s, TypeFacts, FileFacts, StagesAreThere,
      TrainingAssumption DEF TrainTypeOK, Working, Ended, Forget
  <2>2. start' \in 0..MaxSteps /\ step' \in start'..MaxSteps /\ stage' \in StageIds
    BY <1>t, <1>a, <1>b, <1>d, <1>s, TypeFacts, FileFacts, StagesAreThere,
      TrainingAssumption DEF Forget, Located
  <2>3. weights' \in [Modules -> Nat] /\ moments' \subseteq Modules /\ restored' \in BOOLEAN
    BY <1>t, <1>a, <1>b, <1>d, <1>s, TypeFacts, FileFacts, StagesAreThere,
      TrainingAssumption DEF Forget, Untrained
  <2>4. best' \in Bests /\ top' \in Bests /\ lost' \subseteq {"loss", "score"}
    BY <1>t, <1>a, <1>b, <1>d, <1>s, TypeFacts, FileFacts, StagesAreThere,
      TrainingAssumption DEF Forget, Bests, NoBest, Behind, TrainTypeOK
  <2>5. patience' \in [best : Scores \cup {NoScore}, misses : Nat]
    BY <1>t, <1>a, <1>b, <1>d, <1>s, TypeFacts, FileFacts, StagesAreThere,
      TrainingAssumption DEF Forget, Fresh, Bests
  <2>6. /\ files' \in [FileName -> Files \cup {NoFile}]
        /\ saved' \in [1..MaxSteps -> Files \cup {NoFile}]
        /\ \A n \in SavedSteps' : saved'[n].step = n
    BY <1>t, <1>a, <1>b, <1>d, <1>s, TypeFacts, FileFacts, StagesAreThere,
      TrainingAssumption DEF TrainTypeOK
  <2> QED
    BY <2>1, <2>2, <2>3, <2>4, <2>5, <2>6 DEF TrainTypeOK, Bests
<1>2. WeightsFollowSchedule'
  <2>1. OnSchedule(Payload(best))'
    BY <1>a, NextScheduled DEF Forget, OnSchedule, Payload, Untrained
  <2>2. \A n \in SavedSteps' :
          saved'[n] = Payload(best) \/ (n \in SavedSteps /\ saved'[n] = saved[n])
    BY <1>b, <1>s, FileFacts DEF SavedSteps
  <2>3. files' = files /\ lost \subseteq lost'
    BY <1>a
  <2> QED
    BY <2>1, <2>2, <2>3, ScheduleFollows
<1>3. Ordered'
  BY <1>t, <1>a, <1>b, <1>d, <1>s, TypeFacts, FileFacts
    DEF Ordered, Working, Ended, Located, Closed, FileName
<1>4. Located'
  BY <1>t, <1>a, <1>b, <1>d, <1>s, TypeFacts, FileFacts, StagesAreThere
    DEF Located, Working, Ended, Forget, Untrained
<1>5. InOrder'
  BY <1>t, <1>a, <1>b, <1>d, <1>s, TypeFacts, FileFacts, LatestFacts
    DEF InOrder, Working, Ended, Located, Remembered, Pending, Measurements, Forget, NoBest
<1>6. Remembered'
  <2>1. /\ "score" \notin lost' => "score" \notin lost /\ Known'.score = top.score
        /\ "loss" \notin lost' => "loss" \notin lost /\ Known'.loss = top.loss
        /\ top' = top /\ phase' \notin Working
    BY <1>a DEF Behind, Working
  <2>2. "score" \notin lost => KeptScore = top.score
    BY <1>a DEF Remembered, Pending
  <2> QED
    BY <1>d, <2>1, <2>2 DEF Remembered
<1>7. BestNotLater'
  BY <1>t, <1>a, <1>b, <1>d, <1>s, TypeFacts, FileFacts, LatestFacts DEF BestNotLater,
    Working, Ended, Located, InOrder, Remembered, Pending, Measurements, Forget, NoBest,
    NotLater, FileName
<1>8. Selected'
  BY <1>t, <1>a, <1>b, <1>d, <1>s, TypeFacts, FileFacts DEF Selected, Working, Ended,
    Winner, Key, FileName, Payload, Closed, InOrder, Behind, Forget
<1>9. Closed'
  BY <1>t, <1>a, <1>b, <1>d, <1>s, TypeFacts, FileFacts
    DEF Closed, Working, Ended, Forget, FileName, Payload, Located, InOrder, KeptScore
<1> QED
  BY <1>1, <1>2, <1>3, <1>4, <1>5, <1>6, <1>7, <1>8, <1>9

\* A process that dies falls back to its latest checkpoint.
LEMMA DieKeeps == TrainInv /\ Die => TrainInv'
<1> SUFFICES ASSUME TrainInv, Die PROVE TrainInv'
  OBVIOUS
<1> USE DEF TrainInv, On, memory, history
<1>t. TrainTypeOK /\ Ordered
  OBVIOUS
<1>s. /\ UNCHANGED <<files, saved>> /\ SavedSteps' = SavedSteps
      /\ LatestCheckpoint' = LatestCheckpoint /\ Known' = Known /\ KeptScore' = KeptScore
  BY SameLatest DEF Die
<1>1. TrainTypeOK'
  <2>1. /\ phase' \in {"off"} \cup Working \cup Ended
        /\ early' \in BOOLEAN /\ stop' \in BOOLEAN /\ launches' \in 0..MaxLaunches
    BY <1>t, <1>s, TypeFacts, FileFacts, StagesAreThere, TrainingAssumption
      DEF Die, TrainTypeOK, Working, Ended, Forget
  <2>2. start' \in 0..MaxSteps /\ step' \in start'..MaxSteps /\ stage' \in StageIds
    BY <1>t, <1>s, TypeFacts, FileFacts, StagesAreThere, TrainingAssumption
      DEF Die, Forget, Located
  <2>3. weights' \in [Modules -> Nat] /\ moments' \subseteq Modules /\ restored' \in BOOLEAN
    BY <1>t, <1>s, TypeFacts, FileFacts, StagesAreThere, TrainingAssumption
      DEF Die, Forget, Untrained
  <2>4. best' \in Bests /\ top' \in Bests /\ lost' \subseteq {"loss", "score"}
    BY <1>t, <1>s, TypeFacts, FileFacts, StagesAreThere, TrainingAssumption
      DEF Die, Forget, Bests, NoBest, Behind, TrainTypeOK
  <2>5. patience' \in [best : Scores \cup {NoScore}, misses : Nat]
    BY <1>t, <1>s, TypeFacts, FileFacts, StagesAreThere, TrainingAssumption
      DEF Die, Forget, Fresh, Bests
  <2>6. /\ files' \in [FileName -> Files \cup {NoFile}]
        /\ saved' \in [1..MaxSteps -> Files \cup {NoFile}]
        /\ \A n \in SavedSteps' : saved'[n].step = n
    BY <1>t, <1>s, TypeFacts, FileFacts, StagesAreThere, TrainingAssumption
      DEF Die, TrainTypeOK
  <2> QED
    BY <2>1, <2>2, <2>3, <2>4, <2>5, <2>6 DEF TrainTypeOK, Bests
<1>2. WeightsFollowSchedule'
  <2>1. /\ weights' = Untrained /\ step' = 0 /\ restored' = FALSE
        /\ lost \subseteq lost'
    BY DEF Die, Forget
  <2>2. OnSchedule(Payload(best))'
    BY <2>1, NextScheduled DEF OnSchedule, Payload, Untrained
  <2> QED
    BY <1>s, <2>1, <2>2, StaysOnSchedule DEF WeightsFollowSchedule
<1>3. Ordered'
  BY <1>t, <1>s, TypeFacts, FileFacts DEF Die, Ordered, Working, Ended, Located, Closed
<1>4. Located'
  BY <1>t, <1>s, TypeFacts, FileFacts, StagesAreThere
    DEF Die, Located, Working, Ended, Forget, Untrained
<1>5. InOrder'
  BY <1>t, <1>s, TypeFacts, FileFacts, LatestFacts DEF Die, InOrder, Working, Ended,
    Located, Remembered, Pending, Measurements, Forget, NoBest
<1>6. Remembered'
  <2>1. /\ "score" \notin lost' => "score" \notin lost /\ Known.score = top.score
        /\ "loss" \notin lost' => "loss" \notin lost /\ Known.loss = top.loss
        /\ top' = top /\ phase' = "failed" /\ phase \in Working
    BY DEF Die, Behind
  <2>2. best \in Bests /\ Known \in Bests /\ KeptScore \in Int
    BY <1>t, TypeFacts, LatestFacts
  <2>3. "score" \notin lost' => KeptScore = top.score
    <3>1. "score" \notin lost' /\ Pending =>
            top.score >= best.score /\ KeptScore = best.score
      BY <1>t, <2>1, <2>2, FileFacts DEF Remembered, Pending, Located, Measurements
    <3> QED
      BY <2>1, <2>2, <3>1, FileFacts DEF Remembered, InOrder
  <2> QED
    BY <1>s, <2>1, <2>3 DEF Remembered, Working
<1>7. BestNotLater'
  BY <1>t, <1>s, TypeFacts, FileFacts, LatestFacts DEF Die, BestNotLater, Working, Ended,
    Located, InOrder, Remembered, Pending, Measurements, Forget, NoBest, NotLater, FileName
<1>8. Selected'
  <2>1. /\ Key \notin lost' => Key \notin lost /\ Known[Key] = top[Key]
        /\ phase' = "failed" /\ phase \in Working
    BY DEF Die, Behind, Key
  <2>2. best \in Bests /\ Known \in Bests
    BY <1>t, TypeFacts, LatestFacts
  <2>3. phase = "select" => Key \in lost'
    BY <2>1, <2>2, FileFacts DEF Remembered, InOrder, Key, Pending, Working
  <2> QED
    BY <1>s, <2>1, <2>3 DEF Selected
<1>9. Closed'
  BY <1>t, <1>s, TypeFacts, FileFacts
    DEF Die, Closed, Working, Ended, Forget, FileName, Payload, Located, InOrder, KeptScore
<1> QED
  BY <1>1, <1>2, <1>3, <1>4, <1>5, <1>6, <1>7, <1>8, <1>9

----------------------------------------------------------------------------
(* What the run directory promises.                                         *)

\* Nothing has been trained or saved at the start.
LEMMA TrainingStarts == TrainInit => TrainInv
<1> SUFFICES ASSUME TrainInit PROVE TrainInv
  OBVIOUS
<1> USE DEF TrainInit
<1>1. /\ SavedSteps = {} /\ LatestCheckpoint = NoFile /\ Known = NoBest
      /\ KeptScore = NoScore /\ \A f \in FileName : files[f] = NoFile
  <2>1. SavedSteps = {}
    BY DEF SavedSteps
  <2>2. \A f \in FileName : files[f] = NoFile
    OBVIOUS
  <2> QED
    BY <2>1, <2>2 DEF LatestCheckpoint, Known, KeptScore, FileName
<1>2. TrainTypeOK
  <2>1. weights \in [Modules -> Nat]
    BY DEF Untrained
  <2>2. best \in Bests /\ top \in Bests
    BY FileFacts
  <2>3. 0 \in 0..MaxSteps /\ 0 \in 0..MaxLaunches /\ 1 \in StageIds
    BY StagesAreThere, TrainingAssumption
  <2>4. /\ files \in [FileName -> Files \cup {NoFile}]
        /\ saved \in [1..MaxSteps -> Files \cup {NoFile}]
    OBVIOUS
  <2> QED
    BY <1>1, <2>1, <2>2, <2>3, <2>4 DEF TrainTypeOK, Bests, Fresh
<1>3. WeightsFollowSchedule
  <2>1. OnSchedule(Payload(best))
    BY NextScheduled DEF OnSchedule, Payload, Untrained
  <2> QED
    BY <1>1, <2>1 DEF WeightsFollowSchedule
<1>4. Ordered /\ Located
  BY <1>1 DEF Ordered, Located, On, Working
<1>5. InOrder /\ Remembered /\ BestNotLater
  BY <1>1, FileFacts
    DEF InOrder, Remembered, BestNotLater, NotLater, On, Working, NoBest, FileName
<1>6. Selected /\ Closed
  BY <1>1 DEF Selected, Closed, Winner, FileName
<1> QED
  BY <1>2, <1>3, <1>4, <1>5, <1>6 DEF TrainInv

\* Every step of the process, of its environment and of its restarts keeps it.
LEMMA TrainingKeeps ==
  TrainInv /\ (Launch \/ TrainStep \/ Signal \/ Die \/ UNCHANGED trainVars) => TrainInv'
<1> SUFFICES ASSUME TrainInv, UNCHANGED trainVars PROVE TrainInv'
  BY NextStepKeeps, TrainKeeps, JudgeKeeps, SignalKeeps, LaunchKeeps, ValidateKeeps,
     SaveBestHybridKeeps, SelectBestKeeps, FinishKeeps, FillKeeps, CheckpointKeeps,
     InterruptKeeps, DieKeeps DEF TrainStep
<1> USE DEF trainVars, memory, history
<1>s. /\ SavedSteps' = SavedSteps /\ LatestCheckpoint' = LatestCheckpoint
      /\ Known' = Known /\ KeptScore' = KeptScore
  BY SameLatest
<1>1. TrainTypeOK' /\ Ordered' /\ Located'
  BY <1>s DEF TrainInv, TrainTypeOK, Ordered, Located, On
<1>2. WeightsFollowSchedule'
  BY <1>s DEF TrainInv, WeightsFollowSchedule, OnSchedule, Payload
<1>3. InOrder' /\ Remembered' /\ BestNotLater'
  BY <1>s DEF TrainInv, InOrder, Remembered, BestNotLater, NotLater, On, Pending
<1>4. Selected' /\ Closed'
  BY <1>s DEF TrainInv, Selected, Closed, Payload
<1> QED
  BY <1>1, <1>2, <1>3, <1>4 DEF TrainInv

\* best_hybrid.pt and the files of a completed run are what they should be.
LEMMA TrainingPromises ==
  TrainInv => TrainTypeOK /\ BestIsHighest /\ WeightsFollowSchedule /\ CompletedFiles
<1> SUFFICES ASSUME TrainInv PROVE BestIsHighest /\ CompletedFiles
  BY DEF TrainInv
<1> USE DEF TrainInv
<1>1. best \in Bests /\ KeptScore \in Int /\ Metric \in {"hybrid_score", "total"}
  BY TypeFacts, TrainingAssumption
<1>2. BestIsHighest
  BY <1>1, FileFacts DEF BestIsHighest, InOrder, Remembered, Pending
<1>3. CompletedFiles
  BY <1>1 DEF CompletedFiles, Closed, Selected, Winner, Key
<1> QED
  BY <1>2, <1>3

----------------------------------------------------------------------------
(***************************************************************************)
(* Part 3, PreparedCache and WorkerRun: the tensors a training opens.      *)
(***************************************************************************)
(* The inductive invariant.                                                 *)

\* Directories that load hold rows the splits accept.
Sound(d) == Loads(d) => d.rows \in Nat /\ Usable(d.rows)

AllSound ==
  /\ Sound(dest) /\ Sound(opened)
  /\ \A t \in Temporary : Sound(temps[t])

\* Until a live worker loses it, who is inside the lock's block has the lock.
Guarded == ~stolen => \A w \in Workers : pc[w] \in Holding => commit = w

Renaming == {"publish", "republish", "copy"}
Moving   == Renaming \cup {"room", "replace"}
Building == {"writing", "commit", "committing", "replace", "publish", "discard", "removing"}

\* And who is about to rename has made room.
Room == ~stolen => \A w \in Workers : pc[w] \in Renaming => dest = Absent

\* A temporary directory is not there before its owner's attempt.
Made == \A t \in Temporary : t[2] > attempt[t[1]] => temps[t] = Absent

\* A worker builds a temporary directory of its own, and it publishes one that
\* has been made.
Sourced ==
  \A w \in Workers :
    /\ source[w][2] <= attempt[source[w][1]]
    /\ pc[w] \in Building \cup Moving => source[w] \in Temporary
    /\ pc[w] \in Building => source[w][1] = w

\* Only Write makes a directory complete, and only RemoveOwn takes that back.
Written ==
  \A w \in Workers :
    /\ pc[w] = "writing" => ~Loads(temps[source[w]])
    /\ pc[w] \in {"commit", "committing"} => temps[source[w]] # Partial

\* As long as nothing has disturbed them, no half removed directory is on its
\* way to the published name, nobody removes a whole one, and who is ready
\* finds a whole one there.
Calm ==
  Undisturbed =>
    /\ inside = {}
    /\ \A w \in Workers :
         /\ pc[w] \in Moving => temps[source[w]] # Partial
         /\ pc[w] \in {"discard", "removing"} => ~Loads(temps[source[w]])
         /\ pc[w] \in Removing \cup {"searching"} => ~Loads(dest)
         /\ pc[w] = "ready" => Loads(dest)

PrepInv ==
  /\ PrepTypeOK /\ opened \in Directory
  /\ AllSound /\ Guarded /\ Room /\ Made /\ Sourced /\ Written /\ Calm

----------------------------------------------------------------------------
(* How the actions keep it.                                                 *)

\* What a directory can be.
LEMMA Kinds ==
  /\ Absent \in Directory /\ Partial \in Directory
  /\ ~Loads(Absent) /\ ~Loads(Partial) /\ Absent # Partial
  /\ Sound(Absent) /\ Sound(Partial)
  /\ \A d \in Directory : d = Absent \/ d = Partial \/ Loads(d)
  /\ \A k \in RowCounts :
       Complete(k) \in Directory /\ Loads(Complete(k)) /\ (Usable(k) => Sound(Complete(k)))
<1>1. ASSUME NEW k \in RowCounts
      PROVE  /\ Complete(k) \in Directory /\ Loads(Complete(k))
             /\ Complete(k).rows = k /\ k \in Nat
  BY PreparedAssumption DEF Directory, Complete, Loads
<1>2. \A k \in RowCounts : Usable(k) => Sound(Complete(k))
  BY <1>1 DEF Sound
<1>3. \A d \in Directory : d = Absent \/ d = Partial \/ Loads(d)
  BY <1>1 DEF Directory
<1> QED
  BY <1>1, <1>2, <1>3 DEF Directory, Absent, Partial, Loads, Sound

\* One step of a worker in the cache keeps the invariant.
LEMMA PrepareKeeps ==
  ASSUME PrepInv, NEW w \in Workers, PrepareStep(w), UNCHANGED opened
  PROVE  PrepInv'
<1> USE DEF PrepInv, Goto, SetTemp, dirs, lock
<1>a. /\ pc \in [Workers -> Locations]
      /\ attempt \in [Workers -> 0..MaxAttempts]
      /\ source \in [Workers -> Workers \X (0..MaxAttempts)]
      /\ temps \in [Temporary -> Directory]
      /\ stale \subseteq Workers /\ inside \subseteq Workers
      /\ dest \in Directory /\ MaxAttempts \in Nat /\ mishaps \in Nat /\ kills \in Nat
  BY PreparedAssumption DEF PrepTypeOK
<1>1. CASE Prepare(w)
  <2>a. pc' \in [Workers -> Locations]
    BY <1>1, <1>a DEF Prepare, Locations, Holding, Waiting, Removing
  <2>1. PrepTypeOK' /\ (opened \in Directory)'
    BY <1>1, <1>a, <2>a, PreparedAssumption, Kinds
      DEF Prepare, PrepTypeOK, Holding, Waiting, Removing
  <2>2. AllSound' /\ Made'
    BY <1>1, <1>a DEF Prepare, AllSound, Made
  <2>3. Guarded' /\ Room'
    BY <1>1, <1>a, PreparedAssumption
      DEF Prepare, Guarded, Room, Renaming, Holding, Waiting, Removing
  <2>4. Sourced' /\ Written'
    BY <1>1, <1>a
      DEF Prepare, Sourced, Written, Building, Moving, Renaming, Holding, Waiting,
        Removing
  <2>5. Calm'
    BY <1>1, <1>a
      DEF Prepare, Calm, Undisturbed, Written, Room, Moving, Renaming, Holding, Waiting,
        Removing
  <2> QED
    BY <2>1, <2>2, <2>3, <2>4, <2>5
<1>2. CASE Acquire(w)
  <2>a. pc' \in [Workers -> Locations]
    BY <1>2, <1>a DEF Acquire, Locations, Holding, Waiting, Removing
  <2>1. PrepTypeOK' /\ (opened \in Directory)'
    BY <1>2, <1>a, <2>a, PreparedAssumption, Kinds
      DEF Acquire, PrepTypeOK, Holding, Waiting, Removing
  <2>2. AllSound' /\ Made'
    BY <1>2, <1>a DEF Acquire, AllSound, Made
  <2>3. Guarded' /\ Room'
    BY <1>2, <1>a, PreparedAssumption
      DEF Acquire, Guarded, Room, Renaming, Holding, Waiting, Removing
  <2>4. Sourced' /\ Written'
    BY <1>2, <1>a
      DEF Acquire, Sourced, Written, Building, Moving, Renaming, Holding, Waiting,
        Removing
  <2>5. Calm'
    BY <1>2, <1>a
      DEF Acquire, Calm, Undisturbed, Written, Room, Moving, Renaming, Holding, Waiting,
        Removing
  <2> QED
    BY <2>1, <2>2, <2>3, <2>4, <2>5
<1>3. CASE FindStale(w)
  <2>a. pc' \in [Workers -> Locations]
    BY <1>3, <1>a DEF FindStale, Locations, Holding, Waiting, Removing
  <2>1. PrepTypeOK' /\ (opened \in Directory)'
    BY <1>3, <1>a, <2>a, PreparedAssumption, Kinds
      DEF FindStale, PrepTypeOK, Holding, Waiting, Removing
  <2>2. AllSound' /\ Made'
    BY <1>3, <1>a DEF FindStale, AllSound, Made
  <2>3. Guarded' /\ Room'
    BY <1>3, <1>a, PreparedAssumption
      DEF FindStale, Guarded, Room, Renaming, Holding, Waiting, Removing
  <2>4. Sourced' /\ Written'
    BY <1>3, <1>a
      DEF FindStale, Sourced, Written, Building, Moving, Renaming, Holding, Waiting,
        Removing
  <2>5. Calm'
    BY <1>3, <1>a
      DEF FindStale, Calm, Undisturbed, Written, Room, Moving, Renaming, Holding,
        Waiting, Removing
  <2> QED
    BY <2>1, <2>2, <2>3, <2>4, <2>5
<1>4. CASE Unlink(w)
  <2>a. pc' \in [Workers -> Locations]
    BY <1>4, <1>a DEF Unlink, Locations, Holding, Waiting, Removing
  <2>1. PrepTypeOK' /\ (opened \in Directory)'
    BY <1>4, <1>a, <2>a, PreparedAssumption, Kinds
      DEF Unlink, PrepTypeOK, Holding, Waiting, Removing
  <2>2. AllSound' /\ Made'
    BY <1>4, <1>a DEF Unlink, AllSound, Made
  <2>3. Guarded' /\ Room'
    BY <1>4, <1>a, PreparedAssumption
      DEF Unlink, Guarded, Room, Renaming, Holding, Waiting, Removing
  <2>4. Sourced' /\ Written'
    BY <1>4, <1>a
      DEF Unlink, Sourced, Written, Building, Moving, Renaming, Holding, Waiting,
        Removing
  <2>5. Calm'
    BY <1>4, <1>a
      DEF Unlink, Calm, Undisturbed, Written, Room, Moving, Renaming, Holding, Waiting,
        Removing
  <2> QED
    BY <2>1, <2>2, <2>3, <2>4, <2>5
<1>5. CASE GiveUp(w)
  <2>a. pc' \in [Workers -> Locations]
    BY <1>5, <1>a DEF GiveUp, Mishap, Locations, Holding, Waiting, Removing
  <2>1. PrepTypeOK' /\ (opened \in Directory)'
    BY <1>5, <1>a, <2>a, PreparedAssumption, Kinds
      DEF GiveUp, Mishap, PrepTypeOK, Holding, Waiting, Removing
  <2>2. AllSound' /\ Made'
    BY <1>5, <1>a DEF GiveUp, Mishap, AllSound, Made
  <2>3. Guarded' /\ Room'
    BY <1>5, <1>a, PreparedAssumption
      DEF GiveUp, Mishap, Guarded, Room, Renaming, Holding, Waiting, Removing
  <2>4. Sourced' /\ Written'
    BY <1>5, <1>a
      DEF GiveUp, Mishap, Sourced, Written, Building, Moving, Renaming, Holding,
        Waiting, Removing
  <2>5. Calm'
    BY <1>5, <1>a
      DEF GiveUp, Mishap, Calm, Undisturbed, Written, Room, Moving, Renaming, Holding,
        Waiting, Removing
  <2> QED
    BY <2>1, <2>2, <2>3, <2>4, <2>5
<1>6. CASE Reuse(w)
  <2>a. pc' \in [Workers -> Locations]
    BY <1>6, <1>a DEF Reuse, Release, Locations, Holding, Waiting, Removing
  <2>1. PrepTypeOK' /\ (opened \in Directory)'
    BY <1>6, <1>a, <2>a, PreparedAssumption, Kinds
      DEF Reuse, Release, PrepTypeOK, Holding, Waiting, Removing
  <2>2. AllSound' /\ Made'
    BY <1>6, <1>a DEF Reuse, Release, AllSound, Made
  <2>3. Guarded' /\ Room'
    BY <1>6, <1>a, PreparedAssumption
      DEF Reuse, Release, Guarded, Room, Renaming, Holding, Waiting, Removing
  <2>4. Sourced' /\ Written'
    BY <1>6, <1>a
      DEF Reuse, Release, Sourced, Written, Building, Moving, Renaming, Holding,
        Waiting, Removing
  <2>5. Calm'
    BY <1>6, <1>a
      DEF Reuse, Release, Calm, Undisturbed, Written, Room, Moving, Renaming, Holding,
        Waiting, Removing
  <2> QED
    BY <2>1, <2>2, <2>3, <2>4, <2>5
<1>7. CASE NotReusable(w)
  <2>a. pc' \in [Workers -> Locations]
    BY <1>7, <1>a DEF NotReusable, Mishap, Locations, Holding, Waiting, Removing
  <2>1. PrepTypeOK' /\ (opened \in Directory)'
    BY <1>7, <1>a, <2>a, PreparedAssumption, Kinds
      DEF NotReusable, Mishap, PrepTypeOK, Holding, Waiting, Removing
  <2>2. AllSound' /\ Made'
    BY <1>7, <1>a DEF NotReusable, Mishap, AllSound, Made
  <2>3. Guarded' /\ Room'
    BY <1>7, <1>a, PreparedAssumption
      DEF NotReusable, Mishap, Guarded, Room, Renaming, Holding, Waiting, Removing
  <2>4. Sourced' /\ Written'
    BY <1>7, <1>a
      DEF NotReusable, Mishap, Sourced, Written, Building, Moving, Renaming, Holding,
        Waiting, Removing
  <2>5. Calm'
    BY <1>7, <1>a, Kinds
      DEF NotReusable, Mishap, Calm, Undisturbed, Written, Room, Moving, Renaming,
        Holding, Waiting, Removing
  <2> QED
    BY <2>1, <2>2, <2>3, <2>4, <2>5
<1>8. CASE Recover(w)
  <2>a. pc' \in [Workers -> Locations]
    BY <1>8, <1>a DEF Recover, Candidates, Locations, Holding, Waiting, Removing
  <2>1. PrepTypeOK' /\ (opened \in Directory)'
    BY <1>8, <1>a, <2>a, PreparedAssumption, Kinds
      DEF Recover, Candidates, PrepTypeOK, Holding, Waiting, Removing, Temporary,
        Sourced, Building, Moving, Renaming
  <2>2. AllSound'
    BY <1>8, <1>a, Kinds
      DEF Recover, Candidates, AllSound, Sourced, Building, Moving, Renaming, Temporary,
        Removing
  <2>3. Guarded'
    BY <1>8, <1>a, PreparedAssumption
      DEF Recover, Candidates, Guarded, Holding, Waiting, Removing
  <2>4. Room'
    BY <1>8, <1>a, Kinds
      DEF Recover, Candidates, Room, Guarded, Renaming, Holding, Waiting, Removing
  <2>5. Made'
    BY <1>8, <1>a, Kinds DEF Recover, Candidates, Made, Sourced, Building, Temporary
  <2>6. Sourced'
    BY <1>8, <1>a, Kinds
      DEF Recover, Candidates, Made, Sourced, Moving, Renaming, Building, Temporary,
        Removing
  <2>7. Written'
    BY <1>8, <1>a, Kinds
      DEF Recover, Candidates, Written, Sourced, Building, Removing, Temporary
  <2>8. Calm'
    BY <1>8, <1>a, Kinds
      DEF Recover, Candidates, Calm, Undisturbed, Written, Sourced, Room, Guarded,
        Building, Moving, Renaming, Holding, Waiting, Removing
  <2> QED
    BY <2>1, <2>2, <2>3, <2>4, <2>5, <2>6, <2>7, <2>8
<1>9. CASE NothingToReuse(w)
  <2>a. pc' \in [Workers -> Locations]
    BY <1>9, <1>a
      DEF NothingToReuse, Release, Mishap, Locations, Holding, Waiting, Removing
  <2>1. PrepTypeOK' /\ (opened \in Directory)'
    BY <1>9, <1>a, <2>a, PreparedAssumption, Kinds
      DEF NothingToReuse, Release, Mishap, PrepTypeOK, Holding, Waiting, Removing
  <2>2. AllSound' /\ Made'
    BY <1>9, <1>a DEF NothingToReuse, Release, Mishap, AllSound, Made
  <2>3. Guarded' /\ Room'
    BY <1>9, <1>a, PreparedAssumption
      DEF NothingToReuse, Release, Mishap, Guarded, Room, Renaming, Holding, Waiting,
        Removing
  <2>4. Sourced' /\ Written'
    BY <1>9, <1>a
      DEF NothingToReuse, Release, Mishap, Sourced, Written, Building, Moving, Renaming,
        Holding, Waiting, Removing
  <2>5. Calm'
    BY <1>9, <1>a
      DEF NothingToReuse, Release, Mishap, Calm, Undisturbed, Written, Room, Moving,
        Renaming, Holding, Waiting, Removing
  <2> QED
    BY <2>1, <2>2, <2>3, <2>4, <2>5
<1>10. CASE CandidateGone(w)
  <2>a. pc' \in [Workers -> Locations]
    BY <1>10, <1>a DEF CandidateGone, Release, Locations, Holding, Waiting, Removing
  <2>1. PrepTypeOK' /\ (opened \in Directory)'
    BY <1>10, <1>a, <2>a, PreparedAssumption, Kinds
      DEF CandidateGone, Release, PrepTypeOK, Holding, Waiting, Removing
  <2>2. AllSound' /\ Made'
    BY <1>10, <1>a DEF CandidateGone, Release, AllSound, Made
  <2>3. Guarded' /\ Room'
    BY <1>10, <1>a, PreparedAssumption
      DEF CandidateGone, Release, Guarded, Room, Renaming, Holding, Waiting, Removing
  <2>4. Sourced' /\ Written'
    BY <1>10, <1>a
      DEF CandidateGone, Release, Sourced, Written, Building, Moving, Renaming, Holding,
        Waiting, Removing
  <2>5. Calm'
    BY <1>10, <1>a
      DEF CandidateGone, Release, Calm, Undisturbed, Written, Room, Moving, Renaming,
        Holding, Waiting, Removing
  <2> QED
    BY <2>1, <2>2, <2>3, <2>4, <2>5
<1>11. CASE MakeTemporary(w)
  <2>a. pc' \in [Workers -> Locations]
    BY <1>11, <1>a DEF MakeTemporary, Locations, Holding, Waiting, Removing
  <2>1. PrepTypeOK' /\ (opened \in Directory)'
    BY <1>11, <1>a, <2>a, PreparedAssumption, Kinds
      DEF MakeTemporary, PrepTypeOK, Holding, Waiting, Removing, Temporary, Sourced,
        Building, Moving, Renaming
  <2>2. AllSound'
    BY <1>11, <1>a, Kinds
      DEF MakeTemporary, AllSound, Sourced, Building, Moving, Renaming, Temporary,
        Removing
  <2>3. Guarded'
    BY <1>11, <1>a, PreparedAssumption
      DEF MakeTemporary, Guarded, Holding, Waiting, Removing
  <2>4. Room'
    BY <1>11, <1>a, Kinds
      DEF MakeTemporary, Room, Guarded, Renaming, Holding, Waiting, Removing
  <2>5. Made'
    BY <1>11, <1>a, Kinds DEF MakeTemporary, Made, Sourced, Building, Temporary
  <2>6. Sourced'
    BY <1>11, <1>a, Kinds
      DEF MakeTemporary, Made, Sourced, Moving, Renaming, Building, Temporary, Removing
  <2>b. \A x \in Workers : x # w /\ pc[x] \in Building => source[x] # <<w, attempt[w] + 1>>
    BY DEF Sourced
  <2>7. Written'
    BY <1>11, <1>a, Kinds, <2>b
      DEF MakeTemporary, Written, Sourced, Building, Removing, Temporary
  <2>8. Calm'
    BY <1>11, <1>a, Kinds, <2>b
      DEF MakeTemporary, Calm, Undisturbed, Written, Sourced, Room, Guarded, Building,
        Moving, Renaming, Holding, Waiting, Removing
  <2> QED
    BY <2>1, <2>2, <2>3, <2>4, <2>5, <2>6, <2>7, <2>8
<1>12. CASE Write(w)
  <2>a. pc' \in [Workers -> Locations]
    BY <1>12, <1>a DEF Write, Locations, Holding, Waiting, Removing
  <2>1. PrepTypeOK' /\ (opened \in Directory)'
    BY <1>12, <1>a, <2>a, PreparedAssumption, Kinds
      DEF Write, PrepTypeOK, Holding, Waiting, Removing, Temporary, Sourced, Building,
        Moving, Renaming
  <2>2. AllSound'
    BY <1>12, <1>a, Kinds
      DEF Write, AllSound, Sourced, Building, Moving, Renaming, Temporary, Removing
  <2>3. Guarded'
    BY <1>12, <1>a, PreparedAssumption DEF Write, Guarded, Holding, Waiting, Removing
  <2>4. Room'
    BY <1>12, <1>a, Kinds DEF Write, Room, Guarded, Renaming, Holding, Waiting, Removing
  <2>5. Made'
    BY <1>12, <1>a, Kinds DEF Write, Made, Sourced, Building, Temporary
  <2>6. Sourced'
    BY <1>12, <1>a, Kinds
      DEF Write, Made, Sourced, Moving, Renaming, Building, Temporary, Removing
  <2>7. Written'
    BY <1>12, <1>a, Kinds DEF Write, Written, Sourced, Building, Removing, Temporary
  <2>8. Calm'
    BY <1>12, <1>a, Kinds
      DEF Write, Calm, Undisturbed, Written, Sourced, Room, Guarded, Building, Moving,
        Renaming, Holding, Waiting, Removing
  <2> QED
    BY <2>1, <2>2, <2>3, <2>4, <2>5, <2>6, <2>7, <2>8
<1>13. CASE Prefer(w)
  <2>a. pc' \in [Workers -> Locations]
    BY <1>13, <1>a DEF Prefer, Release, Locations, Holding, Waiting, Removing
  <2>1. PrepTypeOK' /\ (opened \in Directory)'
    BY <1>13, <1>a, <2>a, PreparedAssumption, Kinds
      DEF Prefer, Release, PrepTypeOK, Holding, Waiting, Removing, Temporary, Sourced,
        Building, Moving, Renaming
  <2>2. AllSound'
    BY <1>13, <1>a, Kinds
      DEF Prefer, Release, AllSound, Sourced, Building, Moving, Renaming, Temporary,
        Removing
  <2>3. Guarded'
    BY <1>13, <1>a, PreparedAssumption
      DEF Prefer, Release, Guarded, Holding, Waiting, Removing
  <2>4. Room'
    BY <1>13, <1>a, Kinds
      DEF Prefer, Release, Room, Guarded, Renaming, Holding, Waiting, Removing
  <2>5. Made'
    BY <1>13, <1>a, Kinds DEF Prefer, Release, Made, Sourced, Building, Temporary
  <2>6. Sourced'
    BY <1>13, <1>a, Kinds
      DEF Prefer, Release, Made, Sourced, Moving, Renaming, Building, Temporary,
        Removing
  <2>7. Written'
    BY <1>13, <1>a, Kinds
      DEF Prefer, Release, Written, Sourced, Building, Removing, Temporary
  <2>8. Calm'
    BY <1>13, <1>a, Kinds
      DEF Prefer, Release, Calm, Undisturbed, Written, Sourced, Room, Guarded, Building,
        Moving, Renaming, Holding, Waiting, Removing
  <2> QED
    BY <2>1, <2>2, <2>3, <2>4, <2>5, <2>6, <2>7, <2>8
<1>14. CASE MakeRoom(w)
  <2>a. pc' \in [Workers -> Locations]
    BY <1>14, <1>a DEF MakeRoom, Locations, Holding, Waiting, Removing
  <2>1. PrepTypeOK' /\ (opened \in Directory)'
    BY <1>14, <1>a, <2>a, PreparedAssumption, Kinds
      DEF MakeRoom, PrepTypeOK, Holding, Waiting, Removing
  <2>2. AllSound' /\ Made'
    BY <1>14, <1>a DEF MakeRoom, AllSound, Made
  <2>3. Guarded' /\ Room'
    BY <1>14, <1>a, PreparedAssumption
      DEF MakeRoom, Guarded, Room, Renaming, Holding, Waiting, Removing
  <2>4. Sourced' /\ Written'
    BY <1>14, <1>a
      DEF MakeRoom, Sourced, Written, Building, Moving, Renaming, Holding, Waiting,
        Removing
  <2>5. Calm'
    BY <1>14, <1>a
      DEF MakeRoom, Calm, Undisturbed, Written, Room, Moving, Renaming, Holding,
        Waiting, Removing
  <2> QED
    BY <2>1, <2>2, <2>3, <2>4, <2>5
<1>15. CASE ReadDenied(w)
  <2>a. pc' \in [Workers -> Locations]
    BY <1>15, <1>a
      DEF ReadDenied, Release, Mishap, Locations, Holding, Waiting, Removing
  <2>1. PrepTypeOK' /\ (opened \in Directory)'
    BY <1>15, <1>a, <2>a, PreparedAssumption, Kinds
      DEF ReadDenied, Release, Mishap, PrepTypeOK, Holding, Waiting, Removing
  <2>2. AllSound' /\ Made'
    BY <1>15, <1>a DEF ReadDenied, Release, Mishap, AllSound, Made
  <2>3. Guarded' /\ Room'
    BY <1>15, <1>a, PreparedAssumption
      DEF ReadDenied, Release, Mishap, Guarded, Room, Renaming, Holding, Waiting,
        Removing
  <2>4. Sourced' /\ Written'
    BY <1>15, <1>a
      DEF ReadDenied, Release, Mishap, Sourced, Written, Building, Moving, Renaming,
        Holding, Waiting, Removing
  <2>5. Calm'
    BY <1>15, <1>a
      DEF ReadDenied, Release, Mishap, Calm, Undisturbed, Written, Room, Moving,
        Renaming, Holding, Waiting, Removing
  <2> QED
    BY <2>1, <2>2, <2>3, <2>4, <2>5
<1>16. CASE RemoveOld(w)
  <2>a. pc' \in [Workers -> Locations]
    BY <1>16, <1>a DEF RemoveOld, NextAfter, Locations, Holding, Waiting, Removing
  <2>1. PrepTypeOK' /\ (opened \in Directory)'
    BY <1>16, <1>a, <2>a, PreparedAssumption, Kinds
      DEF RemoveOld, NextAfter, PrepTypeOK, Holding, Waiting, Removing, Temporary,
        Sourced, Building, Moving, Renaming
  <2>2. AllSound'
    BY <1>16, <1>a, Kinds
      DEF RemoveOld, NextAfter, AllSound, Sourced, Building, Moving, Renaming,
        Temporary, Removing
  <2>3. Guarded'
    BY <1>16, <1>a, PreparedAssumption
      DEF RemoveOld, NextAfter, Guarded, Holding, Waiting, Removing
  <2>4. Room'
    BY <1>16, <1>a, Kinds
      DEF RemoveOld, NextAfter, Room, Guarded, Renaming, Holding, Waiting, Removing
  <2>5. Made'
    BY <1>16, <1>a, Kinds DEF RemoveOld, NextAfter, Made, Sourced, Building, Temporary
  <2>6. Sourced'
    BY <1>16, <1>a, Kinds
      DEF RemoveOld, NextAfter, Made, Sourced, Moving, Renaming, Building, Temporary,
        Removing
  <2>7. Written'
    BY <1>16, <1>a, Kinds
      DEF RemoveOld, NextAfter, Written, Sourced, Building, Removing, Temporary
  <2>8. Calm'
    BY <1>16, <1>a, Kinds
      DEF RemoveOld, NextAfter, Calm, Undisturbed, Written, Sourced, Room, Guarded,
        Building, Moving, Renaming, Holding, Waiting, Removing
  <2> QED
    BY <2>1, <2>2, <2>3, <2>4, <2>5, <2>6, <2>7, <2>8
<1>17. CASE RemovalFails(w)
  <2>a. pc' \in [Workers -> Locations]
    BY <1>17, <1>a
      DEF RemovalFails, Release, Mishap, Locations, Holding, Waiting, Removing
  <2>1. PrepTypeOK' /\ (opened \in Directory)'
    BY <1>17, <1>a, <2>a, PreparedAssumption, Kinds
      DEF RemovalFails, Release, Mishap, PrepTypeOK, Holding, Waiting, Removing
  <2>2. AllSound' /\ Made'
    BY <1>17, <1>a DEF RemovalFails, Release, Mishap, AllSound, Made
  <2>3. Guarded' /\ Room'
    BY <1>17, <1>a, PreparedAssumption
      DEF RemovalFails, Release, Mishap, Guarded, Room, Renaming, Holding, Waiting,
        Removing
  <2>4. Sourced' /\ Written'
    BY <1>17, <1>a
      DEF RemovalFails, Release, Mishap, Sourced, Written, Building, Moving, Renaming,
        Holding, Waiting, Removing
  <2>5. Calm'
    BY <1>17, <1>a
      DEF RemovalFails, Release, Mishap, Calm, Undisturbed, Written, Room, Moving,
        Renaming, Holding, Waiting, Removing
  <2> QED
    BY <2>1, <2>2, <2>3, <2>4, <2>5
<1>18. CASE Publish(w)
  <2>a. pc' \in [Workers -> Locations]
    BY <1>18, <1>a
      DEF Publish, Publishing, Release, Locations, Holding, Waiting, Removing
  <2>1. PrepTypeOK' /\ (opened \in Directory)'
    BY <1>18, <1>a, <2>a, PreparedAssumption, Kinds
      DEF Publish, Publishing, Release, PrepTypeOK, Holding, Waiting, Removing,
        Temporary, Sourced, Building, Moving, Renaming
  <2>2. AllSound'
    BY <1>18, <1>a, Kinds
      DEF Publish, Publishing, Release, AllSound, Sourced, Building, Moving, Renaming,
        Temporary, Removing
  <2>3. Guarded'
    BY <1>18, <1>a, PreparedAssumption
      DEF Publish, Publishing, Release, Guarded, Holding, Waiting, Removing
  <2>4. Room'
    BY <1>18, <1>a, Kinds
      DEF Publish, Publishing, Release, Room, Guarded, Renaming, Holding, Waiting,
        Removing
  <2>5. Made'
    BY <1>18, <1>a, Kinds
      DEF Publish, Publishing, Release, Made, Sourced, Building, Temporary
  <2>6. Sourced'
    BY <1>18, <1>a, Kinds
      DEF Publish, Publishing, Release, Made, Sourced, Moving, Renaming, Building,
        Temporary, Removing
  <2>7. Written'
    BY <1>18, <1>a, Kinds
      DEF Publish, Publishing, Release, Written, Sourced, Building, Removing, Temporary
  <2>8. Calm'
    BY <1>18, <1>a, Kinds
      DEF Publish, Publishing, Release, Calm, Undisturbed, Written, Sourced, Room,
        Guarded, Building, Moving, Renaming, Holding, Waiting, Removing
  <2> QED
    BY <2>1, <2>2, <2>3, <2>4, <2>5, <2>6, <2>7, <2>8
<1>19. CASE Occupied(w)
  <2>a. pc' \in [Workers -> Locations]
    BY <1>19, <1>a
      DEF Occupied, Publishing, Release, Locations, Holding, Waiting, Removing
  <2>1. PrepTypeOK' /\ (opened \in Directory)'
    BY <1>19, <1>a, <2>a, PreparedAssumption, Kinds
      DEF Occupied, Publishing, Release, PrepTypeOK, Holding, Waiting, Removing
  <2>2. AllSound' /\ Made'
    BY <1>19, <1>a DEF Occupied, Publishing, Release, AllSound, Made
  <2>3. Guarded' /\ Room'
    BY <1>19, <1>a, PreparedAssumption
      DEF Occupied, Publishing, Release, Guarded, Room, Renaming, Holding, Waiting,
        Removing
  <2>4. Sourced' /\ Written'
    BY <1>19, <1>a
      DEF Occupied, Publishing, Release, Sourced, Written, Building, Moving, Renaming,
        Holding, Waiting, Removing
  <2>5. Calm'
    BY <1>19, <1>a
      DEF Occupied, Publishing, Release, Calm, Undisturbed, Written, Room, Moving,
        Renaming, Holding, Waiting, Removing
  <2> QED
    BY <2>1, <2>2, <2>3, <2>4, <2>5
<1>20. CASE SourceGone(w)
  <2>a. pc' \in [Workers -> Locations]
    BY <1>20, <1>a
      DEF SourceGone, Publishing, Release, Locations, Holding, Waiting, Removing
  <2>1. PrepTypeOK' /\ (opened \in Directory)'
    BY <1>20, <1>a, <2>a, PreparedAssumption, Kinds
      DEF SourceGone, Publishing, Release, PrepTypeOK, Holding, Waiting, Removing
  <2>2. AllSound' /\ Made'
    BY <1>20, <1>a DEF SourceGone, Publishing, Release, AllSound, Made
  <2>3. Guarded' /\ Room'
    BY <1>20, <1>a, PreparedAssumption
      DEF SourceGone, Publishing, Release, Guarded, Room, Renaming, Holding, Waiting,
        Removing
  <2>4. Sourced' /\ Written'
    BY <1>20, <1>a
      DEF SourceGone, Publishing, Release, Sourced, Written, Building, Moving, Renaming,
        Holding, Waiting, Removing
  <2>5. Calm'
    BY <1>20, <1>a
      DEF SourceGone, Publishing, Release, Calm, Undisturbed, Written, Room, Moving,
        Renaming, Holding, Waiting, Removing
  <2> QED
    BY <2>1, <2>2, <2>3, <2>4, <2>5
<1>21. CASE Denied(w)
  <2>a. pc' \in [Workers -> Locations]
    BY <1>21, <1>a DEF Denied, Publishing, Locations, Holding, Waiting, Removing
  <2>1. PrepTypeOK' /\ (opened \in Directory)'
    BY <1>21, <1>a, <2>a, PreparedAssumption, Kinds
      DEF Denied, Publishing, PrepTypeOK, Holding, Waiting, Removing
  <2>2. AllSound' /\ Made'
    BY <1>21, <1>a DEF Denied, Publishing, AllSound, Made
  <2>3. Guarded' /\ Room'
    BY <1>21, <1>a, PreparedAssumption
      DEF Denied, Publishing, Guarded, Room, Renaming, Holding, Waiting, Removing
  <2>4. Sourced' /\ Written'
    BY <1>21, <1>a
      DEF Denied, Publishing, Sourced, Written, Building, Moving, Renaming, Holding,
        Waiting, Removing
  <2>5. Calm'
    BY <1>21, <1>a
      DEF Denied, Publishing, Calm, Undisturbed, Written, Room, Moving, Renaming,
        Holding, Waiting, Removing
  <2> QED
    BY <2>1, <2>2, <2>3, <2>4, <2>5
<1>22. CASE PublishCopy(w)
  <2>a. pc' \in [Workers -> Locations]
    BY <1>22, <1>a DEF PublishCopy, Release, Locations, Holding, Waiting, Removing
  <2>1. PrepTypeOK' /\ (opened \in Directory)'
    BY <1>22, <1>a, <2>a, PreparedAssumption, Kinds
      DEF PublishCopy, Release, PrepTypeOK, Holding, Waiting, Removing, Temporary,
        Sourced, Building, Moving, Renaming
  <2>2. AllSound'
    BY <1>22, <1>a, Kinds
      DEF PublishCopy, Release, AllSound, Sourced, Building, Moving, Renaming,
        Temporary, Removing
  <2>3. Guarded'
    BY <1>22, <1>a, PreparedAssumption
      DEF PublishCopy, Release, Guarded, Holding, Waiting, Removing
  <2>4. Room'
    BY <1>22, <1>a, Kinds
      DEF PublishCopy, Release, Room, Guarded, Renaming, Holding, Waiting, Removing
  <2>5. Made'
    BY <1>22, <1>a, Kinds DEF PublishCopy, Release, Made, Sourced, Building, Temporary
  <2>6. Sourced'
    BY <1>22, <1>a, Kinds
      DEF PublishCopy, Release, Made, Sourced, Moving, Renaming, Building, Temporary,
        Removing
  <2>7. Written'
    BY <1>22, <1>a, Kinds
      DEF PublishCopy, Release, Written, Sourced, Building, Removing, Temporary
  <2>8. Calm'
    BY <1>22, <1>a, Kinds
      DEF PublishCopy, Release, Calm, Undisturbed, Written, Sourced, Room, Guarded,
        Building, Moving, Renaming, Holding, Waiting, Removing
  <2> QED
    BY <2>1, <2>2, <2>3, <2>4, <2>5, <2>6, <2>7, <2>8
<1>23. CASE Discard(w)
  <2>a. pc' \in [Workers -> Locations]
    BY <1>23, <1>a DEF Discard, Locations, Holding, Waiting, Removing
  <2>1. PrepTypeOK' /\ (opened \in Directory)'
    BY <1>23, <1>a, <2>a, PreparedAssumption, Kinds
      DEF Discard, PrepTypeOK, Holding, Waiting, Removing
  <2>2. AllSound' /\ Made'
    BY <1>23, <1>a DEF Discard, AllSound, Made
  <2>3. Guarded' /\ Room'
    BY <1>23, <1>a, PreparedAssumption
      DEF Discard, Guarded, Room, Renaming, Holding, Waiting, Removing
  <2>4. Sourced' /\ Written'
    BY <1>23, <1>a
      DEF Discard, Sourced, Written, Building, Moving, Renaming, Holding, Waiting,
        Removing
  <2>5. Calm'
    BY <1>23, <1>a
      DEF Discard, Calm, Undisturbed, Written, Room, Moving, Renaming, Holding, Waiting,
        Removing
  <2> QED
    BY <2>1, <2>2, <2>3, <2>4, <2>5
<1>24. CASE RemoveOwn(w)
  <2>a. pc' \in [Workers -> Locations]
    BY <1>24, <1>a DEF RemoveOwn, Locations, Holding, Waiting, Removing
  <2>c. temps' \in [Temporary -> Directory] /\ dest' \in Directory
    BY <1>24, <1>a, Kinds DEF RemoveOwn, Sourced, Building
  <2>1. PrepTypeOK' /\ (opened \in Directory)'
    BY <1>24, <1>a, <2>a, <2>c DEF RemoveOwn, PrepTypeOK
  <2>2. AllSound'
    BY <1>24, <1>a, Kinds
      DEF RemoveOwn, AllSound, Sourced, Building, Moving, Renaming, Temporary, Removing
  <2>3. Guarded'
    BY <1>24, <1>a, PreparedAssumption
      DEF RemoveOwn, Guarded, Holding, Waiting, Removing
  <2>4. Room'
    BY <1>24, <1>a, Kinds
      DEF RemoveOwn, Room, Guarded, Renaming, Holding, Waiting, Removing
  <2>5. Made'
    BY <1>24, <1>a, Kinds DEF RemoveOwn, Made, Sourced, Building, Temporary
  <2>6. Sourced'
    BY <1>24, <1>a, Kinds
      DEF RemoveOwn, Made, Sourced, Moving, Renaming, Building, Temporary, Removing
  <2>7. Written'
    BY <1>24, <1>a, Kinds DEF RemoveOwn, Written, Sourced, Building, Removing, Temporary
  <2>8. Calm'
    BY <1>24, <1>a, Kinds
      DEF RemoveOwn, Calm, Undisturbed, Written, Sourced, Room, Guarded, Building,
        Moving, Renaming, Holding, Waiting, Removing
  <2> QED
    BY <2>1, <2>2, <2>3, <2>4, <2>5, <2>6, <2>7, <2>8
<1>25. CASE Kill(w)
  <2>a. pc' \in [Workers -> Locations]
    BY <1>25, <1>a DEF Kill, Locations, Holding, Waiting, Removing
  <2>1. PrepTypeOK' /\ (opened \in Directory)'
    BY <1>25, <1>a, <2>a, PreparedAssumption, Kinds
      DEF Kill, PrepTypeOK, Holding, Waiting, Removing
  <2>2. AllSound' /\ Made'
    BY <1>25, <1>a DEF Kill, AllSound, Made
  <2>3. Guarded' /\ Room'
    BY <1>25, <1>a, PreparedAssumption
      DEF Kill, Guarded, Room, Renaming, Holding, Waiting, Removing
  <2>4. Sourced' /\ Written'
    BY <1>25, <1>a
      DEF Kill, Sourced, Written, Building, Moving, Renaming, Holding, Waiting, Removing
  <2>5. Calm'
    BY <1>25, <1>a
      DEF Kill, Calm, Undisturbed, Written, Room, Moving, Renaming, Holding, Waiting,
        Removing
  <2> QED
    BY <2>1, <2>2, <2>3, <2>4, <2>5
<1> QED
  BY <1>1, <1>2, <1>3, <1>4, <1>5, <1>6, <1>7, <1>8, <1>9, <1>10, <1>11, <1>12, <1>13,
    <1>14, <1>15, <1>16, <1>17, <1>18, <1>19, <1>20, <1>21, <1>22, <1>23, <1>24, <1>25
    DEF PrepareStep

\* Nothing has been made at the start.
LEMMA PrepStarts == Init => PrepInv
<1> SUFFICES ASSUME Init PROVE PrepInv
  OBVIOUS
<1> USE DEF Init, PrepInit
<1>1. PrepTypeOK /\ opened \in Directory
  <2>1. pc \in [Workers -> Locations]
    BY DEF Locations
  <2>2. source \in [Workers -> Workers \X (0..MaxAttempts)]
    BY PreparedAssumption
  <2>3. stolen \in BOOLEAN
    OBVIOUS
  <2> QED
    BY <2>1, <2>2, <2>3, PreparedAssumption, Kinds DEF PrepTypeOK
<1>2. AllSound /\ Made
  BY Kinds DEF AllSound, Made
<1>3. Guarded /\ Room
  BY DEF Guarded, Holding, Removing, Room, Renaming
<1>4. Sourced /\ Written /\ Calm
  BY DEF Sourced, Building, Moving, Renaming, Removing, Written, Calm
<1> QED
  BY <1>1, <1>2, <1>3, <1>4 DEF PrepInv

\* The trainer opens what is published; training touches no directory; and a
\* worker that starts again starts outside the lock.
LEMMA PrepKept == PrepInv /\ [Next]_vars => PrepInv'
<1> SUFFICES ASSUME PrepInv, [Next]_vars PROVE PrepInv'
  OBVIOUS
<1>a. Trainer \in Workers /\ Absent \in Directory /\ Sound(Absent)
  BY TrainerAssumption, Kinds
<1>1. CASE PrepareData
  BY <1>1, PrepareKeeps DEF PrepareData
<1>2. CASE UNCHANGED prepVars /\ (opened' = opened \/ opened' = dest)
  <2> USE <1>2 DEF prepVars, dirs, lock, PrepInv
  <2>1. PrepTypeOK' /\ (opened \in Directory)'
    BY DEF PrepTypeOK
  <2>2. AllSound' /\ Made'
    BY DEF AllSound, Made
  <2>3. Guarded' /\ Room' /\ Sourced'
    BY DEF Guarded, Room, Sourced
  <2>4. Written' /\ Calm'
    BY DEF Written, Calm, Undisturbed
  <2> QED
    BY <2>1, <2>2, <2>3, <2>4
<1>3. CASE /\ UNCHANGED <<dirs, lock, attempt, source, mishaps, kills>>
           /\ Goto(Trainer, "idle") \/ Goto(Trainer, "failed")
           /\ opened' = opened \/ opened' = Absent
  <2> USE <1>3, <1>a DEF PrepInv, Goto, dirs, lock
  <2>a. pc \in [Workers -> Locations]
    BY DEF PrepTypeOK
  <2>1. PrepTypeOK' /\ (opened \in Directory)'
    BY DEF PrepTypeOK, Locations
  <2>2. AllSound' /\ Made'
    BY DEF AllSound, Made
  <2>3. Guarded' /\ Room' /\ Sourced'
    BY <2>a DEF Guarded, Holding, Removing, Room, Sourced, Building, Moving, Renaming
  <2>4. Written' /\ Calm'
    BY <2>a DEF Written, Calm, Undisturbed, Moving, Renaming, Removing
  <2> QED
    BY <2>1, <2>2, <2>3, <2>4
<1>4. CASE StartTraining
  BY <1>2, <1>4 DEF StartTraining
<1>5. CASE OpenFails
  BY <1>3, <1>5 DEF OpenFails
<1>6. CASE TrainAStep
  BY <1>2, <1>6 DEF TrainAStep
<1>7. CASE Disturb
  BY <1>2, <1>7 DEF Disturb
<1>8. CASE Relaunch
  BY <1>3, <1>8 DEF Relaunch
<1>9. CASE Done \/ UNCHANGED vars
  BY <1>2, <1>9 DEF Done, vars
<1> QED
  BY <1>1, <1>4, <1>5, <1>6, <1>7, <1>8, <1>9 DEF Next

\* The invariant of the cache holds in every behaviour.
LEMMA PrepAlways == Spec => []PrepInv
BY PrepStarts, PrepKept, PTL DEF Spec

----------------------------------------------------------------------------
(* The theorems.                                                            *)

\* The trainer opens nothing that does not load.
Whole == opened = Absent \/ Loads(opened)

\* Whatever rows the data has and whoever built, recovered or copied the
\* tensors: a run that has opened them trains on complete and chronological
\* splits whose windows lie inside the data.
THEOREM RunsDoNotLookAhead == Spec => []NoLookahead
<1>1. Init => Whole
  BY DEF Init, Whole
<1>2. Whole /\ [Next]_vars => Whole'
  BY DEF Whole, Next, PrepareData, StartTraining, OpenFails, TrainAStep, Disturb,
    Relaunch, Done, vars
<1>3. PrepInv /\ Whole => NoLookahead
  <2> SUFFICES ASSUME PrepInv, Loads(opened) PROVE NoLookahead
    BY DEF NoLookahead, Whole
  <2>1. opened.rows \in Nat /\ Usable(opened.rows)
    BY DEF PrepInv, AllSound, Sound
  <2>2. Chronological(opened.rows) /\ WindowsInside(opened.rows)
    BY <2>1, SplitsAreChronological, WindowsStayInside
  <2> QED
    BY <2>1, <2>2 DEF NoLookahead
<1> QED
  BY <1>1, <1>2, <1>3, PrepAlways, PTL DEF Spec

\* A worker that returns finds its directory complete, whoever built it and
\* however many were killed, until a waiter unlinks the lock of a live worker or
\* a wait, a read or a removal fails for good.
THEOREM ReadyFindsComplete == Spec => []ReadyIsComplete
<1>1. PrepInv => ReadyIsComplete
  BY DEF PrepInv, Calm, ReadyIsComplete
<1> QED
  BY <1>1, PrepAlways, PTL

\* Until then nobody replaces, removes or touches a complete directory under its
\* published name.
THEOREM PublishedStays == Spec => PublishedIsImmutable
<1>1. PrepInv /\ [Next]_vars => [Undisturbed /\ Loads(dest) => dest' = dest]_dest
  <2> SUFFICES ASSUME PrepInv, [Next]_vars, Undisturbed, Loads(dest) PROVE dest' = dest
    OBVIOUS
  <2>1. ASSUME NEW w \in Workers, PrepareStep(w) PROVE dest' = dest
    BY <2>1, Kinds DEF
      PrepInv, Calm, Undisturbed, Room, Renaming, Removing, PrepareStep, Prepare,
      Acquire, FindStale, Unlink, GiveUp, Reuse, NotReusable, Recover, NothingToReuse,
      CandidateGone, MakeTemporary, Write, Prefer, MakeRoom, ReadDenied, RemoveOld,
      RemovalFails, Publish, Occupied, SourceGone, Denied, PublishCopy, Discard,
      RemoveOwn, Kill, Publishing, Release, Mishap, dirs
  <2> QED
    BY <2>1 DEF Next, PrepareData, StartTraining, OpenFails, TrainAStep, Disturb,
      Relaunch, Done, vars, prepVars, dirs
<1> QED
  BY <1>1, PrepAlways, PTL DEF Spec, PublishedIsImmutable

----------------------------------------------------------------------------
(* The training of the run: TrainInv of part 2 holds in it, and the      *)
(* rest of a worker does not touch it.                                      *)

\* Nothing but the steps of the training changes the training.
LEMMA TrainAlways == Spec => []TrainInv
<1>1. Init => TrainInv
  BY TrainingStarts DEF Init
<1>2. TrainInv /\ [Next]_vars => TrainInv'
  <2>1. [Next]_vars => Launch \/ TrainStep \/ Signal \/ Die \/ UNCHANGED trainVars
    BY DEF Next, PrepareData, StartTraining, OpenFails, TrainAStep, Disturb, Relaunch,
      Done, vars, trainVars
  <2> QED
    BY <2>1, TrainingKeeps
<1> QED
  BY <1>1, <1>2, PTL DEF Spec

\* Every variable of a worker keeps to its values.
THEOREM WorkerTyped == Spec => []TypeOK
<1>1. PrepInv /\ TrainInv => TypeOK
  BY DEF PrepInv, TrainInv, TypeOK
<1> QED
  BY <1>1, PrepAlways, TrainAlways, PTL

\* For every schedule, every outcome of the validations and every sequence of
\* stops, kills and restarts: as long as no restart fell behind a validation,
\* best_hybrid.pt is of the highest score that was recorded.
THEOREM BestStaysHighest == Spec => []BestIsHighest
BY TrainAlways, TrainingPromises, PTL

\* Every file of a run holds as many steps of a module as the schedule trains it
\* up to the step of the file, or, restored, at most as many.
THEOREM ScheduleIsKept == Spec => []WeightsFollowSchedule
BY TrainAlways, TrainingPromises, PTL

\* A run that completes has its four files, and best.pt is the one of its metric.
THEOREM CompletedRunsHaveFiles == Spec => []CompletedFiles
BY TrainAlways, TrainingPromises, PTL
=============================================================================
