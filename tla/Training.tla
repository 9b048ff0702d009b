------------------------------- MODULE Training -------------------------------
(***************************************************************************)
(* One training run in its run directory: train_markethybrid, with         *)
(* train_marketlm as the instance of one stage, no early stopping and the  *)
(* metric "total".  The process can be stopped by a signal, fail, or be    *)
(* killed between any two of its writes; launched again on the same        *)
(* directory it continues from the latest checkpoint.                      *)
(*                                                                         *)
(* The model is abstracted to how many steps trained each of its modules,  *)
(* a validation to its total loss and its hybrid score, drawn from small   *)
(* sets.  Every save is atomic (a temporary file and os.replace).          *)
(***************************************************************************)
EXTENDS Integers, Sequences, FiniteSets

CONSTANTS
  Stages,              \* sequence of [end, modules, patience]; patience 0:
                       \* no early stopping in that stage
  ValidationInterval,
  CheckpointInterval,
  Losses, Scores,      \* what a validation may measure
  MinimumDelta,
  Metric,              \* checkpoint_selection.metric
  MaxLaunches,         \* bound: processes started on the run directory
  NoFile

MaxSteps  == Stages[Len(Stages)].end
StageIds  == 1..Len(Stages)
Modules   == UNION {Stages[k].modules : k \in StageIds}
NoScore   == 0 - MinimumDelta - 1    \* -inf
NoLoss    == 1000                    \* inf

\* validate_hybrid_training, and what one stage must contain.
ASSUME ScheduleAssumption ==
  /\ Len(Stages) \in Nat \ {0}
  /\ \A k \in StageIds : /\ Stages[k].end \in Nat \ {0}
                         /\ Stages[k].modules # {}
                         /\ Stages[k].patience \in Nat
  /\ \A k, l \in StageIds : k < l => Stages[k].end < Stages[l].end

ASSUME TrainingAssumption ==
  /\ ValidationInterval \in Nat \ {0} /\ CheckpointInterval \in Nat \ {0}
  /\ MinimumDelta \in Nat
  /\ Scores \subseteq Nat /\ Losses \subseteq 0..(NoLoss - 1)
  /\ Metric \in {"hybrid_score", "total"}
  /\ MaxLaunches \in Nat

VARIABLES
  phase,      \* where the process is, or how it ended
  start,      \* start_step: where this process took over
  step,       \* completed_step
  stage,      \* stage_index, counted from 1
  weights,    \* steps that have trained each module
  moments,    \* modules whose optimizer state is kept
  best,       \* [loss, score]: best_loss and best_hybrid
  measured,   \* the last validation: [loss, score]
  patience,   \* [best, misses]: stage_best_score, stage_no_improvement
  early,      \* early_stopped
  stop,       \* _STOP_REQUESTED
  files,      \* best_loss.pt, best_hybrid.pt, best.pt and final.pt
  saved,      \* checkpoint_step_*.pt, by step
  launches,   \* processes started
  top,        \* history: the best that metrics.jsonl has recorded
  lost,       \* history: in what a restart fell behind a recorded validation
  restored    \* history: the weights in memory went back to best_hybrid.pt

memory    == <<start, step, stage, weights, moments, best, measured, patience, early, restored>>
history   == <<top, lost>>
trainVars == <<phase, memory, stop, files, saved, launches, history>>

FileName == {"best_loss", "best_hybrid", "best", "final"}

Working == {"loop", "train", "validate", "hybrid", "select", "judge",
            "checkpoint", "finish", "fill"}
Ended   == {"completed", "stopped", "failed"}

----------------------------------------------------------------------------
(* The schedule.                                                            *)

\* _stage_for_step: the first stage that ends later; the ends increase, so it
\* follows the stages that have ended, and past the end it is the last one.
StageForStep(n) ==
  LET past == Cardinality({k \in StageIds : Stages[k].end <= n})
  IN  IF past < Len(Stages) THEN past + 1 ELSE Len(Stages)

\* _configure_trainable_modules
Trainable(k) == Stages[k].modules

\* _build_optimizer: the state of the modules that stay trainable.
KeptMoments(k) == moments \cap Trainable(k)

\* _validate
Measurements == [loss : Losses, score : Scores]

\* Steps before n whose stage trains module m.
Scheduled(m, n) == Cardinality({i \in 0..(n - 1) : m \in Trainable(StageForStep(i))})

----------------------------------------------------------------------------
(* Checkpoints.                                                             *)

Payload(b) ==
  [step |-> step, stage |-> stage, weights |-> weights, moments |-> moments,
   best |-> b, restored |-> restored]

SavedSteps == {n \in 1..MaxSteps : saved[n] # NoFile}

\* _latest_checkpoint: final.pt is sorted behind every checkpoint_step_*.pt
LatestCheckpoint ==
  IF files["final"] # NoFile THEN files["final"]
  ELSE IF SavedSteps = {} THEN NoFile
  ELSE saved[CHOOSE n \in SavedSteps : \A m \in SavedSteps : m <= n]

Save(name, b) == files' = [files EXCEPT ![name] = Payload(b)]

\* Mutant: the checkpoint is named after the step that comes next.
SaveAsNextStep == saved' = [saved EXCEPT ![step + 1] = Payload(best)]

SaveStep      == saved' = [saved EXCEPT ![step] = Payload(best)]

NoBest == [loss |-> NoLoss, score |-> NoScore]

\* What a restart would know of the validations, and what it would not.
Known  == IF LatestCheckpoint = NoFile THEN NoBest ELSE LatestCheckpoint.best
Behind == {k \in {"loss", "score"} : Known[k] # top[k]}

----------------------------------------------------------------------------
Fresh  == [best |-> NoScore, misses |-> 0]

Untrained == [m \in Modules |-> 0]

TrainInit ==
  /\ phase = "off" /\ stop = FALSE /\ launches = 0
  /\ start = 0 /\ step = 0 /\ stage = 1
  /\ weights = Untrained /\ moments = {} /\ restored = FALSE
  /\ best = NoBest /\ measured = NoBest /\ patience = Fresh /\ early = FALSE
  /\ files = [f \in FileName |-> NoFile]
  /\ saved = [n \in 1..MaxSteps |-> NoFile]
  /\ top = NoBest /\ lost = {}

\* The process is gone, and its memory with it.
Forget ==
  /\ start' = 0 /\ step' = 0 /\ stage' = 1
  /\ weights' = Untrained /\ moments' = {} /\ restored' = FALSE
  /\ best' = NoBest /\ measured' = NoBest /\ patience' = Fresh /\ early' = FALSE

\* Setup, and the resume of resume = "auto".  The optimizer state is taken over
\* only when the checkpoint was written in the stage that is entered.
Launch ==
  LET last  == LatestCheckpoint
      from  == IF last = NoFile THEN 0 ELSE last.step
      entry == StageForStep(IF from < MaxSteps THEN from ELSE MaxSteps - 1)
  IN
  /\ phase \in {"off"} \cup Ended
  /\ launches < MaxLaunches
  /\ launches' = launches + 1
  /\ start' = from /\ step' = from
  /\ stage' = entry
  /\ IF last = NoFile
       THEN /\ weights' = Untrained /\ moments' = {}
            /\ best' = NoBest /\ restored' = FALSE
       ELSE /\ weights' = last.weights /\ best' = last.best
            /\ restored' = last.restored
            /\ moments' = IF last.stage = entry THEN last.moments ELSE {}
  /\ patience' = Fresh /\ measured' = NoBest /\ early' = FALSE /\ stop' = FALSE
  /\ phase' = "loop"
  /\ UNCHANGED <<files, saved, history>>

\* The signal handler only sets a flag; the loop reads it before each step.
Signal ==
  /\ phase \in Working /\ ~stop
  /\ stop' = TRUE
  /\ UNCHANGED <<phase, memory, files, saved, launches, history>>

\* Mutant: the stage stays the one the process started in.
NextStepOfStage ==
  /\ phase = "loop" /\ step < MaxSteps /\ ~stop
  /\ phase' = "train"
  /\ UNCHANGED <<start, step, stage, weights, moments, best, measured, patience,
                 early, restored, stop, files, saved, launches, history>>

\* The head of the loop.  A new stage changes what is trainable and keeps the
\* optimizer state of the modules that still are.
NextStep ==
  LET next == StageForStep(step) IN
  /\ phase = "loop" /\ step < MaxSteps /\ ~stop
  /\ stage' = next
  /\ IF next = stage
       THEN UNCHANGED <<moments, patience>>
       ELSE /\ moments' = KeptMoments(next)
            /\ patience' = Fresh
  /\ phase' = "train"
  /\ UNCHANGED <<start, step, weights, best, measured, early, restored, stop,
                 files, saved, launches, history>>

\* One optimizer step on the modules that are not frozen.
Train ==
  /\ phase = "train"
  /\ weights' = [m \in Modules |->
                   weights[m] + IF m \in Trainable(stage) THEN 1 ELSE 0]
  /\ moments' = moments \cup Trainable(stage)
  /\ step' = step + 1
  /\ phase' = IF (step + 1) % ValidationInterval = 0 THEN "validate" ELSE "checkpoint"
  /\ UNCHANGED <<start, stage, best, measured, patience, early, restored, stop,
                 files, saved, launches, history>>

\* A validation is recorded in metrics.jsonl; the best loss is saved.
Validate ==
  /\ phase = "validate"
  /\ \E m \in Measurements :
       /\ measured' = m
       /\ top' = [loss  |-> IF m.loss < top.loss THEN m.loss ELSE top.loss,
                   score |-> IF m.score > top.score THEN m.score ELSE top.score]
       /\ IF m.loss < best.loss
            THEN /\ best' = [best EXCEPT !.loss = m.loss]
                 /\ Save("best_loss", best')
                 /\ phase' = IF Metric = "total" THEN "select" ELSE "hybrid"
            ELSE UNCHANGED <<best, files>> /\ phase' = "hybrid"
  /\ UNCHANGED <<start, step, stage, weights, moments, patience, early, restored,
                 stop, saved, launches, lost>>

\* Mutant: the score is compared with the best of the stage.
SaveBestOfStage ==
  /\ phase = "hybrid"
  /\ IF measured.score > patience.best
       THEN /\ best' = [best EXCEPT !.score = measured.score]
            /\ Save("best_hybrid", best')
            /\ phase' = IF Metric = "hybrid_score" THEN "select" ELSE "judge"
       ELSE UNCHANGED <<best, files>> /\ phase' = "judge"
  /\ UNCHANGED <<start, step, stage, weights, moments, measured, patience, early,
                 restored, stop, saved, launches, history>>

SaveBestHybrid ==
  /\ phase = "hybrid"
  /\ IF measured.score > best.score
       THEN /\ best' = [best EXCEPT !.score = measured.score]
            /\ Save("best_hybrid", best')
            /\ phase' = IF Metric = "hybrid_score" THEN "select" ELSE "judge"
       ELSE UNCHANGED <<best, files>> /\ phase' = "judge"
  /\ UNCHANGED <<start, step, stage, weights, moments, measured, patience, early,
                 restored, stop, saved, launches, history>>

\* The same payload again, as best.pt.
SelectBest ==
  /\ phase = "select"
  /\ Save("best", best)
  /\ phase' = IF Metric = "total" THEN "hybrid" ELSE "judge"
  /\ UNCHANGED <<memory, stop, saved, launches, history>>

\* Early stopping ends the whole training, and skips the periodic checkpoint.
Judge ==
  LET better == measured.score > patience.best + MinimumDelta
      misses == IF better THEN 0 ELSE patience.misses + 1
      enough == Stages[stage].patience > 0 /\ misses >= Stages[stage].patience
  IN
  /\ phase = "judge"
  /\ patience' = [best   |-> IF better THEN measured.score ELSE patience.best,
                  misses |-> misses]
  /\ early' = enough
  /\ measured' = NoBest
  /\ phase' = IF enough THEN "finish" ELSE "checkpoint"
  /\ UNCHANGED <<start, step, stage, weights, moments, best, restored,
                 stop, files, saved, launches, history>>

Checkpoint ==
  /\ phase = "checkpoint"
  /\ IF step % CheckpointInterval = 0 THEN SaveStep ELSE UNCHANGED saved
  /\ phase' = "loop"
  /\ UNCHANGED <<memory, stop, files, launches, history>>

\* KeyboardInterrupt: a checkpoint, if this process has completed a step.
Interrupt ==
  /\ phase = "loop" /\ step < MaxSteps /\ stop
  /\ IF step > start THEN SaveStep ELSE UNCHANGED saved
  /\ phase' = "stopped" /\ stop' = FALSE
  /\ Forget
  /\ UNCHANGED <<files, launches, top>>
  /\ lost' = lost \cup Behind'

\* Mutant: early stopping keeps the model it ends with.
FinishWithLast ==
  /\ phase = "finish" \/ (phase = "loop" /\ step = MaxSteps)
  /\ files' = [files EXCEPT !["final"] = Payload(best)]
  /\ phase' = "fill"
  /\ UNCHANGED <<memory, stop, saved, launches, history>>

\* After the loop: restore_best, then final.pt.
Finish ==
  LET back == early /\ files["best_hybrid"] # NoFile IN
  /\ phase = "finish" \/ (phase = "loop" /\ step = MaxSteps)
  /\ weights' = IF back THEN files["best_hybrid"].weights ELSE weights
  /\ restored' = (restored \/ weights' # weights)
  /\ phase' = "fill"
  /\ UNCHANGED <<start, step, stage, moments, best, measured, patience, early,
                 stop, saved, launches, history>>
  /\ files' = [files EXCEPT !["final"] = Payload(best)']

\* Whatever no validation has written is written from the final model.
Fill ==
  LET loss   == IF files["best_loss"] = NoFile THEN Payload(best) ELSE files["best_loss"]
      hybrid == IF files["best_hybrid"] = NoFile THEN Payload(best) ELSE files["best_hybrid"]
      chosen == IF Metric = "hybrid_score" THEN hybrid ELSE loss
  IN
  /\ phase = "fill"
  /\ files' = [files EXCEPT !["best_loss"] = loss, !["best_hybrid"] = hybrid,
                            !["best"] = IF @ = NoFile THEN chosen ELSE @]
  /\ phase' = "completed"
  /\ UNCHANGED <<memory, stop, saved, launches, history>>

\* A kill, CUDA out of memory or a non-finite gradient: nothing is saved.
Die ==
  /\ phase \in Working
  /\ phase' = "failed" /\ stop' = FALSE
  /\ Forget
  /\ lost' = lost \cup Behind
  /\ UNCHANGED <<files, saved, launches, top>>

TrainStep ==
  \/ NextStep \/ Train \/ Validate \/ SaveBestHybrid \/ SelectBest \/ Judge
  \/ Checkpoint \/ Interrupt \/ Finish \/ Fill

----------------------------------------------------------------------------
Files == [step : 0..MaxSteps, stage : StageIds, weights : [Modules -> Nat],
          moments : SUBSET Modules, restored : BOOLEAN,
          best : [loss : Losses \cup {NoLoss}, score : Scores \cup {NoScore}]]

ASSUME NoFileAssumption == NoFile \notin Files

TrainTypeOK ==
  /\ phase \in {"off"} \cup Working \cup Ended
  /\ start \in 0..MaxSteps /\ step \in start..MaxSteps /\ stage \in StageIds
  /\ weights \in [Modules -> Nat] /\ moments \subseteq Modules
  /\ best \in [loss : Losses \cup {NoLoss}, score : Scores \cup {NoScore}]
  /\ patience \in [best : Scores \cup {NoScore}, misses : Nat]
  /\ early \in BOOLEAN /\ stop \in BOOLEAN
  /\ files \in [FileName -> Files \cup {NoFile}]
  /\ saved \in [1..MaxSteps -> Files \cup {NoFile}]
  /\ \A n \in SavedSteps : saved[n].step = n
  /\ launches \in 0..MaxLaunches
  /\ top \in [loss : Losses \cup {NoLoss}, score : Scores \cup {NoScore}]
  /\ lost \subseteq {"loss", "score"} /\ restored \in BOOLEAN

----------------------------------------------------------------------------
(* What the run directory promises.                                         *)

\* The score of the model in best_hybrid.pt.
KeptScore ==
  IF files["best_hybrid"] = NoFile THEN NoScore ELSE files["best_hybrid"].best.score

\* "best_hybrid.pt: highest transparent hybrid validation score"
\* (docs/MARKETHYBRID_STAGED_TRAINING.md): the file is never worse than the
\* best the process knows, and it is the highest score ever recorded as long
\* as no restart fell behind a recorded validation.
BestIsHighest ==
  /\ KeptScore >= best.score
  /\ "score" \notin lost /\ phase \notin {"select", "hybrid"} => KeptScore = top.score

\* A module has been trained by exactly the steps the schedule gives it, in
\* memory and in every file, across stage changes, stops and resumes; a run
\* that went back to its best model has skipped some, and never repeats one,
\* unless a restart fell behind that model.
OnSchedule(p) ==
  \A m \in Modules :
    IF p.restored THEN "score" \notin lost => p.weights[m] <= Scheduled(m, p.step)
                  ELSE p.weights[m] = Scheduled(m, p.step)

WeightsFollowSchedule ==
  /\ OnSchedule(Payload(best))
  /\ \A f \in FileName : files[f] # NoFile => OnSchedule(files[f])
  /\ \A n \in SavedSteps : OnSchedule(saved[n])

\* A completed run has all four models; after early stopping final.pt is the
\* restored best-hybrid model, otherwise the model of the last step; and
\* best.pt is the configured winner, as long as no restart fell behind it.
CompletedFiles ==
  phase = "completed" =>
    /\ \A f \in FileName : files[f] # NoFile
    /\ IF early THEN files["final"].weights = files["best_hybrid"].weights
                ELSE files["final"].step = MaxSteps
    /\ IF Metric = "hybrid_score"
         THEN "score" \notin lost => files["best"].weights = files["best_hybrid"].weights
         ELSE "loss" \notin lost => files["best"].weights = files["best_loss"].weights
=============================================================================
