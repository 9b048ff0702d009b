------------------------------ MODULE WorkerRun ------------------------------
(***************************************************************************)
(* run_worker of markethybrid/worker.py and marketlm/worker.py: a process  *)
(* prepares the data and then trains on what the preparation returned,     *)
(* while another worker prepares the same fingerprint.  The process can    *)
(* end at any point; resume-markethybrid-run.sh starts it again on the     *)
(* same run directory, from the preparation on.                            *)
(***************************************************************************)
EXTENDS PreparedCache, Training

CONSTANT Trainer    \* the worker that trains; the others only prepare

ASSUME TrainerAssumption == Trainer \in Workers

VARIABLE opened     \* the directory whose tensors the trainer has mapped

vars == <<prepVars, trainVars, opened>>

Init ==
  /\ PrepInit
  /\ TrainInit
  /\ opened = Absent

PrepareData ==
  /\ \E w \in Workers : PrepareStep(w)
  /\ UNCHANGED <<trainVars, opened>>

\* load_prepared_metadata once more, np.load, and the setup of the training
StartTraining ==
  /\ pc[Trainer] = "ready" /\ opened = Absent
  /\ Loads(dest)
  /\ opened' = dest
  /\ Launch
  /\ UNCHANGED prepVars

OpenFails ==
  /\ pc[Trainer] = "ready" /\ opened = Absent
  /\ ~Loads(dest)
  /\ Goto(Trainer, "failed")
  /\ UNCHANGED <<dirs, lock, attempt, source, mishaps, kills, trainVars, opened>>

TrainAStep ==
  /\ TrainStep
  /\ UNCHANGED <<prepVars, opened>>

Disturb ==
  /\ Signal \/ Die
  /\ UNCHANGED <<prepVars, opened>>

\* A new process for a run that is no longer running.
Relaunch ==
  /\ \/ pc[Trainer] = "failed"
     \/ opened # Absent /\ phase \in Ended
  /\ launches < MaxLaunches /\ attempt[Trainer] < MaxAttempts
  /\ Goto(Trainer, "idle")
  /\ opened' = Absent
  /\ UNCHANGED <<dirs, lock, attempt, source, mishaps, kills, trainVars>>

\* Every worker is done and nobody starts another.
Done ==
  /\ \A w \in Workers : pc[w] \in {"ready", "failed"}
  /\ opened # Absent => phase \in Ended
  /\ pc[Trainer] = "ready" => opened # Absent \/ launches = MaxLaunches
  /\ UNCHANGED vars

Next ==
  \/ PrepareData \/ StartTraining \/ OpenFails \/ TrainAStep \/ Disturb
  \/ Relaunch \/ Done

\* A process that runs takes its next step, and the lock, which waiters poll
\* with random delays, is not always missed by the same one.  Nobody has to
\* start, stop, kill or give up.
WorkerGoesOn(w) ==
  \/ Acquire(w) \/ FindStale(w) \/ Unlink(w) \/ Reuse(w) \/ NotReusable(w)
  \/ Recover(w) \/ NothingToReuse(w) \/ MakeTemporary(w) \/ Write(w)
  \/ Prefer(w) \/ MakeRoom(w) \/ RemoveOld(w) \/ Publish(w) \/ Occupied(w)
  \/ SourceGone(w) \/ PublishCopy(w) \/ Discard(w) \/ RemoveOwn(w)

Fairness ==
  /\ \A w \in Workers : SF_vars(WorkerGoesOn(w) /\ UNCHANGED <<trainVars, opened>>)
  /\ WF_vars(StartTraining)
  /\ WF_vars(OpenFails)
  /\ WF_vars(TrainAStep)

Spec == Init /\ [][Next]_vars /\ Fairness

----------------------------------------------------------------------------
TypeOK == PrepTypeOK /\ TrainTypeOK /\ opened \in Directory

\* What a run trains on was complete when it opened it, and nothing it reads
\* while it trains is as late as what it is validated on: see Chronological.
NoLookahead ==
  opened # Absent =>
    /\ Usable(opened.rows)
    /\ Chronological(opened.rows)
    /\ WindowsInside(opened.rows)

\* A worker that has begun ends, and a training that has begun ends.
WorkersEnd ==
  /\ \A w \in Workers : pc[w] = "lookup" ~> pc[w] \in {"ready", "failed"}
  /\ phase = "loop" ~> phase \in Ended
=============================================================================
