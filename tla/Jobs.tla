-------------------------------- MODULE Jobs --------------------------------
(***************************************************************************)
(* Training jobs: the job manager in the API process (marketlm/jobs.py and *)
(* its copy markethybrid/jobs.py), the worker process each run spawns      *)
(* (worker.py) and the two files they share, status.json and result.json.  *)
(*                                                                         *)
(* The two managers check each other's runs before they start one          *)
(* (api.py), so the model has one set of runs.  API handlers run to        *)
(* completion on the event loop, but a worker acts between the steps of a  *)
(* start or a stop, and the API process may die between them.  One         *)
(* reconciliation of all runs is one step.                                 *)
(***************************************************************************)
EXTENDS Naturals, FiniteSets

CONSTANTS
  Run,          \* run ids
  PrepareOnly,  \* the runs whose request says prepare_only
  MaxRestarts,  \* bound: crashes of the API process
  MaxResumes,   \* bound: uses of resume-markethybrid-run.sh
  MaxKills,     \* bound: workers killed from outside (OOM killer, kill -9)
  MaxDefers,    \* bound: status updates that time out on the file lock
  MaxFaults     \* bound: all of these together

ASSUME JobsAssumption ==
  /\ PrepareOnly \subseteq Run
  /\ {MaxRestarts, MaxResumes, MaxKills, MaxDefers, MaxFaults} \subseteq Nat

Active   == {"queued", "preparing", "training", "stopping"}
Terminal == {"completed", "stopped", "failed"}

\* Where a worker is in run_worker.  The steps from "result" on come after the
\* work is over: only files are left to write.
Working  == {"boot", "prep", "prepared", "train", "saved"}
Ending   == {"result", "halted", "stopresult", "failed"}

VARIABLES
  status,      \* state field of status.json, "none" while the run does not exist
  pid,         \* status.json records the pid of the worker that exists now
  result,      \* state field of result.json, or "none"
  worker,      \* the worker process of a run
  handler,     \* the worker has installed the signal handlers of training.py
  stopFlag,    \* its _STOP_REQUESTED
  pending,     \* its pending_status: an update that was deferred
  artifacts,   \* final.pt and best.pt exist
  processes,   \* _processes: "no" entry, the current "child", or an "old" child
  registered,  \* runs with a file in registered_dir
  api,         \* the API process: what it does next, for which run
  budget       \* what is left of each bound

vars == <<status, pid, result, worker, handler, stopFlag, pending, artifacts,
          processes, registered, api, budget>>

workerVars == <<worker, handler, stopFlag, pending, artifacts>>

NoUpdate == [state |-> "none", pid |-> FALSE]
Idle     == [op |-> "idle"]

Init ==
  /\ status     = [r \in Run |-> "none"]
  /\ pid        = [r \in Run |-> FALSE]
  /\ result     = [r \in Run |-> "none"]
  /\ worker     = [r \in Run |-> "none"]
  /\ handler    = [r \in Run |-> FALSE]
  /\ stopFlag   = [r \in Run |-> FALSE]
  /\ pending    = [r \in Run |-> NoUpdate]
  /\ artifacts  = [r \in Run |-> FALSE]
  /\ processes  = [r \in Run |-> "no"]
  /\ registered = {}
  /\ api        = Idle
  /\ budget     = [restarts |-> MaxRestarts, resumes |-> MaxResumes,
                   kills |-> MaxKills, defers |-> MaxDefers, all |-> MaxFaults]

Alive(r) == worker[r] \notin {"none", "dead"}

Spend(what) ==
  /\ budget[what] > 0 /\ budget.all > 0
  /\ budget' = [budget EXCEPT ![what] = @ - 1, !.all = @ - 1]

\* read_run_status: what result.json says overrides status.json.
Reported(r) == IF result[r] # "none" THEN result[r] ELSE status[r]

----------------------------------------------------------------------------
(* _reconcile.                                                              *)

\* Mutant: only the processes this manager spawned are looked at.
NoOrphans(r) == FALSE

\* An active run this manager did not spawn, whose recorded pid is not alive.
Orphaned(r) ==
  /\ Reported(r) \in Active
  /\ processes[r] = "no"
  /\ ~(pid[r] /\ Alive(r))

\* process.poll() gives a return code.
Exited(r) == processes[r] = "old" \/ (processes[r] = "child" /\ ~Alive(r))

\* Mutant: the status of an exited process is written whatever it was.
ReconciledAlways(r) ==
  CASE Orphaned(r) -> "failed"
    [] Exited(r) -> IF Reported(r) = "stopping" THEN "stopped" ELSE "failed"
    [] OTHER -> status[r]

Reconciled(r) ==
  CASE Orphaned(r) -> "failed"
    [] Exited(r) /\ Reported(r) \in Active ->
         IF Reported(r) = "stopping" THEN "stopped" ELSE "failed"
    [] OTHER -> status[r]

\* What read_run_status gives once _reconcile has run.
ReportedAfter(r) == IF result[r] # "none" THEN result[r] ELSE Reconciled(r)

KeptProcesses == [r \in Run |-> IF Exited(r) THEN "no" ELSE processes[r]]

\* list_runs, and get without its read-only tail: requests of their own, the
\* whole of a start that is refused, and the answer of a stop request.
Poll ==
  /\ api.op \in {"idle", "answer"}
  /\ status' = [r \in Run |-> Reconciled(r)]
  /\ processes' = KeptProcesses
  /\ api' = Idle
  /\ UNCHANGED <<pid, result, workerVars, registered, budget>>

\* The update of an exited process's status times out on the file lock, after
\* the process was popped; the error leaves _reconcile and the request fails.
PollTimesOut(r) ==
  /\ api.op \in {"idle", "answer"}
  /\ api' = Idle
  /\ Exited(r) /\ Reported(r) \in Active
  /\ Spend("defers")
  /\ processes' = [processes EXCEPT ![r] = "no"]
  /\ UNCHANGED <<status, pid, result, workerVars, registered>>

----------------------------------------------------------------------------
(* The API handlers.                                                        *)

\* Mutant: a run that is stopping no longer counts as active.
NothingRuns == \A r \in Run : ReportedAfter(r) \notin Active \ {"stopping"}

NothingActive == \A r \in Run : ReportedAfter(r) \notin Active

\* start: spec.json and status.json are written, the worker not yet spawned.
Start(r) ==
  /\ api = Idle
  /\ status[r] = "none"
  /\ NothingActive
  /\ status' = [q \in Run |-> IF q = r THEN "queued" ELSE Reconciled(q)]
  /\ processes' = KeptProcesses
  /\ api' = [op |-> "spawn", run |-> r]
  /\ UNCHANGED <<pid, result, workerVars, registered, budget>>

\* subprocess.Popen and the entry in _processes.  A Popen that raises is left out:
\* it leaves a queued run without a process, as an API process does that ends here.
Spawn ==
  /\ api.op = "spawn"
  /\ worker' = [worker EXCEPT ![api.run] = "boot"]
  /\ processes' = [processes EXCEPT ![api.run] = "child"]
  /\ api' = Idle
  /\ UNCHANGED <<status, pid, result, handler, stopFlag, pending, artifacts,
                 registered, budget>>

\* stop reads the status first; a run that is not active is left alone.
StopRead(r) ==
  /\ api = Idle
  /\ Reported(r) \in Active
  /\ api' = [op |-> "stopping", run |-> r, pid |-> pid[r]]
  /\ UNCHANGED <<status, pid, result, workerVars, processes, registered, budget>>

\* update_status_file(state="stopping"), whatever the worker wrote meanwhile.
StopWrite ==
  /\ api.op = "stopping"
  /\ status' = [status EXCEPT ![api.run] = "stopping"]
  /\ api' = [api EXCEPT !.op = "signal"]
  /\ UNCHANGED <<pid, result, workerVars, processes, registered, budget>>

\* The update times out on the file lock: stop raises and sends no signal.
StopWriteTimesOut ==
  /\ api.op = "stopping"
  /\ Spend("defers")
  /\ api' = Idle
  /\ UNCHANGED <<status, pid, result, workerVars, processes, registered>>

\* SIGTERM sets a flag once training.py has installed its handler, and ends
\* the process before that.
Terminate(r) ==
  IF handler[r]
  THEN stopFlag' = [stopFlag EXCEPT ![r] = TRUE] /\ UNCHANGED worker
  ELSE worker' = [worker EXCEPT ![r] = "dead"] /\ UNCHANGED stopFlag

\* The child this manager spawned is signalled if it runs; else the pid that
\* status.json held when stop read it.
StopSignal ==
  /\ api.op = "signal"
  /\ LET r == api.run
     IN IF Alive(r) /\ (processes[r] = "child" \/ api.pid)
        THEN Terminate(r)
        ELSE UNCHANGED <<worker, stopFlag>>
  /\ api' = [op |-> "answer"]
  /\ UNCHANGED <<status, pid, result, handler, pending, artifacts, processes,
                 registered, budget>>

\* register: get first, then only a completed run with its checkpoint.
Register(r) ==
  /\ api = Idle
  /\ ReportedAfter(r) = "completed"
  /\ artifacts[r]
  /\ registered' = registered \union {r}
  /\ status' = [q \in Run |-> Reconciled(q)]
  /\ processes' = KeptProcesses
  /\ UNCHANGED <<pid, result, workerVars, api, budget>>

Unregister(r) ==
  /\ api = Idle
  /\ r \in registered
  /\ registered' = registered \ {r}
  /\ UNCHANGED <<status, pid, result, workerVars, processes, api, budget>>

\* The API process ends; the workers do not.  A new one knows no process.
ApiCrash ==
  /\ api.op # "down"
  /\ Spend("restarts")
  /\ api' = [op |-> "down"]
  /\ processes' = [r \in Run |-> "no"]
  /\ UNCHANGED <<status, pid, result, workerVars, registered>>

ApiBoot ==
  /\ api.op = "down"
  /\ api' = Idle
  /\ UNCHANGED <<status, pid, result, workerVars, processes, registered, budget>>

----------------------------------------------------------------------------
(* The worker: run_worker, with train_marketlm or train_markethybrid.       *)

\* update(state=s, pid=...): merged into what is still pending, and kept back
\* when the file lock times out.  s = "none" leaves the state field alone.
Update(r, s, withPid) ==
  LET next == [state |-> IF s = "none" THEN pending[r].state ELSE s,
               pid   |-> withPid \/ pending[r].pid]
  IN \/ /\ status' = [status EXCEPT ![r] = IF next.state = "none" THEN @ ELSE next.state]
        /\ pid' = [pid EXCEPT ![r] = @ \/ next.pid]
        /\ pending' = [pending EXCEPT ![r] = NoUpdate]
        /\ UNCHANGED budget
     \/ /\ Spend("defers")
        /\ pending' = [pending EXCEPT ![r] = next]
        /\ UNCHANGED <<status, pid>>

Move(r, from, to) == worker[r] = from /\ worker' = [worker EXCEPT ![r] = to]

others == <<processes, registered, api>>

WorkerStart(r) ==
  /\ Move(r, "boot", "prep")
  /\ Update(r, "preparing", TRUE)
  /\ UNCHANGED <<result, handler, stopFlag, artifacts, others>>

PreparationProgress(r) ==
  /\ Move(r, "prep", "prep")
  /\ Update(r, "preparing", FALSE)
  /\ UNCHANGED <<result, handler, stopFlag, artifacts, others>>

\* prepare_training_data returned: update(prepared_dir=...).
Prepared(r) ==
  /\ Move(r, "prep", "prepared")
  /\ Update(r, "none", FALSE)
  /\ UNCHANGED <<result, handler, stopFlag, artifacts, others>>

PrepareOnlyDone(r) ==
  /\ r \in PrepareOnly
  /\ Move(r, "prepared", "result")
  /\ Update(r, "completed", FALSE)
  /\ UNCHANGED <<result, handler, stopFlag, artifacts, others>>

EnterTraining(r) ==
  /\ r \notin PrepareOnly
  /\ Move(r, "prepared", "train")
  /\ handler' = [handler EXCEPT ![r] = TRUE]
  /\ stopFlag' = [stopFlag EXCEPT ![r] = FALSE]
  /\ UNCHANGED <<status, pid, result, pending, artifacts, others, budget>>

TrainingProgress(r) ==
  /\ Move(r, "train", "train")
  /\ Update(r, "training", FALSE)
  /\ UNCHANGED <<result, handler, stopFlag, artifacts, others>>

\* The step loop ended: final.pt, and best.pt if validation left none.
SaveFinal(r) ==
  /\ Move(r, "train", "saved")
  /\ artifacts' = [artifacts EXCEPT ![r] = TRUE]
  /\ UNCHANGED <<status, pid, result, handler, stopFlag, pending, others, budget>>

\* Mutant: completion is reported although final.pt was not saved.
ReportCompletedEarly(r) ==
  /\ \/ Move(r, "train", "result")
     \/ Move(r, "saved", "result")
  /\ Update(r, "completed", FALSE)
  /\ UNCHANGED <<result, handler, stopFlag, artifacts, others>>

ReportCompleted(r) ==
  /\ Move(r, "saved", "result")
  /\ Update(r, "completed", FALSE)
  /\ UNCHANGED <<result, handler, stopFlag, artifacts, others>>

\* Mutant: the state written is the one the job list would accept next.
WriteRunning(r) ==
  /\ Move(r, "result", "dead")
  /\ result' = [result EXCEPT ![r] = "running"]
  /\ UNCHANGED <<status, pid, handler, stopFlag, pending, artifacts, others, budget>>

WriteCompleted(r) ==
  /\ Move(r, "result", "dead")
  /\ result' = [result EXCEPT ![r] = "completed"]
  /\ UNCHANGED <<status, pid, handler, stopFlag, pending, artifacts, others, budget>>

\* The flag is seen at the top of a step: a checkpoint, then update("stopped").
Halt(r) ==
  /\ stopFlag[r]
  /\ Move(r, "train", "halted")
  /\ Update(r, "stopped", FALSE)
  /\ UNCHANGED <<result, handler, stopFlag, artifacts, others>>

\* worker.py's KeyboardInterrupt clause: status.json once more, unless it
\* already says stopped or completed.
ConfirmStopped(r) ==
  /\ Move(r, "halted", "stopresult")
  /\ IF status[r] \in {"stopped", "completed"}
     THEN UNCHANGED <<status, pid, pending, budget>>
     ELSE Update(r, "stopped", FALSE)
  /\ UNCHANGED <<result, handler, stopFlag, artifacts, others>>

WriteStopped(r) ==
  /\ Move(r, "stopresult", "dead")
  /\ result' = [result EXCEPT ![r] = "stopped"]
  /\ UNCHANGED <<status, pid, handler, stopFlag, pending, artifacts, others, budget>>

\* An exception anywhere in the try block: result.json first, then the status.
Fail(r) ==
  /\ worker[r] \in {"prep", "prepared", "train", "saved", "result"}
  /\ worker' = [worker EXCEPT ![r] = "failed"]
  /\ result' = [result EXCEPT ![r] = "failed"]
  /\ UNCHANGED <<status, pid, handler, stopFlag, pending, artifacts, others, budget>>

ReportFailed(r) ==
  /\ Move(r, "failed", "dead")
  /\ Update(r, "failed", FALSE)
  /\ UNCHANGED <<result, handler, stopFlag, artifacts, others>>

\* The worker is killed and runs no handler.
Kill(r) ==
  /\ Alive(r)
  /\ Spend("kills")
  /\ worker' = [worker EXCEPT ![r] = "dead"]
  /\ UNCHANGED <<status, pid, result, handler, stopFlag, pending, artifacts, others>>

\* resume-markethybrid-run.sh on a run whose worker is gone: result.json is
\* removed and run_worker started again, by no manager.
Resume(r) ==
  /\ worker[r] = "dead"
  /\ Spend("resumes")
  /\ result' = [result EXCEPT ![r] = "none"]
  /\ worker' = [worker EXCEPT ![r] = "boot"]
  /\ pid' = [pid EXCEPT ![r] = FALSE]
  /\ handler' = [handler EXCEPT ![r] = FALSE]
  /\ stopFlag' = [stopFlag EXCEPT ![r] = FALSE]
  /\ pending' = [pending EXCEPT ![r] = NoUpdate]
  /\ processes' = [processes EXCEPT ![r] = IF @ = "child" THEN "old" ELSE @]
  /\ UNCHANGED <<status, artifacts, registered, api>>

Finish(r) == SaveFinal(r) \/ Halt(r)

WorkerStep(r) ==
  \/ WorkerStart(r) \/ Prepared(r) \/ PrepareOnlyDone(r) \/ EnterTraining(r)
  \/ Finish(r) \/ ReportCompleted(r) \/ WriteCompleted(r)
  \/ ConfirmStopped(r) \/ WriteStopped(r) \/ ReportFailed(r)

ApiStep == Spawn \/ StopWrite \/ StopWriteTimesOut \/ StopSignal \/ ApiBoot

Next ==
  \/ Poll \/ ApiStep \/ ApiCrash
  \/ \E r \in Run :
       \/ Start(r) \/ StopRead(r) \/ PollTimesOut(r) \/ Register(r) \/ Unregister(r)
       \/ WorkerStep(r) \/ PreparationProgress(r) \/ TrainingProgress(r)
       \/ Fail(r) \/ Kill(r) \/ Resume(r)

Spec == Init /\ [][Next]_vars

(* Preparation and training are finite loops, a started API process is      *)
(* started again, and an open browser page polls the runs every few         *)
(* seconds, between whatever else it asks for.                              *)
Fairness ==
  /\ WF_vars(ApiStep)
  /\ SF_vars(Poll)
  /\ \A r \in Run : WF_vars(WorkerStep(r))

FairSpec == Spec /\ Fairness

----------------------------------------------------------------------------
(* Properties.                                                              *)

\* Every variable has its type.
TypeOK ==
  /\ status \in [Run -> Active \union Terminal \union {"none"}]
  /\ pid \in [Run -> BOOLEAN]
  /\ result \in [Run -> Terminal \union {"none"}]
  /\ worker \in [Run -> Working \union Ending \union {"none", "dead"}]
  /\ handler \in [Run -> BOOLEAN]
  /\ stopFlag \in [Run -> BOOLEAN]
  /\ pending \in [Run -> [state : Active \union Terminal \union {"none"}, pid : BOOLEAN]]
  /\ artifacts \in [Run -> BOOLEAN]
  /\ processes \in [Run -> {"no", "child", "old"}]
  /\ registered \subseteq Run
  /\ api \in [op : {"idle", "down", "answer"}] \union [op : {"spawn"}, run : Run]
             \union [op : {"stopping", "signal"}, run : Run, pid : BOOLEAN]
  /\ budget \in [{"restarts", "resumes", "kills", "defers", "all"} -> Nat]

AtMostOneWorks == Cardinality({r \in Run : worker[r] \in Working}) <= 1

\* "stop or finish it before starting another GPU job" (jobs.py:139-142): two
\* workers never prepare or train at the same time.
SingleGpuJob == AtMostOneWorks

\* The same as long as one API process manages every worker: no deferred
\* update, stop request or failure opens a window for a second job.
SingleManagedGpuJob ==
  budget.restarts = MaxRestarts /\ budget.resumes = MaxResumes => AtMostOneWorks

\* A run reported completed has its checkpoints, or needed none.
CompletedHasArtifacts ==
  \A r \in Run : Reported(r) = "completed" => artifacts[r] \/ r \in PrepareOnly

\* Once the worker is gone and the run is reported to have ended, no poll, new
\* job, restart of the API or later stop request changes the report; only a
\* resume does, and a stop that had read the status while it was still active.
ReportIsFinal ==
  [][\A r \in Run :
       worker[r] = "dead" /\ worker'[r] = "dead" /\ Reported(r) \in Terminal
       /\ ~(api.op = "stopping" /\ api.run = r)
         => Reported(r)' = Reported(r)]_vars

\* Every run that was started is reported to have ended, whatever crashes.
EveryRunEnds == \A r \in Run : Reported(r) \in Active ~> Reported(r) \in Terminal
=============================================================================
