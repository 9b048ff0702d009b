----------------------------- MODULE JobsProofs -----------------------------
(***************************************************************************)
(* The job managers and their workers: types, one managed GPU job,         *)
(* completion with artifacts and final reports, for every set of runs and  *)
(* every number of crashes, kills, resumes and deferred updates.           *)
(***************************************************************************)
EXTENDS Jobs, FiniteSetTheorems, TLAPS

----------------------------------------------------------------------------
(* The inductive invariant.                                                 *)

\* A run that is completed, or about to be, has its checkpoints or needs none.
Backed ==
  \A r \in Run :
    ("completed" \in {status[r], result[r], pending[r].state}
     \/ worker[r] \in {"saved", "result"})
      => (artifacts[r] \/ r \in PrepareOnly)

\* No API process has been restarted and no run resumed.
Managed == budget.restarts = MaxRestarts /\ budget.resumes = MaxResumes

\* A run that does not exist, or was not spawned, has left nothing.
Unspawned ==
  /\ \A r \in Run : /\ status[r] = "none" => worker[r] = "none"
                    /\ worker[r] = "none" => result[r] = "none" /\ pending[r].state = "none"
  /\ api.op = "spawn" => status[api.run] # "none" /\ worker[api.run] = "none"

\* What a worker at work holds back does not end its run.
AtWork ==
  \A r \in Run : worker[r] \in Working => pending[r].state \in {"none", "preparing", "training"}

\* Whoever works is the manager's child and reported active, alone, and nobody
\* works while a worker is about to be spawned.
Known ==
  Managed =>
    /\ \A r \in Run : worker[r] \in Working =>
         result[r] = "none" /\ status[r] \in Active /\ processes[r] = "child"
    /\ \A r, q \in Run : worker[r] \in Working /\ worker[q] \in Working => r = q
    /\ api.op = "spawn" =>
         status[api.run] = "queued" /\ \A r \in Run : worker[r] \notin Working

Bounded == budget.restarts <= MaxRestarts /\ budget.resumes <= MaxResumes

JobsInv == TypeOK /\ Backed /\ Unspawned /\ AtWork /\ Known /\ Bounded

----------------------------------------------------------------------------
(* Types.                                                                   *)

State  == Active \union Terminal \union {"none"}
Bounds == {"restarts", "resumes", "kills", "defers", "all"}

\* The initial state has the types.
LEMMA JobsTypesStart == Init => TypeOK
<1> SUFFICES ASSUME Init PROVE TypeOK
  OBVIOUS
<1>1. budget \in [Bounds -> Nat]
  BY JobsAssumption DEF Init, Bounds
<1> QED
  BY <1>1 DEF Init, TypeOK, NoUpdate, Idle, Working, Ending, Active, Terminal, Bounds

\* What reconciliation leaves is a state.
LEMMA ReconciledType ==
  ASSUME TypeOK
  PROVE  [r \in Run |-> Reconciled(r)] \in [Run -> State]
BY DEF TypeOK, Reconciled, State, Terminal, Active

\* A fault takes one from its bound.
LEMMA SpendType ==
  ASSUME TypeOK, NEW what \in Bounds \ {"all"}, Spend(what)
  PROVE  /\ budget' \in [Bounds -> Nat]
         /\ budget'[what] = budget[what] - 1
         /\ \A b \in Bounds \ {what, "all"} : budget'[b] = budget[b]
<1>1. budget \in [Bounds -> Nat] /\ "all" \in Bounds /\ what # "all"
  BY DEF TypeOK, Bounds
<1>2. budget[what] > 0 /\ budget["all"] > 0
  BY DEF Spend
<1>3. budget' = [[budget EXCEPT ![what] = budget[what] - 1]
                  EXCEPT !["all"] = budget["all"] - 1]
  BY <1>1 DEF Spend
<1> QED
  BY <1>1, <1>2, <1>3

\* An update of a worker writes states.
LEMMA UpdateType ==
  ASSUME TypeOK, NEW r \in Run, NEW s \in State, NEW p \in BOOLEAN, Update(r, s, p)
  PROVE  /\ status' \in [Run -> State] /\ pid' \in [Run -> BOOLEAN]
         /\ pending' \in [Run -> [state : State, pid : BOOLEAN]]
         /\ budget' \in [Bounds -> Nat]
<1> DEFINE next == [state |-> IF s = "none" THEN pending[r].state ELSE s,
                    pid   |-> p \/ pending[r].pid]
<1>1. /\ next \in [state : State, pid : BOOLEAN] /\ NoUpdate \in [state : State, pid : BOOLEAN]
      /\ status \in [Run -> State] /\ pid \in [Run -> BOOLEAN]
      /\ pending \in [Run -> [state : State, pid : BOOLEAN]]
      /\ budget \in [Bounds -> Nat]
  BY DEF TypeOK, State, NoUpdate, Bounds
<1>2. CASE /\ status' = [status EXCEPT ![r] = IF next.state = "none" THEN @ ELSE next.state]
           /\ pid' = [pid EXCEPT ![r] = @ \/ next.pid]
           /\ pending' = [pending EXCEPT ![r] = NoUpdate]
           /\ UNCHANGED budget
  <2> HIDE DEF next
  <2> QED
    BY <1>1, <1>2
<1>3. CASE /\ Spend("defers")
           /\ pending' = [pending EXCEPT ![r] = next]
           /\ UNCHANGED <<status, pid>>
  <2> HIDE DEF next
  <2>1. budget' \in [Bounds -> Nat]
    BY <1>3, SpendType DEF Bounds
  <2> QED
    BY <1>1, <1>3, <2>1
<1> QED
  BY <1>2, <1>3 DEF Update

\* The types of the API's next step and of the places of a worker.
Api == [op : {"idle", "down", "answer"}] \union [op : {"spawn"}, run : Run]
       \union [op : {"stopping", "signal"}, run : Run, pid : BOOLEAN]

Place == Working \union Ending \union {"none", "dead"}

\* The type of the variables, put together from its parts.
LEMMA JobsTypeParts ==
  TypeOK <=>
    /\ status \in [Run -> State] /\ pid \in [Run -> BOOLEAN]
    /\ result \in [Run -> Terminal \union {"none"}]
    /\ worker \in [Run -> Place] /\ handler \in [Run -> BOOLEAN]
    /\ stopFlag \in [Run -> BOOLEAN]
    /\ pending \in [Run -> [state : State, pid : BOOLEAN]]
    /\ artifacts \in [Run -> BOOLEAN]
    /\ processes \in [Run -> {"no", "child", "old"}]
    /\ registered \subseteq Run /\ api \in Api
    /\ budget \in [Bounds -> Nat]
BY DEF TypeOK, State, Bounds, Place, Api

\* What the API does next names a run.
LEMMA ApiRuns ==
  ASSUME TypeOK
  PROVE  /\ api.op \in {"spawn", "stopping", "signal"} => api.run \in Run
         /\ api.op \in {"stopping", "signal"} => api.pid \in BOOLEAN
         /\ api.op = "stopping" => [api EXCEPT !.op = "signal"] \in Api
         /\ Idle \in Api
BY DEF TypeOK, Api, Idle

\* The steps of the API keep the types.
LEMMA ApiTypesKept ==
  ASSUME TypeOK,
         \/ Poll \/ ApiStep \/ ApiCrash
         \/ \E r \in Run : Start(r) \/ StopRead(r) \/ PollTimesOut(r) \/ Register(r)
                          \/ Unregister(r)
  PROVE  TypeOK'
<1> USE DEF workerVars
<1>a. /\ status \in [Run -> State] /\ pid \in [Run -> BOOLEAN]
      /\ processes \in [Run -> {"no", "child", "old"}]
      /\ worker \in [Run -> Place] /\ stopFlag \in [Run -> BOOLEAN]
      /\ [r \in Run |-> Reconciled(r)] \in [Run -> State]
      /\ KeptProcesses \in [Run -> {"no", "child", "old"}]
      /\ budget \in [Bounds -> Nat] /\ Idle \in Api
  BY JobsTypeParts, ReconciledType, ApiRuns DEF KeptProcesses
<1>1. CASE Poll
  BY <1>1, <1>a, JobsTypeParts DEF Poll, TypeOK, State, Api
<1>2. CASE Spawn
  BY <1>2, <1>a, JobsTypeParts, ApiRuns DEF Spawn, TypeOK, Place, Working, Api
<1>3. CASE StopWrite
  <2>1. status' \in [Run -> State] /\ api' \in Api
    BY <1>3, <1>a, ApiRuns DEF StopWrite, State, Active
  <2> QED
    BY <1>3, <2>1 DEF StopWrite, TypeOK, State, Api
<1>4. CASE StopWriteTimesOut
  <2>1. budget' \in [Bounds -> Nat]
    BY <1>4, SpendType DEF StopWriteTimesOut, Bounds
  <2> QED
    BY <1>4, <1>a, <2>1 DEF StopWriteTimesOut, TypeOK, Api, Bounds
<1>5. CASE StopSignal
  <2>1. worker' \in [Run -> Place] /\ stopFlag' \in [Run -> BOOLEAN]
    BY <1>5, <1>a, ApiRuns DEF StopSignal, Terminate, Place
  <2>2. api' \in Api
    BY <1>5 DEF StopSignal, Api
  <2> QED
    BY <1>5, <2>1, <2>2 DEF StopSignal, TypeOK, Place, Api
<1>6. CASE ApiBoot
  BY <1>6, <1>a DEF ApiBoot, TypeOK, Api
<1>7. CASE ApiCrash
  <2>1. budget' \in [Bounds -> Nat]
    BY <1>7, SpendType DEF ApiCrash, Bounds
  <2>2. api' \in Api /\ processes' \in [Run -> {"no", "child", "old"}]
    BY <1>7 DEF ApiCrash, Api
  <2> QED
    BY <1>7, <2>1, <2>2 DEF ApiCrash, TypeOK, Api, Bounds
<1>8. ASSUME NEW r \in Run, Start(r) PROVE TypeOK'
  <2>1. status' = [q \in Run |-> IF q = r THEN "queued" ELSE [x \in Run |-> Reconciled(x)][q]]
    BY <1>8 DEF Start
  <2>2. status' \in [Run -> State]
    BY <1>a, <2>1 DEF State, Active
  <2>3. api' \in Api
    BY <1>8 DEF Start, Api
  <2> QED
    BY <1>8, <1>a, <2>2, <2>3 DEF Start, TypeOK, State, Api
<1>9. ASSUME NEW r \in Run, StopRead(r) PROVE TypeOK'
  <2>1. api' \in Api
    BY <1>9, <1>a DEF StopRead, Api
  <2> QED
    BY <1>9, <2>1 DEF StopRead, TypeOK, Api
<1>10. ASSUME NEW r \in Run, PollTimesOut(r) PROVE TypeOK'
  <2>1. budget' \in [Bounds -> Nat]
    BY <1>10, SpendType DEF PollTimesOut, Bounds
  <2>2. processes' \in [Run -> {"no", "child", "old"}]
    BY <1>10, <1>a DEF PollTimesOut
  <2> QED
    BY <1>10, <1>a, <2>1, <2>2 DEF PollTimesOut, TypeOK, Api, Bounds
<1>11. ASSUME NEW r \in Run, Register(r) \/ Unregister(r) PROVE TypeOK'
  BY <1>11, <1>a DEF Register, Unregister, TypeOK, State
<1> QED
  BY <1>1, <1>2, <1>3, <1>4, <1>5, <1>6, <1>7, <1>8, <1>9, <1>10, <1>11 DEF ApiStep

\* So do those of the workers.
LEMMA WorkerTypesKept ==
  ASSUME TypeOK, NEW r \in Run,
         \/ WorkerStep(r) \/ PreparationProgress(r) \/ TrainingProgress(r)
         \/ Fail(r) \/ Kill(r) \/ Resume(r)
  PROVE  TypeOK'
<1> USE DEF others
<1>a. /\ worker \in [Run -> Place] /\ handler \in [Run -> BOOLEAN]
      /\ result \in [Run -> Terminal \union {"none"}] /\ stopFlag \in [Run -> BOOLEAN]
      /\ pending \in [Run -> [state : State, pid : BOOLEAN]] /\ pid \in [Run -> BOOLEAN]
      /\ artifacts \in [Run -> BOOLEAN] /\ processes \in [Run -> {"no", "child", "old"}]
      /\ NoUpdate \in [state : State, pid : BOOLEAN]
      /\ {"preparing", "completed", "training", "stopped", "failed", "none"} \subseteq State
  BY JobsTypeParts DEF State, Active, Terminal, NoUpdate
<1>b. \A from, to : Move(r, from, to) /\ to \in Place => worker' \in [Run -> Place]
  BY <1>a DEF Move
<1>c. {"prep", "prepared", "train", "saved", "result", "halted", "stopresult", "failed",
       "boot", "dead"} \subseteq Place
  BY DEF Place, Working, Ending
<1> DEFINE Written == /\ status' \in [Run -> State] /\ pid' \in [Run -> BOOLEAN]
                      /\ pending' \in [Run -> [state : State, pid : BOOLEAN]]
                      /\ budget' \in [Bounds -> Nat]
<1>d. \A s \in State, p \in BOOLEAN : Update(r, s, p) => Written
  BY UpdateType
<1>e. UNCHANGED <<status, pid, pending, budget>> => Written
  BY JobsTypeParts
<1>f. ASSUME Written, worker' \in [Run -> Place],
             UNCHANGED <<result, handler, stopFlag, artifacts, others>>
      PROVE  TypeOK'
  BY <1>f DEF TypeOK, State, Bounds, Place
<1>1. CASE WorkerStart(r) \/ PreparationProgress(r) \/ Prepared(r) \/ PrepareOnlyDone(r)
           \/ TrainingProgress(r) \/ ReportCompleted(r) \/ Halt(r) \/ ReportFailed(r)
  <2>1. worker' \in [Run -> Place]
    BY <1>1, <1>b, <1>c DEF WorkerStart, PreparationProgress, Prepared, PrepareOnlyDone,
       TrainingProgress, ReportCompleted, Halt, ReportFailed
  <2>2. Written
    BY <1>1, <1>a, <1>d DEF WorkerStart, PreparationProgress, Prepared, PrepareOnlyDone,
       TrainingProgress, ReportCompleted, Halt, ReportFailed
  <2> QED
    BY <1>1, <1>f, <2>1, <2>2
      DEF WorkerStart, PreparationProgress, Prepared, PrepareOnlyDone,
       TrainingProgress, ReportCompleted, Halt, ReportFailed
<1>2. CASE ConfirmStopped(r)
  <2>1. worker' \in [Run -> Place] /\ Written
    BY <1>2, <1>a, <1>b, <1>c, <1>d, <1>e DEF ConfirmStopped
  <2> QED
    BY <1>2, <1>f, <2>1 DEF ConfirmStopped
<1>3. CASE EnterTraining(r)
  <2>1. /\ worker' \in [Run -> Place] /\ handler' \in [Run -> BOOLEAN]
        /\ stopFlag' \in [Run -> BOOLEAN]
    BY <1>3, <1>a, <1>b, <1>c DEF EnterTraining
  <2> QED
    BY <1>3, <2>1 DEF EnterTraining, TypeOK, Place
<1>4. CASE SaveFinal(r)
  <2>1. worker' \in [Run -> Place] /\ artifacts' \in [Run -> BOOLEAN]
    BY <1>4, <1>a, <1>b, <1>c DEF SaveFinal
  <2> QED
    BY <1>4, <2>1 DEF SaveFinal, TypeOK, Place
<1>5. CASE WriteCompleted(r) \/ WriteStopped(r) \/ Fail(r)
  <2>1. worker' \in [Run -> Place]
    BY <1>5, <1>a, <1>b, <1>c DEF WriteCompleted, WriteStopped, Fail
  <2>2. result' \in [Run -> Terminal \union {"none"}]
    BY <1>5, <1>a DEF WriteCompleted, WriteStopped, Fail, Terminal
  <2> QED
    BY <1>5, <2>1, <2>2 DEF WriteCompleted, WriteStopped, Fail, TypeOK, Place
<1>6. CASE Kill(r)
  <2>1. worker' \in [Run -> Place] /\ budget' \in [Bounds -> Nat]
    BY <1>6, <1>a, <1>c, SpendType DEF Kill, Bounds
  <2> QED
    BY <1>6, <2>1 DEF Kill, TypeOK, Place, Bounds
<1>7. CASE Resume(r)
  <2>1. budget' \in [Bounds -> Nat]
    BY <1>7, SpendType DEF Resume, Bounds
  <2>2. /\ worker' \in [Run -> Place] /\ result' \in [Run -> Terminal \union {"none"}]
        /\ pid' \in [Run -> BOOLEAN] /\ handler' \in [Run -> BOOLEAN]
        /\ stopFlag' \in [Run -> BOOLEAN]
        /\ pending' \in [Run -> [state : State, pid : BOOLEAN]]
        /\ processes' \in [Run -> {"no", "child", "old"}]
    BY <1>7, <1>a, <1>c DEF Resume
  <2> QED
    BY <1>7, <2>1, <2>2 DEF Resume, TypeOK, Place, State, Bounds
<1> QED
  BY <1>1, <1>2, <1>3, <1>4, <1>5, <1>6, <1>7 DEF WorkerStep, Finish

\* Every step keeps the types.
LEMMA JobsTypesKept == TypeOK /\ [Next]_vars => TypeOK'
<1>1. TypeOK /\ UNCHANGED vars => TypeOK'
  BY DEF TypeOK, vars
<1> QED
  BY <1>1, ApiTypesKept, WorkerTypesKept DEF Next

----------------------------------------------------------------------------
(* How the steps move the runs.                                             *)

ApiActs ==
  \/ Poll \/ ApiStep \/ ApiCrash
  \/ \E r \in Run : Start(r) \/ StopRead(r) \/ PollTimesOut(r) \/ Register(r) \/ Unregister(r)

WorkerActs(r) ==
  \/ WorkerStep(r) \/ PreparationProgress(r) \/ TrainingProgress(r)
  \/ Fail(r) \/ Kill(r) \/ Resume(r)

\* Every step is one of the API, of one worker, or changes nothing.
LEMMA Acts == [Next]_vars => UNCHANGED vars \/ ApiActs \/ \E r \in Run : WorkerActs(r)
BY DEF Next, ApiActs, WorkerActs

\* An update of a worker leaves, in its file and in what it keeps back, what
\* was there before or what it was asked to write.
LEMMA UpdateMoves ==
  ASSUME TypeOK, NEW r \in Run, NEW s \in State, NEW p \in BOOLEAN, Update(r, s, p)
  PROVE  /\ status'[r] = status[r] \/ (status'[r] # "none" /\ status'[r] \in {s, pending[r].state})
         /\ pending'[r].state \in {"none", s, pending[r].state}
         /\ \A q \in Run \ {r} : status'[q] = status[q] /\ pending'[q] = pending[q]
         /\ budget'["restarts"] = budget["restarts"] /\ budget'["resumes"] = budget["resumes"]
<1>1. /\ status \in [Run -> State] /\ pending \in [Run -> [state : State, pid : BOOLEAN]]
      /\ budget \in [Bounds -> Nat]
  BY JobsTypeParts
<1> DEFINE next == [state |-> IF s = "none" THEN pending[r].state ELSE s,
                    pid   |-> p \/ pending[r].pid]
<1>2. next.state \in {s, pending[r].state}
  OBVIOUS
<1>3. CASE /\ status' = [status EXCEPT ![r] = IF next.state = "none" THEN @ ELSE next.state]
           /\ pending' = [pending EXCEPT ![r] = NoUpdate]
           /\ UNCHANGED budget
  <2> HIDE DEF next
  <2>1. status'[r] = IF next.state = "none" THEN status[r] ELSE next.state
    BY <1>1, <1>3
  <2>2. pending'[r].state = "none"
    BY <1>1, <1>3 DEF NoUpdate
  <2> QED
    BY <1>1, <1>2, <1>3, <2>1, <2>2
<1>4. CASE Spend("defers") /\ pending' = [pending EXCEPT ![r] = next] /\ UNCHANGED status
  <2> HIDE DEF next
  <2>1. pending'[r] = next
    BY <1>1, <1>4
  <2>2. budget'["restarts"] = budget["restarts"] /\ budget'["resumes"] = budget["resumes"]
    BY <1>4, SpendType DEF Bounds
  <2> QED
    BY <1>1, <1>2, <1>4, <2>1, <2>2
<1> QED
  BY <1>3, <1>4 DEF Update

\* What an update of s leaves of run r.
Updated(r, s) ==
  /\ status'[r] = status[r] \/ (status'[r] # "none" /\ status'[r] \in {s, pending[r].state})
  /\ pending'[r].state \in {"none", s, pending[r].state}

Unwritten(r) == status'[r] = status[r] /\ pending'[r].state = pending[r].state

\* How a step takes the worker of a run further, and what is written then.
GoesOn(r) ==
  /\ worker[r] \in Working /\ worker'[r] \in Working /\ worker'[r] # "saved"
  /\ Unwritten(r) \/ \E s \in {"preparing", "training", "none"} : Updated(r, s)
  /\ result'[r] = result[r] /\ artifacts'[r] = artifacts[r]

Saves(r) ==
  /\ worker[r] \in Working /\ worker'[r] = "saved" /\ artifacts'[r]
  /\ Unwritten(r) /\ result'[r] = result[r]

Completes(r) ==
  /\ worker[r] = "saved" \/ r \in PrepareOnly
  /\ worker[r] # "none" /\ worker'[r] = "result"
  /\ Updated(r, "completed")
  /\ result'[r] = result[r] /\ artifacts'[r] = artifacts[r]

Ends(r) ==
  /\ worker[r] # "none" /\ worker'[r] \in {"halted", "stopresult", "failed", "dead"}
  /\ Unwritten(r) \/ \E s \in {"stopped", "failed"} : Updated(r, s)
  /\ result'[r] \in {result[r], "stopped", "failed"}
     \/ (result'[r] = "completed" /\ worker[r] = "result")
  /\ artifacts'[r] = artifacts[r]

Resumes(r) ==
  /\ worker[r] = "dead" /\ worker'[r] = "boot"
  /\ status'[r] = status[r] /\ pending'[r].state = "none" /\ result'[r] = "none"
  /\ artifacts'[r] = artifacts[r]
  /\ budget'["resumes"] = budget["resumes"] - 1

\* What a step of a worker does: it moves and writes its own run only.
LEMMA WorkerMoves ==
  ASSUME TypeOK, NEW r \in Run, WorkerActs(r)
  PROVE  /\ \/ /\ GoesOn(r) \/ Saves(r) \/ Completes(r) \/ Ends(r)
               /\ processes' = processes /\ budget'["resumes"] = budget["resumes"]
            \/ Resumes(r)
         /\ api' = api /\ budget'["restarts"] = budget["restarts"]
         /\ \A q \in Run \ {r} : /\ status'[q] = status[q] /\ result'[q] = result[q]
                                 /\ worker'[q] = worker[q] /\ pending'[q] = pending[q]
                                 /\ artifacts'[q] = artifacts[q]
<1> USE DEF others
<1>a. /\ worker \in [Run -> Place] /\ result \in [Run -> Terminal \union {"none"}]
      /\ pending \in [Run -> [state : State, pid : BOOLEAN]]
      /\ artifacts \in [Run -> BOOLEAN] /\ status \in [Run -> State]
      /\ {"preparing", "completed", "training", "stopped", "failed", "none"} \subseteq State
  BY JobsTypeParts DEF State, Active, Terminal
<1> DEFINE Quiet == \A q \in Run \ {r} : status'[q] = status[q] /\ pending'[q] = pending[q]
           Spared == budget'["restarts"] = budget["restarts"]
                     /\ budget'["resumes"] = budget["resumes"]
<1>b. \A s \in State :
        Update(r, s, TRUE) \/ Update(r, s, FALSE) => Updated(r, s) /\ Quiet /\ Spared
  BY UpdateMoves DEF Updated
<1>c. UNCHANGED <<status, pending>> => Unwritten(r) /\ Quiet
  BY DEF Unwritten
<1>d. \A from, to : Move(r, from, to) =>
        worker[r] = from /\ worker'[r] = to /\ \A q \in Run \ {r} : worker'[q] = worker[q]
  BY <1>a DEF Move
<1>1. CASE WorkerStart(r) \/ PreparationProgress(r) \/ Prepared(r) \/ TrainingProgress(r)
  <2>1. \E s \in {"preparing", "training", "none"} : Update(r, s, TRUE) \/ Update(r, s, FALSE)
    BY <1>1, Zenon DEF WorkerStart, PreparationProgress, Prepared, TrainingProgress
  <2>2. /\ Move(r, "boot", "prep") \/ Move(r, "prep", "prep") \/ Move(r, "prep", "prepared")
           \/ Move(r, "train", "train")
        /\ UNCHANGED <<result, artifacts, processes, api>>
    BY <1>1, Zenon DEF WorkerStart, PreparationProgress, Prepared, TrainingProgress
  <2>3. \E s \in {"preparing", "training", "none"} : Updated(r, s) /\ Quiet /\ Spared
    BY <2>1, <1>a, <1>b, Zenon
  <2>4. GoesOn(r) /\ Quiet /\ Spared
    BY <2>2, <2>3, <1>d DEF GoesOn, Working
  <2> QED
    BY <1>d, <2>2, <2>4
<1>2. CASE EnterTraining(r)
  BY <1>2, <1>c, <1>d DEF EnterTraining, GoesOn, Working
<1>3. CASE SaveFinal(r)
  BY <1>3, <1>a, <1>c, <1>d DEF SaveFinal, Saves, Working
<1>4. CASE PrepareOnlyDone(r) \/ ReportCompleted(r)
  <2>1. Update(r, "completed", FALSE)
    BY <1>4, Zenon DEF PrepareOnlyDone, ReportCompleted
  <2>2. /\ (r \in PrepareOnly /\ Move(r, "prepared", "result")) \/ Move(r, "saved", "result")
        /\ UNCHANGED <<result, artifacts, processes, api>>
    BY <1>4, Zenon DEF PrepareOnlyDone, ReportCompleted
  <2>3. Updated(r, "completed") /\ Quiet /\ Spared
    BY <2>1, <1>a, <1>b, Zenon
  <2>4. Completes(r)
    BY <2>2, <2>3, <1>d DEF Completes
  <2> QED
    BY <1>d, <2>2, <2>3, <2>4
<1>5. CASE Halt(r) \/ ReportFailed(r)
  <2>1. Update(r, "stopped", FALSE) \/ Update(r, "failed", FALSE)
    BY <1>5, Zenon DEF Halt, ReportFailed
  <2>2. /\ Move(r, "train", "halted") \/ Move(r, "failed", "dead")
        /\ UNCHANGED <<result, artifacts, processes, api>>
    BY <1>5, Zenon DEF Halt, ReportFailed
  <2>3. (Updated(r, "stopped") \/ Updated(r, "failed")) /\ Quiet /\ Spared
    BY <2>1, <1>a, <1>b, Zenon
  <2>4. Ends(r)
    BY <2>2, <2>3, <1>d DEF Ends
  <2> QED
    BY <1>d, <2>2, <2>3, <2>4
<1>6. CASE ConfirmStopped(r)
  <2>1. UNCHANGED <<status, pid, pending, budget>> \/ Update(r, "stopped", FALSE)
    BY <1>6, Zenon DEF ConfirmStopped
  <2>2. Move(r, "halted", "stopresult") /\ UNCHANGED <<result, artifacts, processes, api>>
    BY <1>6, Zenon DEF ConfirmStopped
  <2>3. (Updated(r, "stopped") \/ Unwritten(r)) /\ Quiet /\ Spared
    BY <2>1, <1>a, <1>b, <1>c, Zenon
  <2>4. Ends(r)
    BY <2>2, <2>3, <1>d DEF Ends
  <2> QED
    BY <1>d, <2>2, <2>3, <2>4
<1>7. CASE WriteCompleted(r) \/ WriteStopped(r) \/ Fail(r)
  <2>1. /\ worker'[r] \in {"dead", "failed"} /\ worker[r] # "none"
        /\ \A q \in Run \ {r} : worker'[q] = worker[q]
    BY <1>7, <1>a, <1>d DEF WriteCompleted, WriteStopped, Fail
  <2>2. /\ result'[r] \in {"stopped", "failed"}
           \/ (result'[r] = "completed" /\ worker[r] = "result")
        /\ \A q \in Run \ {r} : result'[q] = result[q]
    BY <1>7, <1>a, <1>d DEF WriteCompleted, WriteStopped, Fail
  <2> QED
    BY <1>7, <1>c, <2>1, <2>2 DEF WriteCompleted, WriteStopped, Fail, Ends
<1>8. CASE Kill(r)
  <2>1. Spared
    BY <1>8, SpendType DEF Kill, Bounds
  <2> QED
    BY <1>8, <1>a, <1>c, <2>1 DEF Kill, Ends, Alive
<1>9. CASE Resume(r)
  <2>1. budget'["restarts"] = budget["restarts"] /\ budget'["resumes"] = budget["resumes"] - 1
    BY <1>9, SpendType DEF Resume, Bounds
  <2> QED
    BY <1>9, <1>a, <2>1 DEF Resume, Resumes, NoUpdate
<1> QED
  BY <1>1, <1>2, <1>3, <1>4, <1>5, <1>6, <1>7, <1>8, <1>9 DEF WorkerActs, WorkerStep, Finish

\* A reconciliation ends runs; it completes none, and leaves alone the runs of
\* living children.
LEMMA ReconciledMoves ==
  ASSUME TypeOK, NEW r \in Run
  PROVE  /\ Reconciled(r) \in {status[r], "stopped", "failed"}
         /\ Reconciled(r) = "none" <=> status[r] = "none"
         /\ processes[r] = "child" /\ Alive(r) => Reconciled(r) = status[r]
BY DEF TypeOK, Reconciled, Orphaned, Exited, Reported, Active, Terminal

\* What the API does to the runs: it creates, stops or ends them, spawns the
\* worker of one it created, and signals.
LEMMA ApiMoves ==
  ASSUME TypeOK, ApiActs
  PROVE  /\ result' = result /\ pending' = pending /\ artifacts' = artifacts
         /\ \A q \in Run : \/ status'[q] \in {status[q], "stopped", "failed", "stopping"}
                           \/ (status[q] = "none" /\ status'[q] = "queued")
         /\ \A q \in Run : status'[q] = "none" => status[q] = "none"
         /\ \A q \in Run : \/ worker'[q] = worker[q]
                           \/ (Alive(q) /\ worker'[q] = "dead")
                           \/ (Spawn /\ q = api.run /\ worker'[q] = "boot")
         /\ budget'["resumes"] = budget["resumes"]
         /\ budget'["restarts"] \in {budget["restarts"], budget["restarts"] - 1}
<1> USE DEF workerVars
<1>a. /\ status \in [Run -> State] /\ worker \in [Run -> Place]
      /\ \A q \in Run : /\ Reconciled(q) \in {status[q], "stopped", "failed"}
                        /\ Reconciled(q) = "none" <=> status[q] = "none"
  BY JobsTypeParts, ReconciledMoves
<1>1. CASE Poll \/ \E r \in Run : Register(r)
  <2>1. status' = [q \in Run |-> Reconciled(q)]
    BY <1>1 DEF Poll, Register
  <2>2. \A q \in Run : /\ status'[q] \in {status[q], "stopped", "failed"}
                       /\ status'[q] = "none" => status[q] = "none"
    BY <1>a, <2>1
  <2>3. UNCHANGED <<result, pending, artifacts, worker, budget>>
    BY <1>1 DEF Poll, Register
  <2> QED
    BY <2>2, <2>3
<1>2. CASE \E r \in Run : Start(r)
  <2> PICK r \in Run : Start(r)
    BY <1>2
  <2>1. status' = [q \in Run |-> IF q = r THEN "queued" ELSE Reconciled(q)] /\ status[r] = "none"
    BY DEF Start
  <2>2. \A q \in Run : /\ \/ status'[q] \in {status[q], "stopped", "failed"}
                          \/ (status[q] = "none" /\ status'[q] = "queued")
                       /\ status'[q] = "none" => status[q] = "none"
    BY <1>a, <2>1
  <2>3. UNCHANGED <<result, pending, artifacts, worker, budget>>
    BY DEF Start
  <2> QED
    BY <2>2, <2>3
<1>3. CASE Spawn
  BY <1>a, <1>3 DEF Spawn
<1>4. CASE StopWrite
  BY <1>a, <1>4 DEF StopWrite
<1>5. CASE StopSignal
  BY <1>a, <1>5 DEF StopSignal, Terminate
<1>6. CASE StopWriteTimesOut \/ \E r \in Run : PollTimesOut(r)
  <2>1. budget'["restarts"] = budget["restarts"] /\ budget'["resumes"] = budget["resumes"]
    BY <1>6, SpendType DEF StopWriteTimesOut, PollTimesOut, Bounds
  <2> QED
    BY <1>6, <2>1 DEF StopWriteTimesOut, PollTimesOut
<1>7. CASE ApiCrash
  <2>1. budget'["restarts"] = budget["restarts"] - 1 /\ budget'["resumes"] = budget["resumes"]
    BY <1>7, SpendType DEF ApiCrash, Bounds
  <2> QED
    BY <1>7, <2>1 DEF ApiCrash
<1>8. CASE ApiBoot \/ \E r \in Run : StopRead(r) \/ Unregister(r)
  BY <1>8 DEF ApiBoot, StopRead, Unregister
<1> QED
  BY <1>1, <1>2, <1>3, <1>4, <1>5, <1>6, <1>7, <1>8 DEF ApiActs, ApiStep

----------------------------------------------------------------------------
(* How the steps keep the invariant.                                        *)

\* The values the invariant distinguishes.
LEMMA Distinct ==
  /\ "none" \notin Active /\ "none" \notin Terminal /\ "none" \notin Working
  /\ "dead" \notin Working /\ "result" \notin Working /\ "boot" \in Working
  /\ {"queued", "stopping", "preparing", "training"} \subseteq Active
  /\ "saved" \in Working /\ {"halted", "stopresult", "failed"} \intersect Working = {}
BY DEF Active, Terminal, Working

\* Completion is written only after the checkpoints were.
LEMMA BackedKept == TypeOK /\ Backed /\ [Next]_vars => Backed'
<1> SUFFICES ASSUME TypeOK, Backed, [Next]_vars PROVE Backed'
  OBVIOUS
<1>1. CASE UNCHANGED vars
  BY <1>1 DEF vars, Backed
<1>2. CASE ApiActs
  BY <1>2, ApiMoves DEF Backed
<1>3. ASSUME NEW r \in Run, WorkerActs(r) PROVE Backed'
  <2>1. \A q \in Run \ {r} : /\ status'[q] = status[q] /\ result'[q] = result[q]
                             /\ worker'[q] = worker[q] /\ pending'[q] = pending[q]
                             /\ artifacts'[q] = artifacts[q]
    BY <1>3, WorkerMoves
  <2>2. ("completed" \in {status'[r], result'[r], pending'[r].state}
         \/ worker'[r] \in {"saved", "result"})
          => (artifacts'[r] \/ r \in PrepareOnly)
    <3>1. CASE GoesOn(r)
      BY <3>1, Distinct DEF GoesOn, Updated, Unwritten, Backed
    <3>2. CASE Saves(r)
      BY <3>2 DEF Saves
    <3>3. CASE Completes(r)
      BY <3>3 DEF Completes, Backed
    <3>4. CASE Ends(r)
      BY <3>4 DEF Ends, Updated, Unwritten, Backed
    <3>5. CASE Resumes(r)
      BY <3>5 DEF Resumes, Backed
    <3> QED
      BY <1>3, <3>1, <3>2, <3>3, <3>4, <3>5, WorkerMoves
  <2> QED
    BY <2>1, <2>2 DEF Backed
<1> QED
  BY <1>1, <1>2, <1>3, Acts

\* Nothing is left of a run before its worker is spawned.
LEMMA UnspawnedKept == TypeOK /\ Unspawned /\ [Next]_vars => Unspawned'
<1> SUFFICES ASSUME TypeOK, Unspawned, [Next]_vars PROVE Unspawned'
  OBVIOUS
<1>1. CASE UNCHANGED vars
  BY <1>1 DEF vars, Unspawned
<1>2. CASE ApiActs
  <2>1. Spawn => api.op = "spawn" /\ api' = Idle
    BY DEF Spawn
  <2>2. \A q \in Run : /\ status'[q] = "none" => worker'[q] = "none"
                       /\ worker'[q] = "none" => result'[q] = "none" /\ pending'[q].state = "none"
    BY <1>2, <2>1, ApiMoves DEF Unspawned, Alive
  <2>3. api'.op = "spawn" => status'[api'.run] # "none" /\ worker'[api'.run] = "none"
    <3>1. CASE \E r \in Run : Start(r)
      <4> PICK r \in Run : Start(r)
        BY <3>1
      <4>1. api'.op = "spawn" /\ api'.run = r /\ status[r] = "none" /\ worker' = worker
            /\ status'[r] = "queued"
        BY DEF Start, workerVars
      <4>2. worker[r] = "none"
        BY <4>1, Zenon DEF Unspawned
      <4> QED
        BY <4>1, <4>2
    <3>2. CASE \E r \in Run : Unregister(r) \/ Register(r)
      <4>1. api' = api /\ api.op = "idle" /\ Idle.op = "idle"
        BY <3>2 DEF Unregister, Register, Idle
      <4> QED
        BY <4>1
    <3>3. CASE ~\E r \in Run : Start(r) \/ Unregister(r) \/ Register(r)
      <4>1. CASE Poll \/ Spawn \/ StopWriteTimesOut \/ ApiBoot \/ \E r \in Run : PollTimesOut(r)
        BY <4>1 DEF Poll, Spawn, StopWriteTimesOut, ApiBoot, PollTimesOut, Idle
      <4>2. CASE StopSignal \/ ApiCrash \/ \E r \in Run : StopRead(r)
        BY <4>2 DEF StopSignal, ApiCrash, StopRead
      <4>3. CASE StopWrite
        BY <4>3, ApiRuns DEF StopWrite, TypeOK
      <4> QED
        BY <1>2, <3>3, <4>1, <4>2, <4>3 DEF ApiActs, ApiStep
    <3> QED
      BY <3>1, <3>2, <3>3
  <2> QED
    BY <2>2, <2>3 DEF Unspawned
<1>3. ASSUME NEW r \in Run, WorkerActs(r) PROVE Unspawned'
  <2>1. /\ \A q \in Run \ {r} : /\ status'[q] = status[q] /\ result'[q] = result[q]
                                /\ worker'[q] = worker[q] /\ pending'[q] = pending[q]
        /\ api' = api
    BY <1>3, WorkerMoves
  <2>2. worker[r] # "none" /\ worker'[r] # "none" /\ (status[r] # "none" => status'[r] # "none")
    BY <1>3, WorkerMoves, Distinct
      DEF GoesOn, Saves, Completes, Ends, Resumes, Updated, Unwritten
  <2>3. api.op = "spawn" => api.run \in Run \ {r}
    BY <2>2, ApiRuns DEF Unspawned
  <2> QED
    BY <2>1, <2>2, <2>3 DEF Unspawned
<1> QED
  BY <1>1, <1>2, <1>3, Acts

\* A worker at work keeps no end of its run back.
LEMMA AtWorkKept == TypeOK /\ Unspawned /\ AtWork /\ [Next]_vars => AtWork'
<1> SUFFICES ASSUME TypeOK, Unspawned, AtWork, [Next]_vars PROVE AtWork'
  OBVIOUS
<1>1. CASE UNCHANGED vars
  BY <1>1 DEF vars, AtWork
<1>2. CASE ApiActs
  <2>1. Spawn => api.run \in Run /\ pending[api.run].state = "none"
    BY ApiRuns DEF Spawn, Unspawned
  <2> QED
    BY <1>2, <2>1, ApiMoves, Distinct DEF AtWork
<1>3. ASSUME NEW r \in Run, WorkerActs(r) PROVE AtWork'
  BY <1>3, WorkerMoves, Distinct
    DEF AtWork, GoesOn, Saves, Completes, Ends, Resumes, Updated, Unwritten
<1> QED
  BY <1>1, <1>2, <1>3, Acts

\* The bounds are only spent.
LEMMA BoundedKept == TypeOK /\ Bounded /\ [Next]_vars => Bounded'
<1> SUFFICES ASSUME TypeOK, Bounded, [Next]_vars PROVE Bounded'
  OBVIOUS
<1>1. /\ budget["restarts"] \in Nat /\ budget["resumes"] \in Nat
      /\ MaxRestarts \in Nat /\ MaxResumes \in Nat
  BY JobsAssumption, JobsTypeParts DEF Bounds
<1>2. /\ budget'["restarts"] \in {budget["restarts"], budget["restarts"] - 1}
      /\ budget'["resumes"] \in {budget["resumes"], budget["resumes"] - 1}
  BY Acts, ApiMoves, WorkerMoves DEF vars, Resumes
<1> QED
  BY <1>1, <1>2 DEF Bounded

\* Whoever works is not orphaned, and its process has not exited.
LEMMA WorkingIsActive ==
  ASSUME TypeOK, Known, Managed, NEW r \in Run, worker[r] \in Working
  PROVE  /\ Reconciled(r) = status[r] /\ KeptProcesses[r] = "child"
         /\ ~Exited(r) /\ ReportedAfter(r) \in Active
<1>1. result[r] = "none" /\ status[r] \in Active /\ processes[r] = "child"
  BY DEF Known
<1>2. Alive(r)
  BY Distinct DEF Alive
<1>3. ~Exited(r)
  BY <1>1, <1>2 DEF Exited
<1> QED
  BY <1>1, <1>2, <1>3, ReconciledMoves DEF KeptProcesses, ReportedAfter

\* The steps of the API keep whoever works the manager's child, reported
\* active and alone.
LEMMA ApiKnownKept ==
  ASSUME TypeOK, Unspawned, Known, Managed, ApiActs, Managed'
  PROVE  Known'
<1> USE DEF workerVars
<1> DEFINE Busy(r) == worker[r] \in Working
           Sound(r) == result[r] = "none" /\ status[r] \in Active /\ processes[r] = "child"
<1>a. /\ \A r \in Run : Busy(r) => Sound(r)
      /\ \A r, q \in Run : Busy(r) /\ Busy(q) => r = q
      /\ api.op = "spawn" => status[api.run] = "queued" /\ \A r \in Run : ~Busy(r)
  BY DEF Known
<1>b. /\ status \in [Run -> State] /\ worker \in [Run -> Place]
      /\ processes \in [Run -> {"no", "child", "old"}]
  BY JobsTypeParts
<1>1. ASSUME /\ \A r \in Run : worker'[r] \in Working =>
                  Busy(r) /\ result'[r] = "none" /\ status'[r] \in Active
                  /\ processes'[r] = "child",
             api'.op # "spawn"
      PROVE  Known'
  BY <1>a, <1>1 DEF Known
<1>2. CASE Poll \/ \E r \in Run : Register(r)
  <2>1. /\ status' = [q \in Run |-> Reconciled(q)] /\ processes' = KeptProcesses
        /\ UNCHANGED <<worker, result>>
    BY <1>2 DEF Poll, Register
  <2>2. api'.op # "spawn"
    BY <1>2 DEF Poll, Register, Idle
  <2>3. \A r \in Run : Busy(r) => Reconciled(r) = status[r] /\ KeptProcesses[r] = "child"
    BY WorkingIsActive
  <2> QED
    BY <1>1, <1>a, <2>1, <2>2, <2>3
<1>3. ASSUME NEW r \in Run, Start(r) PROVE Known'
  <2>1. \A q \in Run : ~Busy(q)
    BY <1>3, WorkingIsActive DEF Start, NothingActive
  <2>2. worker' = worker /\ api'.run = r
    BY <1>3 DEF Start
  <2>3. status'[r] = "queued"
    BY <1>3 DEF Start
  <2> QED
    BY <2>1, <2>2, <2>3 DEF Known
<1>4. CASE Spawn
  <2> DEFINE new == api.run
  <2>1. /\ new \in Run /\ status[new] = "queued" /\ \A r \in Run : ~Busy(r)
    BY <1>4, <1>a, ApiRuns DEF Spawn
  <2>2. result[new] = "none"
    BY <1>4, <2>1 DEF Spawn, Unspawned
  <2>3. /\ worker' = [worker EXCEPT ![new] = "boot"] /\ api'.op # "spawn"
        /\ processes' = [processes EXCEPT ![new] = "child"]
        /\ status' = status /\ result' = result
    BY <1>4 DEF Spawn, Idle
  <2> HIDE DEF new
  <2>4. \A r \in Run : worker'[r] \in Working => r = new
    BY <1>b, <2>1, <2>3
  <2>5. result'[new] = "none" /\ status'[new] \in Active /\ processes'[new] = "child"
    BY <1>b, <2>1, <2>2, <2>3, Distinct
  <2> QED
    BY <2>3, <2>4, <2>5 DEF Known
<1>5. CASE StopWrite
  <2>1. api'.op # "spawn"
    BY <1>5, ApiRuns DEF StopWrite, TypeOK
  <2>2. /\ api.run \in Run /\ status' = [status EXCEPT ![api.run] = "stopping"]
        /\ UNCHANGED <<worker, result, processes>>
    BY <1>5, ApiRuns DEF StopWrite
  <2>3. \A r \in Run : status'[r] \in {status[r], "stopping"}
    BY <1>b, <2>2
  <2> QED
    BY <1>1, <1>a, <2>1, <2>2, <2>3, Distinct
<1>6. CASE StopSignal
  <2>1. api'.op # "spawn" /\ UNCHANGED <<status, result, processes>>
    BY <1>6 DEF StopSignal
  <2>2. \A r \in Run : worker'[r] = worker[r] \/ worker'[r] = "dead"
    BY <1>6, <1>b DEF StopSignal, Terminate
  <2> QED
    BY <1>1, <1>a, <2>1, <2>2, Distinct
<1>7. ASSUME NEW r \in Run, PollTimesOut(r) PROVE Known'
  <2>1. /\ Exited(r) /\ processes' = [processes EXCEPT ![r] = "no"] /\ api' = Idle
        /\ UNCHANGED <<status, result, worker>>
    BY <1>7 DEF PollTimesOut
  <2>2. ~Busy(r)
    BY <2>1, WorkingIsActive
  <2>3. api'.op # "spawn"
    BY <2>1 DEF Idle
  <2> QED
    BY <1>1, <1>a, <1>b, <2>1, <2>2, <2>3
<1>8. CASE StopWriteTimesOut \/ ApiBoot
  <2>1. api' = Idle /\ UNCHANGED <<status, result, worker, processes>>
    BY <1>8 DEF StopWriteTimesOut, ApiBoot
  <2>2. api'.op # "spawn"
    BY <2>1 DEF Idle
  <2> QED
    BY <1>1, <1>a, <2>1, <2>2
<1>9. CASE \E r \in Run : StopRead(r) \/ Unregister(r)
  <2>1. UNCHANGED <<status, result, worker, processes>>
    BY <1>9 DEF StopRead, Unregister
  <2>2. api'.op # "spawn"
    BY <1>9 DEF StopRead, Unregister, Idle
  <2> QED
    BY <1>1, <1>a, <2>1, <2>2
<1>10. ~ApiCrash
  <2>1. ApiCrash => budget'["restarts"] = budget["restarts"] - 1
    BY SpendType DEF ApiCrash, Bounds
  <2>2. budget["restarts"] = MaxRestarts /\ budget'["restarts"] = MaxRestarts
        /\ MaxRestarts \in Nat
    BY JobsAssumption DEF Managed
  <2> QED
    BY <2>1, <2>2
<1> QED
  BY <1>2, <1>3, <1>4, <1>5, <1>6, <1>7, <1>8, <1>9, <1>10 DEF ApiActs, ApiStep

\* So do those of the workers: what one of them writes while it works leaves
\* its run active.
LEMMA WorkerKnownKept ==
  ASSUME TypeOK, AtWork, Unspawned, Known, Managed, NEW r \in Run, WorkerActs(r), Managed'
  PROVE  Known'
<1>1. ~Resumes(r)
  <2>1. budget["resumes"] = MaxResumes /\ budget'["resumes"] = MaxResumes /\ MaxResumes \in Nat
    BY JobsAssumption DEF Managed
  <2> QED
    BY <2>1 DEF Resumes
<1>2. /\ GoesOn(r) \/ Saves(r) \/ Completes(r) \/ Ends(r)
      /\ processes' = processes /\ api' = api
      /\ \A q \in Run \ {r} : status'[q] = status[q] /\ result'[q] = result[q]
                            /\ worker'[q] = worker[q]
  BY <1>1, WorkerMoves
<1>3. worker'[r] \in Working => /\ worker[r] \in Working /\ result'[r] = "none"
                                /\ status'[r] \in Active /\ processes'[r] = "child"
  <2>1. CASE GoesOn(r)
    BY <1>2, <2>1, Distinct DEF GoesOn, Updated, Unwritten, AtWork, Known
  <2>2. CASE Saves(r)
    BY <1>2, <2>2, Distinct DEF Saves, Unwritten, Known
  <2>3. CASE Completes(r) \/ Ends(r)
    BY <2>3, Distinct DEF Completes, Ends
  <2> QED
    BY <1>2, <2>1, <2>2, <2>3
<1>4. worker[r] # "none"
  BY <1>2, Distinct DEF GoesOn, Saves, Completes, Ends
<1>5. api.op = "spawn" => api.run \in Run \ {r}
  BY <1>4, ApiRuns DEF Unspawned
<1>6. \A q \in Run : worker'[q] \in Working =>
        /\ worker[q] \in Working /\ result'[q] = "none"
        /\ status'[q] \in Active /\ processes'[q] = "child"
  BY <1>2, <1>3 DEF Known
<1> QED
  BY <1>2, <1>5, <1>6 DEF Known

\* No restart and no resume is ever taken back.
LEMMA ManagedBefore == TypeOK /\ Bounded /\ [Next]_vars /\ Managed' => Managed
<1> SUFFICES ASSUME TypeOK, Bounded, [Next]_vars, Managed' PROVE Managed
  OBVIOUS
<1>1. /\ budget["restarts"] \in Nat /\ budget["resumes"] \in Nat
      /\ MaxRestarts \in Nat /\ MaxResumes \in Nat
  BY JobsAssumption, JobsTypeParts DEF Bounds
<1>2. /\ budget'["restarts"] \in {budget["restarts"], budget["restarts"] - 1}
      /\ budget'["resumes"] \in {budget["resumes"], budget["resumes"] - 1}
  BY Acts, ApiMoves, WorkerMoves DEF vars, Resumes
<1> QED
  BY <1>1, <1>2 DEF Bounded, Managed

\* One manager alone never lets two workers work.
LEMMA KnownKept ==
  TypeOK /\ AtWork /\ Unspawned /\ Known /\ Bounded /\ [Next]_vars => Known'
<1> SUFFICES ASSUME TypeOK, AtWork, Unspawned, Known, Bounded, [Next]_vars PROVE Known'
  OBVIOUS
<1>1. CASE ~Managed'
  BY <1>1 DEF Known
<1>2. CASE Managed'
  <2>1. Managed
    BY <1>2, ManagedBefore
  <2>2. UNCHANGED vars => Known'
    BY DEF vars, Known, Managed
  <2> QED
    BY <1>2, <2>1, <2>2, Acts, ApiKnownKept, WorkerKnownKept
<1> QED
  BY <1>1, <1>2

----------------------------------------------------------------------------
(* The theorems.                                                            *)

\* The invariant holds initially and in every reachable state.
LEMMA JobsStart == Init => JobsInv
<1> SUFFICES ASSUME Init PROVE JobsInv
  OBVIOUS
<1>1. /\ \A r \in Run : /\ status[r] = "none" /\ result[r] = "none" /\ worker[r] = "none"
                        /\ pending[r].state = "none"
      /\ api.op = "idle" /\ budget.restarts = MaxRestarts /\ budget.resumes = MaxResumes
  BY DEF Init, NoUpdate, Idle
<1>2. MaxRestarts \in Nat /\ MaxResumes \in Nat
  BY JobsAssumption
<1>3. Backed /\ Unspawned /\ AtWork /\ Known
  BY <1>1, Distinct DEF Backed, Unspawned, AtWork, Known
<1> QED
  BY <1>1, <1>2, <1>3, JobsTypesStart DEF JobsInv, Bounded

\* The invariant holds in every reachable state.
LEMMA JobsAlways == Spec => []JobsInv
<1>1. JobsInv /\ [Next]_vars => JobsInv'
  BY JobsTypesKept, BackedKept, UnspawnedKept, AtWorkKept, KnownKept, BoundedKept
    DEF JobsInv
<1> QED
  BY JobsStart, <1>1, PTL DEF Spec

\* Every variable keeps its type, whatever crashes, is killed or resumed.
THEOREM JobsTyped == Spec => []TypeOK
<1>1. JobsInv => TypeOK
  BY DEF JobsInv
<1> QED
  BY JobsAlways, <1>1, PTL

\* As long as no API process was restarted and no run resumed, at most one
\* worker prepares or trains (jobs.py:139-142).
THEOREM OneGpuJob == Spec => []SingleManagedGpuJob
<1>1. JobsInv => SingleManagedGpuJob
  <2> SUFFICES ASSUME JobsInv, Managed PROVE AtMostOneWorks
    BY DEF SingleManagedGpuJob, Managed
  <2> DEFINE W == {r \in Run : worker[r] \in Working}
  <2>1. \A r, q \in W : r = q
    BY DEF JobsInv, Known
  <2>2. CASE W = {}
    BY <2>2, FS_EmptySet DEF AtMostOneWorks
  <2>3. CASE W # {}
    <3> PICK r \in W : TRUE
      BY <2>3
    <3>1. W = {r}
      BY <2>1
    <3>2. Cardinality(W) = 1
      BY <3>1, FS_Singleton
    <3> QED
      BY <3>2 DEF AtMostOneWorks
  <2> QED
    BY <2>2, <2>3
<1> QED
  BY JobsAlways, <1>1, PTL

\* A run reported completed has its checkpoints or needed none, although its
\* status and its result are two files written at different times.
THEOREM CompletionIsBacked == Spec => []CompletedHasArtifacts
<1>1. JobsInv => CompletedHasArtifacts
  BY DEF JobsInv, Backed, CompletedHasArtifacts, Reported
<1> QED
  BY JobsAlways, <1>1, PTL

\* The report of a run whose worker is gone, in one step of the API.
LEMMA EndedStaysReported ==
  ASSUME TypeOK, NEW r \in Run, Reported(r) \in Terminal,
         ~(api.op = "stopping" /\ api.run = r), ApiActs
  PROVE  Reported(r)' = Reported(r)
<1> USE DEF workerVars
<1>a. result' = result
  BY ApiMoves
<1>b. status \in [Run -> State] /\ result \in [Run -> Terminal \union {"none"}]
  BY JobsTypeParts
<1>1. CASE result[r] # "none"
  BY <1>a, <1>1 DEF Reported
<1>2. CASE result[r] = "none"
  <2>1. status[r] \in Terminal /\ status[r] \notin Active /\ status[r] # "none"
    BY <1>2 DEF Reported, Active, Terminal
  <2>2. Reconciled(r) = status[r]
    BY <1>2, <2>1 DEF Reconciled, Orphaned, Reported
  <2>3. status'[r] = status[r]
    <3>1. CASE Poll \/ \E q \in Run : Start(q) \/ Register(q)
      BY <2>1, <2>2, <3>1 DEF Poll, Start, Register
    <3>2. CASE StopWrite
      BY <1>b, <3>2 DEF StopWrite
    <3>3. CASE ~StopWrite /\ ~Poll /\ ~\E q \in Run : Start(q) \/ Register(q)
      BY <3>3 DEF ApiActs, ApiStep, Spawn, StopWriteTimesOut, StopSignal, ApiBoot, ApiCrash,
         StopRead, PollTimesOut, Unregister
    <3> QED
      BY <3>1, <3>2, <3>3
  <2> QED
    BY <1>a, <2>3 DEF Reported
<1> QED
  BY <1>1, <1>2

\* A worker that is gone writes nothing.
LEMMA DeadWritesNothing ==
  ASSUME TypeOK, NEW r \in Run, worker[r] = "dead", WorkerActs(r)
  PROVE  worker'[r] # "dead"
<1>1. worker \in [Run -> Place]
  BY JobsTypeParts
<1>2. Resume(r)
  BY Zenon DEF WorkerActs, WorkerStep, Finish, Move, WorkerStart, PreparationProgress,
    Prepared,
     PrepareOnlyDone, EnterTraining, TrainingProgress, SaveFinal, ReportCompleted, WriteCompleted,
     Halt, ConfirmStopped, WriteStopped, Fail, ReportFailed, Kill, Alive
<1> QED
  BY <1>1, <1>2 DEF Resume

\* The report of a run that ended, with its worker gone, is final for every
\* set of runs and whatever crashes, but for a resume and for a stop request
\* that had read the status before.
THEOREM ReportsAreFinal == Spec => ReportIsFinal
<1>1. JobsInv /\ [Next]_vars =>
        [\A r \in Run :
           worker[r] = "dead" /\ worker'[r] = "dead" /\ Reported(r) \in Terminal
           /\ ~(api.op = "stopping" /\ api.run = r)
             => Reported(r)' = Reported(r)]_vars
  <2> SUFFICES ASSUME TypeOK, [Next]_vars, NEW r \in Run,
                      worker[r] = "dead", worker'[r] = "dead", Reported(r) \in Terminal,
                      ~(api.op = "stopping" /\ api.run = r)
               PROVE  Reported(r)' = Reported(r)
    BY DEF JobsInv
  <2>1. CASE UNCHANGED vars
    BY <2>1 DEF vars, Reported
  <2>2. CASE ApiActs
    BY <2>2, EndedStaysReported
  <2>3. CASE \E q \in Run : WorkerActs(q)
    <3> PICK q \in Run : WorkerActs(q)
      BY <2>3
    <3>1. q # r
      BY DeadWritesNothing
    <3>2. status'[r] = status[r] /\ result'[r] = result[r]
      BY <3>1, WorkerMoves
    <3> QED
      BY <3>2 DEF Reported
  <2> QED
    BY <2>1, <2>2, <2>3, Acts
<1> QED
  BY JobsAlways, <1>1, PTL DEF Spec, ReportIsFinal
=============================================================================
