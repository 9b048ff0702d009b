----------------------------- MODULE MCWorkerRun -----------------------------
(* One run that trains and one worker that only prepares the same data.     *)
EXTENDS WorkerRun

CONSTANTS w1, w2, encoder, jepa, policy

MCHorizons == <<1, 3>>

\* Representation, then policy fine-tuning with the predictor frozen.
MCStages ==
  << [end |-> 1, modules |-> {encoder, jepa},   patience |-> 0],
     [end |-> 3, modules |-> {encoder, policy}, patience |-> 1] >>
=============================================================================
