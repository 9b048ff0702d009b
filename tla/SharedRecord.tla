---------------------------- MODULE SharedRecord ----------------------------
(***************************************************************************)
(* What update_json_file promises to its callers (marketlm/fileio.py): a   *)
(* JSON record that several processes update as if every update were one   *)
(* atomic step.  Each process owns one key of the record and every update  *)
(* counts that key up, so an update that is lost or applied to an old copy *)
(* of the record is a step this module does not allow.                     *)
(***************************************************************************)
EXTENDS Naturals

CONSTANT Proc          \* the processes that update the record

VARIABLE file          \* file[p]: the value stored under p's key

Init == file = [p \in Proc |-> 0]

Update(p) == file' = [file EXCEPT ![p] = @ + 1]

Next == \E p \in Proc : Update(p)

Spec == Init /\ [][Next]_file
=============================================================================
