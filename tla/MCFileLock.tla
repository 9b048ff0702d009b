----------------------------- MODULE MCFileLock -----------------------------
(* Instances of FileLock for TLC.  Processes are interchangeable; symmetry  *)
(* is used only by the runs that check no temporal property.                *)
EXTENDS FileLock, TLC

Symmetry == Permutations(Proc)
=============================================================================
