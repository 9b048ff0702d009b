------------------------------ MODULE MCCaches ------------------------------
(* Instances of Caches for TLC. *)
EXTENDS Caches, TLC

Symmetry == Permutations(Thread)
=============================================================================
