---------------------------- MODULE MCLivePaper ----------------------------
(* Instances of LivePaper for TLC. *)
EXTENDS LivePaper
=============================================================================
