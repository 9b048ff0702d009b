------------------------------ MODULE BarTape ------------------------------
(* What a running paper session promises about the bars it closes: a tape   *)
(* that starts with the bar the bootstrap left open and only grows, one     *)
(* interval at a time, and whose bars never change.                         *)
EXTENDS Naturals, Sequences

CONSTANTS TF, Bar

VARIABLES tape, since

Init == tape = <<>>

Extend ==
  /\ Len(tape') = Len(tape) + 1
  /\ LET bar == tape'[Len(tape')]
     IN /\ bar \in Bar
        /\ bar.ts = since + Len(tape) * TF
        /\ tape' = Append(tape, bar)
  /\ UNCHANGED since

\* A new session starts a new tape.
Cut == tape' = <<>>

Next == Extend \/ Cut

Spec == Init /\ [][Next]_<<tape, since>>
=============================================================================
