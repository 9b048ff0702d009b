----------------------------- MODULE MCSessions -----------------------------
EXTENDS Sessions, TLC

CONSTANTS s1, s2

\* Sessions share nothing their strategies decide by: one kind at a time.
MCPlans == {[s \in Session |-> k] : k \in Kind}

\* A strategy that holds.
MCHold == {[s \in Session |-> "hold"]}

\* The second row of a bootstrap is the first that can act.
MCBootstraps == {<<"none", "down">>, <<"none", "none">>}

\* The requests are alike: only safety is checked.
Alike == Permutations(Session)
=============================================================================
