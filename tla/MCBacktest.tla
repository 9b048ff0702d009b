----------------------------- MODULE MCBacktest -----------------------------
(* An instance of Backtest for TLC: long only, with leverage, and short.     *)
EXTENDS Backtest

MCConfigs == {[short |-> FALSE, leverage |-> Unit],
              [short |-> FALSE, leverage |-> 2 * Unit],
              [short |-> TRUE,  leverage |-> Unit]}
MCTargets == {-Unit, Unit \div 2, 2 * Unit}
=============================================================================
