------------------------------ MODULE MCBroker ------------------------------
(* An instance of Broker for TLC: long only with and without leverage, and   *)
(* short; targets beyond every limit.                                        *)
EXTENDS Broker

MCConfigs == {[short |-> FALSE, leverage |-> Unit],
              [short |-> FALSE, leverage |-> 2 * Unit],
              [short |-> TRUE,  leverage |-> Unit]}
MCTargets == {-3 * Unit, -(Unit \div 2), 0, Unit \div 2, 3 * Unit}
MCQuotes  == {[bid |-> 1, ask |-> 3], [bid |-> 4, ask |-> 4], [bid |-> 3, ask |-> 5]}
=============================================================================
