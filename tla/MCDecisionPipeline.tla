-------------------------- MODULE MCDecisionPipeline --------------------------
(* Instances of DecisionPipeline for TLC: two markets of one event and one of  *)
(* another, with a window of two minutes that closes before the horizon.       *)
EXTENDS DecisionPipeline

CONSTANTS m1, m2, m3, e1, e2

MCEventOf == [m \in Market |-> IF m = m3 THEN e2 ELSE e1]
MCStartOf == [m \in Market |-> IF m = m2 THEN 4 ELSE 3]
===============================================================================
