---------------------------- MODULE MCMarketTracking ----------------------------
(* Instances of MarketTracking for TLC: one match after the other, with two    *)
(* runners each.                                                               *)
EXTENDS MarketTracking

CONSTANTS m1, m2, r1, r2

MCFirstKickOff == [m \in Market |-> IF m = m1 THEN 2 ELSE 3]
===============================================================================
