---------------------------- MODULE MCEdgeAndStake ----------------------------
(* Instances of EdgeAndStake for TLC: a favourite, an even match, an outsider, *)
(* and two answers that sit on the prices.                                     *)
EXTENDS EdgeAndStake

MCAnswers ==
    {[of |-> a, per |-> 100] :
        a \in {<<70, 20, 10>>, <<45, 30, 25>>, <<34, 33, 33>>, <<5, 15, 80>>, <<72, 16, 12>>}}
===============================================================================
