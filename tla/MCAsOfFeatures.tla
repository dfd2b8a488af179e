---------------------------- MODULE MCAsOfFeatures ----------------------------
(* Instances of AsOfFeatures for TLC. *)
EXTENDS AsOfFeatures, TLC

CONSTANTS a, b, c, alias   \* three teams of the file, and another name of one

Symmetry == Permutations(Team)

AsInFile == [t \in Team |-> t]
OneAliased == [t \in Team |-> IF t = a THEN alias ELSE t]
===============================================================================
