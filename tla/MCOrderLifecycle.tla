---------------------------- MODULE MCOrderLifecycle ----------------------------
(* Instances of OrderLifecycle for TLC.                                        *)
EXTENDS OrderLifecycle, TLC

CONSTANTS d1, d2   \* two decisions; nothing distinguishes them

Symmetry == Permutations({d1, d2})
===============================================================================
