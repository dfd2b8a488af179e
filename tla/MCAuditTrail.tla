----------------------------- MODULE MCAuditTrail -----------------------------
(* Instances of AuditTrail for TLC.                                            *)
EXTENDS AuditTrail

CONSTANTS m1, m2
===============================================================================
