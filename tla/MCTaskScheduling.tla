--------------------------- MODULE MCTaskScheduling ---------------------------
(* Instances of TaskScheduling for TLC. *)
EXTENDS TaskScheduling

CONSTANTS r1   \* a health request
===============================================================================
