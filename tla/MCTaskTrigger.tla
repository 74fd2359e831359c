---------------------------- MODULE MCTaskTrigger ----------------------------
(* Values for the constants of TaskTrigger. *)
EXTENDS TaskTrigger

CONSTANTS i1, i2

BothInOrder == <<i1, i2>>
=============================================================================
