---------------------------- MODULE MCPortForward ----------------------------
(* Values for the constants of PortForward. *)
EXTENDS PortForward

CONSTANTS forward, adb

Both == {forward, adb}
OneForwards == {forward}
=============================================================================
