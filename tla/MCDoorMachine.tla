---------------------------- MODULE MCDoorMachine ----------------------------
(***************************************************************************)
(* Two strike times (the default and the accessibility extension), a shunt *)
(* that outlives the ordinary strike time, and a held-open threshold.      *)
(***************************************************************************)
EXTENDS DoorMachine
=============================================================================
