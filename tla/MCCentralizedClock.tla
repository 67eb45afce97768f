------------------------ MODULE MCCentralizedClock ------------------------
(* CentralizedClock with the constants its configuration gives. *)
EXTENDS CentralizedClock
=============================================================================
