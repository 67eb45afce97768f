-------------------------- MODULE MCCentralized --------------------------
(* Centralized with the constants its configurations give. *)
EXTENDS Centralized
=============================================================================
