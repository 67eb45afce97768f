--------------------- MODULE MCTerminationDetection ---------------------
(* TerminationDetection for four ranks and three outstanding tasks. *)
EXTENDS TerminationDetection

CONSTANTS r0, r1, r2, r3, t1, t2, t3

MCRank == {r0, r1, r2, r3}
MCTask == {t1, t2, t3}
=============================================================================
