------------------------ MODULE MCSemiCentralized ------------------------
(* SemiCentralized with the topology the center builds. *)
EXTENDS SemiCentralized, InitialTopology

BuiltTopology == InitialTree(WorldSize)

\* Rank 1 finds the lowest score only.  The others find every score: they can improve their own
\* result and overtake the proposal of rank 1.
MCFinds == [w \in Worker |-> IF w = 1 THEN {s \in Scores : \A t \in Scores : s <= t} ELSE Scores]
=============================================================================
