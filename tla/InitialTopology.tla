-------------------------- MODULE InitialTopology --------------------------
(***************************************************************************)
(* The initial tree of ranks that the semi-centralized center builds.  A   *)
(* tree is the list of children of every worker.                           *)
(***************************************************************************)
EXTENDS Integers, Sequences, FiniteSets, Functions

\* utils::build_topology(tree, parent, depth, 2, total): one child at each depth, and
\* below it those of the depths that are left.
RECURSIVE build_topology(_, _, _, _)
build_topology(tree, parent, depth, total) ==
    LET child == parent + 2^depth
        grown == IF child >= total THEN tree
                 ELSE build_topology([tree EXCEPT ![parent] = Append(@, child)],
                                     child, depth + 1, total)
    IN  IF 2^depth >= total THEN tree ELSE build_topology(grown, parent, depth + 1, total)

InitialTree(total) == build_topology([r \in 1 .. total - 1 |-> <<>>], 1, 0, total)

\* Bound: the world sizes for which the tree is examined.
LargestWorld == 40

\* Every rank but the center and rank 1 is the child of one rank, a lower one, in one place:
\* no add_next throws, and the tree hangs on rank 1, which gets the seed.
ASSUME TreeAssumption ==
    \A total \in 2 .. LargestWorld :
        LET tree == InitialTree(total) IN
        \A r \in 1 .. total - 1 :
            LET places == {x \in (1 .. total - 1) \X (1 .. total) :
                             x[2] <= Len(tree[x[1]]) /\ tree[x[1]][x[2]] = r}
            IN  /\ Cardinality(places) = IF r = 1 THEN 0 ELSE 1
                /\ \A x \in places : x[1] < r
=============================================================================
