\* Four ranks and three outstanding tasks: a task can arrive at a rank engaged by
\* another one and the tree of parents can be three levels deep.  No symmetry,
\* since a liveness property is checked.
CONSTANTS
    r0 = r0
    r1 = r1
    r2 = r2
    r3 = r3
    t1 = t1
    t2 = t2
    t3 = t3
    NoParent = NoParent
    Rank <- MCRank
    Task <- MCTask
    Root = r0
SPECIFICATION FairSpec
INVARIANTS
    IInv
    SafeTermination
PROPERTIES
    StaysTerminated
    TerminationDetected
CHECK_DEADLOCK FALSE
