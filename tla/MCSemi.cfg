\* Three workers, as many as the topology of build_topology needs for a rank with two
\* children, and three tasks: a worker can send twice, and one that waits for the
\* acknowledgement of a task it sent can be sent another one.  Results are found while one or
\* two tasks have been created, and no third one is created then: two workers may hold results,
\* propose them in either order and read the other's late.  MPI buffers
\* packets.  No symmetry: liveness is checked.
CONSTANTS
    WorldSize = 4
    Topology <- BuiltTopology
    MaxTasks = 3
    ScoredTasks = {1, 2}
    Scores = {1, 2}
    Finds <- MCFinds
    Goal = "MAXIMISE"
    Rendezvous = FALSE
    Default = 0
    Nothing = Nothing
SPECIFICATION FairSpec
INVARIANTS
    IInv
    NoThrow
    NothingLost
    AssignmentConsistent
    CenterMessagesRead
    BestIsReturned
PROPERTIES
    ImplementsDetection
    Termination
