\* Two workers, and tasks enough for both to send to each other twice.  MPI_Send waits for the
\* receiver.  The run may stop: that is what is looked for.
CONSTANTS
    WorldSize = 3
    Topology <- BuiltTopology
    MaxTasks = 6
    ScoredTasks = {}
    Scores = {}
    Finds <- MCFinds
    Goal = "MAXIMISE"
    Rendezvous = TRUE
    Default = 0
    Nothing = Nothing
SPECIFICATION FairSpec
CHECK_DEADLOCK FALSE
PROPERTY
    Termination
