\* One worker, so that the limit is two tasks and six are enough to queue more than twice
\* that.  Memory use is low: every notice comes from the queue.
CONSTANTS
    WorldSize = 2
    MaxTasks = 6
    TasksPerProcess = 1
    Memory = {"low"}
    MaxNotices = 0
    Scores = {1}
    Goal = "MAXIMISE"
    Rendezvous = TRUE
    Default = 0
    Nothing = Nothing
    MaxWorkers = 2
SPECIFICATION FairClockSpec
INVARIANTS
    FullnessAgrees
    ClockAgrees
PROPERTIES
    FullnessRecovers
    Termination
