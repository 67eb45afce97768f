\* Two workers, one score: the only result is found after the last score update.
CONSTANTS
    WorldSize = 3
    MaxTasks = 2
    TasksPerProcess = 1
    Memory = {"low"}
    MaxNotices = 0
    Scores = {1}
    Goal = "MAXIMISE"
    Rendezvous = FALSE
    Default = 0
    Nothing = Nothing
SPECIFICATION Spec
INVARIANTS
    BestIsReturned
