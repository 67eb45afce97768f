\* Two workers and three tasks: a worker that waits for the acknowledgement of a task it
\* sent can be given another one, and two tasks can be queued at the center.  Two of the
\* fullness notices may come from memory use.  Sends may wait for the receiver.
CONSTANTS
    WorldSize = 3
    MaxTasks = 3
    TasksPerProcess = 1
    Memory = {"low", "middle", "high"}
    MaxNotices = 2
    Scores = {}
    Goal = "MAXIMISE"
    Rendezvous = TRUE
    Default = 0
    Nothing = Nothing
    MaxWorkers = 3
SPECIFICATION FairClockSpec
INVARIANTS
    TimedInv
    NoThrow
    NothingLost
    AvailableIsIdle
    NobodyWaits
    CenterMessagesRead
PROPERTIES
    ImplementsDetection
    Termination
