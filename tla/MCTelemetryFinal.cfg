\* Two ranks; rank 1 sends one frame and shuts down.
CONSTANTS
    WorldSize = 2
    Modes = {"MP_MPI"}
    Host <- MCHost
    Client = {c1}
    OutboxLines = 1
    LineParts = 2
    Intervals = {10}
    Bounds <- FinalBounds
    Rendezvous = FALSE
    None = None
SPECIFICATION FairSpec
PROPERTIES
    LatestGoesForward
