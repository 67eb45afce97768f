\* Two ranks and one client.  Two commands: a snapshot may be asked for while the one before
\* is outstanding, and the stream paused and resumed.
CONSTANTS
    WorldSize = 2
    Modes = {"MT_ONLY", "MP_MPI"}
    Host <- MCHost
    Client = {c1}
    OutboxLines = 1
    LineParts = 2
    Intervals = {10}
    Bounds <- MCBounds
    Rendezvous = FALSE
    None = None
SPECIFICATION FairSpec
INVARIANTS
    IInv
    ControlsAgree
    SnapshotComplete
    OutboxKeeps
PROPERTIES
    ShutdownEnds
    SnapshotAnswered
