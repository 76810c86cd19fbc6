SPECIFICATION Spec
CONSTANTS
    NumTasks = 2
    Priority <- PairPriority
    Period <- PairPeriod
    Manifests <- PairManifests
    Events = {"shutdown", "reload"}
    Shutdown = "shutdown"
    Reload = "reload"
    Signals = {"SIGINT"}
    MaxEventQueue = 1
    Posts <- PairPosts
    MaxWait = 0
    MaxRun = 0
    Oldest = 2
    FrameLimit = 1
INVARIANTS ExitJustified NoWorkWhileAsleep NeverOversleeps
PROPERTIES FinishedIsFinal WakeupStable ShutdownCompletes WakeupsArrive
CHECK_DEADLOCK FALSE
