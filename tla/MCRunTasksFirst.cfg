SPECIFICATION Spec
CONSTANTS
    NumTasks = 2
    Priority <- PairPriority
    Period <- PairPeriod
    Manifests <- PairManifests
    Events = {"shutdown", "reload"}
    Shutdown = "shutdown"
    Reload = "reload"
    Signals = {"SIGINT"}
    MaxEventQueue = 1
    Posts <- PairPosts
    MaxWait = 0
    MaxRun = 0
    Oldest = 2
    FrameLimit = 2
INVARIANT FirstMeansFirst
CHECK_DEADLOCK FALSE
