SPECIFICATION Spec
CONSTANTS
    NumTasks = 1
    Priority <- OnePriority
    Period <- OnePeriod
    Manifests <- OneManifests
    Events = {"shutdown", "reload"}
    Shutdown = "shutdown"
    Reload = "reload"
    Signals = {"SIGINT", "SIGTERM", "SIGHUP"}
    MaxEventQueue = 2
    Posts <- OnePosts
    MaxWait = 1
    MaxRun = 1
    Oldest = 2
    FrameLimit = 2
INVARIANTS TypeOK FreshVmIsCalled
PROPERTIES GraceNeverExtended RestartRateLimited
CHECK_DEADLOCK FALSE
