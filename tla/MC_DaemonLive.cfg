SPECIFICATION FairDaemonSpec
CONSTANTS
    MaxTasks = 1
    MaxTime = 3
    Worker = {w1}
    Main = main
    Client = {c1}
    Caller = {w1, main, c1}
    NoWorker = NoWorker
    Conn = {k1}
    Key = {}
    NoKey = NoKey
    Session = {}
    NoSession = NoSession
    Route = {}
    NoRoute = NoRoute
    StaleTimeout = 1
    IdempotencyWindow = 0
    MaxRecoveries = 1
    Failure = {"error", "stopped", "idle", "active_but_killed"}
    Gated = {1}
    InactivityTimeout = 1
    WallClockTimeout = 2
    MaxBeats = 1
    MaxStops = 1
    Fault = {}
CHECK_DEADLOCK FALSE
PROPERTIES
    RunIsFinished
    ShutdownCompletes
