SPECIFICATION DaemonSpec
CONSTANTS
    MaxTasks = 1
    MaxTime = 2
    Worker = {w1, w2}
    Main = main
    Client = {c1}
    Caller = {w1, w2, main, c1}
    NoWorker = NoWorker
    Conn = {}
    Key = {}
    NoKey = NoKey
    Session = {}
    NoSession = NoSession
    Route = {}
    NoRoute = NoRoute
    StaleTimeout = 0
    IdempotencyWindow = 0
    MaxRecoveries = 1
    Failure = {"error", "stopped", "idle", "active_but_killed"}
    Gated = {1}
    InactivityTimeout = 1
    WallClockTimeout = 1
    MaxBeats = 0
    MaxStops = 1
    Fault = {"crash", "store", "foreign"}
SYMMETRY Symmetry
CHECK_DEADLOCK FALSE
INVARIANTS
    EnvelopeNeverAhead
    DoneThroughGate
