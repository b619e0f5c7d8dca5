SPECIFICATION DaemonSpec
CONSTANTS
    MaxTasks = 1
    MaxTime = 3
    Worker = {w1, w2}
    Main = main
    Client = {c1}
    Caller = {w1, w2, main, c1}
    NoWorker = NoWorker
    Conn = {}
    Key = {}
    NoKey = NoKey
    Session = {s1}
    NoSession = NoSession
    Route = {}
    NoRoute = NoRoute
    StaleTimeout = 1
    IdempotencyWindow = 0
    MaxRecoveries = 1
    Failure = {"error", "stopped", "idle", "active_but_killed"}
    Gated = {1}
    InactivityTimeout = 1
    WallClockTimeout = 2
    MaxBeats = 1
    MaxStops = 2
    Fault = {"crash"}
SYMMETRY Symmetry
CHECK_DEADLOCK FALSE
INVARIANTS
    DaemonTypeOK
    ClaimIsHeld
    ExclusiveExecution
    RegistryTracksRunners
    EnvelopeSettles
    FinishedIsHanded
    RetirementJustified
    StopIsNotTimeout
