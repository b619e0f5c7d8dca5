SPECIFICATION QueueSpec
CONSTANTS
    MaxTasks = 1
    MaxTime = 3
    Caller = {c1}
    Key = {k1}
    NoKey = NoKey
    Session = {s1}
    NoSession = NoSession
    Route = {r1}
    NoRoute = NoRoute
    StaleTimeout = 0
    IdempotencyWindow = 0
    MaxRecoveries = 1
    Failure = {"error", "idle"}
SYMMETRY Symmetry
CHECK_DEADLOCK FALSE
INVARIANTS
    ReceiptKeepsRoute
