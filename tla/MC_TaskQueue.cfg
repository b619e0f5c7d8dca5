SPECIFICATION QueueSpec
CONSTANTS
    MaxTasks = 2
    MaxTime = 3
    Caller = {c1, c2}
    Key = {k1}
    NoKey = NoKey
    Session = {s1}
    NoSession = NoSession
    Route = {}
    NoRoute = NoRoute
    StaleTimeout = 0
    IdempotencyWindow = 0
    MaxRecoveries = 1
    Failure = {"error"}
SYMMETRY Symmetry
CONSTRAINT Explored
CHECK_DEADLOCK FALSE
INVARIANTS
    ReceiptMatchesStatus
    RecoveryBudget
    QueueTypeOK
    OneActivePerKey
PROPERTIES
    TerminalIsFinal
    ImplementsLifecycle
