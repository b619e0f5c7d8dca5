SPECIFICATION ServicesSpec
CONSTANTS
    Call = {1, 2, 3}
    Request <- GatewayRequests
    WaitApproval = TRUE
    FinalizeResult = TRUE
    CancelOnErr <- GatewayCancelOnErr
    MaxFaults = 1
    NoRequest = NoRequest
    PoolJob = {j1, j2, j3}
    PoolCloser = {s1}
    QueueSize = 1
    MaxConcurrent = 1
    McpCall = {1, 2}
    MaxNotifications = 2
    MaxGarbage = 1
    Proc = {1, 2}
    Stopper = {k1}
    Closer = closer
    Turn <- AgentTurns
    File <- AgentFiles
    MaxIterations = 4
    RetryMax = 2
    AckMax = 1
    KeepRecent = 2
    MaxUpdates = 2
    Saying <- OperatorSayings
    Answerer = {a1, a2}
    MaxShellFaults = 1
CONSTRAINT Explored
CHECK_DEADLOCK FALSE
INVARIANTS
    ServicesTypeOK
    ApprovalSpentOnce
    ReceiptTellsEffect
    PoolDrained
    McpAnswersInStep
    CloseLeavesNothing
    StatusTellsEnd
    ConflictsInOrder
    FatalEndsRun
    HistoryPaired
    ShellAccounts
    AnswerHasResume
PROPERTIES
    ServicesComeToRest
