SPECIFICATION ActivationFairSpec
CONSTANTS
    Runner = {r1, r2}
    Loop = r1
    Followup = {f1}
    QueueRow = {q1}
    BareSignal = {b1}
    Malformed = {b1}
    AgenticTask = {1, 2, 3}
    AutoEnqueue = TRUE
    MaxRunFaults = 1
    None = None
CHECK_DEADLOCK FALSE
INVARIANTS
    ActivationTypeOK
    FollowupHasItsTask
    EnqueuedOnce
    SignalAccounted
PROPERTIES
    FollowupServed
