----------------------------- MODULE TaskQueue -----------------------------
(***************************************************************************)
(* The SQLite-backed task queue of the daemon (internal/daemon/queue.go).  *)
(*                                                                         *)
(* The table task_queue is the function tasks; a row that has not been     *)
(* inserted yet has status "absent".  Every SQL statement or transaction   *)
(* is one atomic step.  An operation made of several statements (Enqueue,  *)
(* MarkDone, CancelTask, ...) keeps what it has read so far in call[c],    *)
(* the activation record of its caller c, so other callers may run between *)
(* its statements.  Callers are goroutines of the daemon and other         *)
(* processes (CLI, Telegram shell): here they may call any operation on    *)
(* any task at any time, the modules that extend this one say which calls  *)
(* the daemon makes.                                                       *)
(***************************************************************************)
EXTENDS Integers, FiniteSets

CONSTANTS
    MaxTasks,           \* bound: number of rows ever inserted
    MaxTime,            \* bound: last instant of the clock
    Caller,             \* goroutines and processes that use the queue
    Key,                \* idempotency keys
    NoKey,              \* the empty idempotency key
    Session,            \* execution sessions
    NoSession,          \* the empty session id
    Route,              \* delivery routes a payload may carry
    NoRoute,            \* no delivery targets: every sink is eligible
    StaleTimeout,       \* defaultStaleTimeout, in clock ticks
    IdempotencyWindow,  \* idempotencyWindow, in clock ticks
    MaxRecoveries,      \* defaultMaxRecoveries
    Failure             \* the causes MarkFailed is called with

ASSUME QueueAssumption ==
    /\ MaxTasks \in Nat \ {0}
    /\ MaxTime \in Nat \ {0}
    /\ StaleTimeout \in Nat
    /\ IdempotencyWindow \in Nat
    /\ MaxRecoveries \in Nat
    /\ Failure \subseteq {"error", "stopped", "idle", "active_but_killed"}
    /\ NoKey \notin Key
    /\ NoSession \notin Session
    /\ NoRoute \notin Route

VARIABLES
    tasks,              \* the table task_queue
    now,                \* the wall clock
    call                \* the operation each caller is inside of

queueVars == <<tasks, now, call>>

-----------------------------------------------------------------------------
(***************************************************************************)
(* Types.                                                                  *)
(***************************************************************************)
TaskId == 1..MaxTasks
NoTask == 0
Active == {"pending", "running"}
Terminal == {"done", "failed"}
KeyVal == Key \cup {NoKey}
SessionVal == Session \cup {NoSession}
RouteVal == Route \cup {NoRoute}
TimeoutClass == {"none", "idle", "active_but_killed"}

\* taskCompletionRecord, the durable receipt of a finished task.  cause is
\* the failure metadata: "none" for MarkDone and for an exhausted recovery,
\* "cancelled" for CancelTask, "stopped" for the cancellation of a running
\* task; the classes of a timeout name themselves.
Cause == {"none", "cancelled", "error", "stopped", "idle", "active_but_killed"}
Completion ==
    [status : Terminal, session : SessionVal, route : RouteVal,
     started : Nat, cause : Cause]
NoCompletion ==
    [status |-> "absent", session |-> NoSession, route |-> NoRoute,
     started |-> 0, cause |-> "none"]

\* A row of task_queue.  The texts (payload, progress, summary, result) and
\* completed_at are left out; route is the delivery route inside the payload.
Row ==
    [status : Active \cup Terminal \cup {"absent"},
     key : KeyVal, session : SessionVal, route : RouteVal,
     created : Nat, updated : Nat, started : Nat,
     class : TimeoutClass, idle : Nat, active : Nat,
     completion : Completion \cup {NoCompletion}]
NoRow ==
    [status |-> "absent", key |-> NoKey, session |-> NoSession,
     route |-> NoRoute, created |-> 0, updated |-> 0, started |-> 0,
     class |-> "none", idle |-> 0, active |-> 0,
     completion |-> NoCompletion]

\* The activation record of a caller: op is the next statement to execute.
Op == {"idle", "lookup", "insert", "relookup", "annotate", "finish",
       "cancelbuild", "cancel", "recover"}
Call ==
    [op : Op, key : KeyVal, session : SessionVal, route : RouteVal,
     at : Nat, task : TaskId \cup {NoTask},
     draft : Completion \cup {NoCompletion}]
NoCall ==
    [op |-> "idle", key |-> NoKey, session |-> NoSession, route |-> NoRoute,
     at |-> 0, task |-> NoTask, draft |-> NoCompletion]

\* Type correctness of the queue.
QueueTypeOK ==
    /\ tasks \in [TaskId -> Row]
    /\ now \in 1..MaxTime
    /\ call \in [Caller -> Call]

-----------------------------------------------------------------------------
QueueInit ==
    /\ tasks = [i \in TaskId |-> NoRow]
    /\ now = 1
    /\ call = [c \in Caller |-> NoCall]

Tick ==
    /\ now < MaxTime
    /\ now' = now + 1
    /\ UNCHANGED <<tasks, call>>

Exists(i) == tasks[i].status # "absent"

\* The operation returns to its caller.
Return(c) == call' = [call EXCEPT ![c] = NoCall]

\* Any statement of an operation may fail (a database still locked after the
\* retries, a cancelled or expired context): the operation returns an error
\* and the statement has no effect.
AbortCall(c) ==
    /\ call[c].op # "idle"
    /\ Return(c)
    /\ UNCHANGED <<tasks, now>>

\* A process dies with the callers S that run in it; SQLite rolls back a
\* transaction that has not committed.
Die(S) ==
    /\ call' = [c \in Caller |-> IF c \in S THEN NoCall ELSE call[c]]
    /\ UNCHANGED <<tasks, now>>

-----------------------------------------------------------------------------
(***************************************************************************)
(* Enqueue: a cheap lookup, an INSERT guarded by the partial unique index  *)
(* task_queue_idem_active, and a second lookup when the index refuses.     *)
(***************************************************************************)
\* Rows that lookupActiveTaskID and lookupActiveTaskIDAny select.
ActiveWithKey(k, cutoff) ==
    {i \in TaskId : /\ tasks[i].status \in Active
                    /\ tasks[i].key = k
                    /\ tasks[i].created >= cutoff}

\* ORDER BY created_at DESC LIMIT 1, and ASC
Newest(S) == {i \in S : \A j \in S : tasks[j].created <= tasks[i].created}
Oldest(S) == {i \in S : \A j \in S : tasks[i].created <= tasks[j].created}

\* The index covers the rows WHERE status IN ('pending','running') AND
\* idempotency_key != ''.
UniqueViolationPendingOnly(k) ==   \* mutant: the index forgets running rows
    k # NoKey /\ \E i \in ActiveWithKey(k, 0) : tasks[i].status = "pending"
UniqueViolation(k) == k # NoKey /\ ActiveWithKey(k, 0) # {}

\* AUTOINCREMENT
IsNextId(i) ==
    /\ tasks[i].status = "absent"
    /\ \A j \in TaskId : j < i => tasks[j].status # "absent"

NewRow(k, s, r, at) ==
    [NoRow EXCEPT !.status = "pending", !.key = k, !.session = s,
                  !.route = r, !.created = at, !.updated = at]

EnqueueStart(c, k, s, r) ==
    /\ call[c].op = "idle"
    /\ call' = [call EXCEPT ![c] =
          [NoCall EXCEPT !.op = IF k = NoKey THEN "insert" ELSE "lookup",
                         !.key = k, !.session = s, !.route = r, !.at = now]]
    /\ UNCHANGED <<tasks, now>>

EnqueueLookup(c) ==
    /\ call[c].op = "lookup"
    /\ LET found == ActiveWithKey(call[c].key, call[c].at - IdempotencyWindow)
       IN  \/ found # {} /\ Return(c)
           \/ found = {} /\ call' = [call EXCEPT ![c].op = "insert"]
    /\ UNCHANGED <<tasks, now>>

EnqueueInsert(c) ==
    /\ call[c].op = "insert"
    /\ \/ /\ ~UniqueViolation(call[c].key)
          /\ \E i \in TaskId :
                /\ IsNextId(i)
                /\ tasks' = [tasks EXCEPT ![i] =
                      NewRow(call[c].key, call[c].session, call[c].route, call[c].at)]
          /\ Return(c)
       \/ /\ UniqueViolation(call[c].key)
          /\ call' = [call EXCEPT ![c].op = "relookup"]
          /\ UNCHANGED tasks
    /\ UNCHANGED now

\* lookupActiveTaskIDAny: the row that refused the INSERT may be finished by
\* now, then Enqueue reports the unique violation as an error.
EnqueueRelookup(c) ==
    /\ call[c].op = "relookup"
    /\ Return(c)
    /\ UNCHANGED <<tasks, now>>

\* EnqueueTx runs the same statements inside the caller's transaction; when
\* an active task has the key it changes nothing.
EnqueueTx(k, s, r) ==
    /\ ~UniqueViolation(k)
    /\ \E i \in TaskId :
          /\ IsNextId(i)
          /\ tasks' = [tasks EXCEPT ![i] = NewRow(k, s, r, now)]
    /\ UNCHANGED <<now, call>>

-----------------------------------------------------------------------------
(***************************************************************************)
(* The life of a claimed task.                                             *)
(***************************************************************************)
Pending == {i \in TaskId : tasks[i].status = "pending"}

\* Next: select the oldest pending row and claim it, in one transaction.
Claim(i) ==
    /\ i \in Oldest(Pending)
    /\ tasks' = [tasks EXCEPT ![i].status = "running", ![i].started = now,
                              ![i].updated = now]
    /\ UNCHANGED <<now, call>>

\* BindSession does not look at the status of the row.
BindSession(i, s) ==
    /\ Exists(i)
    /\ tasks' = [tasks EXCEPT ![i].session = s, ![i].updated = now]
    /\ UNCHANGED <<now, call>>

UpdateProgress(i) ==
    /\ tasks[i].status = "running"
    /\ tasks' = [tasks EXCEPT ![i].updated = now]
    /\ UNCHANGED <<now, call>>

\* UpdateAnnotation: Get refuses a finished task, and so does the UPDATE.
AnnotateGet(c, i) ==
    /\ call[c].op = "idle"
    /\ tasks[i].status \in Active
    /\ call' = [call EXCEPT ![c] = [NoCall EXCEPT !.op = "annotate", !.task = i]]
    /\ UNCHANGED <<tasks, now>>

AnnotateUpdate(c) ==
    LET i == call[c].task
    IN  /\ call[c].op = "annotate"
        /\ tasks' = IF tasks[i].status \in Active
                    THEN [tasks EXCEPT ![i].updated = now] ELSE tasks
        /\ Return(c)
        /\ UNCHANGED now

\* buildCompletionJSON: the receipt is made from a Get of the row, before the
\* UPDATE that stores it.
Draft(i, status, cause) ==
    [status |-> status, session |-> tasks[i].session, route |-> tasks[i].route,
     started |-> tasks[i].started, cause |-> cause]

\* timeout_class is written by MarkFailed only.
ClassAfter(row, cause) ==
    CASE cause \in {"idle", "active_but_killed"} -> cause
      [] cause \in {"error", "stopped"} -> "none"
      [] OTHER -> row.class

\* The UPDATE that stores a receipt.
Finished(row, draft) ==
    [row EXCEPT !.status = draft.status, !.completion = draft,
                !.updated = now, !.class = ClassAfter(row, draft.cause)]

\* MarkDone
MarkDoneGet(c, i) ==
    /\ call[c].op = "idle"
    /\ Exists(i)
    /\ call' = [call EXCEPT ![c] =
          [NoCall EXCEPT !.op = "finish", !.task = i,
                         !.draft = Draft(i, "done", "none")]]
    /\ UNCHANGED <<tasks, now>>

\* MarkFailedWithMetadata
MarkFailedGet(c, i, cause) ==
    /\ call[c].op = "idle"
    /\ Exists(i)
    /\ call' = [call EXCEPT ![c] =
          [NoCall EXCEPT !.op = "finish", !.task = i,
                         !.draft = Draft(i, "failed", cause)]]
    /\ UNCHANGED <<tasks, now>>

\* UPDATE ... WHERE id = ? AND status = 'running'
MayFinishAny(row) == row.status # "absent"   \* mutant: no status guard
MayFinish(row) == row.status = "running"

FinishUpdate(c) ==
    LET i == call[c].task
    IN  /\ call[c].op = "finish"
        /\ tasks' = IF MayFinish(tasks[i])
                    THEN [tasks EXCEPT ![i] = Finished(tasks[i], call[c].draft)]
                    ELSE tasks
        /\ Return(c)
        /\ UNCHANGED now

-----------------------------------------------------------------------------
(***************************************************************************)
(* Cancelling a pending task: a SELECT (CancelTask checks the status of    *)
(* the given task, CancelPendingTask takes the newest pending one), the    *)
(* Get of buildCompletionJSON, and the UPDATE.                             *)
(***************************************************************************)
CancelSelect(c, i) ==
    /\ call[c].op = "idle"
    /\ i \in Pending
    /\ call' = [call EXCEPT ![c] = [NoCall EXCEPT !.op = "cancelbuild", !.task = i]]
    /\ UNCHANGED <<tasks, now>>

CancelTask(c, i) == CancelSelect(c, i)

CancelPendingTask(c) == \E i \in Newest(Pending) : CancelSelect(c, i)

CancelBuild(c) ==
    /\ call[c].op = "cancelbuild"
    /\ call' = [call EXCEPT ![c].op = "cancel",
                            ![c].draft = Draft(call[c].task, "failed", "cancelled")]
    /\ UNCHANGED <<tasks, now>>

MayCancel(row) == row.status = "pending"

CancelUpdate(c) ==
    LET i == call[c].task
    IN  /\ call[c].op = "cancel"
        /\ tasks' = IF MayCancel(tasks[i])
                    THEN [tasks EXCEPT ![i] = Finished(tasks[i], call[c].draft)]
                    ELSE tasks
        /\ Return(c)
        /\ UNCHANGED now

-----------------------------------------------------------------------------
(***************************************************************************)
(* RecoverStale, which NewQueue runs in every process that opens the queue.*)
(* The clock is read before the transaction begins.                        *)
(***************************************************************************)
RecoverStart(c) ==
    /\ call[c].op = "idle"
    /\ call' = [call EXCEPT ![c] = [NoCall EXCEPT !.op = "recover", !.at = now]]
    /\ UNCHANGED <<tasks, now>>

Stale(row, at) ==
    /\ row.status = "running"
    /\ row.started > 0
    /\ row.updated < at - StaleTimeout

ClassifyTimeout(started, updated) ==
    IF updated > started /\ started > 0 THEN "active_but_killed" ELSE "idle"

CountedDown(row) ==   \* mutant: the counter goes the wrong way
    [row EXCEPT !.class = "idle", !.idle = row.idle - 1]

\* The counters after one more recovery of the row.
Counted(row) ==
    LET class == ClassifyTimeout(row.started, row.updated)
    IN  [row EXCEPT !.class = class,
                    !.idle = IF class = "idle" THEN row.idle + 1 ELSE row.idle,
                    !.active = IF class = "idle" THEN row.active ELSE row.active + 1]

ExhaustedLate(row) ==   \* mutant: the budget is off by one
    MaxRecoveries > 0 /\ row.idle + row.active > MaxRecoveries + 1
Exhausted(row) == MaxRecoveries > 0 /\ row.idle + row.active > MaxRecoveries

\* The receipt of an exhausted task names no surface and no delivery target.
ExhaustedReceipt(row) ==
    [status |-> "failed", session |-> row.session, route |-> NoRoute,
     started |-> row.started, cause |-> "none"]

RecoveredNoReceipt(row, at) ==   \* mutant: an exhausted task has no receipt
    IF Exhausted(Counted(row))
    THEN [Counted(row) EXCEPT !.status = "failed", !.updated = at]
    ELSE [Counted(row) EXCEPT !.status = "pending", !.updated = at, !.started = 0]
Recovered(row, at) ==
    IF Exhausted(Counted(row))
    THEN [Counted(row) EXCEPT !.status = "failed", !.updated = at,
                              !.completion = ExhaustedReceipt(row)]
    ELSE [Counted(row) EXCEPT !.status = "pending", !.updated = at, !.started = 0]

RecoverTx(c) ==
    /\ call[c].op = "recover"
    /\ tasks' = [i \in TaskId |-> IF Stale(tasks[i], call[c].at)
                                  THEN Recovered(tasks[i], call[c].at)
                                  ELSE tasks[i]]
    /\ Return(c)
    /\ UNCHANGED now

-----------------------------------------------------------------------------
\* The next statement of an operation caller c is inside of.
Step(c) ==
    \/ EnqueueLookup(c)
    \/ EnqueueInsert(c)
    \/ EnqueueRelookup(c)
    \/ AnnotateUpdate(c)
    \/ FinishUpdate(c)
    \/ CancelBuild(c)
    \/ CancelUpdate(c)
    \/ RecoverTx(c)
    \/ AbortCall(c)

\* Caller c begins an operation of several statements.
Begin(c) ==
    \/ \E k \in KeyVal, s \in SessionVal, r \in RouteVal : EnqueueStart(c, k, s, r)
    \/ \E i \in TaskId :
          \/ AnnotateGet(c, i)
          \/ MarkDoneGet(c, i)
          \/ \E cause \in Failure : MarkFailedGet(c, i, cause)
          \/ CancelTask(c, i)
    \/ CancelPendingTask(c)
    \/ RecoverStart(c)

\* An operation of one statement or transaction, by anyone.
Single ==
    \/ \E k \in KeyVal, s \in SessionVal, r \in RouteVal : EnqueueTx(k, s, r)
    \/ \E i \in TaskId :
          \/ Claim(i)
          \/ \E s \in Session : BindSession(i, s)
          \/ UpdateProgress(i)

QueueNext ==
    \/ Tick
    \/ Single
    \/ \E c \in Caller : Begin(c) \/ Step(c)
    \/ \E S \in SUBSET Caller : Die(S)

QueueSpec == QueueInit /\ [][QueueNext]_queueVars

-----------------------------------------------------------------------------
(***************************************************************************)
(* Properties.                                                             *)
(***************************************************************************)
\* The durable receipt and the status tell the same story: a task has a
\* receipt exactly when it is done or failed, and of the same status.  The
\* receipt is drafted by one statement and stored by a later one, with
\* recoveries, cancellations and other workers' statements in between.
ReceiptMatchesStatus ==
    \A i \in TaskId :
        IF tasks[i].status \in Terminal
        THEN tasks[i].completion.status = tasks[i].status
        ELSE tasks[i].completion = NoCompletion

\* At most one active task per idempotency key, through submissions that
\* race between lookup and INSERT and through recoveries that put a running
\* task back in the queue.
OneActivePerKey ==
    \A i, j \in TaskId :
        /\ tasks[i].status \in Active
        /\ tasks[j].status \in Active
        /\ tasks[i].key = tasks[j].key
        /\ tasks[i].key # NoKey
        => i = j

\* A task is recovered at most MaxRecoveries times; the recovery after that
\* fails it (and is the last: only one more is ever counted).
RecoveryBudget ==
    MaxRecoveries > 0 =>
        \A i \in TaskId :
            LET n == tasks[i].idle + tasks[i].active
            IN  /\ n <= MaxRecoveries + 1
                /\ n = MaxRecoveries + 1 => tasks[i].status = "failed"

\* started_at tells a claimed row from an unclaimed one, which is what
\* RecoverStale's filter started_at > 0 relies on, and no row is younger than
\* the clock.
ClaimStamped ==
    \A i \in TaskId :
        /\ tasks[i].status = "pending" => tasks[i].started = 0
        /\ tasks[i].status = "running" => tasks[i].started \in 1..now
        /\ tasks[i].updated <= now

\* Once a task is done or failed, no operation of any caller changes its
\* status, receipt or counters, or brings it back: a stale worker, a late
\* cancellation or a recovery finds the UPDATE's guard false.
Outcome(row) == <<row.status, row.completion, row.class, row.idle, row.active>>

TerminalIsFinal ==
    [][\A i \in TaskId : tasks[i].status \in Terminal
                            => Outcome(tasks'[i]) = Outcome(tasks[i])]_queueVars

\* The queue implements the life cycle it promises: whatever the callers do,
\* every statement is a step of the abstract life of the tasks or none.
Lifecycle == INSTANCE TaskLifecycle WITH
    Task <- TaskId,
    MaxTries <- MaxRecoveries,
    life <- [i \in TaskId |-> [state |-> tasks[i].status,
                               key |-> tasks[i].key,
                               tries |-> tasks[i].idle + tasks[i].active,
                               receipt |-> tasks[i].completion.status]]
ImplementsLifecycle == Lifecycle!Spec

-----------------------------------------------------------------------------
(***************************************************************************)
(* What a comment says and the code does not do.                           *)
(***************************************************************************)
\* "DeliveryTargets controls where daemon progress/completion should be sent"
\* (task_payload.go): the receipt carries the route of the payload.
ReceiptKeepsRoute ==
    \A i \in TaskId :
        tasks[i].status \in Terminal => tasks[i].completion.route = tasks[i].route
=============================================================================
