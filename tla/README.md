# Elnath: verification of the task queue, the daemon and the services around them

Elnath is an assistant that runs as a daemon: tasks are submitted over a Unix
socket, a Telegram shell, the CLI or a scheduler, kept in a SQLite queue,
executed by worker goroutines that call an LLM agent, and their outcome is
delivered to sinks.  Verified outcomes turn into follow-ups, signals and
proposed tasks, and so into new work.  This directory holds TLA+ modules for
that cycle (queue, daemon, delivery, activation) and for what runs inside and
beside a task (the agent's loop, the gateway of its tools, background
processes, MCP servers, the reflection pool, the operator's shell), the TLC
configurations that check small instances, and proofs of the safety properties
for every instance.

Paths are relative to the repository.  `PROJECT.json` maps every definition to
the lines it models and lists runs, mutants, hazards, findings and theorems.

## 1. Inventory

| Component | State it keeps | Operations | Hard behaviour |
|---|---|---|---|
| Task queue `internal/daemon/queue.go` | table `task_queue`: status, key, session, payload, receipt, timestamps, timeout class and counters | Enqueue, EnqueueTx, Next, BindSession, UpdateProgress, UpdateAnnotation, MarkDone, MarkFailed..., CancelPendingTask, CancelTask, RecoverStale | several processes; operations of two or three statements without a transaction; recovery cannot see whether a worker is alive |
| Daemon `internal/daemon/daemon.go` | process phase, worker goroutines, `running` (cancel functions by task id), timers, open connections | Start, Stop, worker loop, runTask, CancelRunningTask, watchdog, wall clock, deliver, socket requests | cancellation, shutdown and two timeouts race the runner's return and the reads that judge it; crash between two statements of a finalisation; updates in goroutines nobody waits for; a shutdown waits for every connection |
| Agentic envelope `internal/agentic/runtime/envelope.go`, `internal/agentic/store.go` | `agentic_tasks` row per queue task | Start, Succeed, Fail, Reconcile | follows the queue without a common transaction |
| Completion gate `internal/agentic/completion/gate.go` | `completion_gates`, `verification_runs` | Validate, Evaluate | must stay closed when the envelope could not be started |
| Delivery router `internal/daemon/delivery.go` | `task_completion_deliveries`, `taskRoutes` | RegisterTaskRoute, ClearTaskRoute, Deliver, DeliverProgress, DeliverActivation, OnProgress | claim before effect; crash between them; two callers of Deliver |
| Task tools `internal/daemon/task_tools.go` | none | task_stop, task_update, task_create, task_get, ... | check of the status, then cancellation |
| Tool gateway, policy, receipts `internal/agentic/{tools,policy}`, `internal/agentic/store.go` | `tool_action_receipts`, the pending map | Execute, FinalizeToolResult | tool calls in parallel; an approval found, awaited and spent in separate transactions; crash between effect and receipt |
| Approvals `internal/daemon/approval_store.go`, `internal/agentic/approvals` | `approval_requests` | create, decide, wait, consume | a decision races the timeout of the wait; identical requests race for one approval |
| Follow-ups, signals, triage, activation, enqueue `internal/agentic/{followup,signals,triage,activation,enqueue}` | `followups`, `goal_signals`, `agentic_tasks`, `task_enqueue_decisions` | schedule, triage, propose, enqueue | the daemon's loop and every `elnath agentic` command are processes on the same tables, working on lists they read earlier |
| Agentic actor, delegation, memory, evidence `internal/agentic/...` | - | validate, insert | none of their own |
| Agent loop and tool executor `internal/agent/{agent,executor}.go` | history, batches of tool calls | Run, executeTools, retry, compaction | parallel calls, fatal siblings, denied calls, compaction between a call and its result |
| Reflection pool `internal/agent/reflection/pool.go` | channel, semaphore, flags | Enqueue, Shutdown, dispatcher | offers race the shutdown |
| MCP client `internal/mcp` | mutex, next id, the server's pipe | call, Close | cancellation behind a request, notifications and requests of the server, a server that exits or never answers |
| Background processes `internal/tools/process_tools.go` | managed processes | start, stop, monitor, wait, Close | exit, timeout and stop at once; Close beside starts; a child that keeps the pipe |
| Telegram shell `internal/telegram`, `cmd/elnath/cmd_telegram.go` | state file, pending questions | notify, poll, handle, remember the offset | crash between any two stores, or in the middle of a save; a question answered from several surfaces |
| Scheduler, ambient scheduler `internal/scheduler`, `internal/ambient` | timers | tick, enqueue | submissions with one key |
| Conversation and sessions `internal/conversation`, `internal/agent/session.go` | session files | append, fork, compact, hand off | two surfaces on one file |
| Workflow router `internal/orchestrator` | workflow state | single, team, ralph, autopilot, research | strategies over `Agent.Run` |
| Learning `internal/learning` | lesson files, cursor, breaker state | extract, consolidate | concurrent writers, cursor behind the file |
| Tools and sandbox, LLM providers, wiki, research, skills, evaluation, CLI | files, network | - | effects outside the program's state |

How they interact.  Submitters call `Enqueue`.  A worker calls `Next`, registers
the delivery route, starts the envelope, asks the gate, runs the agent under a
context that the registry, the watchdog and the wall clock can cancel, then
marks the task, closes the envelope, retires the session of a bad failure and
hands the receipt to the router.  At start the daemon opens the queue (which
recovers stale tasks), delivers the receipts it finds and reconciles the
envelopes.  Every other process that opens the queue with `NewQueue` recovers
stale tasks too.  Everything is shared through SQLite, one statement or
transaction at a time.  Inside a task, `Agent.Run` sends the history to a
provider, and its executor runs the tools the model asks for through the
gateway, which asks the policy and, if need be, an operator; the tools may start
processes and call MCP servers; a run that ends badly is offered to the
reflection pool.  A verified outcome leaves a follow-up; a submission leaves a
signal; the activation loop turns both into agentic tasks and those into queue
tasks again.

What makes each part correct:

* queue: a key identifies one unfinished task; a task ends once, with a receipt
  that says how; it is given back a bounded number of times;
* daemon: a task has one worker; the worker's marks concern its own run; the
  registry reaches every run; a stop is not a timeout; runs and shutdowns end,
  or something outside the daemon holds them up;
* envelope and gate: the agentic status never runs ahead of the queue's and
  catches up after a crash; a gated task is done only through its gate;
* router: each sink takes a completion at most once, one failing sink does not
  starve the others, a delivery is lost only to a crash or a failing database,
  progress stays on its route;
* activation: a follow-up and a signal make one task each, a proposal is queued
  once, the work of a queue task is not proposed again, no follow-up is left
  behind;
* gateway: an approval is spent by one call, for what was asked, and the receipts
  tell what the tools did;
* agent: calls that conflict run in the order of the model, a fatal error ends
  the turn, a request never shows a tool call without its result;
* pool, processes, MCP, shell: what was accepted is done, what is closed leaves
  nothing behind, an answer belongs to its request, an update is handled before
  it is forgotten, a recorded answer has its resume task, and everything comes to
  rest that nothing outside holds up.

## 2. Modules

| Module | Models |
|---|---|
| `TaskLifecycle` | what the queue promises: submit, claim, end, give back, per task |
| `TaskQueue` | `queue.go`, statement by statement, with arbitrary callers |
| `TaskQueueProofs` | theorems about `TaskQueue`, and that it implements `TaskLifecycle` |
| `Daemon` | the daemon process, its workers and clients; EXTENDS `TaskQueue` |
| `DaemonProofs` | theorems about `Daemon` |
| `DeliveryRouter`, `RouterProofs` | the router with its callers, crashes and failing sinks |
| `Activation`, `ActivationProofs` | follow-ups, signals, triage, proposals and their enqueue, by the loop and an operator |
| `ToolGateway`, `GatewayProofs` | gateway, policy, approvals and receipts of parallel tool calls |
| `AgentRun`, `AgentProofs` | `Agent.Run` and the tool executor |
| `TelegramShell`, `ShellProofs` | the operator's shell, its state file and the questions it answers |
| `ReflectionPool`, `McpClient`, `ProcessManager` | the reflection pool, the MCP client with its server's pipe, background processes |
| `ServiceProofs` | theorems about these three, and about the six services of `MC_Services` together |
| `MC_TaskQueue`, `MC_Daemon`, `MC_DeliveryRouter`, `MC_Activation`, `MC_Services` | instances for TLC |

Definitions with the comment "mutant" are defects put beside the definition they
would replace; no behaviour of the models uses them.

### TaskQueue

`tasks[i]` is row *i* of the table; texts are left out, the delivery targets of
the payload are the model value `route`.  A statement or transaction is one
step.  An operation of several statements keeps its local variables in
`call[c]`, the activation record of its caller: `EnqueueStart`, `EnqueueLookup`,
`EnqueueInsert`, `EnqueueRelookup` are `enqueue`; `MarkDoneGet`, `MarkFailedGet`
(the `Get` of `buildCompletionJSON`, which drafts the receipt) and
`FinishUpdate` are the marks; `CancelTask`/`CancelPendingTask`, `CancelBuild`,
`CancelUpdate` the cancellations; `RecoverStart` (the clock is read before the
transaction) and `RecoverTx` are `RecoverStale`; `AnnotateGet`,
`AnnotateUpdate` are `UpdateAnnotation`.  `AbortCall` is a statement that
fails, `Die` the death of a process in the middle of its operations.  `Next`,
`BindSession`, `UpdateProgress` and `EnqueueTx` are one transaction each.
Timestamps are small numbers; instant 0 is "never" as in the table's defaults.
In this module any caller may call anything at any time, which is more than
the program does: the properties of the queue hold whatever its callers are.

`Failure` is the set of causes `MarkFailed` is called with; causes with the same
effect on the row (`"error"` and `"stopped"`; `"idle"` and
`"active_but_killed"`) need not all be present in an instance.

### Daemon

`wk[w]` holds a worker's place in its loop and its local variables; `poll` is
the head of the loop.  Steps are the code between two points another goroutine
or process can observe.  `WorkerClaim`, `EnvelopeStart`, `BeginRun` or
`GateBlocks`, then in `runTask`: `RunText` (the runner emits text; the
`UpdateProgress` goroutine it starts is counted in `beats` and lands later, as
`Beat`), `Watchdog`, `WallClock`, `CancelRunningTask`, and the runner's return
`RunOk` + `Bind`, `RunErr` (+ `Judge`) or `RunPanic`; then `GatePasses` or `GateBlocks`,
`MarkGet`, `MarkUpdate`, `EnvelopeClose`, `RetireSession`, `Deliver`.  The process
goes `down -> opening -> starting -> reconciling -> up -> stopping -> down`
(`Open`, `OpenRecover`, `DeliverExisting`, `Reconcile`, `Stop`, `Halt`) or
crashes anywhere.  Clients submit, cancel, annotate and, with `"foreign"`,
open the queue from another process.  `conns` are the connections whose
`handleConn` is still reading (`Connect`, `Hangup`); `Halt` is the return of
`wg.Wait` in `cleanup`, which waits for the workers and for these.

`runTask` judges an error of its runner in two reads.  `RunErr` is the first
(`daemon.go:870`, 874): a run that an operator or the shutdown has stopped is
recorded as stopped.  Otherwise the worker is at `judge`, and `Judge` is the
second (877): a context cancelled by now makes it a timeout, whoever cancelled
it.  In between the task is still registered, so a stop may land there: that run
is recorded as `active_but_killed` and its session is retired, although an
operator stopped it; a shutdown that lands there is recorded as a plain error.
`told` notes whether the run had been stopped when its runner returned;
`StopIsNotTimeout` and the second half of `RetirementJustified` are about these
runs, and say nothing of a stop that comes later.  Whether a plain error retires the session depends on
the text of the error (`taskFailureClassFromProviderError` and the patterns in
`taskFailureClass`), so `MayRetire` leaves it open for `"error"`; a panic and
the timeouts retire, a stop never does.  A gate blocks for reasons outside the
model (missing verification, cancelled context, error): `GateBlocks` is always
possible for a gated task.

`Fault` selects the failures of an instance: `"crash"`, `"store"` (a statement of
the daemon fails or outlives `taskFinalizationTimeout`), `"foreign"`.  The envelope
and the router are configured, as in `elnath daemon start`.

### DeliveryRouter

Sinks are numbered in registration order.  `Deliver` is a loop: `SkipIneligible`
or `Insert` (claim, duplicate, or an error that is only logged), `NotifyOk` or
`NotifyFails`, `Undo` (the DELETE).  Its callers are the workers (`Take`,
`OnProgress`, `Finish`, `DeliverNothing` or `FinishUnread`, and `Return`, which
clears the route) and the start of the daemon (`DeliverExisting`,
`ExistingUnread`, `ListFails`).  The `...Unread` actions and `ListFails` are the
early returns of `deliver` and `deliverExistingCompletions` when a read of the
queue fails; `missed` has the finished tasks that no sink hears of for that
reason until the daemon is started again.  `Matches` and `ShouldDeliver`
are the target matching.  A sink that returns an error is taken not to have
delivered.  The receipt's route is the payload's; receipts of exhausted
recoveries lose it (finding 2 below).

### Activation

A *runner* is a process: the daemon's activation loop (`Loop`) or an
`elnath agentic` command.  `run[r]` holds its local variables: the follow-ups
with the `created_task_id` it read when it listed them, the signals it listed,
the tasks of this run.  `ListDueFollowups`, `ProcessFollowup`,
`CreateOrGetDueSignal`, `GetAgenticTaskBySignalID`, `CreateFollowupTask` and
`MarkFollowupCreated` are `followup.Scheduler`; `ListNewSignals` and
`TriageGoalSignal` (one transaction) are `triage`; `EndTriage`, `ConsiderTask`
and `EnqueueProposedTask` (one transaction) are the automatic enqueue and
`enqueue.Service`, which the operator enters by `OperatorEnqueue`.
`StartEnvelope`, `CreateEnvelopeTask` and `FinishRow` are the worker of a queue
row, because its envelope makes agentic tasks too.  A unique index is a guard:
the action either inserts, or finds the row that won.  `FailRun` is a failing
statement, `Crash` the death of a runner.  A signal is named by its dedupe key;
identifiers of tasks are given out in ascending order.

### ToolGateway

`gcall[c]` is one call of `Gateway.Execute`; calls run in parallel and may ask
for the same thing.  A request has the fields the policy looks at: `Evaluate` is
the policy, `dangerous` and `readonly` stand for the analysis of commands,
arguments and paths.  `ConsumeApproved`, `FindReusableApproval`,
`CreateApproval`, `PublishApproval`, `PollApproval`, `WaitTimeout`,
`SpendApproval` are the statements and transactions in their order, `Decide` the
operator in another process, `RunTool` the tool, `CompleteCall` and
`AbandonReceipt` the two ways the executor leaves a call.  `FailStatement` and
`Die` are the faults.

### AgentRun

`arun` holds the locals of `Run`, `history` the messages, of which only the kind
and the positions of tool calls are kept.  `BeginIteration` is the head of the
loop with the budget message and the compaction (`CompressMessages`: unchanged,
snipped, or summarised, with every possible cut), the `Answer...` actions and
`ProviderFails` are the outcomes of `streamWithRetry` with their retries,
`CollectApproved` judges the calls and partitions them into batches
(`PartitionToolCalls` is the code's greedy algorithm on read and write scopes;
a path is the sequence of its components and a scope a pair of sets of paths),
`StartCall` and `FinishCall` are the goroutines of a batch, `AbortTurn`,
`NextBatch` and `AppendToolResults` what follows.  `ReturnFrom` includes the
reflection hook that `Run` defers.  `AwaitedReturns` are the returns of what the
run waits for without a limit of its own, its tools and whoever approves them.

### ReflectionPool, McpClient, ProcessManager

In `ReflectionPool`, `Enqueue` is two steps (the flag, then the send), and
`Shutdown` is `ShutdownBegin` followed by `ShutdownDrained` or
`ShutdownExpired`.  `McpClient` has the one function all requests go through;
`ServerAnswer`, `ServerNotify`, `ServerAsk`, `ServerGarbage` and `McpClose` are
what a server may write or do.  A request of the server has an id and neither
result nor error, and `McpRead` takes it for the response, as `call` does.  In
`ProcessManager` the `Wait...` actions are the goroutine of
a process, whose select takes any case that is ready; `StopBegin`,
`StopCancel`, `StopPoll` are `process_stop`, and `Close` goes through the same
stop for every process it finds.  `held` are the processes whose output pipe a
child outside their group keeps: they may be dead and their `cmd.Wait` has not
returned (`WaitReturns`).

### TelegramShell

One loop: `NotifyLoad`, `NotifyOne`, `NotifySave`, `GetUpdates`, the `Handle...`
and `Answer...` actions, `RememberOffset`.  `disk` is the state file, which
`os.WriteFile` truncates before it writes: a save that fails, or a crash in the
middle of one, may leave it `torn`, and then nothing can read it again: the shell
goes round `NotifyLoad` for ever, and does not start after a crash.  `server` is
what Telegram keeps: a poll confirms every update below its offset, and a
confirmed update never comes again.  An answer goes through three stores
(validate, enqueue, record).  Others do the same beside the shell (`Other...`):
every `elnath task answer` is a process of its own, and every agent has the tool
`user_question_answer`, whose receipt is written only with the outcome of its
run.  `Answerer` are these; each answers once, so that a second answer of an
agent is another answerer.  Several of them may record an answer to one question,
and nothing in the code keeps them from it.  `tally` only records what was
handled and sent; a handler that fails is logged and its update counts as
handled, as the loop takes it.

### MC_Services

The gateway, the pool, the MCP client, the processes, the agent and the shell
share no variables: what one does to another is an outcome its model already
chooses freely (a tool's error, a cancelled context, an operator's decision).
So one behaviour of `MC_Services` is a behaviour of one of them, chosen by
`part` in the initial state, and their state spaces add up instead of
multiplying.

## 3. Runs

| Run | Instance | Shows |
|---|---|---|
| `queue` | 2 callers, 1 recovery; two rows that race for a key over 2 instants, or one row without a key over 3 (`Explored`) | `OneActivePerKey` through races of lookup and INSERT and through recoveries; `ReceiptMatchesStatus`, `RecoveryBudget`, `TerminalIsFinal`; `ImplementsLifecycle`; `QueueTypeOK` |
| `daemon_crash` | 2 workers, 1 client, 1 gated task, 1 session, 3 instants, 2 stops, crash faults (1.1 M states) | `ClaimIsHeld`, `ExclusiveExecution`, `RegistryTracksRunners` in a daemon that is alone; `EnvelopeSettles`, `FinishedIsHanded`, `RetirementJustified` through crashes between the statements of a finalisation; `StopIsNotTimeout`; `DaemonTypeOK` |
| `daemon_foreign` | the same with crash, store and foreign faults, 2 instants, 1 stop (2.5 M states) | `EnvelopeNeverAhead`, `DoneThroughGate` although two workers may run one task |
| `daemon_liveness` | 1 worker, 1 connection, no faults, 1 stop, fair (0.4 M states) | `RunIsFinished`, `ShutdownCompletes` |
| `delivery` | 2 tasks, 3 sinks, 2 runners of one task, 1 crash, 2 failures of a sink, of the table or of a read of the queue | `AtMostOnce`, `ZombieOnlyByCrash`, `Served`, `ProgressStaysOnRoute` |
| `activation` | the loop and one operator, 1 follow-up, 1 queue row, 1 malformed signal, 3 agentic tasks, 1 fault, fair | `FollowupHasItsTask`, `EnqueuedOnce`, `SignalAccounted` with stale lists and crashes; `FollowupServed`; `ActivationTypeOK` |
| `services` | gateway: 3 calls, an approved write and a read, 1 fault; pool: 3 jobs, a queue and a semaphore of 1, 1 shutdown; MCP: 2 calls, 2 notifications or requests of the server, 1 line of garbage; processes: 2, a stop and Close, 1 held pipe; agent: 3 tool turns of 3 calls, one of them with two calls of `create_skill`, 4 iterations, 2 attempts; shell: 2 updates of 4 kinds, 2 other answerers, 1 fault; all fair (0.8 M states) | `ApprovalSpentOnce`, `ReceiptTellsEffect`; `PoolDrained`; `McpAnswersInStep`; `CloseLeavesNothing`, `StatusTellsEnd`; `ConflictsInOrder`, `FatalEndsRun`, `HistoryPaired`; `ShellAccounts`, `AnswerHasResume`; `ServicesComeToRest`; `ServicesTypeOK` |

Why the bounds suffice.  The hazards are pairs: a draft and a store with one
other statement between them, a lookup and an INSERT with another submission, an
old and a new run of one task, a decision and a timeout.  Two callers, two
workers, two runners and one or two rows reach all of them.  `MaxTime` leaves
room for a claim, a stale period and a recovery (`StaleTimeout` 0 or 1);
`MaxRecoveries` 1 makes the budget run out within the horizon; `MaxBeats` 1 lets
a progress update outlive its run; `MaxStops` 2 allows a crash during the repair
of the first one.  `Explored` in `MC_TaskQueue` is a constraint: rows interact
only through keys and the order of `Next`, so two rows are explored with keys
and without sessions and annotations (which only touch their own row), while one
of the callers at least submits, recovers or rests, and one row with everything
(there two marks and cancellations race).  More tasks do not interact in the daemon except through
the order of `Next`, which `queue` covers.  `daemon_liveness` has one worker,
because with one task, no crash and no foreign recovery a second one only polls;
connections matter to `Halt` only, so the safety runs have none and
`daemon_liveness` has one.  Run `mcp` has no server requests, so that its
counterexample is the abandoned call.  In `activation` three identifiers
suffice for one task each of the follow-up, the row and the bare signal's
operator; the queue row is either submitted or made by a proposal, and the
row's bound makes `EnqueueTx` fail otherwise.  Three gateway calls, two at a
time, let two identical writes race for one approval and a third come after a
crash.  In `MC_Services` the constraint `Explored` says so, lets only the first
process leave its pipe to a child, and leaves out completed tasks while others
answer beside the shell, since notices and answers share only the queue.  Two
other answerers can validate before either records, and beside the shell.  Three
jobs fill a queue of 1, the dispatcher's hand and the semaphore.  Two
iterations of the agent would show one tool turn; four show a turn, a nudge, a
compaction of either and the exhausted budget, and `KeepRecent` 2 makes the
summary cut into a turn.

Deadlock is not checked: the clock, the number of rows, of calls and of stops
are bounded, so every instance stops, and an idle daemon is allowed to wait for
ever.  Symmetry (workers, callers, runners) is used for safety only.

Fairness.  `FairDaemonSpec`: weak fairness of the clock, of every worker's next
step, of the wall-clock timer and of the end of `cleanup`: goroutines are
scheduled, timers fire and statements return (all have a timeout or the retry
bound of `retryQueueBusy`).  Nothing makes the agent runner return, cancelled or
not: a tool of it may wait on an MCP server or a held pipe and look at no
context.  So `RunIsFinished` says that a run is finished or its runner ignores
its cancelled context for ever, and `ShutdownCompletes` that a shutdown ends or
that such a runner, or a client that keeps its connection open, holds it up for
ever.  Nothing makes a client submit, send or hang up, an operator stop, or a
text arrive, and nothing makes the daemon start.
`ActivationFairness`: the loop's ticker keeps starting runs and a run goes on;
nothing makes the operator's commands finish.  `GatewayFairness`: a call goes on
(its poll and its timeout are timers), nothing makes an operator decide or a
tool return (`GatewayAtRest`).
`PoolFairness`: dispatcher and workers run, a shutdown that waits sees the wait
group.  `McpFairness`: calls run; nothing makes a server answer, because
`call` has no timeout of its own and a read does not look at the context, so a
call at rest may be one that waits for its line, or for the mutex of such a call
(`McpAtRest`).  `ProcFairness`: goroutines run and timers fire; a process need not
exit and a child need not close a pipe, so the record of a killed process may stay
behind its `cmd.Wait` (`ProcAtRest`).  `AgentFairness`: the loop and its
goroutines run, and a provider returns, under the timeout of its HTTP client;
tools and approvals (`AwaitedReturns`) need not return, so a run may rest in a
batch whose calls are all made (`AgentAtRest`).  `ShellFairness`: the loop runs;
nothing restarts a shell, and one whose state file is torn rests unserved
(`ShellAtRest`).  In `ServicesSpec` these are conjoined: the
services that the behaviour is not about never move, and their steps are
disabled because they were asked nothing.

### Properties that the code does not have

Five runs check what a comment or a document says and end in a counterexample.

1. `recovers_only_crashed`: `NewQueue` "recovers any tasks left in 'running'
   state from a previous crash", but every process that opens the queue also
   recovers the task of a live worker that was quiet for 300 s (the inactivity
   timeout is longer), and a second worker runs it.  `daemon_foreign` shows what
   still holds then.
2. `receipt_keeps_route`: the receipt of an exhausted recovery has no delivery
   targets, so it goes to every sink, not where the payload asked.
3. `pool`: `Enqueue` checks `stopped` and then sends; a shutdown in between has
   closed the channel, and a send on a closed channel panics, although the
   comment says that it returns false.
4. `mcp`: `call` takes the first response, whatever its id.  After a call that
   was cancelled behind its request, every later call gets the answer of the one
   before.  A request of the server (an id, neither result nor error) is taken
   for a response too, with the same effect and no call given up.
   `McpAnswersInStep` shows that a call gets another's answer in these two ways
   only (a call that failed behind its request counts as given up); notifications
   and concurrent callers do no harm.
5. `receipts`: a failing tool that cancels its siblings leaves the executor
   before `FinalizeToolResult`, so its receipt stays `started` although it ran.

`ConflictsInOrder` leaves out pairs of calls that both declare themselves
concurrency-safe, because the code does: `canRunTogether` does not look at their
scopes, although the comment on `IsConcurrencySafe` (`tool.go:15`) leaves "same
write path" to the partitioner.  One such tool writes: `create_skill` is safe for
every action (`skill_tool.go:48`), and creates and deletes files of the wiki and
entries of a map it shares with itself, so two calls of it in one turn run at the
same time.  The property without the exception fails in the `services` instance
on the turn `<<CreateSkill, CreateSkill, ReadB>>`; with it, it is a theorem.

What the safety properties do not judge, although the code does it.
`ClaimIsHeld` is about the ownership of a row, not about a late `UpdateProgress`
of an older run that refreshes its heartbeat (`daemon.go:859`).
`RegistryTracksRunners` and `ProgressStaysOnRoute` are about tasks that one worker
has at a time: with a second one, which only a foreign recovery makes,
`unregisterRunningTask` and `ClearTaskRoute` delete by task id and may hit the
other worker's entry (`daemon.go:201`, `delivery.go:205`).  `FinishedIsHanded`
speaks of tasks their worker finished; one that is cancelled in the queue is
delivered by the next start (`queue.go:690`).  `HistoryPaired` says that every
tool call shown has its results; a snip may cut a call and keep its results
(`conversation/context.go:412`).  `ShellAccounts` takes an update whose handler
failed for handled, as the loop does (`cmd_telegram.go:157`).

Three more divergences were seen while modelling and have no run: a daemon
restarted within 300 s leaves the rows of the crash running until the queue is
opened again; the receipt of a task cancelled in the queue is delivered by the
next start only; and such a receipt has `started_at` 0, which is read back as
1970, so its duration is not 0.

## 4. Proofs

`TaskQueueProofs` proves, for every number of tasks, callers, keys and every
timeout and budget (`QueueAssumption` in `TaskQueue` is all that is assumed):

* `TypeCorrect`: `QueueSpec => []QueueTypeOK`;
* `ReceiptsTellTheTruth`: `ReceiptMatchesStatus`;
* `KeysAreExclusive`: `OneActivePerKey`;
* `RecoveryIsBounded`: `RecoveryBudget` (and `ClaimStamped`);
* `OutcomesAreFinal`: `TerminalIsFinal`;
* `Refinement`: `QueueSpec => Lifecycle!Spec`.

The inductive invariant `IInv` has three parts.  `RowInv` says of each row what
the properties say, and what they rest on: status, receipt, `started_at` and the
counters belong together, and no timestamp is ahead of the clock.  `CallInv`
says of each operation under way what its earlier statements established and
nobody can take away: the task it is about exists, its draft is a receipt, its
draft is of status `failed` when it is a cancellation, and the instant it read is
not ahead of the clock.  It says nothing about the row itself, which anybody may
have changed since, and this is why the guards of the UPDATE statements are
needed in the proof.  The third part is `OneActivePerKey`.  Each action has a
step; rows are handled by lemmas about one row (`FinishedInv`, `ClaimedInv`,
`RecoveredInv`, ...), so that a step only says which rows it changes.
`OutcomesAreFinal` and `Refinement` use `IInv` in the state before a step.

`DaemonProofs` proves about the daemon, for every number of workers, clients and
tasks and every choice of timeouts (`DaemonAssumption` and `QueueAssumption`):

* `DaemonUsesQueue`: `DaemonSpec => QueueSpec`.  `Daemon` writes its steps with
  the queue's actions, so the theorems above hold inside the daemon;
* `DaemonTypeCorrect`: `DaemonTypeOK`;
* `DaemonKeepsThePromises`: so the keys, receipts, recoveries and outcomes of the
  daemon's tasks are as the queue promises, and its rows implement
  `TaskLifecycle`;
* `EnvelopesFollowTheQueue`, `GateIsNeverBypassed`: `EnvelopeNeverAhead` and
  `DoneThroughGate`, whatever fails (any `Fault`);
* `WorkersOwnTheirTasks`, `TasksRunOnce`, `RegistryIsExact`: `ClaimIsHeld`,
  `ExclusiveExecution` and `RegistryTracksRunners`, under
  `"foreign" \notin Fault`.  The condition is needed: run
  `recovers_only_crashed` is the counterexample without it.  Crashes, restarts and
  failing statements are all allowed;
* `EnvelopesAreSettled`, `FinishedTasksAreHanded`, `RetirementsAreJustified`,
  `StopsAreNotTimeouts`: `EnvelopeSettles`, `FinishedIsHanded`,
  `RetirementJustified` and `StopIsNotTimeout`, under
  `CrashesOnly` (crashes and restarts, but no failing statement and no foreign
  recovery).  A statement that fails is logged and not repeated, so with
  `"store"` an envelope may stay open and a session may be retired for a failure
  the queue does not know (the hazard at `daemon.go:613`); with `"foreign"` the
  row may end by another worker's mark.

The invariant `DInv` adds to `IInv` the types and what a worker's place in its
loop says of its variables.  `OwnInv` adds that a worker's row is still the one it
claimed (`WorkersHold`), that no two workers have one task, and `Roles`: who is
inside which operation of the queue.  `Roles` is the argument: a mark under way
belongs to a worker and concerns its own task, and a recovery under way belongs
to the main goroutine before it has started any worker; so no statement but the
worker's own can move a claimed row.  Lemma `WorkerMoves` sums up each step of a
worker as taking a task, going on with it or leaving it, and the ownership proof
uses the summary, not the actions.

`TruthInv` is the invariant for any faults.  It cannot say that a worker's row is
its own, since a foreign recovery may have given the task to another.  It says
what a worker knows of its own run and nobody can undo (`Truthful`): the mark it
has under way is of the outcome it evaluated, an outcome `done` of a gated task
was passed by the gate, and what it will write into the envelope is how the row
ended.  `RestInv` adds the converse, which needs that nothing but a crash
interrupts a worker: a row that is over and has no worker behind its mark was
closed and handed on (`Settled`, `HandedOver`), because the worker that marks a
row is the one that has it (`OwnInv`), and what a crash leaves is repaired by the
start before any worker runs.  `Rested` carries what the worker was told over the
mark: the recorded cause is the outcome it judged, and one who was told before
the runner returned was never sent to `judge`.

`RouterProofs`, for any tasks, sinks, routes, workers, failures and crashes
(`RouterAssumption`): `NotifiedOnce`, `ZombiesAreCut`, `EverySinkServed` and
`ProgressOnRoute` (`AtMostOnce`, `ZombieOnlyByCrash`, `Served`,
`ProgressStaysOnRoute`).  The invariant is stated pair by pair of task and sink.
`LockInv` is the argument for at most once: as long as no statement about the
pair was refused, the row of `task_completion_deliveries` is a lock that its
holder keeps until the sink has failed.  `ZombieInv` says where a claim without
a notification comes from, `ReachInv` that a sink not yet served is still ahead
of some caller, `RouteInv` that a task one worker has at a time has its route
registered while it runs.

`ActivationProofs`, for any runners, follow-ups, signals, identifiers, queue
rows and faults (`ActivationAssumption` and `NoneAssumption`):
`ActivationTypeCorrect`, `FollowupMakesOneTask`, `ProposalEnqueuedOnce`,
`SignalsAreAccounted` (`FollowupHasItsTask`, `EnqueuedOnce`, `SignalAccounted`).
The lists a runner works on are old, so the invariant can say of a runner only
what cannot become false: `RunInv` remembers links, and `Grow` is the fact that
no step removes a task, a row or a signal or changes a link once made.
`TaskInv` has the two unique indexes and the link of a task to the queue row its
signal names.  Every step is shown to grow, and lemma `StepKeeps` then leaves
only what the step itself writes.

`GatewayProofs`, for any calls, requests and faults, with and without waiting
(`GatewayAssumption`): `GatewayTypeCorrect`, `ApprovalIsSpentOnce`,
`ReceiptIsTrue` (`ApprovalSpentOnce`, `ReceiptTellsEffect`).  `CallInv` says at
each place of a call what its receipt and its approval are; the point is
that an approval is given to a call only together with `consumedBy`, and that
nobody writes `consumedBy` twice.

`ServiceProofs`.  The pool (`PoolAssumption`): `PoolTypeCorrect`,
`ShutdownLosesNothing` (`PoolDrained`); a job that is queued is in the channel, and
a dispatcher that returned before any grace period ran out saw the channel closed
and empty.  The MCP client (`McpAssumption`): `McpTypeCorrect`, `AnswersAreInStep`
(`McpAnswersInStep`); while no call was given up behind its request or took a
request of the server, what is asked or answered and not yet read is one request,
that of the mutex's holder.
The processes (`ProcAssumption`): `ProcTypeCorrect`, `StatusIsTrue`,
`CloseIsClean` (`StatusTellsEnd`, `CloseLeavesNothing`); what a wait goroutine
remembers of why it left its select stays true, and each process `Close` found
is over, on its list, its target, or in its error.

`ShellProofs`, for any sayings of the operator and any number of updates and
faults (`ShellAssumption`): `ShellTypes`, `ShellKeepsItsAccounts`
(`ShellAccounts`), `AnswersAreResumed` (`AnswerHasResume`).  `ShellInv` places the
loop: the updates in hand are consecutive and start at the offset in memory
(`ShellShape`), everything below that offset, below the offset of the file, or
confirmed to Telegram was handled, and before a first fault nothing else was
(`UpdatesKept`); the same for notices (`NoticesKept`).  A torn file keeps the
offset it had in the model, which nothing reads any more.  `AnswersKept` says
that whoever enqueued an answer, the shell or another, left a row with its key,
so a recorded answer has its resume task; and that a shell past its validation
has not recorded an answer, because only the shell itself could have done so since
and it handles one update at a time.  That bounds the shell's answers to one, for
any number of other answerers; theirs are not bounded.

`AgentProofs`, for any tools, turns, budgets and files (`AgentAssumption`: turns
are sequences of tools, scopes are sets of paths, a request is tried at least
once): `AgentTypes`, `ConflictsRunInOrder` (`ConflictsInOrder`),
`FatalErrorsEndTheRun` (`FatalEndsRun`), `RequestsArePaired` (`HistoryPaired`).
`Partitioned` is what `partitionToolCalls` promises: each approved call is in one
batch, batches and their calls keep the order of the turn, and any two calls of a
batch may run together.  Lemma `PartitionIsPartitioned` shows it of the recursive
function for every turn; as induction over data is not available as a rule, lemma
`Induction` derives it for sets of numbers from the well-foundedness of `<`, and
the existence of the function is proved the same way (`SchedulesExist`).
`BatchesKept` then says that the batches before the current one are done and
those behind it untouched: a conflicting pair is not in one batch
(`TogetherNoConflict`), so the earlier call is over when the later starts.
`PairedUpTo` says that a history answers its calls; it survives a cut at any
place and a concatenation (`PairedSuffix`, `PairedConcat`), which is all that
`CompressMessages` does, and `AllResults` shows that a turn whose batches are
done has exactly one result per call, in order.

The six services of `MC_Services`: a step of the composition is a step of one
and a stutter of the others (`ServicesAreThemselves`), so every theorem about a
service holds in what the `services` run explores; `ServicesTypes` collects their
types (`ServicesTypeOK`).

Every safety invariant and every action property of the passing runs is thus a
theorem.  Only model-checked is liveness (`RunIsFinished`, `ShutdownCompletes`,
`FollowupServed`, `ServicesComeToRest`): it rests on fairness, and `ENABLED` is
out of the prover's reach.

## 5. Not modelled

Texts (payloads, progress, summaries, prompts, logs, the JSON of the socket),
schema migration, reads that change nothing (List, TimeoutMetrics, views), fault
injection, `DeliverActivation` (the loop of `Deliver` without the table), the
cooldown of follow-ups and the log of activation runs.

Session files: one object appends to its file under its own mutex; what two
objects do to one file (`RecordHandoff`, `session.go:290`) is not coordinated by
any code, so there is no protocol to model; it is listed as a hazard.
Scheduler and ambient scheduler: each tick is one `Enqueue` with the key
`scheduled:<name>` and one signal, which `TaskQueue` and `Activation` have; the
timetable is time arithmetic.  The workflow router and its strategies call
`Agent.Run` in sequence by configuration and text.  Learning, wiki, research,
skills, portability and evaluation process files sequentially behind one mutex
per store.  Providers, the provider proxy, the sandbox and the tools themselves
are network, shell and file effects outside any state the program keeps; the
models see their outcomes.  The agentic actor, delegation, memory and evidence
tools validate a request and write one row.

SQLite is taken at its word: statements and transactions are atomic and durable.
The wall clock does not go backwards.

## 6. What could follow

1. Daemon: which verification run the completion gate accepts, and the
   completion context it is given.
2. Follow-ups: their cooldown, which needs the clock of `TaskQueue`.
3. Composition of `Activation` with `Daemon` on one queue table; today each has
   the part of the other's rows that it reads.
4. Proofs: abstract specifications of the gateway (an approval as a token) and
   of the router (a delivery per sink), with refinements like the queue's.
