------------------------------- MODULE Daemon -------------------------------
(***************************************************************************)
(* The daemon of internal/daemon/daemon.go: one process whose workers      *)
(* claim tasks of the queue, run them and finalise them, with a registry   *)
(* of running tasks for cancellation, watchdogs, the agentic envelope of   *)
(* each task (internal/agentic/runtime), the completion gate, session      *)
(* retirement and the hand-over of finished tasks to the delivery router.  *)
(* Around it are its clients: submitters, cancellers, and other processes  *)
(* that open the same queue.                                               *)
(*                                                                         *)
(* Every worker step is the code between two points where another          *)
(* goroutine or process can be observed: a database statement, a registry  *)
(* access under runningMu, or a call of the agent runner.                  *)
(***************************************************************************)
EXTENDS TaskQueue

CONSTANTS
    Worker,             \* worker goroutines
    Main,               \* the goroutine that opens the queue and starts the daemon
    Client,             \* other goroutines and processes
    NoWorker,           \* no runner is registered
    Conn,               \* client connections to the socket
    Gated,              \* tasks whose payload asks for a completion gate
    InactivityTimeout,  \* in clock ticks
    WallClockTimeout,   \* in clock ticks
    MaxBeats,           \* bound: progress updates in flight per task
    MaxStops,           \* bound: shutdowns and crashes
    Fault               \* which failures happen, see below

\* "crash": the daemon process dies.  "store": a database statement of the
\* daemon fails (locked beyond the retries, or past taskFinalizationTimeout).
\* "foreign": another process opens the queue with NewQueue, which recovers
\* stale tasks (elnath task ..., the Telegram shell), while the daemon runs.
ASSUME DaemonAssumption ==
    /\ Caller = Worker \cup {Main} \cup Client
    /\ Main \notin Worker \cup Client
    /\ Worker \cap Client = {}
    /\ NoWorker \notin Worker
    /\ Gated \subseteq TaskId
    /\ Failure = {"error", "stopped", "idle", "active_but_killed"}
    /\ InactivityTimeout \in Nat
    /\ WallClockTimeout \in Nat
    /\ MaxBeats \in Nat
    /\ MaxStops \in Nat
    /\ Fault \subseteq {"crash", "store", "foreign"}

VARIABLES
    daemon,     \* the phase of the daemon process
    wk,         \* the local variables of the workers
    running,    \* Daemon.running, the cancellation registry
    agentic,    \* status of the agentic task of each queue task
    passed,     \* queue tasks with a passed completion gate record
    beats,      \* UpdateProgress goroutines in flight
    retired,    \* tasks whose failure retired their session
    handed,     \* tasks whose receipt was handed to the delivery router
    stops,      \* shutdowns and crashes so far
    conns       \* connections whose handleConn has not returned

procVars == <<daemon, stops, conns>>
recordVars == <<agentic, passed, retired, handed>>
daemonVars == <<wk, running, beats, procVars, recordVars>>
vars == <<queueVars, daemonVars>>

-----------------------------------------------------------------------------
\* The points of a worker's loop.
Pc == {"poll", "envelope", "gate", "run", "judge", "bind", "evaluate", "mark",
       "finish", "close", "retire", "deliver"}

\* A worker: its claimed task (a copy of the row at the claim: session,
\* claimed), envelopeRun, and in runTask the reasons its context was
\* cancelled for (sig), lastActivity (last), the start of the wall clock
\* (begun), whether an operator had stopped the run when the runner returned
\* (told), then the outcome to record and whether it retires the session.
WorkerState ==
    [pc : Pc, task : TaskId \cup {NoTask}, session : SessionVal, claimed : Nat,
     env : BOOLEAN, sig : SUBSET {"manual", "idle", "wall"}, last : Nat,
     begun : Nat, told : BOOLEAN, outcome : {"none", "done"} \cup Failure,
     retire : BOOLEAN]
Polling ==
    [pc |-> "poll", task |-> NoTask, session |-> NoSession, claimed |-> 0,
     env |-> FALSE, sig |-> {}, last |-> 0, begun |-> 0, told |-> FALSE,
     outcome |-> "none", retire |-> FALSE]

\* Type correctness of the daemon.
DaemonTypeOK ==
    /\ daemon \in {"down", "opening", "starting", "reconciling", "up", "stopping"}
    /\ wk \in [Worker -> WorkerState]
    /\ running \in [TaskId -> Worker \cup {NoWorker}]
    /\ agentic \in [TaskId -> {"none", "running", "succeeded", "failed"}]
    /\ passed \subseteq TaskId
    /\ beats \in [TaskId -> 0..MaxBeats]
    /\ retired \subseteq TaskId
    /\ handed \subseteq TaskId
    /\ stops \in 0..MaxStops
    /\ conns \subseteq Conn

DaemonInit ==
    /\ QueueInit
    /\ daemon = "down"
    /\ wk = [w \in Worker |-> Polling]
    /\ running = [i \in TaskId |-> NoWorker]
    /\ agentic = [i \in TaskId |-> "none"]
    /\ passed = {}
    /\ beats = [i \in TaskId |-> 0]
    /\ retired = {}
    /\ handed = {}
    /\ stops = 0
    /\ conns = {}

\* ctx.Err() = nil, for the context of the daemon.
Live == daemon = "up"
MayFail == "store" \in Fault

-----------------------------------------------------------------------------
(***************************************************************************)
(* The worker loop.                                                        *)
(***************************************************************************)
WorkerClaim(w) ==
    /\ Live
    /\ wk[w].pc = "poll"
    /\ \E i \in TaskId :
          /\ Claim(i)
          /\ wk' = [wk EXCEPT ![w] =
                [Polling EXCEPT !.pc = "envelope", !.task = i,
                                !.session = tasks[i].session, !.claimed = now]]
    /\ UNCHANGED <<running, beats, procVars, recordVars>>

\* DaemonEnvelope.Start finds or makes the agentic task and sets it to
\* running, whatever its status was.  When two workers have the task, the one
\* that loses the race to make it takes it as the other one left it.  An error
\* is logged and the run goes on.
EnvelopeStartRetries(w) ==   \* mutant: a cancelled context is retried for ever
    /\ wk[w].pc = "envelope"
    /\ Live
    /\ agentic' = [agentic EXCEPT ![wk[w].task] = "running"]
    /\ wk' = [wk EXCEPT ![w].pc = "gate", ![w].env = TRUE]
    /\ UNCHANGED <<queueVars, running, beats, procVars, passed, retired, handed>>
EnvelopeStart(w) ==
    /\ wk[w].pc = "envelope"
    /\ \/ /\ Live
          /\ agentic' = [agentic EXCEPT ![wk[w].task] = "running"]
          /\ wk' = [wk EXCEPT ![w].pc = "gate", ![w].env = TRUE]
       \/ /\ Live
          /\ "foreign" \in Fault
          /\ agentic[wk[w].task] # "none"
          /\ wk' = [wk EXCEPT ![w].pc = "gate", ![w].env = TRUE]
          /\ UNCHANGED agentic
       \/ /\ ~Live \/ MayFail
          /\ wk' = [wk EXCEPT ![w].pc = "gate"]
          /\ UNCHANGED agentic
    /\ UNCHANGED <<queueVars, running, beats, procVars, passed, retired, handed>>

\* CompletionGate.Validate; a task that passes, or asks for no gate, enters
\* runTask, which registers it.
BeginRun(w) ==
    LET i == wk[w].task
    IN  /\ wk[w].pc = "gate"
        /\ i \in Gated => wk[w].env
        /\ wk' = [wk EXCEPT ![w].pc = "run", ![w].last = now, ![w].begun = now]
        /\ running' = [running EXCEPT ![i] = w]
        /\ UNCHANGED <<queueVars, beats, procVars, recordVars>>

\* failCompletionGate, before the run or after it.
GateBlocks(w) ==
    /\ wk[w].pc \in {"gate", "evaluate"}
    /\ wk[w].task \in Gated
    /\ wk' = [wk EXCEPT ![w].pc = "mark", ![w].outcome = "error"]
    /\ UNCHANGED <<queueVars, running, beats, procVars, recordVars>>

\* onTextFn: the runner emits text; UpdateProgress runs in its own goroutine.
RunText(w) ==
    LET i == wk[w].task
    IN  /\ wk[w].pc = "run"
        /\ beats[i] < MaxBeats
        /\ wk' = [wk EXCEPT ![w].last = now]
        /\ beats' = [beats EXCEPT ![i] = @ + 1]
        /\ UNCHANGED <<queueVars, running, procVars, recordVars>>

Beat(i) ==
    /\ beats[i] > 0
    /\ beats' = [beats EXCEPT ![i] = @ - 1]
    /\ \/ Live /\ UpdateProgress(i)
       \/ /\ ~Live \/ MayFail \/ tasks[i].status # "running"
          /\ UNCHANGED queueVars
    /\ UNCHANGED <<wk, running, procVars, recordVars>>

Signal(w, s) == wk' = [wk EXCEPT ![w].sig = @ \cup {s}]

\* inactivityWatchdog; its select may take the tick although the context is
\* cancelled already.
Watchdog(w) ==
    /\ wk[w].pc \in {"run", "judge", "bind"}
    /\ InactivityTimeout > 0
    /\ now - wk[w].last >= InactivityTimeout
    /\ "idle" \notin wk[w].sig
    /\ Signal(w, "idle")
    /\ UNCHANGED <<queueVars, running, beats, procVars, recordVars>>

\* The deadline of context.WithTimeout(taskCtx, d.wallClockTimeout).
WallClockIdle(w) ==   \* mutant: text of the runner restarts the deadline
    /\ wk[w].pc \in {"run", "judge"}
    /\ WallClockTimeout > 0
    /\ now - wk[w].last >= WallClockTimeout
    /\ wk[w].sig = {}
    /\ Signal(w, "wall")
    /\ UNCHANGED <<queueVars, running, beats, procVars, recordVars>>
WallClock(w) ==
    /\ wk[w].pc \in {"run", "judge"}
    /\ WallClockTimeout > 0
    /\ now - wk[w].begun >= WallClockTimeout
    /\ wk[w].sig = {}
    /\ Signal(w, "wall")
    /\ UNCHANGED <<queueVars, running, beats, procVars, recordVars>>

\* CancelRunningTask, from the task_stop tool: it reaches a run as long as it
\* is registered, also while runTask judges the error of its runner.
CancelRunningTask(i) ==
    /\ running[i] # NoWorker
    /\ "manual" \notin wk[running[i]].sig
    /\ Signal(running[i], "manual")
    /\ UNCHANGED <<queueVars, running, beats, procVars, recordVars>>

\* delete(d.running, id): whoever is registered under the id.
Unregister(i) == running' = [running EXCEPT ![i] = NoWorker]

\* The runner returns a result: BindSession follows, inside runTask.
RunOk(w) ==
    /\ wk[w].pc = "run"
    /\ wk' = [wk EXCEPT ![w].pc = "bind", ![w].told = "manual" \in wk[w].sig]
    /\ UNCHANGED <<queueVars, running, beats, procVars, recordVars>>

BindUngated(w) ==   \* mutant: the gate is not evaluated after the run
    LET i == wk[w].task
    IN  /\ wk[w].pc = "bind"
        /\ Unregister(i)
        /\ wk' = [wk EXCEPT ![w].pc = "mark", ![w].outcome = "done"]
        /\ UNCHANGED <<queueVars, beats, procVars, recordVars>>
Bind(w) ==
    LET i == wk[w].task
    IN  /\ wk[w].pc = "bind"
        /\ \/ Live /\ \E s \in Session : BindSession(i, s)
           \/ UNCHANGED queueVars    \* no session, or the UPDATE failed
        /\ Unregister(i)
        /\ wk' = [wk EXCEPT ![w].pc = IF i \in Gated THEN "evaluate" ELSE "mark",
                            ![w].outcome = "done"]
        /\ UNCHANGED <<beats, procVars, recordVars>>

\* What runTask makes of an error of the runner.  It first asks whether an
\* operator or the shutdown stopped the run (manualCanceled, then ctx), and only
\* then reads taskCtx.Err() for a timeout: a stop that lands in between is taken
\* for a timeout, a shutdown for an error of the runner.
StoppedIgnored(w) == ~Live   \* mutant: manualCanceled is not looked at
Stopped(w) == ~Live \/ "manual" \in wk[w].sig

Verdict(w) ==
    IF ~Live \/ wk[w].sig = {} THEN "error"
    ELSE IF "idle" \in wk[w].sig THEN "idle"
    ELSE "active_but_killed"

\* taskFailureRetirement; for the class of an error see the README.
MayRetireAll(verdict) == {TRUE}   \* mutant: every failure retires
MayRetire(verdict) ==
    CASE verdict = "error" -> BOOLEAN
      [] verdict = "stopped" -> {FALSE}
      [] OTHER -> {TRUE}

\* runTask returns an error: its deferred calls run.  told is what the runner
\* had been told when it returned.
RunEnds(w, verdict, told) ==
    /\ Unregister(wk[w].task)
    /\ \E r \in MayRetire(verdict) :
          wk' = [wk EXCEPT ![w].pc = "mark", ![w].told = told,
                           ![w].outcome = verdict, ![w].retire = r]

\* The runner returns an error.
RunErr(w) ==
    LET told == "manual" \in wk[w].sig
    IN  /\ wk[w].pc = "run"
        /\ \/ Stopped(w) /\ RunEnds(w, "stopped", told)
           \/ /\ ~Stopped(w)
              /\ wk' = [wk EXCEPT ![w].pc = "judge", ![w].told = told]
              /\ UNCHANGED running
        /\ UNCHANGED <<queueVars, beats, procVars, recordVars>>

Judge(w) ==
    /\ wk[w].pc = "judge"
    /\ RunEnds(w, Verdict(w), wk[w].told)
    /\ UNCHANGED <<queueVars, beats, procVars, recordVars>>

\* runTaskSafely recovers a panic of the runner; the deferred calls of
\* runTask have run.
RunPanicLeaks(w) ==   \* mutant: the registration is not deferred
    /\ wk[w].pc = "run"
    /\ wk' = [wk EXCEPT ![w].pc = "mark", ![w].outcome = "error", ![w].retire = TRUE]
    /\ UNCHANGED <<queueVars, running, beats, procVars, recordVars>>
RunPanic(w) ==
    /\ wk[w].pc = "run"
    /\ Unregister(wk[w].task)
    /\ wk' = [wk EXCEPT ![w].pc = "mark", ![w].told = "manual" \in wk[w].sig,
                        ![w].outcome = "error", ![w].retire = TRUE]
    /\ UNCHANGED <<queueVars, beats, procVars, recordVars>>

\* CompletionGate.Evaluate records that the gate passed.
GatePasses(w) ==
    /\ wk[w].pc = "evaluate"
    /\ Live
    /\ passed' = passed \cup {wk[w].task}
    /\ wk' = [wk EXCEPT ![w].pc = "mark"]
    /\ UNCHANGED <<queueVars, running, beats, procVars, agentic, retired, handed>>

-----------------------------------------------------------------------------
(***************************************************************************)
(* Finalisation, under a context that outlives the daemon's.               *)
(***************************************************************************)
\* Where the worker goes when the task is marked, or could not be.
AfterMarkAlways(w, marked) ==   \* mutant: the error of MarkDone is ignored
    IF wk[w].env THEN "close" ELSE "retire"
AfterMark(w, marked) ==
    IF marked /\ wk[w].env THEN "close" ELSE "retire"

MarkGet(w) ==
    /\ wk[w].pc = "mark"
    /\ \/ /\ IF wk[w].outcome = "done" THEN MarkDoneGet(w, wk[w].task)
             ELSE MarkFailedGet(w, wk[w].task, wk[w].outcome)
          /\ wk' = [wk EXCEPT ![w].pc = "finish"]
       \/ /\ MayFail
          /\ wk' = [wk EXCEPT ![w].pc = "retire"]
          /\ UNCHANGED queueVars
    /\ UNCHANGED <<running, beats, procVars, recordVars>>

MarkUpdate(w) ==
    /\ wk[w].pc = "finish"
    /\ \/ /\ FinishUpdate(w)
          /\ wk' = [wk EXCEPT ![w].pc = AfterMark(w, MayFinish(tasks[wk[w].task]))]
       \/ /\ MayFail
          /\ AbortCall(w)
          /\ wk' = [wk EXCEPT ![w].pc = "retire"]
    /\ UNCHANGED <<running, beats, procVars, recordVars>>

\* envelopeRun.Succeed and Fail
EnvelopeClose(w) ==
    /\ wk[w].pc = "close"
    /\ \/ agentic' = [agentic EXCEPT ![wk[w].task] =
             IF wk[w].outcome = "done" THEN "succeeded" ELSE "failed"]
       \/ MayFail /\ UNCHANGED agentic
    /\ wk' = [wk EXCEPT ![w].pc = "retire"]
    /\ UNCHANGED <<queueVars, running, beats, procVars, passed, retired, handed>>

\* retireSessionAfterFailure
RetireSession(w) ==
    /\ wk[w].pc = "retire"
    /\ \/ wk[w].retire /\ wk[w].session # NoSession /\ retired' = retired \cup {wk[w].task}
       \/ /\ ~wk[w].retire \/ wk[w].session = NoSession \/ MayFail
          /\ UNCHANGED retired
    /\ wk' = [wk EXCEPT ![w].pc = "deliver"]
    /\ UNCHANGED <<queueVars, running, beats, procVars, agentic, passed, handed>>

\* deliver: a Get, and the router is called when there is a receipt.
Deliver(w) ==
    LET i == wk[w].task
    IN  /\ wk[w].pc = "deliver"
        /\ \/ tasks[i].status \in Terminal /\ handed' = handed \cup {i}
           \/ (tasks[i].status \notin Terminal \/ MayFail) /\ UNCHANGED handed
        /\ wk' = [wk EXCEPT ![w] = Polling]
        /\ UNCHANGED <<queueVars, running, beats, procVars, agentic, passed, retired>>

-----------------------------------------------------------------------------
(***************************************************************************)
(* The daemon process.                                                     *)
(***************************************************************************)
\* NewQueue, then Start: deliverExistingCompletions, reconcileTaskEnvelope,
\* and the workers.
Open ==
    /\ daemon = "down"
    /\ RecoverStart(Main)
    /\ daemon' = "opening"
    /\ UNCHANGED <<wk, running, beats, recordVars, stops, conns>>

OpenRecover ==
    /\ daemon = "opening"
    /\ \/ RecoverTx(Main) /\ daemon' = "starting"
       \/ MayFail /\ AbortCall(Main) /\ daemon' = "down"
    /\ UNCHANGED <<wk, running, beats, recordVars, stops, conns>>

DeliverExistingDone ==   \* mutant: failed tasks are not delivered again
    /\ daemon = "starting"
    /\ daemon' = "reconciling"
    /\ handed' = handed \cup {i \in TaskId : tasks[i].status = "done"}
    /\ UNCHANGED <<queueVars, wk, running, beats, agentic, passed, retired, stops, conns>>
DeliverExisting ==
    /\ daemon = "starting"
    /\ daemon' = "reconciling"
    /\ \/ handed' = handed \cup {i \in TaskId : tasks[i].status \in Terminal}
       \/ MayFail /\ UNCHANGED handed
    /\ UNCHANGED <<queueVars, wk, running, beats, agentic, passed, retired, stops, conns>>

\* ReconcileDaemonTaskStatuses
ReconciledRaw(i) ==   \* mutant: the queue's status is written as it is
    IF agentic[i] = "running" /\ tasks[i].status \in Terminal
    THEN tasks[i].status ELSE agentic[i]
ReconciledDone(i) ==   \* mutant: only done tasks are reconciled
    IF agentic[i] = "running" /\ tasks[i].status = "done"
    THEN "succeeded" ELSE agentic[i]
Reconciled(i) ==
    IF agentic[i] = "running" /\ tasks[i].status \in Terminal
    THEN IF tasks[i].status = "done" THEN "succeeded" ELSE "failed"
    ELSE agentic[i]

Reconcile ==
    /\ daemon = "reconciling"
    /\ daemon' = "up"
    /\ \/ agentic' = [i \in TaskId |-> Reconciled(i)]
       \/ MayFail /\ UNCHANGED agentic
    /\ UNCHANGED <<queueVars, wk, running, beats, passed, retired, handed, stops, conns>>

\* acceptLoop gives a client's connection to a goroutine of its own, whose
\* handleConn returns when the client has sent its request or hangs up: the
\* read has no deadline and does not look at the context.
Connect(c) ==
    /\ Live
    /\ c \notin conns
    /\ conns' = conns \cup {c}
    /\ UNCHANGED <<queueVars, daemon, wk, running, beats, recordVars, stops>>

Hangup(c) ==
    /\ c \in conns
    /\ conns' = conns \ {c}
    /\ UNCHANGED <<queueVars, daemon, wk, running, beats, recordVars, stops>>

\* Stop, the stop request or a signal cancels the context of the daemon.
Stop ==
    /\ daemon = "up"
    /\ stops < MaxStops
    /\ daemon' = "stopping"
    /\ stops' = stops + 1
    /\ UNCHANGED <<queueVars, wk, running, beats, recordVars, conns>>

\* cleanup returns once wg.Wait does: every worker has seen the cancelled
\* context and every open connection is handled.  The process ends, with the
\* progress updates in flight.
HaltEarly ==   \* mutant: the workers are not counted in wg
    /\ daemon = "stopping"
    /\ conns = {}
    /\ daemon' = "down"
    /\ beats' = [i \in TaskId |-> 0]
    /\ UNCHANGED <<queueVars, wk, running, recordVars, stops, conns>>
Halt ==
    /\ daemon = "stopping"
    /\ conns = {}
    /\ \A w \in Worker : wk[w].pc = "poll"
    /\ daemon' = "down"
    /\ beats' = [i \in TaskId |-> 0]
    /\ UNCHANGED <<queueVars, wk, running, recordVars, stops, conns>>

Crash ==
    /\ "crash" \in Fault
    /\ daemon # "down"
    /\ stops < MaxStops
    /\ Die(Worker \cup {Main})
    /\ daemon' = "down"
    /\ stops' = stops + 1
    /\ conns' = {}
    /\ wk' = [w \in Worker |-> Polling]
    /\ running' = [i \in TaskId |-> NoWorker]
    /\ beats' = [i \in TaskId |-> 0]
    /\ UNCHANGED recordVars

-----------------------------------------------------------------------------
(***************************************************************************)
(* Clients: submissions through the socket or another surface, task_stop   *)
(* and /undo, task_update, and other processes that open the queue.        *)
(***************************************************************************)
ClientBegin(c) ==
    /\ \/ \E k \in KeyVal, s \in SessionVal, r \in RouteVal : EnqueueStart(c, k, s, r)
       \/ \E i \in TaskId : CancelTask(c, i) \/ AnnotateGet(c, i)
       \/ CancelPendingTask(c)
       \/ "foreign" \in Fault /\ RecoverStart(c)
    /\ UNCHANGED daemonVars

ClientStep(c) == Step(c) /\ UNCHANGED daemonVars

WorkerStep(w) ==
    \/ WorkerClaim(w) \/ EnvelopeStart(w) \/ BeginRun(w) \/ GateBlocks(w)
    \/ RunText(w) \/ Watchdog(w) \/ WallClock(w)
    \/ RunOk(w) \/ Bind(w) \/ RunErr(w) \/ Judge(w) \/ RunPanic(w)
    \/ GatePasses(w) \/ MarkGet(w) \/ MarkUpdate(w) \/ EnvelopeClose(w) \/ RetireSession(w)
    \/ Deliver(w)

ProcessStep ==
    \/ Open \/ OpenRecover \/ DeliverExisting \/ Reconcile
    \/ Stop \/ Halt \/ Crash
    \/ \E c \in Conn : Connect(c) \/ Hangup(c)

DaemonNext ==
    \/ Tick /\ UNCHANGED daemonVars
    \/ ProcessStep
    \/ \E w \in Worker : WorkerStep(w)
    \/ \E i \in TaskId : Beat(i) \/ CancelRunningTask(i)
    \/ \E c \in Client : ClientBegin(c) \/ ClientStep(c)

DaemonSpec == DaemonInit /\ [][DaemonNext]_vars

-----------------------------------------------------------------------------
(***************************************************************************)
(* Fairness.  The goroutines of the daemon are scheduled and its statements *)
(* return.  The agent runner may run for ever, and nothing makes it return  *)
(* when its context is cancelled: a tool of it may not look at the context  *)
(* (an MCP call, a Wait on a held pipe).  A connected client need not send  *)
(* or hang up; nobody has to submit, cancel, stop or crash.                 *)
(***************************************************************************)
Cancelled(w) == wk[w].sig # {} \/ ~Live

WorkerProgress(w) ==
    \/ WorkerClaim(w) \/ EnvelopeStart(w) \/ BeginRun(w)
    \/ Judge(w) \/ Bind(w) \/ GatePasses(w) \/ GateBlocks(w)
    \/ MarkGet(w) \/ MarkUpdate(w) \/ EnvelopeClose(w) \/ RetireSession(w)
    \/ Deliver(w)

Fairness ==
    /\ WF_vars(Tick /\ UNCHANGED daemonVars)
    /\ WF_vars(Halt)
    /\ \A w \in Worker : WF_vars(WorkerProgress(w)) /\ WF_vars(WallClock(w))

FairDaemonSpec == DaemonSpec /\ Fairness

-----------------------------------------------------------------------------
(***************************************************************************)
(* Properties.                                                             *)
(***************************************************************************)
\* Points where the worker has not marked its task yet, and after that.
Working == {"envelope", "gate", "run", "judge", "bind", "evaluate", "mark", "finish"}
Closing == {"close", "retire", "deliver"}

\* A worker owns the task it works on: until it marks the task, the row is
\* running under this worker's claim (started_at is the instant it claimed
\* it), so MarkDone, MarkFailed, BindSession and the receipt are about its own
\* run.  Holds when only the daemon's own start recovers stale tasks.
ClaimIsHeld ==
    \A w \in Worker :
        LET row == tasks[wk[w].task]
        IN  /\ wk[w].pc \in Working =>
                  row.status = "running" /\ row.started = wk[w].claimed
            /\ wk[w].pc \in Closing =>
                  \/ row.status \in Terminal
                  \/ row.status = "running" /\ row.started = wk[w].claimed

\* No task is executed by two workers at once, through crashes, restarts and
\* recoveries.
ExclusiveExecution ==
    \A v, w \in Worker :
        wk[v].pc # "poll" /\ wk[w].pc # "poll" /\ wk[v].task = wk[w].task => v = w

\* The cancellation registry holds exactly the tasks inside runTask, under
\* their runner: task_stop reaches every running task and no other one.
RegistryTracksRunners ==
    \A i \in TaskId, w \in Worker :
        running[i] = w <=> wk[w].pc \in {"run", "judge", "bind"} /\ wk[w].task = i

\* The agentic task of a queue task is never ahead of the queue: it is
\* succeeded only if the queue task is done, failed only if it failed, even
\* when two workers execute the task and one of them loses its mark.
EnvelopeNeverAhead ==
    \A i \in TaskId :
        /\ agentic[i] = "succeeded" => tasks[i].status = "done"
        /\ agentic[i] = "failed" => tasks[i].status = "failed"

\* A task that asks for a completion gate is done only through a recorded
\* passed gate, whichever worker finished it.
DoneThroughGate ==
    \A i \in Gated : tasks[i].status = "done" => i \in passed

\* Task i is finished and no worker has it any more.
AtRest(i) ==
    /\ Live
    /\ tasks[i].status \in Terminal
    /\ \A w \in Worker : wk[w].pc # "poll" => wk[w].task # i

\* When a finished task is at rest in a running daemon its envelope is closed,
\* although the daemon may have crashed between the mark and the close: the
\* reconciliation at start repairs it.  The exception is a task that was
\* cancelled in the queue after a recovery: its envelope stays running until
\* the next start.
EnvelopeSettles ==
    \A i \in TaskId :
        AtRest(i) /\ agentic[i] = "running"
            => tasks[i].completion.cause = "cancelled"

\* When a finished task is at rest in a running daemon its receipt has been
\* handed to the router, whichever step a crash came after, unless it was
\* cancelled in the queue.
FinishedIsHanded ==
    \A i \in TaskId :
        AtRest(i) /\ tasks[i].completion.cause # "cancelled" => i \in handed

\* What a timed out run is recorded as.
Timeouts == {"idle", "active_but_killed"}

\* A session is retired for a task that failed, not for one that is recorded
\* as stopped by an operator or the shutdown.
RetiredForFailure ==
    \A i \in retired :
        /\ tasks[i].status = "failed"
        /\ tasks[i].completion.cause \in {"error"} \cup Timeouts

\* Moreover a run that an operator had stopped before its runner returned
\* retires its session only by a panic, never as a timeout.  It says nothing of
\* a stop that comes while runTask judges the error (after daemon.go:870): that
\* run is recorded as timed out, and its session is retired.
RetirementJustified ==
    /\ RetiredForFailure
    /\ \A w \in Worker :
          wk[w].told /\ wk[w].pc \in Closing /\ wk[w].task \in retired
              => tasks[wk[w].task].completion.cause = "error"

\* An operator's stop wins over the watchdogs when it comes before the runner
\* returns: whatever they said meanwhile, the run is not judged, and its task
\* not recorded, as timed out.  A stop that comes later need not win, see above.
StopIsNotTimeout ==
    \A w \in Worker : wk[w].told =>
        /\ wk[w].outcome \notin Timeouts
        /\ wk[w].pc \in Closing => tasks[wk[w].task].completion.cause \notin Timeouts

\* The runner of w ignores that its context is cancelled.
Stuck(w) == wk[w].pc = "run" /\ Cancelled(w)

\* A worker runs task i, with room for its wall clock below the bound MaxTime.
RunInTime(i) ==
    \E w \in Worker : /\ wk[w].pc = "run" /\ wk[w].task = i
                      /\ wk[w].begun + WallClockTimeout <= MaxTime
StuckOn(i) == \E w \in Worker : wk[w].task = i /\ Stuck(w)

\* A task that a worker runs is finished, whatever the runner does short of
\* ignoring its cancelled context for ever: it is done, failed or timed out.
RunIsFinished ==
    \A i \in TaskId :
        [](RunInTime(i) => <>(tasks[i].status \in Terminal) \/ <>[]StuckOn(i))

\* A shutdown ends: every worker finalises its task and the daemon goes down,
\* unless a client keeps its connection open or a runner ignores its cancelled
\* context, either for ever.
ShutdownCompletes ==
    [](daemon = "stopping"
       => <>(daemon = "down") \/ <>[](conns # {} \/ \E w \in Worker : Stuck(w)))

-----------------------------------------------------------------------------
(***************************************************************************)
(* What a comment of the code says and the code does not do.               *)
(***************************************************************************)
\* NewQueue "recovers any tasks left in 'running' state from a previous crash"
\* (queue.go): a task that is in the hands of a live
\* worker is not put back in the queue.
RecoversOnlyCrashed ==
    \A w \in Worker : wk[w].pc \in Working => tasks[wk[w].task].status # "pending"
=============================================================================
