----------------------------- MODULE Activation -----------------------------
(***************************************************************************)
(* How verified work turns into new work: follow-ups that fall due,        *)
(* signals that are triaged into agentic tasks, and proposed tasks that    *)
(* are put on the daemon queue (internal/agentic/followup, triage,         *)
(* activation, enqueue, signals, and the statements of                     *)
(* internal/agentic/store.go they execute).                                *)
(*                                                                         *)
(* The daemon's activation loop and every `elnath agentic ...` command are *)
(* processes of their own on one SQLite database.  A runner is such a      *)
(* process; each of its actions is one statement or one transaction, so    *)
(* another process may act between any two of them, and it works on the    *)
(* rows it listed at the start, which may be stale when it reaches them.   *)
(***************************************************************************)
EXTENDS FiniteSets, Naturals

CONSTANTS
    Runner,        \* processes that run activation, triage or enqueue
    Loop,          \* the daemon's activation loop, one of them
    Followup,      \* follow-ups, one per dedupe key
    QueueRow,      \* rows of the daemon queue
    BareSignal,    \* signals whose payload names no queue task
    Malformed,     \* those of them whose payload does not parse
    AgenticTask,   \* identifiers of agentic tasks, ascending
    AutoEnqueue,   \* agentic.activation.auto_enqueue.enabled
    MaxRunFaults,  \* bound: runners that die and statements that fail
    None

ASSUME ActivationAssumption ==
    /\ Loop \in Runner
    /\ Malformed \subseteq BareSignal
    /\ AgenticTask \subseteq Nat
    /\ AutoEnqueue \in BOOLEAN
    /\ MaxRunFaults \in Nat
    /\ None \notin AgenticTask \cup QueueRow \cup Followup

VARIABLES
    followups,   \* table followups
    signals,     \* table goal_signals: its status
    atasks,      \* table agentic_tasks
    decisions,   \* table task_enqueue_decisions, per task
    rows,        \* table task_queue: its status
    run,         \* the local variables of the runners
    env,         \* what the daemon worker of a row has read of its envelope
    afaults

actVars == <<followups, signals, atasks, decisions, rows, run, env, afaults>>

\* A signal is named by what its dedupe key is made of.
DueSignal(f) == <<"followup_due", f>>
QueueSignal(q) == <<"queue", q>>
Bare(b) == <<"bare", b>>
Signal == {DueSignal(f) : f \in Followup} \cup {QueueSignal(q) : q \in QueueRow}
             \cup {Bare(b) : b \in BareSignal}

\* A row of agentic_tasks: signal_id, queue_task_id and status.
TaskRow == [signal : Signal \cup {None}, queue : QueueRow \cup {None},
            status : {"proposed", "pending", "running", "ended"}]
ASSUME NoneAssumption == None \notin TaskRow \cup Signal

FollowupRow == [status : {"absent", "pending", "processing", "created", "failed", "skipped"},
                wake : BOOLEAN, task : AgenticTask \cup {None}]

\* A runner: where it is in RunOnce, the follow-ups it listed with the
\* created_task_id it saw, the one it processes, the task found or made for
\* it, the signals it listed, and the tasks this run proposed.
RunnerState ==
    [pc : {"idle", "followups", "signal", "lookup", "create", "mark",
           "triage", "consider", "enqueue"},
     due : SUBSET (Followup \X (AgenticTask \cup {None})),
     fu : Followup \cup {None}, task : AgenticTask \cup {None},
     new : SUBSET Signal, ids : SUBSET AgenticTask]
Idle == [pc |-> "idle", due |-> {}, fu |-> None, task |-> None, new |-> {}, ids |-> {}]

ActivationTypeOK ==
    /\ followups \in [Followup -> FollowupRow]
    /\ signals \in [Signal -> {"absent", "new", "triaged", "failed"}]
    /\ atasks \in [AgenticTask -> TaskRow \cup {None}]
    /\ decisions \in [AgenticTask -> SUBSET ({"enqueued", "failed"} \X (QueueRow \cup {None}))]
    /\ rows \in [QueueRow -> {"absent", "pending", "running", "finished"}]
    /\ run \in [Runner -> RunnerState]
    /\ env \in [QueueRow -> {"none", "create", "started"}]
    /\ afaults \in 0..MaxRunFaults

ActivationInit ==
    /\ followups = [f \in Followup |-> [status |-> "absent", wake |-> FALSE, task |-> None]]
    /\ signals = [s \in Signal |-> "absent"]
    /\ atasks = [t \in AgenticTask |-> None]
    /\ decisions = [t \in AgenticTask |-> {}]
    /\ rows = [q \in QueueRow |-> "absent"]
    /\ run = [r \in Runner |-> Idle]
    /\ env = [q \in QueueRow |-> "none"]
    /\ afaults = 0

-----------------------------------------------------------------------------
Tasks == {t \in AgenticTask : atasks[t] # None}
BySignal(s) == {t \in Tasks : atasks[t].signal = s}
ByQueue(q) == {t \in Tasks : atasks[t].queue = q}
\* AUTOINCREMENT: the least identifier above those given out.
FreshTask(t) == /\ atasks[t] = None
                /\ \A u \in AgenticTask : u < t => atasks[u] # None
Make(t, s, q, status) ==
    atasks' = [atasks EXCEPT ![t] = [signal |-> s, queue |-> q, status |-> status]]

Goto(r, pc) == run' = [run EXCEPT ![r].pc = pc]

\* updateFollowupStatus: no condition on the present status, and a
\* created_task_id once written is kept when none is given.
Update(f, status, t) ==
    followups' = [followups EXCEPT ![f].status = status,
                                   ![f].task = IF t = None THEN @ ELSE t]

\* A statement fails: RunOnce returns its error, with the follow-up marked
\* failed where process goes through Scheduler.fail.
Stop(r) == run' = [run EXCEPT ![r] = Idle]
FailRun(r) ==
    /\ run[r].pc # "idle"
    /\ afaults < MaxRunFaults
    /\ afaults' = afaults + 1
    /\ Stop(r)
    /\ IF run[r].pc \in {"signal", "lookup", "create"}
       THEN \/ Update(run[r].fu, "failed", None)
            \/ UNCHANGED followups      \* MarkFollowupFailed failed too
       ELSE UNCHANGED followups
    /\ UNCHANGED <<signals, atasks, decisions, rows, env>>

\* The process of a runner dies between two statements.
Crash(r) ==
    /\ run[r].pc # "idle"
    /\ afaults < MaxRunFaults
    /\ afaults' = afaults + 1
    /\ Stop(r)
    /\ UNCHANGED <<followups, signals, atasks, decisions, rows, env>>

-----------------------------------------------------------------------------
(***************************************************************************)
(* Where the work comes from.                                              *)
(***************************************************************************)
\* CreateFromVerifiedOutcome: INSERT OR IGNORE under the dedupe key.
CreateFollowup(f) ==
    /\ followups[f].status = "absent"
    /\ \E w \in BOOLEAN :
          followups' = [followups EXCEPT ![f] = [status |-> "pending", wake |-> w, task |-> None]]
    /\ UNCHANGED <<signals, atasks, decisions, rows, run, env, afaults>>

\* A task is submitted; the bridge records its signal afterwards, or never.
Submit(q) ==
    /\ rows[q] = "absent"
    /\ rows' = [rows EXCEPT ![q] = "pending"]
    /\ UNCHANGED <<followups, signals, atasks, decisions, run, env, afaults>>

RecordSubmitSignal(q) ==
    /\ rows[q] # "absent"
    /\ signals[QueueSignal(q)] = "absent"
    /\ signals' = [signals EXCEPT ![QueueSignal(q)] = "new"]
    /\ UNCHANGED <<followups, atasks, decisions, rows, run, env, afaults>>

\* An ambient boot task, a failed scheduled enqueue, or `agentic signal create`.
RecordBareSignal(b) ==
    /\ signals[Bare(b)] = "absent"
    /\ signals' = [signals EXCEPT ![Bare(b)] = "new"]
    /\ UNCHANGED <<followups, atasks, decisions, rows, run, env, afaults>>

-----------------------------------------------------------------------------
(***************************************************************************)
(* followup.Scheduler.RunOnce.                                             *)
(***************************************************************************)
ListDueFollowupsPending(r) ==   \* mutant: what is in "processing" is not due
    /\ run[r].pc = "idle"
    /\ run' = [run EXCEPT ![r] =
          [Idle EXCEPT !.pc = "followups",
                       !.due = {<<f, followups[f].task>> :
                                  f \in {g \in Followup : followups[g].status = "pending"}}]]
    /\ UNCHANGED <<followups, signals, atasks, decisions, rows, env, afaults>>

\* ListDueFollowups: what a dead runner left in "processing" is due again.
ListDueFollowups(r) ==
    /\ run[r].pc = "idle"
    /\ run' = [run EXCEPT ![r] =
          [Idle EXCEPT !.pc = "followups",
                       !.due = {<<f, followups[f].task>> :
                                  f \in {g \in Followup : followups[g].status
                                                             \in {"pending", "processing"}}}]]
    /\ UNCHANGED <<followups, signals, atasks, decisions, rows, env, afaults>>

\* The end of process for one follow-up; t is reported as proposed.
NextFollowup(r, f, t) ==
    run' = [run EXCEPT ![r].pc = "followups", ![r].fu = None, ![r].task = None,
                       ![r].due = {d \in @ : d[1] # f},
                       ![r].ids = IF t = None THEN @ ELSE @ \cup {t}]

\* process, up to its first statement, on the row as it was listed.
ProcessFollowup(r) ==
    /\ run[r].pc = "followups"
    /\ \E d \in run[r].due :
          LET f == d[1] IN
          \/ /\ d[2] # None
             /\ Update(f, "created", d[2])
             /\ NextFollowup(r, f, d[2])
          \/ /\ d[2] = None
             /\ ~followups[f].wake
             /\ Update(f, "skipped", None)
             /\ NextFollowup(r, f, None)
          \/ /\ d[2] = None
             /\ followups[f].wake
             /\ Update(f, "processing", None)
             /\ run' = [run EXCEPT ![r].pc = "signal", ![r].fu = f]
    /\ UNCHANGED <<signals, atasks, decisions, rows, env, afaults>>

\* createOrGetDueSignal: INSERT OR IGNORE under the follow-up's dedupe key.
CreateOrGetDueSignal(r) ==
    /\ run[r].pc = "signal"
    /\ signals' = [signals EXCEPT ![DueSignal(run[r].fu)] = IF @ = "absent" THEN "new" ELSE @]
    /\ Goto(r, "lookup")
    /\ UNCHANGED <<followups, atasks, decisions, rows, env, afaults>>

GetAgenticTaskBySignalID(r) ==
    /\ run[r].pc = "lookup"
    /\ LET found == BySignal(DueSignal(run[r].fu)) IN
       \/ /\ found = {}
          /\ Goto(r, "create")
       \/ \E t \in found : run' = [run EXCEPT ![r].pc = "mark", ![r].task = t]
    /\ UNCHANGED <<followups, signals, atasks, decisions, rows, env, afaults>>

CreateFollowupTaskAgain(r) ==   \* mutant: no unique index on signal_id
    /\ run[r].pc = "create"
    /\ \E t \in AgenticTask :
          /\ FreshTask(t)
          /\ Make(t, DueSignal(run[r].fu), None, "proposed")
          /\ run' = [run EXCEPT ![r].pc = "mark", ![r].task = t]
    /\ UNCHANGED <<followups, signals, decisions, rows, env, afaults>>

\* CreateAgenticTask; when the unique index on signal_id refuses the row,
\* the task that is there is looked up and used.
CreateFollowupTask(r) ==
    /\ run[r].pc = "create"
    /\ LET s == DueSignal(run[r].fu) IN
       \/ /\ BySignal(s) = {}
          /\ \E t \in AgenticTask :
                /\ FreshTask(t)
                /\ Make(t, s, None, "proposed")
                /\ run' = [run EXCEPT ![r].pc = "mark", ![r].task = t]
       \/ \E t \in BySignal(s) :
             /\ run' = [run EXCEPT ![r].pc = "mark", ![r].task = t]
             /\ UNCHANGED atasks
    /\ UNCHANGED <<followups, signals, decisions, rows, env, afaults>>

MarkFollowupCreated(r) ==
    /\ run[r].pc = "mark"
    /\ Update(run[r].fu, "created", run[r].task)
    /\ NextFollowup(r, run[r].fu, run[r].task)
    /\ UNCHANGED <<signals, atasks, decisions, rows, env, afaults>>

-----------------------------------------------------------------------------
(***************************************************************************)
(* triage.Triager.RunOnce; `elnath agentic triage` starts here.            *)
(***************************************************************************)
ListNewSignals(r) ==
    /\ \/ run[r].pc = "idle" /\ r # Loop
       \/ run[r].pc = "followups" /\ run[r].due = {}
    /\ run' = [run EXCEPT ![r].pc = "triage", ![r].new = {s \in Signal : signals[s] = "new"}]
    /\ UNCHANGED <<followups, signals, atasks, decisions, rows, env, afaults>>

\* The signal is done with; the tasks in t are reported as proposed.
Triaged(r, s, t) ==
    run' = [run EXCEPT ![r].new = @ \ {s}, ![r].ids = @ \cup t]
SetTriaged(s) ==
    signals' = [signals EXCEPT ![s] = IF @ = "new" THEN "triaged" ELSE @]

TaskFromSignalUnlinked(t, s) ==   \* mutant: the queue task of the payload is ignored
    Make(t, s, None, "proposed")

\* taskFromSignal: the task of a queue row is linked to it and waits for its
\* worker; any other is only proposed.
TaskFromSignal(t, s) ==
    IF s[1] = "queue" THEN Make(t, s, s[2], "pending") ELSE Make(t, s, None, "proposed")

\* triageGoalSignalTx, one transaction.  A signal that already has its task,
\* or whose queue task has one, is only marked; a queue task's own agentic
\* task takes the signal if it has none; any other signal makes a task,
\* queue-backed or proposed.  The error for a signal that is no longer new
\* ends the run.
TriageGoalSignal(r) ==
    /\ run[r].pc = "triage"
    /\ \E s \in run[r].new :
          LET ofQueue == IF s[1] = "queue" THEN ByQueue(s[2]) ELSE {} IN
          \/ /\ BySignal(s) # {}
             /\ SetTriaged(s)
             /\ Triaged(r, s, {})
             /\ UNCHANGED atasks
          \/ /\ BySignal(s) = {}
             /\ \E t \in ofQueue :
                   IF signals[s] = "new" /\ atasks[t].signal = None
                   THEN /\ atasks' = [atasks EXCEPT ![t].signal = s]
                        /\ Triaged(r, s, {t})
                   ELSE /\ Triaged(r, s, {})
                        /\ UNCHANGED atasks
             /\ SetTriaged(s)
          \/ /\ BySignal(s) = {} /\ ofQueue = {} /\ signals[s] # "new"
             /\ Stop(r)
             /\ UNCHANGED <<signals, atasks>>
          \/ /\ BySignal(s) = {} /\ ofQueue = {} /\ signals[s] = "new"
             /\ IF s[1] = "bare" /\ s[2] \in Malformed
                THEN /\ signals' = [signals EXCEPT ![s] = "failed"]
                     /\ Triaged(r, s, {})
                     /\ UNCHANGED atasks
                ELSE \E t \in AgenticTask :
                        /\ FreshTask(t)
                        /\ TaskFromSignal(t, s)
                        /\ SetTriaged(s)
                        /\ Triaged(r, s, {t})
    /\ UNCHANGED <<followups, decisions, rows, env, afaults>>

-----------------------------------------------------------------------------
(***************************************************************************)
(* autoEnqueueProposed, and enqueue.Service.Enqueue, which the operator    *)
(* also calls (`elnath agentic enqueue`).                                  *)
(***************************************************************************)
\* Only the tasks of this very run are considered; the record of the run
\* that ends it (activation_runs) is a log.
EndTriage(r) ==
    /\ run[r].pc = "triage"
    /\ run[r].new = {}
    /\ IF AutoEnqueue THEN Goto(r, "consider") ELSE Stop(r)
    /\ UNCHANGED <<followups, signals, atasks, decisions, rows, env, afaults>>

OperatorEnqueue(r, t) ==
    /\ r # Loop
    /\ run[r].pc = "idle"
    /\ t \in Tasks
    /\ run' = [run EXCEPT ![r] = [Idle EXCEPT !.pc = "consider", !.ids = {t}]]
    /\ UNCHANGED <<followups, signals, atasks, decisions, rows, env, afaults>>

Eligible(t) == atasks[t].status = "proposed" /\ atasks[t].queue = None

\* Enqueue reads the task outside the transaction; one that is linked or no
\* longer proposed is skipped, or answered with its decision, and one whose
\* risk, the run's limit or the requested modes speak against it is left.
ConsiderTask(r) ==
    /\ run[r].pc = "consider"
    /\ \E t \in run[r].ids :
          \/ /\ Eligible(t)
             /\ run' = [run EXCEPT ![r].pc = "enqueue", ![r].task = t, ![r].ids = @ \ {t}]
          \/ run' = [run EXCEPT ![r].ids = @ \ {t}]
    /\ UNCHANGED <<followups, signals, atasks, decisions, rows, env, afaults>>

EndRun(r) ==
    /\ run[r].pc = "consider"
    /\ run[r].ids = {}
    /\ Stop(r)
    /\ UNCHANGED <<followups, signals, atasks, decisions, rows, env, afaults>>

\* The unique index: a task has one decision that is pending or enqueued.
HasActiveDecision(t) == \E d \in decisions[t] : d[1] = "enqueued"

\* A statement that fails, or the bound on the queue's rows.
EnqueueTxFails ==
    \/ afaults < MaxRunFaults /\ afaults' = afaults + 1
    \/ (\A q \in QueueRow : rows[q] # "absent") /\ UNCHANGED afaults

DecisionFailsPending(t) ==   \* mutant: the failed decision is committed as inserted
    decisions' = [decisions EXCEPT ![t] = @ \cup {<<"pending", None>>}]
DecisionFails(t) ==
    decisions' = [decisions EXCEPT ![t] = @ \cup {<<"failed", None>>}]

\* EnqueueProposedTask, one transaction: read the task again, insert the
\* decision, insert the queue row, link both.  When EnqueueTx fails the
\* decision is committed as failed; any other failure rolls back.
EnqueueProposedTask(r) ==
    LET t == run[r].task IN
    /\ run[r].pc = "enqueue"
    /\ \/ /\ Eligible(t)
          /\ ~HasActiveDecision(t)
          /\ \E q \in QueueRow :
                /\ rows[q] = "absent"
                /\ rows' = [rows EXCEPT ![q] = "pending"]
                /\ decisions' = [decisions EXCEPT ![t] = @ \cup {<<"enqueued", q>>}]
                /\ atasks' = [atasks EXCEPT ![t].queue = q, ![t].status = "pending"]
          /\ run' = [run EXCEPT ![r].pc = "consider", ![r].task = None]
          /\ UNCHANGED afaults
       \/ /\ Eligible(t)
          /\ ~HasActiveDecision(t)
          /\ EnqueueTxFails
          /\ DecisionFails(t)
          /\ Stop(r)
          /\ UNCHANGED <<rows, atasks>>
       \/ /\ ~Eligible(t) \/ HasActiveDecision(t)
          /\ Stop(r)
          /\ UNCHANGED <<rows, decisions, atasks, afaults>>
    /\ UNCHANGED <<followups, signals, env>>

-----------------------------------------------------------------------------
(***************************************************************************)
(* The daemon worker of a queue row and the envelope it starts             *)
(* (internal/agentic/runtime); Daemon models the worker itself.            *)
(***************************************************************************)
StartEnvelope(q) ==
    /\ rows[q] = "pending"
    /\ rows' = [rows EXCEPT ![q] = "running"]
    /\ \/ /\ ByQueue(q) = {}
          /\ env' = [env EXCEPT ![q] = "create"]
          /\ UNCHANGED atasks
       \/ \E t \in ByQueue(q) :
             /\ atasks' = [atasks EXCEPT ![t].status = "running"]
             /\ env' = [env EXCEPT ![q] = "started"]
    /\ UNCHANGED <<followups, signals, decisions, run, afaults>>

CreateEnvelopeTaskAgain(q) ==   \* mutant: no unique index on queue_task_id
    /\ env[q] = "create"
    /\ env' = [env EXCEPT ![q] = "started"]
    /\ \E t \in AgenticTask : FreshTask(t) /\ Make(t, None, q, "running")
    /\ UNCHANGED <<followups, signals, decisions, rows, run, afaults>>

\* CreateAgenticTask, or the task that won the unique index on
\* queue_task_id meanwhile, whose status Start then leaves alone.
CreateEnvelopeTask(q) ==
    /\ env[q] = "create"
    /\ env' = [env EXCEPT ![q] = "started"]
    /\ \/ /\ ByQueue(q) = {}
          /\ \E t \in AgenticTask : FreshTask(t) /\ Make(t, None, q, "running")
       \/ /\ ByQueue(q) # {}
          /\ UNCHANGED atasks
    /\ UNCHANGED <<followups, signals, decisions, rows, run, afaults>>

FinishRow(q) ==
    /\ env[q] = "started"
    /\ rows[q] = "running"
    /\ rows' = [rows EXCEPT ![q] = "finished"]
    /\ \E t \in ByQueue(q) :
          atasks' = [atasks EXCEPT ![t].status = "ended"]
    /\ UNCHANGED <<followups, signals, decisions, run, env, afaults>>

-----------------------------------------------------------------------------
FollowupStep(r) ==
    \/ ProcessFollowup(r)
    \/ CreateOrGetDueSignal(r)
    \/ GetAgenticTaskBySignalID(r)
    \/ CreateFollowupTask(r)
    \/ MarkFollowupCreated(r)
TriageStep(r) == TriageGoalSignal(r) \/ EndTriage(r)
EnqueueStep(r) == ConsiderTask(r) \/ EnqueueProposedTask(r) \/ EndRun(r)

ActivationNext ==
    \/ \E f \in Followup : CreateFollowup(f)
    \/ \E q \in QueueRow : \/ Submit(q) \/ RecordSubmitSignal(q)
                           \/ StartEnvelope(q) \/ CreateEnvelopeTask(q) \/ FinishRow(q)
    \/ \E b \in BareSignal : RecordBareSignal(b)
    \/ \E r \in Runner : \/ ListDueFollowups(r) \/ FollowupStep(r)
                         \/ ListNewSignals(r) \/ TriageStep(r) \/ EnqueueStep(r)
                         \/ FailRun(r) \/ Crash(r)
    \/ \E r \in Runner, t \in AgenticTask : OperatorEnqueue(r, t)

ActivationSpec == ActivationInit /\ [][ActivationNext]_actVars

\* The loop's ticker keeps starting runs, and a run that is not killed goes on.
LoopStep(r) == \/ ListDueFollowups(r) \/ FollowupStep(r)
               \/ ListNewSignals(r) \/ TriageStep(r) \/ EnqueueStep(r)
ActivationFairness == WF_actVars(LoopStep(Loop))
-----------------------------------------------------------------------------
(***************************************************************************)
(* Properties.                                                             *)
(***************************************************************************)
\* A follow-up makes one task however many processes work on it: the task it
\* names is the one its due signal carries, through concurrent schedulers on
\* stale lists, a triager that takes the signal first, crashes and retries.
FollowupHasItsTask ==
    \A f \in Followup :
       /\ followups[f].status = "created" => followups[f].task # None
       /\ followups[f].task # None =>
             /\ atasks[followups[f].task] # None
             /\ atasks[followups[f].task].signal = DueSignal(f)
       /\ Cardinality(BySignal(DueSignal(f))) <= 1

\* A proposal is put on the queue once: an enqueued decision and the task
\* name the same row, the row exists, and no row serves two tasks, although
\* operator and activation loop read the task before their transactions.
EnqueuedOnce ==
    /\ \A t \in AgenticTask : \A d \in decisions[t] :
          d[1] = "enqueued" => /\ t \in Tasks
                               /\ atasks[t].queue = d[2]
                               /\ rows[d[2]] # "absent"
    /\ \A t, u \in Tasks : atasks[t].queue = atasks[u].queue /\ t # u => atasks[t].queue = None

\* No signal is lost and none repeats work that is queued: a triaged signal
\* has its task, and the signal of a queued task is never turned into a
\* proposal that would run the work again.
SignalAccounted ==
    /\ \A s \in Signal : signals[s] = "triaged" =>
          BySignal(s) # {} \/ (s[1] = "queue" /\ ByQueue(s[2]) # {})
    /\ \A q \in QueueRow : \A t \in BySignal(QueueSignal(q)) : atasks[t].queue = q

\* Every follow-up the loop can see is dealt with, whatever a killed or
\* failed run left behind in "processing".
FollowupServed ==
    \A f \in Followup :
       followups[f].status \in {"pending", "processing"}
          ~> followups[f].status \in {"created", "failed", "skipped"}
=============================================================================
