-------------------------- MODULE ActivationProofs --------------------------
(***************************************************************************)
(* Proofs about follow-ups, triage and enqueue, for any number of runners, *)
(* follow-ups, signals, tasks, queue rows and faults.                      *)
(***************************************************************************)
EXTENDS Activation, FiniteSetTheorems, TLAPS

-----------------------------------------------------------------------------
(***************************************************************************)
(* The invariant.                                                          *)
(***************************************************************************)
\* t is a task of the signal s.
HasSignal(t, s) == t \in Tasks /\ atasks[t].signal = s

\* The unique indexes on signal_id and queue_task_id, the foreign key to the
\* queue, and the link of a task that was made from the signal of a queue row.
TaskInv ==
    /\ \A t, u \in Tasks :
          atasks[t].signal = atasks[u].signal /\ atasks[t].signal # None => t = u
    /\ \A t, u \in Tasks :
          atasks[t].queue = atasks[u].queue /\ atasks[t].queue # None => t = u
    /\ \A t \in Tasks : atasks[t].queue # None => rows[atasks[t].queue] # "absent"
    /\ \A t \in Tasks, q \in QueueRow :
          atasks[t].signal = QueueSignal(q) => atasks[t].queue = q

FollowInv(f) ==
    /\ followups[f].status = "created" => followups[f].task # None
    /\ followups[f].task # None => HasSignal(followups[f].task, DueSignal(f))

\* What a runner remembers is old, but the links it has seen last.
RunInv(r) ==
    /\ run[r].pc \in {"signal", "lookup", "create", "mark"} => run[r].fu \in Followup
    /\ run[r].pc = "mark" => HasSignal(run[r].task, DueSignal(run[r].fu))
    /\ \A d \in run[r].due : d[2] # None => HasSignal(d[2], DueSignal(d[1]))
    /\ \A s \in run[r].new : signals[s] # "absent"
    /\ run[r].ids \subseteq Tasks
    /\ run[r].pc = "enqueue" => run[r].task \in Tasks

DecisionInv(t) ==
    \A d \in decisions[t] : d[1] = "enqueued" =>
       /\ d[2] \in QueueRow
       /\ t \in Tasks
       /\ atasks[t].queue = d[2]
       /\ rows[d[2]] # "absent"

SignalInv(s) ==
    /\ signals[s] = "triaged" =>
          BySignal(s) # {} \/ (s[1] = "queue" /\ ByQueue(s[2]) # {})
    /\ s[1] = "queue" /\ signals[s] # "absent" => rows[s[2]] # "absent"

EnvInv(q) == env[q] # "none" => rows[q] # "absent"

ActivationInv ==
    /\ ActivationTypeOK
    /\ TaskInv
    /\ \A f \in Followup : FollowInv(f)
    /\ \A r \in Runner : RunInv(r)
    /\ \A t \in AgenticTask : DecisionInv(t)
    /\ \A s \in Signal : SignalInv(s)
    /\ \A q \in QueueRow : EnvInv(q)

-----------------------------------------------------------------------------
(***************************************************************************)
(* Types, and what every step keeps.                                       *)
(***************************************************************************)
LEMMA SignalKinds ==
    /\ \A f \in Followup : DueSignal(f) \in Signal /\ DueSignal(f) # None
    /\ \A q \in QueueRow : QueueSignal(q) \in Signal /\ QueueSignal(q) # None
    /\ \A b \in BareSignal : Bare(b) \in Signal
    /\ \A s \in Signal : s[1] = "queue" => s[2] \in QueueRow /\ s = QueueSignal(s[2])
    /\ \A s \in Signal : s # None
    /\ \A f \in Followup, q \in QueueRow : DueSignal(f) # QueueSignal(q)
BY NoneAssumption DEF Signal, DueSignal, QueueSignal, Bare

LEMMA IdleRunner ==
    /\ Idle \in RunnerState
    /\ Idle.pc = "idle" /\ Idle.due = {} /\ Idle.new = {} /\ Idle.ids = {}
BY DEF Idle, RunnerState

LEMMA ActivationInitially == ActivationInit => ActivationInv
<1> SUFFICES ASSUME ActivationInit PROVE ActivationInv
  OBVIOUS
<1> USE DEF ActivationInit
<1>1. 0 \in 0..MaxRunFaults
  BY ActivationAssumption
<1>2. [status |-> "absent", wake |-> FALSE, task |-> None] \in FollowupRow
  BY DEF FollowupRow
<1>3. ActivationTypeOK
  BY <1>1, <1>2, IdleRunner DEF ActivationTypeOK
<1>4. Tasks = {}
  BY DEF Tasks
<1>5. TaskInv /\ \A t \in AgenticTask : DecisionInv(t)
  BY <1>4 DEF TaskInv, DecisionInv
<1>6. \A f \in Followup : FollowInv(f)
  BY DEF FollowInv
<1>7. \A r \in Runner : RunInv(r)
  BY IdleRunner DEF RunInv
<1>8. \A s \in Signal : SignalInv(s)
  BY DEF SignalInv
<1>9. \A q \in QueueRow : EnvInv(q)
  BY DEF EnvInv
<1> QED
  BY <1>3, <1>5, <1>6, <1>7, <1>8, <1>9 DEF ActivationInv

\* Nothing is deleted, and no link is changed once it is made.
TasksGrow ==
    \A t \in Tasks :
       /\ t \in Tasks'
       /\ atasks[t].signal # None => atasks'[t].signal = atasks[t].signal
       /\ atasks[t].queue # None => atasks'[t].queue = atasks[t].queue
Grow ==
    /\ TasksGrow
    /\ \A q \in QueueRow : rows[q] # "absent" => rows'[q] # "absent"
    /\ \A s \in Signal : signals[s] # "absent" => signals'[s] # "absent"

LEMMA HasSignalKept ==
    ASSUME Grow, NEW t, NEW s, HasSignal(t, s), s # None
    PROVE  t \in Tasks' /\ atasks'[t].signal = s
BY DEF HasSignal, Grow, TasksGrow

LEMMA FollowKept ==
    ASSUME Grow, NEW f \in Followup, FollowInv(f), followups'[f] = followups[f]
    PROVE  FollowInv(f)'
<1>1. DueSignal(f) # None /\ DueSignal(f)' = DueSignal(f)
  BY SignalKinds DEF DueSignal
<1> QED
  BY <1>1, HasSignalKept DEF FollowInv, HasSignal

LEMMA RunKept ==
    ASSUME Grow, ActivationTypeOK, NEW r \in Runner, RunInv(r), run'[r] = run[r]
    PROVE  RunInv(r)'
<1>1. run[r] \in RunnerState
  BY DEF ActivationTypeOK
<1>2. \A f \in Followup : DueSignal(f) # None
  BY SignalKinds
<1>3. run[r].pc = "mark" => run[r].task \in Tasks' /\ atasks'[run[r].task].signal = DueSignal(run[r].fu)
  BY <1>2, HasSignalKept DEF RunInv
<1>4. \A d \in run[r].due : d[1] \in Followup
  BY <1>1 DEF RunnerState
<1>5. ASSUME NEW d \in run[r].due, d[2] # None
      PROVE  d[2] \in Tasks' /\ atasks'[d[2]].signal = DueSignal(d[1])
  BY <1>2, <1>4, <1>5, HasSignalKept DEF RunInv
<1>6. \A s \in run[r].new : s \in Signal
  BY <1>1 DEF RunnerState
<1>7. Tasks \subseteq Tasks'
  BY DEF Grow, TasksGrow
<1> QED
  BY <1>3, <1>5, <1>6, <1>7 DEF RunInv, HasSignal, Grow, DueSignal

LEMMA DecisionKept ==
    ASSUME Grow, NEW t \in AgenticTask, DecisionInv(t), decisions'[t] = decisions[t]
    PROVE  DecisionInv(t)'
<1>1. \A q \in QueueRow : q # None
  BY ActivationAssumption
<1> QED
  BY <1>1 DEF DecisionInv, Grow, TasksGrow

LEMMA SignalKept ==
    ASSUME Grow, NEW s \in Signal, SignalInv(s), signals'[s] = signals[s]
    PROVE  SignalInv(s)'
<1>1. BySignal(s) # {} => BySignal(s)' # {}
  BY SignalKinds DEF BySignal, Grow, TasksGrow
<1>2. s[1] = "queue" => s[2] \in QueueRow /\ s[2] # None
  BY SignalKinds, ActivationAssumption
<1>3. s[1] = "queue" /\ ByQueue(s[2]) # {} => ByQueue(s[2])' # {}
  BY <1>2 DEF ByQueue, Grow, TasksGrow
<1> QED
  BY <1>1, <1>2, <1>3 DEF SignalInv, Grow

LEMMA EnvKept ==
    ASSUME Grow, NEW q \in QueueRow, EnvInv(q), env'[q] = env[q]
    PROVE  EnvInv(q)'
BY DEF EnvInv, Grow

\* A step keeps the invariant when it keeps it for what it changes.
LEMMA StepKeeps ==
    ASSUME ActivationInv, Grow, ActivationTypeOK', TaskInv',
           \A f \in Followup : followups'[f] = followups[f] \/ FollowInv(f)',
           \A r \in Runner : run'[r] = run[r] \/ RunInv(r)',
           \A t \in AgenticTask : decisions'[t] = decisions[t] \/ DecisionInv(t)',
           \A s \in Signal : signals'[s] = signals[s] \/ SignalInv(s)',
           \A q \in QueueRow : env'[q] = env[q] \/ EnvInv(q)'
    PROVE  ActivationInv'
<1>1. \A f \in Followup : FollowInv(f)'
  BY FollowKept DEF ActivationInv
<1>2. \A r \in Runner : RunInv(r)'
  BY RunKept DEF ActivationInv
<1>3. \A t \in AgenticTask : DecisionInv(t)'
  BY DecisionKept DEF ActivationInv
<1>4. \A s \in Signal : SignalInv(s)'
  BY SignalKept DEF ActivationInv
<1>5. \A q \in QueueRow : EnvInv(q)'
  BY EnvKept DEF ActivationInv
<1> QED
  BY <1>1, <1>2, <1>3, <1>4, <1>5 DEF ActivationInv

\* A step that does not touch the tasks.
LEMMA TasksSame ==
    ASSUME ActivationInv, atasks' = atasks,
           \A q \in QueueRow : rows[q] # "absent" => rows'[q] # "absent",
           \A s \in Signal : signals[s] # "absent" => signals'[s] # "absent"
    PROVE  Grow /\ TaskInv'
<1>1. Tasks' = Tasks
  BY DEF Tasks
<1>2. Grow
  BY <1>1 DEF Grow, TasksGrow
<1>3. \A t \in Tasks : atasks[t].queue # None => atasks[t].queue \in QueueRow
  BY DEF ActivationInv, ActivationTypeOK, Tasks, TaskRow
<1>4. TaskInv'
  BY <1>1, <1>3 DEF ActivationInv, TaskInv, QueueSignal
<1> QED
  BY <1>2, <1>4

-----------------------------------------------------------------------------
(***************************************************************************)
(* The ways a step changes the tasks.                                      *)
(***************************************************************************)
LEMMA TaskTypes ==
    ASSUME ActivationTypeOK
    PROVE  /\ Tasks \subseteq AgenticTask
           /\ \A t \in Tasks : atasks[t] \in TaskRow
           /\ \A t \in Tasks : /\ atasks[t].signal \in Signal \cup {None}
                               /\ atasks[t].queue \in QueueRow \cup {None}
BY DEF ActivationTypeOK, Tasks, TaskRow

\* A new task, for a signal and for a queue row that have none.
LEMMA TaskMade ==
    ASSUME ActivationInv, NEW t \in AgenticTask, FreshTask(t),
           NEW s \in Signal \cup {None}, NEW q \in QueueRow \cup {None},
           NEW status \in {"proposed", "pending", "running"},
           Make(t, s, q, status),
           s # None => BySignal(s) = {},
           q # None => ByQueue(q) = {} /\ rows[q] # "absent",
           \A x \in QueueRow : s = QueueSignal(x) => q = x,
           rows' = rows, \A z \in Signal : signals[z] # "absent" => signals'[z] # "absent"
    PROVE  /\ atasks' \in [AgenticTask -> TaskRow \cup {None}]
           /\ Grow /\ TaskInv'
           /\ t \in Tasks' /\ atasks'[t].signal = s /\ atasks'[t].queue = q
<1> DEFINE new == [signal |-> s, queue |-> q, status |-> status]
<1>1. /\ ActivationTypeOK /\ TaskInv
      /\ atasks \in [AgenticTask -> TaskRow \cup {None}]
  BY DEF ActivationInv, ActivationTypeOK
<1>2. new \in TaskRow /\ new # None
  BY NoneAssumption DEF TaskRow
<1>3. atasks' = [atasks EXCEPT ![t] = new]
  BY DEF Make
<1>4. /\ new.signal = s /\ new.queue = q
  OBVIOUS
<1> HIDE DEF new
<1>5. atasks[t] = None
  BY DEF FreshTask
<1>6. /\ atasks' \in [AgenticTask -> TaskRow \cup {None}]
      /\ atasks'[t] = new
      /\ \A u \in AgenticTask : u # t => atasks'[u] = atasks[u]
  BY <1>1, <1>2, <1>3
<1>7. /\ t \notin Tasks
      /\ Tasks' = Tasks \cup {t}
      /\ \A u \in Tasks : atasks'[u] = atasks[u]
  BY <1>2, <1>5, <1>6 DEF Tasks
<1>8. Grow
  BY <1>7 DEF Grow, TasksGrow
<1>9. TaskInv'
  <2>1. \A u \in Tasks : /\ s # None => atasks[u].signal # s
                         /\ q # None => atasks[u].queue # q
    BY DEF BySignal, ByQueue
  <2>2. ASSUME NEW u \in Tasks', NEW v \in Tasks', atasks'[u].signal = atasks'[v].signal,
               atasks'[u].signal # None
        PROVE  u = v
    BY <1>1, <1>4, <1>6, <1>7, <2>1, <2>2 DEF TaskInv
  <2>3. ASSUME NEW u \in Tasks', NEW v \in Tasks', atasks'[u].queue = atasks'[v].queue,
               atasks'[u].queue # None
        PROVE  u = v
    BY <1>1, <1>4, <1>6, <1>7, <2>1, <2>3 DEF TaskInv
  <2>4. ASSUME NEW u \in Tasks', atasks'[u].queue # None PROVE rows'[atasks'[u].queue] # "absent"
    BY <1>1, <1>4, <1>6, <1>7, <2>4 DEF TaskInv
  <2>5. ASSUME NEW u \in Tasks', NEW x \in QueueRow, atasks'[u].signal = QueueSignal(x)
        PROVE  atasks'[u].queue = x
    BY <1>1, <1>4, <1>6, <1>7, <2>5 DEF TaskInv
  <2> QED
    BY <2>2, <2>3, <2>4, <2>5 DEF TaskInv, QueueSignal
<1> QED
  BY <1>4, <1>6, <1>7, <1>8, <1>9

\* A task that is there is changed: it may take a signal or a queue row, if it
\* has none and no other task has it.
LEMMA TaskChanged ==
    ASSUME ActivationInv, NEW t \in Tasks, NEW e \in TaskRow,
           atasks' = [atasks EXCEPT ![t] = e],
           \/ e.signal = atasks[t].signal
           \/ /\ atasks[t].signal = None /\ BySignal(e.signal) = {}
              /\ \A x \in QueueRow : e.signal = QueueSignal(x) => e.queue = x,
           \/ e.queue = atasks[t].queue
           \/ atasks[t].queue = None /\ ByQueue(e.queue) = {} /\ rows'[e.queue] # "absent",
           \A x \in QueueRow : rows[x] # "absent" => rows'[x] # "absent",
           \A z \in Signal : signals[z] # "absent" => signals'[z] # "absent"
    PROVE  /\ atasks' \in [AgenticTask -> TaskRow \cup {None}]
           /\ Grow /\ TaskInv'
           /\ t \in Tasks' /\ atasks'[t] = e
<1>1. /\ ActivationTypeOK /\ TaskInv
      /\ atasks \in [AgenticTask -> TaskRow \cup {None}]
      /\ t \in AgenticTask
  BY DEF ActivationInv, ActivationTypeOK, Tasks
<1>2. /\ atasks' \in [AgenticTask -> TaskRow \cup {None}]
      /\ atasks'[t] = e
      /\ \A u \in AgenticTask : u # t => atasks'[u] = atasks[u]
  BY <1>1
<1>3. /\ Tasks' = Tasks
      /\ \A u \in Tasks : u # t => atasks'[u] = atasks[u]
  BY <1>2, NoneAssumption DEF Tasks
<1>4. Grow
  BY <1>2, <1>3 DEF Grow, TasksGrow
<1>5. /\ \A u \in Tasks : atasks[u].signal \in Signal \cup {None}
      /\ \A u \in Tasks : atasks[u].queue \in QueueRow \cup {None}
      /\ \A x \in QueueRow : QueueSignal(x) # None /\ x # None
  BY <1>1, TaskTypes, SignalKinds, ActivationAssumption
<1>6. ASSUME NEW u \in Tasks, u # t
      PROVE  /\ e.signal # None => atasks[u].signal # e.signal
             /\ e.queue # None => atasks[u].queue # e.queue
  BY <1>1, <1>6 DEF TaskInv, BySignal, ByQueue
<1>7. ASSUME NEW u \in Tasks', NEW v \in Tasks', atasks'[u].signal = atasks'[v].signal,
             atasks'[u].signal # None
      PROVE  u = v
  BY <1>1, <1>2, <1>3, <1>6, <1>7 DEF TaskInv
<1>8. ASSUME NEW u \in Tasks', NEW v \in Tasks', atasks'[u].queue = atasks'[v].queue,
             atasks'[u].queue # None
      PROVE  u = v
  BY <1>1, <1>2, <1>3, <1>6, <1>8 DEF TaskInv
<1>9. ASSUME NEW u \in Tasks', atasks'[u].queue # None PROVE rows'[atasks'[u].queue] # "absent"
  <2>1. CASE u # t
    BY <1>1, <1>3, <1>5, <1>9, <2>1 DEF TaskInv
  <2>2. CASE u = t /\ e.queue = atasks[t].queue
    <3>1. atasks[t].queue \in QueueRow /\ rows[atasks[t].queue] # "absent"
      BY <1>1, <1>2, <1>5, <1>9, <2>2 DEF TaskInv
    <3> QED
      BY <1>2, <2>2, <3>1
  <2>3. CASE u = t /\ rows'[e.queue] # "absent"
    BY <1>2, <2>3
  <2> QED
    BY <2>1, <2>2, <2>3
<1>10. ASSUME NEW u \in Tasks', NEW x \in QueueRow, atasks'[u].signal = QueueSignal(x)
       PROVE  atasks'[u].queue = x
  <2>1. CASE u # t
    BY <1>1, <1>3, <1>10, <2>1 DEF TaskInv
  <2>2. CASE u = t /\ e.signal = atasks[t].signal
    <3>1. atasks[t].queue = x
      BY <1>1, <1>2, <1>10, <2>2 DEF TaskInv
    <3> QED
      BY <1>2, <1>5, <2>2, <3>1
  <2>3. CASE u = t /\ e.signal # atasks[t].signal
    BY <1>2, <1>10, <2>3
  <2> QED
    BY <2>1, <2>2, <2>3
<1>11. TaskInv'
  BY <1>7, <1>8, <1>9, <1>10 DEF TaskInv, QueueSignal
<1> QED
  BY <1>2, <1>3, <1>4, <1>11

\* Only the status of a task changes.
LEMMA StatusWritten ==
    ASSUME ActivationInv, NEW t \in Tasks,
           NEW status \in {"proposed", "pending", "running", "ended"},
           atasks' = [atasks EXCEPT ![t].status = status],
           \A x \in QueueRow : rows[x] # "absent" => rows'[x] # "absent",
           \A z \in Signal : signals[z] # "absent" => signals'[z] # "absent"
    PROVE  /\ atasks' \in [AgenticTask -> TaskRow \cup {None}]
           /\ Grow /\ TaskInv'
<1> DEFINE e == [atasks[t] EXCEPT !.status = status]
<1>1. atasks[t] \in TaskRow
  BY TaskTypes DEF ActivationInv
<1>2. e \in TaskRow /\ e.signal = atasks[t].signal /\ e.queue = atasks[t].queue
  BY <1>1 DEF TaskRow
<1>3. atasks' = [atasks EXCEPT ![t] = e]
  OBVIOUS
<1> HIDE DEF e
<1> QED
  BY <1>2, <1>3, TaskChanged

-----------------------------------------------------------------------------
(***************************************************************************)
(* The ways a step changes the follow-ups and the runners.                 *)
(***************************************************************************)
FollowupStatus == {"absent", "pending", "processing", "created", "failed", "skipped"}

LEMMA Updated ==
    ASSUME ActivationInv, Grow, NEW f \in Followup, NEW status \in FollowupStatus,
           NEW t \in AgenticTask \cup {None}, Update(f, status, t),
           status = "created" => t # None,
           t # None => HasSignal(t, DueSignal(f))
    PROVE  /\ followups' \in [Followup -> FollowupRow]
           /\ \A g \in Followup : followups'[g] = followups[g] \/ FollowInv(g)'
<1> DEFINE u == IF t = None THEN followups[f].task ELSE t
<1>1. /\ followups \in [Followup -> FollowupRow]
      /\ FollowInv(f)
  BY DEF ActivationInv, ActivationTypeOK
<1>2. u \in AgenticTask \cup {None}
  BY <1>1 DEF FollowupRow
<1>3. followups' = [followups EXCEPT ![f].status = status,
                                     ![f].task = IF t = None THEN @ ELSE t]
  BY DEF Update
<1>4. followups' \in [Followup -> FollowupRow]
  BY <1>1, <1>2, <1>3 DEF FollowupRow, FollowupStatus
<1>5. \A g \in Followup : g # f => followups'[g] = followups[g]
  BY <1>1, <1>3
<1>6. followups'[f].status = status /\ followups'[f].task = u
  BY <1>1, <1>3 DEF FollowupRow
<1>7. u # None => HasSignal(u, DueSignal(f))
  BY <1>1 DEF FollowInv
<1>8. u # None => u \in Tasks' /\ atasks'[u].signal = DueSignal(f)
  BY <1>7, HasSignalKept, SignalKinds
<1>9. FollowInv(f)'
  BY <1>6, <1>8 DEF FollowInv, HasSignal, DueSignal
<1> QED
  BY <1>4, <1>5, <1>9

LEMMA RunWritten ==
    ASSUME ActivationInv, NEW r \in Runner, NEW x \in RunnerState,
           run' = [run EXCEPT ![r] = x]
    PROVE  /\ run' \in [Runner -> RunnerState]
           /\ run'[r] = x
           /\ \A z \in Runner : z # r => run'[z] = run[z]
BY DEF ActivationInv, ActivationTypeOK

LEMMA Stopped ==
    ASSUME ActivationInv, NEW r \in Runner, Stop(r)
    PROVE  /\ run' \in [Runner -> RunnerState]
           /\ \A z \in Runner : run'[z] = run[z] \/ RunInv(z)'
<1>1. /\ run' \in [Runner -> RunnerState]
      /\ run'[r] = Idle
      /\ \A z \in Runner : z # r => run'[z] = run[z]
  BY IdleRunner, RunWritten DEF Stop
<1>2. RunInv(r)'
  BY <1>1, IdleRunner DEF RunInv
<1> QED
  BY <1>1, <1>2

\* A runner goes on with what it remembers.
LEMMA WentOn ==
    ASSUME ActivationInv, Grow, NEW r \in Runner,
           NEW pc \in {"followups", "lookup", "create", "triage", "consider"}, Goto(r, pc),
           pc \in {"lookup", "create"} => run[r].fu \in Followup
    PROVE  /\ run' \in [Runner -> RunnerState]
           /\ \A z \in Runner : run'[z] = run[z] \/ RunInv(z)'
<1>1. /\ run \in [Runner -> RunnerState]
      /\ ActivationTypeOK /\ RunInv(r)
  BY DEF ActivationInv, ActivationTypeOK
<1>2. /\ run' \in [Runner -> RunnerState]
      /\ \A z \in Runner : z # r => run'[z] = run[z]
      /\ run'[r].pc = pc /\ run'[r].fu = run[r].fu /\ run'[r].due = run[r].due
      /\ run'[r].new = run[r].new /\ run'[r].ids = run[r].ids
  BY <1>1 DEF Goto, RunnerState
<1>3. /\ \A d \in run[r].due : d[1] \in Followup
      /\ run[r].new \subseteq Signal
  BY <1>1 DEF RunnerState
<1>4. ASSUME NEW d \in run[r].due, d[2] # None
      PROVE  d[2] \in Tasks' /\ atasks'[d[2]].signal = DueSignal(d[1])
  BY <1>1, <1>3, <1>4, HasSignalKept, SignalKinds DEF RunInv
<1>5. (\A s \in run[r].new : signals'[s] # "absent") /\ run[r].ids \subseteq Tasks'
  BY <1>1, <1>3 DEF RunInv, Grow, TasksGrow
<1>6. RunInv(r)'
  BY <1>2, <1>4, <1>5 DEF RunInv, HasSignal, DueSignal
<1> QED
  BY <1>2, <1>6

\* A runner that keeps what is left of its list of follow-ups, and of what it
\* has proposed, and moves to a place where it needs no more.
LEMMA Remembers ==
    ASSUME ActivationInv, Grow, NEW r \in Runner,
           run'[r].pc \in {"followups", "triage", "consider"},
           run'[r].due \subseteq run[r].due,
           \A s \in run'[r].new : s \in run[r].new \/ signals'[s] # "absent",
           \A t \in run'[r].ids : t \in run[r].ids \/ t \in Tasks'
    PROVE  RunInv(r)'
<1>1. /\ run[r] \in RunnerState
      /\ ActivationTypeOK /\ RunInv(r)
  BY DEF ActivationInv, ActivationTypeOK
<1>2. /\ \A d \in run[r].due : d[1] \in Followup
      /\ run[r].new \subseteq Signal
  BY <1>1 DEF RunnerState
<1>3. ASSUME NEW d \in run'[r].due, d[2] # None
      PROVE  d[2] \in Tasks' /\ atasks'[d[2]].signal = DueSignal(d[1])
  BY <1>1, <1>2, <1>3, HasSignalKept, SignalKinds DEF RunInv
<1>4. (\A s \in run'[r].new : signals'[s] # "absent") /\ run'[r].ids \subseteq Tasks'
  BY <1>1, <1>2 DEF RunInv, Grow, TasksGrow
<1> QED
  BY <1>3, <1>4 DEF RunInv, HasSignal, DueSignal

-----------------------------------------------------------------------------
(***************************************************************************)
(* Where the work comes from, and the daemon.                              *)
(***************************************************************************)
LEMMA SourceSteps ==
    ASSUME ActivationInv,
           \/ \E f \in Followup : CreateFollowup(f)
           \/ \E q \in QueueRow : Submit(q) \/ RecordSubmitSignal(q)
           \/ \E b \in BareSignal : RecordBareSignal(b)
    PROVE  ActivationInv'
<1>1. ASSUME NEW f \in Followup, CreateFollowup(f) PROVE ActivationInv'
  <2>1. /\ UNCHANGED <<signals, atasks, decisions, rows, run, env, afaults>>
        /\ \E w \in BOOLEAN :
              followups' = [followups EXCEPT ![f] = [status |-> "pending", wake |-> w, task |-> None]]
    BY <1>1 DEF CreateFollowup
  <2>2. PICK w \in BOOLEAN :
           followups' = [followups EXCEPT ![f] = [status |-> "pending", wake |-> w, task |-> None]]
    BY <2>1
  <2>3. [status |-> "pending", wake |-> w, task |-> None] \in FollowupRow
    BY DEF FollowupRow
  <2>4. /\ followups' \in [Followup -> FollowupRow]
        /\ \A g \in Followup : g # f => followups'[g] = followups[g]
        /\ followups'[f].task = None /\ followups'[f].status = "pending"
    BY <2>2, <2>3 DEF ActivationInv, ActivationTypeOK
  <2>5. ActivationTypeOK'
    BY <2>1, <2>4 DEF ActivationInv, ActivationTypeOK
  <2>6. FollowInv(f)'
    BY <2>4 DEF FollowInv
  <2>7. Grow /\ TaskInv'
    BY <2>1, TasksSame
  <2> QED
    BY <2>1, <2>4, <2>5, <2>6, <2>7, StepKeeps
<1>2. ASSUME NEW q \in QueueRow, Submit(q) PROVE ActivationInv'
  <2>1. /\ rows' = [rows EXCEPT ![q] = "pending"]
        /\ UNCHANGED <<followups, signals, atasks, decisions, run, env, afaults>>
    BY <1>2 DEF Submit
  <2>2. ActivationTypeOK'
    BY <2>1 DEF ActivationInv, ActivationTypeOK
  <2>3. \A x \in QueueRow : rows[x] # "absent" => rows'[x] # "absent"
    BY <2>1 DEF ActivationInv, ActivationTypeOK
  <2>4. Grow /\ TaskInv'
    BY <2>1, <2>3, TasksSame
  <2> QED
    BY <2>1, <2>2, <2>4, StepKeeps
<1>3. ASSUME NEW q \in QueueRow, RecordSubmitSignal(q) PROVE ActivationInv'
  <2>1. /\ rows[q] # "absent"
        /\ signals' = [signals EXCEPT ![QueueSignal(q)] = "new"]
        /\ UNCHANGED <<followups, atasks, decisions, rows, run, env, afaults>>
    BY <1>3 DEF RecordSubmitSignal
  <2>2. /\ signals' \in [Signal -> {"absent", "new", "triaged", "failed"}]
        /\ \A s \in Signal : s # QueueSignal(q) => signals'[s] = signals[s]
        /\ signals'[QueueSignal(q)] = "new" /\ QueueSignal(q) \in Signal
    BY <2>1, SignalKinds DEF ActivationInv, ActivationTypeOK
  <2>3. ActivationTypeOK'
    BY <2>1, <2>2 DEF ActivationInv, ActivationTypeOK
  <2>4. ASSUME NEW s \in Signal, s = QueueSignal(q) PROVE SignalInv(s)'
    BY <2>1, <2>2, <2>4 DEF SignalInv, QueueSignal
  <2>5. Grow /\ TaskInv'
    BY <2>1, <2>2, TasksSame
  <2> QED
    BY <2>1, <2>2, <2>3, <2>4, <2>5, StepKeeps
<1>4. ASSUME NEW b \in BareSignal, RecordBareSignal(b) PROVE ActivationInv'
  <2>1. /\ signals' = [signals EXCEPT ![Bare(b)] = "new"]
        /\ UNCHANGED <<followups, atasks, decisions, rows, run, env, afaults>>
    BY <1>4 DEF RecordBareSignal
  <2>2. /\ signals' \in [Signal -> {"absent", "new", "triaged", "failed"}]
        /\ \A s \in Signal : s # Bare(b) => signals'[s] = signals[s]
        /\ signals'[Bare(b)] = "new" /\ Bare(b) \in Signal
    BY <2>1, SignalKinds DEF ActivationInv, ActivationTypeOK
  <2>3. ActivationTypeOK'
    BY <2>1, <2>2 DEF ActivationInv, ActivationTypeOK
  <2>4. ASSUME NEW s \in Signal, s = Bare(b) PROVE SignalInv(s)'
    BY <2>1, <2>2, <2>4 DEF SignalInv, Bare
  <2>5. Grow /\ TaskInv'
    BY <2>1, <2>2, TasksSame
  <2> QED
    BY <2>1, <2>2, <2>3, <2>4, <2>5, StepKeeps
<1> QED
  BY <1>1, <1>2, <1>3, <1>4

LEMMA EnvelopeSteps ==
    ASSUME ActivationInv, NEW q \in QueueRow,
           StartEnvelope(q) \/ CreateEnvelopeTask(q) \/ FinishRow(q)
    PROVE  ActivationInv'
<1>1. /\ ActivationTypeOK
      /\ \A t \in ByQueue(q) : t \in Tasks
      /\ q # None
  BY ActivationAssumption DEF ActivationInv, ByQueue
<1>2. CASE StartEnvelope(q)
  <2>1. /\ rows[q] = "pending"
        /\ rows' = [rows EXCEPT ![q] = "running"]
        /\ UNCHANGED <<followups, signals, decisions, run, afaults>>
    BY <1>2 DEF StartEnvelope
  <2>2. /\ rows' \in [QueueRow -> {"absent", "pending", "running", "finished"}]
        /\ \A x \in QueueRow : rows[x] # "absent" => rows'[x] # "absent"
        /\ rows'[q] # "absent"
    BY <1>1, <2>1 DEF ActivationTypeOK
  <2>3. /\ env' \in [QueueRow -> {"none", "create", "started"}]
        /\ \A x \in QueueRow : x # q => env'[x] = env[x]
    BY <1>1, <1>2 DEF StartEnvelope, ActivationTypeOK
  <2>4. /\ atasks' \in [AgenticTask -> TaskRow \cup {None}]
        /\ Grow /\ TaskInv'
    <3>1. CASE UNCHANGED atasks
      BY <1>1, <2>1, <2>2, <3>1, TasksSame DEF ActivationTypeOK
    <3>2. ASSUME NEW t \in ByQueue(q), atasks' = [atasks EXCEPT ![t].status = "running"]
          PROVE  /\ atasks' \in [AgenticTask -> TaskRow \cup {None}]
                 /\ Grow /\ TaskInv'
      BY <1>1, <2>1, <2>2, <3>2, StatusWritten
    <3> QED
      BY <1>2, <3>1, <3>2 DEF StartEnvelope
  <2>5. ActivationTypeOK'
    BY <1>1, <2>1, <2>2, <2>3, <2>4 DEF ActivationTypeOK
  <2>6. EnvInv(q)'
    BY <2>2 DEF EnvInv
  <2> QED
    BY <2>1, <2>3, <2>4, <2>5, <2>6, StepKeeps
<1>3. CASE CreateEnvelopeTask(q)
  <2>1. /\ env[q] = "create"
        /\ env' = [env EXCEPT ![q] = "started"]
        /\ UNCHANGED <<followups, signals, decisions, rows, run, afaults>>
    BY <1>3 DEF CreateEnvelopeTask
  <2>2. rows[q] # "absent"
    BY <2>1 DEF ActivationInv, EnvInv
  <2>3. /\ env' \in [QueueRow -> {"none", "create", "started"}]
        /\ \A x \in QueueRow : x # q => env'[x] = env[x]
    BY <1>1, <2>1 DEF ActivationTypeOK
  <2>4. /\ atasks' \in [AgenticTask -> TaskRow \cup {None}]
        /\ Grow /\ TaskInv'
    <3>1. CASE UNCHANGED atasks
      BY <1>1, <2>1, <3>1, TasksSame DEF ActivationTypeOK
    <3>2. ASSUME ByQueue(q) = {}, NEW t \in AgenticTask, FreshTask(t), Make(t, None, q, "running")
          PROVE  /\ atasks' \in [AgenticTask -> TaskRow \cup {None}]
                 /\ Grow /\ TaskInv'
      <4>1. \A x \in QueueRow : None # QueueSignal(x)
        BY SignalKinds
      <4> QED
        BY <1>1, <2>1, <2>2, <3>2, <4>1, TaskMade
    <3> QED
      BY <1>3, <3>1, <3>2 DEF CreateEnvelopeTask
  <2>5. ActivationTypeOK'
    BY <1>1, <2>1, <2>3, <2>4 DEF ActivationTypeOK
  <2>6. EnvInv(q)'
    BY <2>1, <2>2 DEF EnvInv
  <2> QED
    BY <2>1, <2>3, <2>4, <2>5, <2>6, StepKeeps
<1>4. CASE FinishRow(q)
  <2>1. /\ rows' = [rows EXCEPT ![q] = "finished"]
        /\ UNCHANGED <<followups, signals, decisions, run, env, afaults>>
    BY <1>4 DEF FinishRow
  <2>2. /\ rows' \in [QueueRow -> {"absent", "pending", "running", "finished"}]
        /\ \A x \in QueueRow : rows[x] # "absent" => rows'[x] # "absent"
    BY <1>1, <2>1 DEF ActivationTypeOK
  <2>3. PICK t \in ByQueue(q) : atasks' = [atasks EXCEPT ![t].status = "ended"]
    BY <1>4 DEF FinishRow
  <2>4. /\ atasks' \in [AgenticTask -> TaskRow \cup {None}]
        /\ Grow /\ TaskInv'
    BY <1>1, <2>1, <2>2, <2>3, StatusWritten
  <2>5. ActivationTypeOK'
    BY <1>1, <2>1, <2>2, <2>4 DEF ActivationTypeOK
  <2> QED
    BY <2>1, <2>4, <2>5, StepKeeps
<1> QED
  BY <1>2, <1>3, <1>4

-----------------------------------------------------------------------------
(***************************************************************************)
(* The follow-up scheduler.                                                *)
(***************************************************************************)
LEMMA RunFails ==
    ASSUME ActivationInv, NEW r \in Runner, FailRun(r) \/ Crash(r)
    PROVE  ActivationInv'
<1>1. /\ Stop(r)
      /\ UNCHANGED <<signals, atasks, decisions, rows, env>>
      /\ run[r].pc # "idle"
      /\ afaults < MaxRunFaults /\ afaults' = afaults + 1
  BY DEF FailRun, Crash
<1>2. \/ UNCHANGED followups
      \/ run[r].fu \in Followup /\ Update(run[r].fu, "failed", None)
  BY DEF FailRun, Crash, ActivationInv, RunInv
<1>3. Grow /\ TaskInv'
  BY <1>1, TasksSame
<1>4. /\ followups' \in [Followup -> FollowupRow]
      /\ \A g \in Followup : followups'[g] = followups[g] \/ FollowInv(g)'
  <2>1. CASE UNCHANGED followups
    BY <2>1 DEF ActivationInv, ActivationTypeOK
  <2>2. CASE run[r].fu \in Followup /\ Update(run[r].fu, "failed", None)
    BY <1>3, <2>2, Updated DEF FollowupStatus
  <2> QED
    BY <1>2, <2>1, <2>2
<1>5. /\ run' \in [Runner -> RunnerState]
      /\ \A z \in Runner : run'[z] = run[z] \/ RunInv(z)'
  BY <1>1, Stopped
<1>6. afaults' \in 0..MaxRunFaults
  BY <1>1, ActivationAssumption DEF ActivationInv, ActivationTypeOK
<1>7. ActivationTypeOK'
  BY <1>1, <1>4, <1>5, <1>6 DEF ActivationInv, ActivationTypeOK
<1> QED
  BY <1>1, <1>3, <1>4, <1>5, <1>7, StepKeeps

\* A step of a runner that changes nothing but what the runner remembers.
LEMMA OnlyRun ==
    ASSUME ActivationInv, NEW r \in Runner, NEW x \in RunnerState,
           run' = [run EXCEPT ![r] = x],
           UNCHANGED <<followups, signals, atasks, decisions, rows, env, afaults>>,
           RunInv(r)'
    PROVE  ActivationInv'
<1>1. Grow /\ TaskInv'
  BY TasksSame
<1>2. /\ run' \in [Runner -> RunnerState]
      /\ \A z \in Runner : z # r => run'[z] = run[z]
  BY RunWritten
<1>3. ActivationTypeOK'
  BY <1>2 DEF ActivationInv, ActivationTypeOK
<1> QED
  BY <1>1, <1>2, <1>3, StepKeeps

LEMMA ListsFollowups ==
    ASSUME ActivationInv, NEW r \in Runner, ListDueFollowups(r)
    PROVE  ActivationInv'
<1> DEFINE due == {<<f, followups[f].task>> :
                      f \in {g \in Followup : followups[g].status \in {"pending", "processing"}}}
           x == [Idle EXCEPT !.pc = "followups", !.due = due]
<1>1. /\ followups \in [Followup -> FollowupRow]
      /\ \A f \in Followup : FollowInv(f)
  BY DEF ActivationInv, ActivationTypeOK
<1>2. \A f \in Followup : followups[f].task \in AgenticTask \cup {None}
  BY <1>1 DEF FollowupRow
<1>3. due \in SUBSET (Followup \X (AgenticTask \cup {None}))
  BY <1>2
<1>4. \A d \in due : d[1] \in Followup /\ d[2] = followups[d[1]].task
  OBVIOUS
<1>5. run' = [run EXCEPT ![r] = x]
  BY DEF ListDueFollowups
<1>6. UNCHANGED <<followups, signals, atasks, decisions, rows, env, afaults>>
  BY DEF ListDueFollowups
<1>7. \A d \in due : d[2] # None => HasSignal(d[2], DueSignal(d[1]))
  BY <1>1, <1>4 DEF FollowInv
<1> HIDE DEF due
<1>8. /\ x \in RunnerState
      /\ x.pc = "followups" /\ x.due = due /\ x.new = {} /\ x.ids = {}
  BY <1>3 DEF Idle, RunnerState
<1> HIDE DEF x
<1>9. run'[r] = x
  BY <1>5, <1>8, RunWritten
<1>10. \A d \in run'[r].due : d[2] # None => HasSignal(d[2], DueSignal(d[1]))'
  BY <1>6, <1>7, <1>8, <1>9 DEF HasSignal, Tasks, DueSignal
<1>11. RunInv(r)'
  BY <1>8, <1>9, <1>10 DEF RunInv
<1> QED
  BY <1>5, <1>6, <1>8, <1>11, OnlyRun

\* The next follow-up, with the one just done reported.
LEMMA NextOne ==
    ASSUME ActivationInv, Grow, NEW r \in Runner, NEW f,
           NEW t \in AgenticTask \cup {None}, NextFollowup(r, f, t),
           t # None => t \in Tasks
    PROVE  /\ run' \in [Runner -> RunnerState]
           /\ \A z \in Runner : run'[z] = run[z] \/ RunInv(z)'
<1> DEFINE ids == IF t = None THEN run[r].ids ELSE run[r].ids \cup {t}
<1>1. /\ run \in [Runner -> RunnerState]
      /\ run[r] \in RunnerState
  BY DEF ActivationInv, ActivationTypeOK
<1>2. ids \in SUBSET AgenticTask
  BY <1>1 DEF RunnerState
<1>3. {d \in run[r].due : d[1] # f} \in SUBSET (Followup \X (AgenticTask \cup {None}))
  BY <1>1 DEF RunnerState
<1>4. run' = [run EXCEPT ![r].pc = "followups", ![r].fu = None, ![r].task = None,
                         ![r].due = {d \in @ : d[1] # f},
                         ![r].ids = IF t = None THEN @ ELSE @ \cup {t}]
  BY DEF NextFollowup
<1>5. run' \in [Runner -> RunnerState]
  BY <1>1, <1>2, <1>3, <1>4 DEF RunnerState
<1>6. \A z \in Runner : z # r => run'[z] = run[z]
  BY <1>1, <1>4
<1>7. /\ run'[r].pc = "followups" /\ run'[r].new = run[r].new
      /\ run'[r].due = {d \in run[r].due : d[1] # f}
      /\ run'[r].ids = ids
  BY <1>1, <1>4 DEF RunnerState
<1>8. \A u \in ids : u \in run[r].ids \/ u \in Tasks'
  BY DEF Grow, TasksGrow
<1>9. RunInv(r)'
  BY <1>7, <1>8, Remembers
<1> QED
  BY <1>5, <1>6, <1>9

LEMMA ProcessesFollowup ==
    ASSUME ActivationInv, NEW r \in Runner, ProcessFollowup(r)
    PROVE  ActivationInv'
<1>1. /\ ActivationTypeOK /\ RunInv(r)
      /\ run \in [Runner -> RunnerState] /\ run[r] \in RunnerState
      /\ UNCHANGED <<signals, atasks, decisions, rows, env, afaults>>
  BY DEF ActivationInv, ActivationTypeOK, ProcessFollowup
<1>2. Grow /\ TaskInv'
  BY <1>1, TasksSame
<1>3. PICK d \in run[r].due :
         \/ /\ d[2] # None
            /\ Update(d[1], "created", d[2])
            /\ NextFollowup(r, d[1], d[2])
         \/ /\ Update(d[1], "skipped", None)
            /\ NextFollowup(r, d[1], None)
         \/ /\ Update(d[1], "processing", None)
            /\ run' = [run EXCEPT ![r].pc = "signal", ![r].fu = d[1]]
  BY DEF ProcessFollowup
<1>4. d[1] \in Followup /\ d[2] \in AgenticTask \cup {None}
  BY <1>1 DEF RunnerState
<1>5. d[2] # None => HasSignal(d[2], DueSignal(d[1]))
  BY <1>1 DEF RunInv
<1>6. /\ followups' \in [Followup -> FollowupRow]
      /\ \A g \in Followup : followups'[g] = followups[g] \/ FollowInv(g)'
  <2>1. CASE d[2] # None /\ Update(d[1], "created", d[2])
    BY <1>2, <1>4, <1>5, <2>1, Updated DEF FollowupStatus
  <2>2. CASE Update(d[1], "skipped", None)
    BY <1>2, <1>4, <2>2, Updated DEF FollowupStatus
  <2>3. CASE Update(d[1], "processing", None)
    BY <1>2, <1>4, <2>3, Updated DEF FollowupStatus
  <2> QED
    BY <1>3, <2>1, <2>2, <2>3
<1>7. /\ run' \in [Runner -> RunnerState]
      /\ \A z \in Runner : run'[z] = run[z] \/ RunInv(z)'
  <2>1. CASE d[2] # None /\ NextFollowup(r, d[1], d[2])
    BY <1>2, <1>4, <1>5, <2>1, NextOne DEF HasSignal
  <2>2. CASE NextFollowup(r, d[1], None)
    BY <1>2, <1>4, <2>2, NextOne
  <2>3. CASE run' = [run EXCEPT ![r].pc = "signal", ![r].fu = d[1]]
    <3>1. /\ run' \in [Runner -> RunnerState]
          /\ \A z \in Runner : z # r => run'[z] = run[z]
      BY <1>1, <1>4, <2>3 DEF RunnerState
    <3>2. /\ run'[r].pc = "signal" /\ run'[r].fu = d[1] /\ run'[r].due = run[r].due
          /\ run'[r].new = run[r].new /\ run'[r].ids = run[r].ids
      BY <1>1, <2>3 DEF RunnerState
    <3>3. /\ \A e \in run[r].due : e[2] # None => HasSignal(e[2], DueSignal(e[1]))'
          /\ Tasks' = Tasks
      BY <1>1 DEF RunInv, HasSignal, Tasks, DueSignal
    <3>4. RunInv(r)'
      BY <1>1, <1>4, <3>2, <3>3 DEF RunInv
    <3> QED
      BY <3>1, <3>4
  <2> QED
    BY <1>3, <2>1, <2>2, <2>3
<1>8. ActivationTypeOK'
  BY <1>1, <1>6, <1>7 DEF ActivationTypeOK
<1> QED
  BY <1>1, <1>2, <1>6, <1>7, <1>8, StepKeeps

LEMMA MakesDueSignal ==
    ASSUME ActivationInv, NEW r \in Runner, CreateOrGetDueSignal(r)
    PROVE  ActivationInv'
<1>0. PICK d : d = DueSignal(run[r].fu)
  OBVIOUS
<1>1. /\ ActivationTypeOK /\ RunInv(r)
      /\ UNCHANGED <<followups, atasks, decisions, rows, env, afaults>>
      /\ run[r].pc = "signal" /\ Goto(r, "lookup")
  BY DEF ActivationInv, CreateOrGetDueSignal
<1>2. run[r].fu \in Followup
  BY <1>1 DEF RunInv
<1>3. d \in Signal
  BY <1>0, <1>2, SignalKinds
<1>4. signals \in [Signal -> {"absent", "new", "triaged", "failed"}]
  BY <1>1 DEF ActivationTypeOK
<1>5. signals' = [signals EXCEPT ![d] = IF @ = "absent" THEN "new" ELSE @]
  BY <1>0 DEF CreateOrGetDueSignal
<1>6. d[1] # "queue"
  BY <1>0 DEF DueSignal
<1>7. /\ signals' \in [Signal -> {"absent", "new", "triaged", "failed"}]
      /\ \A s \in Signal : s # d => signals'[s] = signals[s]
      /\ signals'[d] = IF signals[d] = "absent" THEN "new" ELSE signals[d]
  BY <1>3, <1>4, <1>5
<1>8. Grow /\ TaskInv'
  BY <1>1, <1>3, <1>7, TasksSame
<1>9. signals'[d] = signals[d] \/ SignalInv(d)'
  BY <1>6, <1>7 DEF SignalInv
<1>10. /\ run' \in [Runner -> RunnerState]
       /\ \A z \in Runner : run'[z] = run[z] \/ RunInv(z)'
  BY <1>1, <1>2, <1>8, WentOn
<1>11. ActivationTypeOK'
  BY <1>1, <1>7, <1>10 DEF ActivationTypeOK
<1> QED
  BY <1>1, <1>7, <1>8, <1>9, <1>10, <1>11, StepKeeps

\* The task found or made for the follow-up is remembered.
LEMMA FoundTask ==
    ASSUME ActivationInv, Grow, NEW r \in Runner, NEW t \in AgenticTask,
           run' = [run EXCEPT ![r].pc = "mark", ![r].task = t],
           run[r].fu \in Followup,
           t \in Tasks', atasks'[t].signal = DueSignal(run[r].fu)
    PROVE  /\ run' \in [Runner -> RunnerState]
           /\ \A z \in Runner : run'[z] = run[z] \/ RunInv(z)'
<1>1. /\ ActivationTypeOK /\ RunInv(r)
      /\ run \in [Runner -> RunnerState] /\ run[r] \in RunnerState
  BY DEF ActivationInv, ActivationTypeOK
<1>2. /\ run' \in [Runner -> RunnerState]
      /\ \A z \in Runner : z # r => run'[z] = run[z]
  BY <1>1 DEF RunnerState
<1>3. /\ run'[r].pc = "mark" /\ run'[r].fu = run[r].fu /\ run'[r].task = t
      /\ run'[r].due = run[r].due /\ run'[r].new = run[r].new /\ run'[r].ids = run[r].ids
  BY <1>1 DEF RunnerState
<1>4. /\ \A d \in run[r].due : d[1] \in Followup
      /\ run[r].new \subseteq Signal
  BY <1>1 DEF RunnerState
<1>5. ASSUME NEW d \in run[r].due, d[2] # None
      PROVE  d[2] \in Tasks' /\ atasks'[d[2]].signal = DueSignal(d[1])
  BY <1>1, <1>4, <1>5, HasSignalKept, SignalKinds DEF RunInv
<1>6. (\A s \in run[r].new : signals'[s] # "absent") /\ run[r].ids \subseteq Tasks'
  BY <1>1, <1>4 DEF RunInv, Grow, TasksGrow
<1>7. RunInv(r)'
  BY <1>3, <1>5, <1>6 DEF RunInv, HasSignal, DueSignal
<1> QED
  BY <1>2, <1>7

LEMMA LooksUpTask ==
    ASSUME ActivationInv, NEW r \in Runner, GetAgenticTaskBySignalID(r)
    PROVE  ActivationInv'
<1>1. /\ ActivationTypeOK
      /\ UNCHANGED <<followups, signals, atasks, decisions, rows, env, afaults>>
      /\ run[r].fu \in Followup
  BY DEF ActivationInv, GetAgenticTaskBySignalID, RunInv
<1>2. Grow /\ TaskInv'
  BY <1>1, TasksSame
<1>3. /\ run' \in [Runner -> RunnerState]
      /\ \A z \in Runner : run'[z] = run[z] \/ RunInv(z)'
  <2>1. CASE Goto(r, "create")
    BY <1>1, <1>2, <2>1, WentOn
  <2>2. ASSUME NEW t \in BySignal(DueSignal(run[r].fu)),
               run' = [run EXCEPT ![r].pc = "mark", ![r].task = t]
        PROVE  /\ run' \in [Runner -> RunnerState]
               /\ \A z \in Runner : run'[z] = run[z] \/ RunInv(z)'
    <3>1. t \in AgenticTask /\ t \in Tasks' /\ atasks'[t].signal = DueSignal(run[r].fu)
      BY <1>1, TaskTypes DEF BySignal, Tasks
    <3> QED
      BY <1>1, <1>2, <2>2, <3>1, FoundTask
  <2> QED
    BY <2>1, <2>2 DEF GetAgenticTaskBySignalID
<1>4. ActivationTypeOK'
  BY <1>1, <1>3 DEF ActivationTypeOK
<1> QED
  BY <1>1, <1>2, <1>3, <1>4, StepKeeps

LEMMA MakesFollowupTask ==
    ASSUME ActivationInv, NEW r \in Runner, CreateFollowupTask(r)
    PROVE  ActivationInv'
<1>1. /\ ActivationTypeOK
      /\ UNCHANGED <<followups, signals, decisions, rows, env, afaults>>
      /\ run[r].fu \in Followup
  BY DEF ActivationInv, CreateFollowupTask, RunInv
<1>2. /\ DueSignal(run[r].fu) \in Signal
      /\ \A q \in QueueRow : DueSignal(run[r].fu) # QueueSignal(q)
  BY <1>1, SignalKinds
<1>3. PICK t \in AgenticTask :
         /\ run' = [run EXCEPT ![r].pc = "mark", ![r].task = t]
         /\ \/ /\ BySignal(DueSignal(run[r].fu)) = {}
               /\ FreshTask(t)
               /\ Make(t, DueSignal(run[r].fu), None, "proposed")
            \/ t \in BySignal(DueSignal(run[r].fu)) /\ UNCHANGED atasks
  BY <1>1, TaskTypes DEF CreateFollowupTask, BySignal
<1>4. /\ atasks' \in [AgenticTask -> TaskRow \cup {None}]
      /\ Grow /\ TaskInv'
      /\ t \in Tasks' /\ atasks'[t].signal = DueSignal(run[r].fu)
  <2>1. CASE /\ BySignal(DueSignal(run[r].fu)) = {}
             /\ FreshTask(t)
             /\ Make(t, DueSignal(run[r].fu), None, "proposed")
    BY <1>1, <1>2, <2>1, TaskMade
  <2>2. CASE t \in BySignal(DueSignal(run[r].fu)) /\ UNCHANGED atasks
    <3>1. Grow /\ TaskInv'
      BY <1>1, <2>2, TasksSame
    <3> QED
      BY <1>1, <2>2, <3>1 DEF BySignal, Tasks, ActivationTypeOK
  <2> QED
    BY <1>3, <2>1, <2>2
<1>5. /\ run' \in [Runner -> RunnerState]
      /\ \A z \in Runner : run'[z] = run[z] \/ RunInv(z)'
  BY <1>1, <1>3, <1>4, FoundTask
<1>6. ActivationTypeOK'
  BY <1>1, <1>4, <1>5 DEF ActivationTypeOK
<1> QED
  BY <1>1, <1>4, <1>5, <1>6, StepKeeps

LEMMA MarksFollowup ==
    ASSUME ActivationInv, NEW r \in Runner, MarkFollowupCreated(r)
    PROVE  ActivationInv'
<1>1. /\ ActivationTypeOK
      /\ UNCHANGED <<signals, atasks, decisions, rows, env, afaults>>
      /\ Update(run[r].fu, "created", run[r].task)
      /\ NextFollowup(r, run[r].fu, run[r].task)
      /\ run[r].fu \in Followup
      /\ HasSignal(run[r].task, DueSignal(run[r].fu))
  BY DEF ActivationInv, MarkFollowupCreated, RunInv
<1>2. run[r].task \in AgenticTask /\ run[r].task # None /\ run[r].task \in Tasks
  BY <1>1, ActivationAssumption DEF HasSignal, Tasks
<1>3. Grow /\ TaskInv'
  BY <1>1, TasksSame
<1>4. /\ followups' \in [Followup -> FollowupRow]
      /\ \A g \in Followup : followups'[g] = followups[g] \/ FollowInv(g)'
  BY <1>1, <1>2, <1>3, Updated DEF FollowupStatus
<1>5. /\ run' \in [Runner -> RunnerState]
      /\ \A z \in Runner : run'[z] = run[z] \/ RunInv(z)'
  BY <1>1, <1>2, <1>3, NextOne
<1>6. ActivationTypeOK'
  BY <1>1, <1>4, <1>5 DEF ActivationTypeOK
<1> QED
  BY <1>1, <1>3, <1>4, <1>5, <1>6, StepKeeps

-----------------------------------------------------------------------------
(***************************************************************************)
(* The triager.                                                            *)
(***************************************************************************)
LEMMA ListsSignals ==
    ASSUME ActivationInv, NEW r \in Runner, ListNewSignals(r)
    PROVE  ActivationInv'
<1> DEFINE new == {s \in Signal : signals[s] = "new"}
           x == [run[r] EXCEPT !.pc = "triage", !.new = new]
<1>1. /\ run \in [Runner -> RunnerState]
      /\ run[r] \in RunnerState
      /\ UNCHANGED <<followups, signals, atasks, decisions, rows, env, afaults>>
  BY DEF ActivationInv, ActivationTypeOK, ListNewSignals
<1>2. /\ x \in RunnerState
      /\ x.pc = "triage" /\ x.due = run[r].due /\ x.new = new /\ x.ids = run[r].ids
  BY <1>1 DEF RunnerState
<1>3. run' = [run EXCEPT ![r] = x]
  BY <1>1 DEF ListNewSignals
<1>4. \A s \in new : signals'[s] # "absent"
  BY <1>1
<1> HIDE DEF new, x
<1>5. run'[r] = x
  BY <1>2, <1>3, RunWritten
<1>6. Grow
  BY <1>1, TasksSame
<1>7. RunInv(r)'
  BY <1>2, <1>4, <1>5, <1>6, Remembers
<1> QED
  BY <1>1, <1>2, <1>3, <1>7, OnlyRun

LEMMA TriagedRun ==
    ASSUME ActivationInv, Grow, NEW r \in Runner, run[r].pc = "triage",
           NEW s, NEW T \in SUBSET AgenticTask, Triaged(r, s, T), T \subseteq Tasks'
    PROVE  /\ run' \in [Runner -> RunnerState]
           /\ \A z \in Runner : run'[z] = run[z] \/ RunInv(z)'
<1>1. /\ run \in [Runner -> RunnerState]
      /\ run[r] \in RunnerState
  BY DEF ActivationInv, ActivationTypeOK
<1>2. run' = [run EXCEPT ![r].new = @ \ {s}, ![r].ids = @ \cup T]
  BY DEF Triaged
<1>3. /\ run' \in [Runner -> RunnerState]
      /\ \A z \in Runner : z # r => run'[z] = run[z]
  BY <1>1, <1>2 DEF RunnerState
<1>4. /\ run'[r].pc = "triage" /\ run'[r].due = run[r].due
      /\ run'[r].new = run[r].new \ {s} /\ run'[r].ids = run[r].ids \cup T
  BY <1>1, <1>2 DEF RunnerState
<1>5. RunInv(r)'
  BY <1>4, Remembers
<1> QED
  BY <1>3, <1>5

\* What marking a signal does, and when it is accounted for.
LEMMA Marked ==
    ASSUME ActivationInv, NEW s \in Signal, signals[s] # "absent",
           NEW status \in {"new", "triaged", "failed"}, signals' = [signals EXCEPT ![s] = status],
           rows' = rows
    PROVE  /\ signals' \in [Signal -> {"absent", "new", "triaged", "failed"}]
           /\ \A z \in Signal : signals[z] # "absent" => signals'[z] # "absent"
           /\ \A z \in Signal : z # s => signals'[z] = signals[z]
           /\ \/ status # "triaged"
              \/ BySignal(s)' # {}
              \/ s[1] = "queue" /\ ByQueue(s[2])' # {}
              => SignalInv(s)'
<1>1. /\ signals \in [Signal -> {"absent", "new", "triaged", "failed"}]
      /\ SignalInv(s)
  BY DEF ActivationInv, ActivationTypeOK
<1>2. /\ signals' \in [Signal -> {"absent", "new", "triaged", "failed"}]
      /\ signals'[s] = status
      /\ \A z \in Signal : z # s => signals'[z] = signals[z]
  BY <1>1
<1> QED
  BY <1>1, <1>2 DEF SignalInv

LEMMA SetsTriaged ==
    ASSUME ActivationInv, NEW s \in Signal, signals[s] # "absent", SetTriaged(s)
    PROVE  \E status \in {"new", "triaged", "failed"} : signals' = [signals EXCEPT ![s] = status]
<1>1. signals[s] \in {"new", "triaged", "failed"}
  BY DEF ActivationInv, ActivationTypeOK
<1> QED
  BY <1>1 DEF SetTriaged

LEMMA Triages ==
    ASSUME ActivationInv, NEW r \in Runner, TriageGoalSignal(r)
    PROVE  ActivationInv'
<1>1. /\ ActivationTypeOK /\ TaskInv /\ RunInv(r)
      /\ run[r] \in RunnerState
      /\ atasks \in [AgenticTask -> TaskRow \cup {None}]
      /\ UNCHANGED <<followups, decisions, rows, env, afaults>>
      /\ run[r].pc = "triage"
  BY DEF ActivationInv, ActivationTypeOK, TriageGoalSignal
<1> DEFINE OfQueue(s) == IF s[1] = "queue" THEN ByQueue(s[2]) ELSE {}
<1>2. PICK s \in run[r].new :
         \/ /\ BySignal(s) # {}
            /\ SetTriaged(s)
            /\ Triaged(r, s, {})
            /\ UNCHANGED atasks
         \/ /\ BySignal(s) = {}
            /\ \E t \in OfQueue(s) :
                  IF signals[s] = "new" /\ atasks[t].signal = None
                  THEN /\ atasks' = [atasks EXCEPT ![t].signal = s]
                       /\ Triaged(r, s, {t})
                  ELSE /\ Triaged(r, s, {})
                       /\ UNCHANGED atasks
            /\ SetTriaged(s)
         \/ /\ Stop(r)
            /\ UNCHANGED <<signals, atasks>>
         \/ /\ signals' = [signals EXCEPT ![s] = "failed"]
            /\ Triaged(r, s, {})
            /\ UNCHANGED atasks
         \/ /\ BySignal(s) = {} /\ OfQueue(s) = {}
            /\ \E t \in AgenticTask :
                  /\ FreshTask(t)
                  /\ TaskFromSignal(t, s)
                  /\ SetTriaged(s)
                  /\ Triaged(r, s, {t})
  BY DEF TriageGoalSignal
<1>3. /\ s \in Signal /\ signals[s] # "absent" /\ s # None
      /\ s[1] = "queue" => s[2] \in QueueRow /\ s = QueueSignal(s[2]) /\ rows[s[2]] # "absent"
  BY <1>1, SignalKinds DEF RunnerState, RunInv, ActivationInv, SignalInv
<1> DEFINE Done == /\ atasks' \in [AgenticTask -> TaskRow \cup {None}]
                   /\ signals' \in [Signal -> {"absent", "new", "triaged", "failed"}]
                   /\ run' \in [Runner -> RunnerState]
                   /\ Grow /\ TaskInv'
                   /\ \A z \in Signal : signals'[z] = signals[z] \/ SignalInv(z)'
                   /\ \A z \in Runner : run'[z] = run[z] \/ RunInv(z)'
<1>4. ASSUME BySignal(s) # {}, SetTriaged(s), Triaged(r, s, {}), UNCHANGED atasks
      PROVE  Done
  <2>1. PICK status \in {"new", "triaged", "failed"} : signals' = [signals EXCEPT ![s] = status]
    BY <1>3, <1>4, SetsTriaged
  <2>2. BySignal(s)' # {}
    BY <1>4 DEF BySignal, Tasks
  <2>3. /\ signals' \in [Signal -> {"absent", "new", "triaged", "failed"}]
        /\ \A z \in Signal : signals[z] # "absent" => signals'[z] # "absent"
        /\ \A z \in Signal : signals'[z] = signals[z] \/ SignalInv(z)'
    BY <1>1, <1>3, <2>1, <2>2, Marked
  <2>4. Grow /\ TaskInv'
    BY <1>1, <1>4, <2>3, TasksSame
  <2> QED
    BY <1>1, <1>4, <2>3, <2>4, TriagedRun
<1>5. ASSUME BySignal(s) = {}, NEW t \in OfQueue(s), SetTriaged(s),
             IF signals[s] = "new" /\ atasks[t].signal = None
             THEN /\ atasks' = [atasks EXCEPT ![t].signal = s]
                  /\ Triaged(r, s, {t})
             ELSE /\ Triaged(r, s, {})
                  /\ UNCHANGED atasks
      PROVE  Done
  <2>1. /\ s[1] = "queue" /\ s[2] \in QueueRow /\ s = QueueSignal(s[2])
        /\ t \in Tasks /\ atasks[t].queue = s[2]
        /\ t \in AgenticTask /\ atasks[t] \in TaskRow
    BY <1>1, <1>3, TaskTypes DEF ByQueue
  <2>2. PICK status \in {"new", "triaged", "failed"} : signals' = [signals EXCEPT ![s] = status]
    BY <1>3, <1>5, SetsTriaged
  <2>3. /\ signals' \in [Signal -> {"absent", "new", "triaged", "failed"}]
        /\ \A z \in Signal : signals[z] # "absent" => signals'[z] # "absent"
        /\ \A z \in Signal : z # s => signals'[z] = signals[z]
    BY <1>1, <1>3, <2>2, Marked
  <2>4. /\ atasks' \in [AgenticTask -> TaskRow \cup {None}]
        /\ Grow /\ TaskInv'
        /\ t \in Tasks' /\ atasks'[t].queue = s[2]
    <3>1. CASE UNCHANGED atasks
      <4>1. Grow /\ TaskInv'
        BY <1>1, <2>3, <3>1, TasksSame
      <4> QED
        BY <1>1, <2>1, <3>1, <4>1 DEF Tasks
    <3>2. CASE atasks[t].signal = None /\ atasks' = [atasks EXCEPT ![t].signal = s]
      <4> DEFINE e == [atasks[t] EXCEPT !.signal = s]
      <4>1. e \in TaskRow /\ e.signal = s /\ e.queue = s[2]
        BY <1>3, <2>1 DEF TaskRow
      <4>2. atasks' = [atasks EXCEPT ![t] = e]
        BY <3>2
      <4> HIDE DEF e
      <4>3. \A x \in QueueRow : e.signal = QueueSignal(x) => e.queue = x
        BY <4>1 DEF QueueSignal
      <4>4. atasks[t].signal = None /\ BySignal(e.signal) = {} /\ e.queue = atasks[t].queue
        BY <1>5, <2>1, <3>2, <4>1
      <4>5. /\ atasks' \in [AgenticTask -> TaskRow \cup {None}]
            /\ Grow /\ TaskInv'
            /\ t \in Tasks' /\ atasks'[t] = e
        BY <1>1, <2>1, <2>3, <4>1, <4>2, <4>3, <4>4, TaskChanged
      <4> QED
        BY <4>1, <4>5
    <3> QED
      BY <1>5, <3>1, <3>2
  <2>5. ByQueue(s[2])' # {}
    BY <2>4 DEF ByQueue
  <2>6. SignalInv(s)'
    BY <1>1, <1>3, <2>1, <2>2, <2>5, Marked
  <2>7. /\ run' \in [Runner -> RunnerState]
        /\ \A z \in Runner : run'[z] = run[z] \/ RunInv(z)'
    BY <1>1, <1>5, <2>1, <2>4, TriagedRun
  <2> QED
    BY <2>3, <2>4, <2>6, <2>7
<1>6. ASSUME Stop(r), UNCHANGED <<signals, atasks>>
      PROVE  Done
  <2>1. Grow /\ TaskInv'
    BY <1>1, <1>6, TasksSame
  <2> QED
    BY <1>1, <1>6, <2>1, Stopped DEF ActivationTypeOK
<1>7. ASSUME signals' = [signals EXCEPT ![s] = "failed"], Triaged(r, s, {}), UNCHANGED atasks
      PROVE  Done
  <2>1. /\ signals' \in [Signal -> {"absent", "new", "triaged", "failed"}]
        /\ \A z \in Signal : signals[z] # "absent" => signals'[z] # "absent"
        /\ \A z \in Signal : signals'[z] = signals[z] \/ SignalInv(z)'
    BY <1>1, <1>3, <1>7, Marked
  <2>2. Grow /\ TaskInv'
    BY <1>1, <1>7, <2>1, TasksSame
  <2> QED
    BY <1>1, <1>7, <2>1, <2>2, TriagedRun
<1>8. ASSUME BySignal(s) = {}, OfQueue(s) = {}, NEW t \in AgenticTask, FreshTask(t),
             TaskFromSignal(t, s), SetTriaged(s), Triaged(r, s, {t})
      PROVE  Done
  <2>1. PICK status \in {"new", "triaged", "failed"} : signals' = [signals EXCEPT ![s] = status]
    BY <1>3, <1>8, SetsTriaged
  <2>2. /\ signals' \in [Signal -> {"absent", "new", "triaged", "failed"}]
        /\ \A z \in Signal : signals[z] # "absent" => signals'[z] # "absent"
        /\ \A z \in Signal : z # s => signals'[z] = signals[z]
    BY <1>1, <1>3, <2>1, Marked
  <2>3. /\ atasks' \in [AgenticTask -> TaskRow \cup {None}]
        /\ Grow /\ TaskInv'
        /\ t \in Tasks' /\ atasks'[t].signal = s
    <3>1. CASE s[1] = "queue"
      <4>1. /\ Make(t, s, s[2], "pending") /\ ByQueue(s[2]) = {}
            /\ \A x \in QueueRow : s = QueueSignal(x) => s[2] = x
        BY <1>8, <3>1 DEF TaskFromSignal, QueueSignal
      <4> QED
        BY <1>1, <1>3, <1>8, <2>2, <3>1, <4>1, TaskMade
    <3>2. CASE s[1] # "queue"
      <4>1. /\ Make(t, s, None, "proposed")
            /\ \A x \in QueueRow : s # QueueSignal(x)
        BY <1>8, <3>2 DEF TaskFromSignal, QueueSignal
      <4> QED
        BY <1>1, <1>3, <1>8, <2>2, <4>1, TaskMade
    <3> QED
      BY <3>1, <3>2
  <2>4. BySignal(s)' # {}
    BY <2>3 DEF BySignal
  <2>5. SignalInv(s)'
    BY <1>1, <1>3, <2>1, <2>4, Marked
  <2>6. /\ run' \in [Runner -> RunnerState]
        /\ \A z \in Runner : run'[z] = run[z] \/ RunInv(z)'
    BY <1>1, <1>8, <2>3, TriagedRun
  <2> QED
    BY <2>2, <2>3, <2>5, <2>6
<1>9. Done
  BY <1>2, <1>4, <1>5, <1>6, <1>7, <1>8
<1>10. ActivationTypeOK'
  BY <1>1, <1>9 DEF ActivationTypeOK
<1> QED
  BY <1>1, <1>9, <1>10, StepKeeps

LEMMA EndsTriage ==
    ASSUME ActivationInv, NEW r \in Runner, EndTriage(r)
    PROVE  ActivationInv'
<1>1. /\ Goto(r, "consider") \/ Stop(r)
      /\ UNCHANGED <<followups, signals, atasks, decisions, rows, env, afaults>>
  BY DEF EndTriage
<1>2. Grow /\ TaskInv'
  BY <1>1, TasksSame
<1>3. /\ run' \in [Runner -> RunnerState]
      /\ \A z \in Runner : run'[z] = run[z] \/ RunInv(z)'
  BY <1>1, <1>2, WentOn, Stopped
<1>4. ActivationTypeOK'
  BY <1>1, <1>3 DEF ActivationInv, ActivationTypeOK
<1> QED
  BY <1>1, <1>2, <1>3, <1>4, StepKeeps

-----------------------------------------------------------------------------
(***************************************************************************)
(* The enqueue service.                                                    *)
(***************************************************************************)
LEMMA OperatorAsks ==
    ASSUME ActivationInv, NEW r \in Runner, NEW t \in AgenticTask, OperatorEnqueue(r, t)
    PROVE  ActivationInv'
<1> DEFINE x == [Idle EXCEPT !.pc = "consider", !.ids = {t}]
<1>1. /\ x \in RunnerState
      /\ x.pc = "consider" /\ x.due = {} /\ x.new = {} /\ x.ids = {t}
  BY DEF Idle, RunnerState
<1>2. /\ run' = [run EXCEPT ![r] = x]
      /\ t \in Tasks
      /\ UNCHANGED <<followups, signals, atasks, decisions, rows, env, afaults>>
  BY DEF OperatorEnqueue
<1> HIDE DEF x
<1>3. run'[r] = x
  BY <1>1, <1>2, RunWritten
<1>4. Tasks' = Tasks
  BY <1>2 DEF Tasks
<1>5. RunInv(r)'
  BY <1>1, <1>2, <1>3, <1>4 DEF RunInv
<1> QED
  BY <1>1, <1>2, <1>5, OnlyRun

LEMMA Considers ==
    ASSUME ActivationInv, NEW r \in Runner, ConsiderTask(r)
    PROVE  ActivationInv'
<1>1. /\ run \in [Runner -> RunnerState]
      /\ run[r] \in RunnerState
      /\ RunInv(r)
      /\ run[r].pc = "consider"
      /\ UNCHANGED <<followups, signals, atasks, decisions, rows, env, afaults>>
  BY DEF ActivationInv, ActivationTypeOK, ConsiderTask
<1>2. PICK t \in run[r].ids :
         \/ run' = [run EXCEPT ![r].pc = "enqueue", ![r].task = t, ![r].ids = @ \ {t}]
         \/ run' = [run EXCEPT ![r].ids = @ \ {t}]
  BY DEF ConsiderTask
<1>3. t \in AgenticTask /\ t \in Tasks
  BY <1>1 DEF RunnerState, RunInv
<1> DEFINE y == [run[r] EXCEPT !.ids = run[r].ids \ {t}]
           z == [run[r] EXCEPT !.pc = "enqueue", !.task = t, !.ids = run[r].ids \ {t}]
<1>4. /\ y \in RunnerState
      /\ y.pc = "consider" /\ y.due = run[r].due /\ y.new = run[r].new
      /\ y.ids = run[r].ids \ {t}
  BY <1>1 DEF RunnerState
<1>5. /\ z \in RunnerState
      /\ z.pc = "enqueue" /\ z.task = t /\ z.due = run[r].due /\ z.new = run[r].new
      /\ z.ids = run[r].ids \ {t}
  BY <1>1, <1>3 DEF RunnerState
<1>6. run' = [run EXCEPT ![r] = y] \/ run' = [run EXCEPT ![r] = z]
  BY <1>1, <1>2
<1>7. Grow /\ Tasks' = Tasks
  BY <1>1, TasksSame DEF Tasks
<1> HIDE DEF y, z
<1>8. CASE run' = [run EXCEPT ![r] = y]
  <2>1. run'[r] = y
    BY <1>4, <1>8, RunWritten
  <2>2. RunInv(r)'
    BY <1>4, <1>7, <2>1, Remembers
  <2> QED
    BY <1>1, <1>4, <1>8, <2>2, OnlyRun
<1>9. CASE run' = [run EXCEPT ![r] = z]
  <2>1. run'[r] = z
    BY <1>5, <1>9, RunWritten
  <2>2. \A d \in run[r].due : d[2] # None => HasSignal(d[2], DueSignal(d[1]))'
    BY <1>1 DEF RunInv, HasSignal, Tasks, DueSignal
  <2>3. RunInv(r)'
    BY <1>1, <1>3, <1>5, <1>7, <2>1, <2>2 DEF RunInv
  <2> QED
    BY <1>1, <1>5, <1>9, <2>3, OnlyRun
<1> QED
  BY <1>6, <1>8, <1>9

LEMMA EndsRun ==
    ASSUME ActivationInv, NEW r \in Runner, EndRun(r)
    PROVE  ActivationInv'
<1>1. /\ Stop(r)
      /\ UNCHANGED <<followups, signals, atasks, decisions, rows, env, afaults>>
  BY DEF EndRun
<1>2. Grow /\ TaskInv'
  BY <1>1, TasksSame
<1>3. /\ run' \in [Runner -> RunnerState]
      /\ \A z \in Runner : run'[z] = run[z] \/ RunInv(z)'
  BY <1>1, Stopped
<1>4. ActivationTypeOK'
  BY <1>1, <1>3 DEF ActivationInv, ActivationTypeOK
<1> QED
  BY <1>1, <1>2, <1>3, <1>4, StepKeeps

LEMMA PutsOnQueue ==
    ASSUME ActivationInv, NEW r \in Runner, NEW t \in Tasks, NEW q \in QueueRow,
           t = run[r].task, Eligible(t), rows[q] = "absent",
           rows' = [rows EXCEPT ![q] = "pending"],
           decisions' = [decisions EXCEPT ![t] = @ \cup {<<"enqueued", q>>}],
           atasks' = [atasks EXCEPT ![t].queue = q, ![t].status = "pending"],
           run' = [run EXCEPT ![r].pc = "consider", ![r].task = None],
           UNCHANGED <<followups, signals, env, afaults>>
    PROVE  ActivationInv'
<1>1. /\ ActivationTypeOK /\ TaskInv /\ RunInv(r) /\ DecisionInv(t)
      /\ run \in [Runner -> RunnerState] /\ run[r] \in RunnerState
      /\ t \in AgenticTask /\ atasks[t] \in TaskRow
      /\ q # None
  BY ActivationAssumption, TaskTypes DEF ActivationInv, ActivationTypeOK
<1>2. /\ rows' \in [QueueRow -> {"absent", "pending", "running", "finished"}]
      /\ rows'[q] # "absent"
      /\ \A x \in QueueRow : rows[x] # "absent" => rows'[x] # "absent"
  BY <1>1 DEF ActivationTypeOK
<1>3. ByQueue(q) = {}
  BY <1>1 DEF ByQueue, TaskInv
<1>4. /\ atasks' \in [AgenticTask -> TaskRow \cup {None}]
      /\ Grow /\ TaskInv'
      /\ t \in Tasks' /\ atasks'[t].queue = q
  <2> DEFINE e == [atasks[t] EXCEPT !.queue = q, !.status = "pending"]
  <2>1. e \in TaskRow /\ e.signal = atasks[t].signal /\ e.queue = q
    BY <1>1 DEF TaskRow
  <2>2. atasks' = [atasks EXCEPT ![t] = e]
    OBVIOUS
  <2> HIDE DEF e
  <2>3. atasks[t].queue = None /\ ByQueue(e.queue) = {} /\ rows'[e.queue] # "absent"
    BY <1>2, <1>3, <2>1 DEF Eligible
  <2>4. /\ atasks' \in [AgenticTask -> TaskRow \cup {None}]
        /\ Grow /\ TaskInv'
        /\ t \in Tasks' /\ atasks'[t] = e
    BY <1>2, <2>1, <2>2, <2>3, TaskChanged
  <2> QED
    BY <2>1, <2>4
<1>5. /\ decisions' \in [AgenticTask -> SUBSET ({"enqueued", "failed"} \X (QueueRow \cup {None}))]
      /\ \A u \in AgenticTask : u # t => decisions'[u] = decisions[u]
      /\ decisions'[t] = decisions[t] \cup {<<"enqueued", q>>}
  BY <1>1 DEF ActivationTypeOK
<1>6. DecisionInv(t)'
  <2>1. ASSUME NEW d \in decisions[t], d[1] = "enqueued" PROVE FALSE
    <3>1. d[2] \in QueueRow /\ atasks[t].queue = d[2]
      BY <1>1, <2>1 DEF DecisionInv
    <3> QED
      BY <3>1, ActivationAssumption DEF Eligible
  <2>2. \A d \in decisions'[t] : d[1] = "enqueued" => d[2] = q
    BY <1>5, <2>1
  <2> QED
    BY <1>2, <1>4, <2>2 DEF DecisionInv
<1>7. /\ run' \in [Runner -> RunnerState]
      /\ \A z \in Runner : z # r => run'[z] = run[z]
  BY <1>1 DEF RunnerState
<1>8. /\ run'[r].pc = "consider" /\ run'[r].due = run[r].due
      /\ run'[r].new = run[r].new /\ run'[r].ids = run[r].ids
  BY <1>1 DEF RunnerState
<1>9. RunInv(r)'
  BY <1>4, <1>8, Remembers
<1>10. ActivationTypeOK'
  BY <1>1, <1>2, <1>4, <1>5, <1>7 DEF ActivationTypeOK
<1> QED
  BY <1>4, <1>5, <1>6, <1>7, <1>9, <1>10, StepKeeps

LEMMA Enqueues ==
    ASSUME ActivationInv, NEW r \in Runner, EnqueueProposedTask(r)
    PROVE  ActivationInv'
<1>1. PICK t : t = run[r].task
  OBVIOUS
<1>2. /\ t \in Tasks /\ t \in AgenticTask
      /\ UNCHANGED <<followups, signals, env>>
  BY <1>1 DEF EnqueueProposedTask, ActivationInv, RunInv, Tasks
<1>3. \/ \E q \in QueueRow :
            /\ Eligible(t)
            /\ rows[q] = "absent"
            /\ rows' = [rows EXCEPT ![q] = "pending"]
            /\ decisions' = [decisions EXCEPT ![t] = @ \cup {<<"enqueued", q>>}]
            /\ atasks' = [atasks EXCEPT ![t].queue = q, ![t].status = "pending"]
            /\ run' = [run EXCEPT ![r].pc = "consider", ![r].task = None]
            /\ UNCHANGED afaults
      \/ EnqueueTxFails /\ DecisionFails(t) /\ Stop(r) /\ UNCHANGED <<rows, atasks>>
      \/ Stop(r) /\ UNCHANGED <<rows, decisions, atasks, afaults>>
  BY <1>1 DEF EnqueueProposedTask
<1>4. ASSUME NEW q \in QueueRow,
             /\ Eligible(t)
             /\ rows[q] = "absent"
             /\ rows' = [rows EXCEPT ![q] = "pending"]
             /\ decisions' = [decisions EXCEPT ![t] = @ \cup {<<"enqueued", q>>}]
             /\ atasks' = [atasks EXCEPT ![t].queue = q, ![t].status = "pending"]
             /\ run' = [run EXCEPT ![r].pc = "consider", ![r].task = None]
             /\ UNCHANGED afaults
      PROVE  ActivationInv'
  BY <1>1, <1>2, <1>4, PutsOnQueue
<1>5. ASSUME Stop(r), UNCHANGED <<rows, atasks>>, afaults' \in 0..MaxRunFaults,
             DecisionFails(t) \/ UNCHANGED decisions
      PROVE  ActivationInv'
  <2>1. Grow /\ TaskInv'
    BY <1>2, <1>5, TasksSame
  <2>2. /\ run' \in [Runner -> RunnerState]
        /\ \A z \in Runner : run'[z] = run[z] \/ RunInv(z)'
    BY <1>5, Stopped
  <2>3. /\ decisions' \in [AgenticTask -> SUBSET ({"enqueued", "failed"} \X (QueueRow \cup {None}))]
        /\ \A u \in AgenticTask : u # t => decisions'[u] = decisions[u]
        /\ \A d \in decisions'[t] : d \in decisions[t] \/ d[1] = "failed"
    BY <1>2, <1>5 DEF DecisionFails, ActivationInv, ActivationTypeOK
  <2>4. DecisionInv(t)'
    <3>1. DecisionInv(t) /\ Tasks' = Tasks
      BY <1>2, <1>5 DEF ActivationInv, Tasks
    <3> QED
      BY <1>5, <2>3, <3>1 DEF DecisionInv
  <2>5. ActivationTypeOK'
    BY <1>2, <1>5, <2>2, <2>3 DEF ActivationInv, ActivationTypeOK
  <2> QED
    BY <1>2, <2>1, <2>2, <2>3, <2>4, <2>5, StepKeeps
<1>6. CASE EnqueueTxFails /\ DecisionFails(t) /\ Stop(r) /\ UNCHANGED <<rows, atasks>>
  <2>1. afaults' \in 0..MaxRunFaults
    BY <1>6, ActivationAssumption DEF EnqueueTxFails, ActivationInv, ActivationTypeOK
  <2> QED
    BY <1>5, <1>6, <2>1
<1>7. CASE Stop(r) /\ UNCHANGED <<rows, decisions, atasks, afaults>>
  <2>1. afaults' \in 0..MaxRunFaults
    BY <1>7 DEF ActivationInv, ActivationTypeOK
  <2> QED
    BY <1>5, <1>7, <2>1
<1> QED
  BY <1>3, <1>4, <1>6, <1>7

-----------------------------------------------------------------------------
(***************************************************************************)
(* The theorems.                                                           *)
(***************************************************************************)
LEMMA ActivationStep == ActivationInv /\ [ActivationNext]_actVars => ActivationInv'
<1> SUFFICES ASSUME ActivationInv, [ActivationNext]_actVars PROVE ActivationInv'
  OBVIOUS
<1>1. CASE UNCHANGED actVars
  <2>1. Grow /\ TaskInv'
    BY <1>1, TasksSame DEF actVars
  <2>2. ActivationTypeOK'
    BY <1>1 DEF actVars, ActivationInv, ActivationTypeOK
  <2> QED
    BY <1>1, <2>1, <2>2, StepKeeps DEF actVars
<1>2. CASE \/ \E f \in Followup : CreateFollowup(f)
           \/ \E q \in QueueRow : Submit(q) \/ RecordSubmitSignal(q)
           \/ \E b \in BareSignal : RecordBareSignal(b)
  BY <1>2, SourceSteps
<1>3. CASE \E q \in QueueRow : StartEnvelope(q) \/ CreateEnvelopeTask(q) \/ FinishRow(q)
  BY <1>3, EnvelopeSteps
<1>4. ASSUME NEW r \in Runner, ListDueFollowups(r) \/ FollowupStep(r) PROVE ActivationInv'
  BY <1>4, ListsFollowups, ProcessesFollowup, MakesDueSignal, LooksUpTask,
     MakesFollowupTask, MarksFollowup DEF FollowupStep
<1>5. ASSUME NEW r \in Runner, ListNewSignals(r) \/ TriageStep(r) \/ EnqueueStep(r)
      PROVE  ActivationInv'
  BY <1>5, ListsSignals, Triages, EndsTriage, Considers, Enqueues, EndsRun
     DEF TriageStep, EnqueueStep
<1>6. ASSUME NEW r \in Runner, FailRun(r) \/ Crash(r) PROVE ActivationInv'
  BY <1>6, RunFails
<1>7. ASSUME NEW r \in Runner, NEW t \in AgenticTask, OperatorEnqueue(r, t) PROVE ActivationInv'
  BY <1>7, OperatorAsks
<1> QED
  BY <1>1, <1>2, <1>3, <1>4, <1>5, <1>6, <1>7 DEF ActivationNext

LEMMA ActivationInductive == ActivationSpec => []ActivationInv
BY ActivationInitially, ActivationStep, PTL DEF ActivationSpec

\* The tables of the agentic store and the runners' local variables keep
\* their types, with any number of concurrent runners, faults and crashes.
THEOREM ActivationTypeCorrect == ActivationSpec => []ActivationTypeOK
<1>1. ActivationInv => ActivationTypeOK
  BY DEF ActivationInv
<1> QED
  BY <1>1, ActivationInductive, PTL

\* A follow-up makes one task, however many schedulers and triagers work on it
\* at once and whatever dies in between: the unique index decides who makes
\* it, and every created_task_id is that task.
THEOREM FollowupMakesOneTask == ActivationSpec => []FollowupHasItsTask
<1>1. ActivationInv => FollowupHasItsTask
  <2> SUFFICES ASSUME ActivationInv, NEW f \in Followup
               PROVE  /\ followups[f].status = "created" => followups[f].task # None
                      /\ followups[f].task # None =>
                            /\ atasks[followups[f].task] # None
                            /\ atasks[followups[f].task].signal = DueSignal(f)
                      /\ Cardinality(BySignal(DueSignal(f))) <= 1
    BY DEF FollowupHasItsTask
  <2>1. FollowInv(f) /\ TaskInv /\ DueSignal(f) # None
    BY SignalKinds DEF ActivationInv
  <2>2. Cardinality(BySignal(DueSignal(f))) <= 1
    <3>1. CASE BySignal(DueSignal(f)) = {}
      BY <3>1, FS_EmptySet
    <3>2. ASSUME NEW t \in BySignal(DueSignal(f)) PROVE Cardinality(BySignal(DueSignal(f))) = 1
      <4>1. BySignal(DueSignal(f)) = {t}
        BY <2>1, <3>2 DEF BySignal, TaskInv
      <4> QED
        BY <4>1, FS_Singleton
    <3> QED
      BY <3>1, <3>2
  <2> QED
    BY <2>1, <2>2 DEF FollowInv, HasSignal, Tasks
<1> QED
  BY <1>1, ActivationInductive, PTL

\* A proposal is put on the queue once, although the operator and the
\* activation loop both read it outside their transactions.
THEOREM ProposalEnqueuedOnce == ActivationSpec => []EnqueuedOnce
<1>1. ActivationInv => EnqueuedOnce
  BY DEF ActivationInv, EnqueuedOnce, DecisionInv, TaskInv
<1> QED
  BY <1>1, ActivationInductive, PTL

\* A triaged signal has its task, and the signal of a queued task never
\* becomes a proposal to run the same work again.
THEOREM SignalsAreAccounted == ActivationSpec => []SignalAccounted
<1>1. ActivationInv => SignalAccounted
  <2> SUFFICES ASSUME ActivationInv PROVE SignalAccounted
    OBVIOUS
  <2>1. \A s \in Signal : signals[s] = "triaged" =>
           BySignal(s) # {} \/ (s[1] = "queue" /\ ByQueue(s[2]) # {})
    BY DEF ActivationInv, SignalInv
  <2>2. \A q \in QueueRow : \A t \in BySignal(QueueSignal(q)) : atasks[t].queue = q
    BY DEF ActivationInv, TaskInv, BySignal
  <2> QED
    BY <2>1, <2>2 DEF SignalAccounted
<1> QED
  BY <1>1, ActivationInductive, PTL
=============================================================================
