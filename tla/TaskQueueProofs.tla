-------------------------- MODULE TaskQueueProofs --------------------------
(***************************************************************************)
(* Proofs about the task queue, for every number of tasks and callers, any *)
(* keys, sessions and routes, and any timeout, window and recovery budget. *)
(***************************************************************************)
EXTENDS TaskQueue, TLAPS

-----------------------------------------------------------------------------
(***************************************************************************)
(* The inductive invariant.  RowInv is what every row satisfies on its own *)
(* at time t; CallInv is what an operation has read when it is about to    *)
(* execute its next statement.                                             *)
(***************************************************************************)
RowInv(row, t) ==
    /\ row \in Row
    /\ IF row.status \in Terminal THEN row.completion.status = row.status
                                  ELSE row.completion = NoCompletion
    /\ MaxRecoveries > 0 =>
          /\ row.idle + row.active <= MaxRecoveries + 1
          /\ row.idle + row.active = MaxRecoveries + 1 => row.status = "failed"
    /\ row.status = "pending" => row.started = 0
    /\ row.status = "running" => row.started \in 1..t
    /\ row.updated <= t

CallInv(cl, t) ==
    /\ cl \in Call
    /\ cl.at <= t
    /\ cl.op \in {"annotate", "finish", "cancelbuild", "cancel"} => cl.task \in TaskId
    /\ cl.op \in {"finish", "cancel"} => cl.draft \in Completion
    /\ cl.op = "cancel" => cl.draft.status = "failed"

IInv ==
    /\ tasks \in [TaskId -> Row]
    /\ call \in [Caller -> Call]
    /\ now \in 1..MaxTime
    /\ \A i \in TaskId : RowInv(tasks[i], now)
    /\ \A c \in Caller : CallInv(call[c], now)
    /\ OneActivePerKey

-----------------------------------------------------------------------------
\* The constants and types: what an empty row, call or receipt is.
LEMMA EmptyTypes ==
    /\ NoRow \in Row /\ NoCall \in Call
    /\ NoCompletion.status = "absent" /\ NoCompletion \notin Completion
    /\ TaskId \subseteq Nat \ {0}
BY QueueAssumption DEF NoRow, Row, NoCall, Call, NoCompletion, Completion, TaskId,
   NoTask, KeyVal, SessionVal, RouteVal, Active, Terminal, TimeoutClass, Op, Cause

\* A row just inserted satisfies the row invariant.
LEMMA NewRowInv ==
    ASSUME NEW k \in KeyVal, NEW s \in SessionVal, NEW r \in RouteVal,
           NEW at \in Nat, NEW t \in Nat, at <= t
    PROVE  RowInv(NewRow(k, s, r, at), t)
<1> DEFINE new == NewRow(k, s, r, at)
<1>1. /\ new.status = "pending" /\ new.started = 0 /\ new.updated = at
      /\ new.idle = 0 /\ new.active = 0 /\ new.completion = NoCompletion
  BY DEF NewRow, NoRow
<1>2. new \in Row
  BY DEF NewRow, NoRow, Row, Active, TimeoutClass
<1> QED
  BY <1>1, <1>2, QueueAssumption DEF RowInv, Terminal

\* Time passing does not disturb a row.
LEMMA RowInvLater ==
    ASSUME NEW row, NEW t \in Nat, NEW u \in Nat, t <= u, RowInv(row, t)
    PROVE  RowInv(row, u)
BY DEF RowInv, Row

\* Storing a receipt in an unfinished row.
LEMMA FinishedInv ==
    ASSUME NEW row, NEW draft \in Completion, now \in Nat,
           RowInv(row, now), row.status \in Active
    PROVE  RowInv(Finished(row, draft), now)
<1> DEFINE new == Finished(row, draft)
<1>1. ClassAfter(row, draft.cause) \in TimeoutClass
  BY DEF ClassAfter, TimeoutClass, RowInv, Row
<1>2. new \in Row
  BY <1>1 DEF Finished, RowInv, Row, Completion
<1>3. /\ new.status = draft.status /\ new.completion = draft /\ new.updated = now
      /\ new.idle = row.idle /\ new.active = row.active
  BY DEF Finished, RowInv, Row
<1>4. draft.status \in Terminal
  BY DEF Completion
<1>5. MaxRecoveries > 0 => new.idle + new.active <= MaxRecoveries
  BY <1>3, QueueAssumption DEF RowInv, Row, Active
<1> QED
  BY <1>2, <1>3, <1>4, <1>5, QueueAssumption DEF RowInv, Row, Terminal

\* Touching a row: the clock, and the session of BindSession.
LEMMA TouchedInv ==
    ASSUME NEW row, NEW t \in Nat, NEW s \in SessionVal, RowInv(row, t)
    PROVE  /\ RowInv([row EXCEPT !.updated = t], t)
           /\ RowInv([row EXCEPT !.session = s, !.updated = t], t)
<1>1. RowInv([row EXCEPT !.updated = t], t)
  <2> DEFINE new == [row EXCEPT !.updated = t]
  <2>1. new \in Row /\ new.updated = t
    BY DEF RowInv, Row
  <2>2. /\ new.status = row.status /\ new.completion = row.completion
        /\ new.idle = row.idle /\ new.active = row.active /\ new.started = row.started
    BY DEF RowInv, Row
  <2> HIDE DEF new
  <2> QED  BY <2>1, <2>2 DEF RowInv, new
<1>2. RowInv([row EXCEPT !.session = s, !.updated = t], t)
  <2> DEFINE new == [row EXCEPT !.session = s, !.updated = t]
  <2>1. new \in Row /\ new.updated = t
    BY DEF RowInv, Row
  <2>2. /\ new.status = row.status /\ new.completion = row.completion
        /\ new.idle = row.idle /\ new.active = row.active /\ new.started = row.started
    BY DEF RowInv, Row
  <2> HIDE DEF new
  <2> QED  BY <2>1, <2>2 DEF RowInv, new
<1> QED  BY <1>1, <1>2

\* Claiming a pending row.
LEMMA ClaimedInv ==
    ASSUME NEW row, NEW t \in Nat \ {0}, RowInv(row, t), row.status = "pending"
    PROVE  RowInv([row EXCEPT !.status = "running", !.started = t, !.updated = t], t)
<1> DEFINE new == [row EXCEPT !.status = "running", !.started = t, !.updated = t]
<1>1. /\ new.status = "running" /\ new.started = t /\ new.updated = t
      /\ new.completion = NoCompletion
      /\ new.idle = row.idle /\ new.active = row.active
  BY DEF RowInv, Row, Terminal
<1>2. new \in Row
  BY DEF RowInv, Row, Active
<1> QED
  BY <1>1, <1>2, QueueAssumption DEF RowInv, Row, Terminal

\* Counting one more recovery.
LEMMA CountedRow ==
    ASSUME NEW row \in Row
    PROVE  /\ Counted(row) \in Row
           /\ Counted(row).idle + Counted(row).active = row.idle + row.active + 1
           /\ Counted(row).status = row.status
           /\ Counted(row).completion = row.completion
           /\ Counted(row).started = row.started
           /\ Counted(row).key = row.key
<1> DEFINE class == ClassifyTimeout(row.started, row.updated)
           m == IF class = "idle" THEN row.idle + 1 ELSE row.idle
           n == IF class = "idle" THEN row.active ELSE row.active + 1
           new == [row EXCEPT !.class = class, !.idle = m, !.active = n]
<1>1. class \in {"idle", "active_but_killed"}
  BY DEF ClassifyTimeout
<1>2. class \in TimeoutClass /\ m \in Nat /\ n \in Nat
  BY <1>1 DEF Row, TimeoutClass
<1>3. m + n = row.idle + row.active + 1
  BY DEF Row
<1>4. Counted(row) = new
  BY DEF Counted
<1> HIDE DEF class, m, n
<1>5. /\ new \in Row /\ new.idle = m /\ new.active = n
      /\ new.status = row.status /\ new.completion = row.completion
      /\ new.started = row.started /\ new.key = row.key
  BY <1>2 DEF Row
<1> HIDE DEF new
<1> QED  BY <1>3, <1>4, <1>5

\* RecoverStale on a stale row.
LEMMA RecoveredInv ==
    ASSUME NEW row, NEW at \in Nat, NEW t \in Nat, at <= t,
           RowInv(row, t), row.status = "running"
    PROVE  RowInv(Recovered(row, at), t)
<1> DEFINE counted == Counted(row)
           new == Recovered(row, at)
<1>2. /\ counted \in Row
      /\ counted.idle + counted.active = row.idle + row.active + 1
      /\ counted.status = "running" /\ counted.completion = NoCompletion
      /\ counted.started = row.started
  BY CountedRow DEF RowInv, Terminal
<1>3. MaxRecoveries > 0 => row.idle + row.active <= MaxRecoveries
  BY QueueAssumption DEF RowInv, Row
<1>4. CASE Exhausted(counted)
  <2>1. ExhaustedReceipt(row) \in Completion
    BY DEF ExhaustedReceipt, Completion, Terminal, RowInv, Row, RouteVal, Cause
  <2>2. new = [counted EXCEPT !.status = "failed", !.updated = at,
                              !.completion = ExhaustedReceipt(row)]
    BY <1>4 DEF Recovered
  <2>3. new \in Row
    BY <2>1, <2>2, <1>2 DEF Row, Terminal
  <2>4. /\ new.status = "failed" /\ new.updated = at
        /\ new.completion.status = "failed"
        /\ new.idle + new.active = row.idle + row.active + 1
    BY <2>2, <1>2 DEF Row, ExhaustedReceipt
  <2> QED
    BY <2>3, <2>4, <1>3, QueueAssumption DEF RowInv, Row, Terminal
<1>5. CASE ~Exhausted(counted)
  <2>1. new = [counted EXCEPT !.status = "pending", !.updated = at, !.started = 0]
    BY <1>5 DEF Recovered
  <2>2. new \in Row
    <3> HIDE DEF counted, new
    <3> QED  BY <2>1, <1>2 DEF Row, Active
  <2>3. /\ new.status = "pending" /\ new.updated = at /\ new.started = 0
        /\ new.completion = NoCompletion
        /\ new.idle + new.active = counted.idle + counted.active
    BY <2>1, <1>2 DEF Row
  <2>4. MaxRecoveries > 0 => new.idle + new.active <= MaxRecoveries
    BY <2>2, <2>3, <1>5, QueueAssumption DEF Exhausted, Row
  <2> QED
    BY <2>2, <2>3, <2>4, QueueAssumption DEF RowInv, Row, Terminal
<1> QED
  BY <1>4, <1>5

\* Replacing one row by one that satisfies the row invariant.
LEMMA OneRow ==
    ASSUME IInv, NEW i \in TaskId, NEW row, RowInv(row, now),
           tasks' = [tasks EXCEPT ![i] = row]
    PROVE  /\ tasks' \in [TaskId -> Row]
           /\ \A j \in TaskId : RowInv(tasks'[j], now)
BY DEF IInv, RowInv

\* A step that brings no task to life and changes no key keeps the keys of
\* the active tasks apart.
LEMMA NoNewActive ==
    ASSUME IInv,
           \A i \in TaskId : /\ tasks'[i].key = tasks[i].key
                             /\ tasks'[i].status \in Active => tasks[i].status \in Active
    PROVE  OneActivePerKey'
BY DEF IInv, OneActivePerKey

\* A caller enters or leaves an operation.
LEMMA OneCall ==
    ASSUME IInv, NEW c \in Caller, NEW cl, CallInv(cl, now),
           call' = [call EXCEPT ![c] = cl]
    PROVE  /\ call' \in [Caller -> Call]
           /\ \A d \in Caller : CallInv(call'[d], now)
BY DEF IInv, CallInv

\* The activation records an operation begins with.
LEMMA FirstCalls ==
    ASSUME NEW t \in Nat
    PROVE  /\ \A op \in {"insert", "lookup"}, k \in KeyVal, s \in SessionVal, r \in RouteVal :
                 CallInv([NoCall EXCEPT !.op = op, !.key = k, !.session = s,
                                        !.route = r, !.at = t], t)
           /\ \A op \in {"annotate", "cancelbuild"}, i \in TaskId :
                 CallInv([NoCall EXCEPT !.op = op, !.task = i], t)
           /\ \A i \in TaskId, d \in Completion :
                 CallInv([NoCall EXCEPT !.op = "finish", !.task = i, !.draft = d], t)
           /\ CallInv([NoCall EXCEPT !.op = "recover", !.at = t], t)
<1>1. NoCall \in Call /\ NoCall.at = 0
  BY EmptyTypes DEF NoCall
<1>2. ASSUME NEW op \in {"insert", "lookup"}, NEW k \in KeyVal, NEW s \in SessionVal,
             NEW r \in RouteVal
      PROVE  CallInv([NoCall EXCEPT !.op = op, !.key = k, !.session = s, !.route = r, !.at = t], t)
  <2> DEFINE cl == [NoCall EXCEPT !.op = op, !.key = k, !.session = s, !.route = r, !.at = t]
  <2>1. cl \in Call
    BY <1>1 DEF Call, Op
  <2>2. cl.op = op /\ cl.at = t
    BY <1>1 DEF Call
  <2> HIDE DEF cl
  <2> QED  BY <2>1, <2>2 DEF CallInv, cl
<1>3. ASSUME NEW op \in {"annotate", "cancelbuild"}, NEW i \in TaskId
      PROVE  CallInv([NoCall EXCEPT !.op = op, !.task = i], t)
  <2> DEFINE cl == [NoCall EXCEPT !.op = op, !.task = i]
  <2>1. cl \in Call
    BY <1>1 DEF Call, Op
  <2>2. cl.op = op /\ cl.task = i /\ cl.at = 0
    BY <1>1 DEF Call
  <2> HIDE DEF cl
  <2> QED  BY <2>1, <2>2 DEF CallInv, cl
<1>4. ASSUME NEW i \in TaskId, NEW d \in Completion
      PROVE  CallInv([NoCall EXCEPT !.op = "finish", !.task = i, !.draft = d], t)
  <2> DEFINE cl == [NoCall EXCEPT !.op = "finish", !.task = i, !.draft = d]
  <2>1. cl \in Call
    BY <1>1 DEF Call, Op
  <2>2. cl.op = "finish" /\ cl.task = i /\ cl.draft = d /\ cl.at = 0
    BY <1>1 DEF Call
  <2> HIDE DEF cl
  <2> QED  BY <2>1, <2>2 DEF CallInv, cl
<1>5. CallInv([NoCall EXCEPT !.op = "recover", !.at = t], t)
  <2> DEFINE cl == [NoCall EXCEPT !.op = "recover", !.at = t]
  <2>1. cl \in Call
    BY <1>1 DEF Call, Op
  <2>2. cl.op = "recover" /\ cl.at = t
    BY <1>1 DEF Call
  <2> HIDE DEF cl
  <2> QED  BY <2>1, <2>2 DEF CallInv, cl
<1> QED
  BY <1>2, <1>3, <1>4, <1>5

LEMMA ReturnInv ==
    ASSUME IInv, NEW c \in Caller, Return(c)
    PROVE  /\ call' \in [Caller -> Call]
           /\ \A d \in Caller : CallInv(call'[d], now)
<1>1. CallInv(NoCall, now)
  BY EmptyTypes DEF CallInv, NoCall, IInv
<1> QED
  BY <1>1, OneCall DEF Return

-----------------------------------------------------------------------------
(***************************************************************************)
(* The invariant is inductive.                                             *)
(***************************************************************************)
LEMMA InitInv == QueueInit => IInv
<1> SUFFICES ASSUME QueueInit PROVE IInv
  OBVIOUS
<1>1. RowInv(NoRow, 1)
  BY EmptyTypes, QueueAssumption DEF RowInv, NoRow, Terminal
<1>2. CallInv(NoCall, 1)
  BY EmptyTypes DEF CallInv, NoCall
<1>3. OneActivePerKey
  BY DEF QueueInit, OneActivePerKey, NoRow, Active
<1> QED
  BY <1>1, <1>2, <1>3, EmptyTypes, QueueAssumption DEF IInv, QueueInit

\* An INSERT that the unique index admits.
LEMMA InsertInv ==
    ASSUME IInv, NEW i \in TaskId, IsNextId(i),
           NEW k \in KeyVal, NEW s \in SessionVal, NEW r \in RouteVal,
           NEW at \in Nat, at <= now, ~UniqueViolation(k),
           tasks' = [tasks EXCEPT ![i] = NewRow(k, s, r, at)]
    PROVE  /\ tasks' \in [TaskId -> Row]
           /\ \A j \in TaskId : RowInv(tasks'[j], now)
           /\ OneActivePerKey'
<1>1. RowInv(NewRow(k, s, r, at), now)
  BY NewRowInv, QueueAssumption DEF IInv
<1>2. NewRow(k, s, r, at).key = k
  BY DEF NewRow, NoRow
<1>3. k # NoKey => \A j \in TaskId : tasks[j].status \in Active => tasks[j].key # k
  BY DEF UniqueViolation, ActiveWithKey, IInv, Row
<1>4. OneActivePerKey'
  <2> SUFFICES ASSUME NEW a \in TaskId, NEW b \in TaskId,
                      tasks'[a].status \in Active, tasks'[b].status \in Active,
                      tasks'[a].key = tasks'[b].key, tasks'[a].key # NoKey
               PROVE  a = b
    BY DEF OneActivePerKey
  <2>1. \A j \in TaskId : j # i => tasks'[j] = tasks[j]
    BY DEF IInv
  <2>2. tasks'[i].key = k
    BY <1>2 DEF IInv
  <2> QED
    BY <2>1, <2>2, <1>3 DEF IInv, OneActivePerKey
<1> QED
  BY <1>1, <1>4, OneRow

\* The steps that only move a caller from one statement to the next.
LEMMA QuietInv ==
    ASSUME IInv, UNCHANGED <<tasks, now>>,
           call' \in [Caller -> Call], \A d \in Caller : CallInv(call'[d], now)
    PROVE  IInv'
BY DEF IInv, OneActivePerKey

\* The steps that change rows.
LEMMA RowsInv ==
    ASSUME IInv, UNCHANGED now, tasks' \in [TaskId -> Row],
           \A j \in TaskId : RowInv(tasks'[j], now), OneActivePerKey',
           call' \in [Caller -> Call], \A d \in Caller : CallInv(call'[d], now)
    PROVE  IInv'
BY DEF IInv

\* The operations of one statement.
LEMMA SingleInv ==
    ASSUME IInv, Single
    PROVE  IInv'
<1> USE DEF IInv
<1>0. now \in Nat \ {0}
  BY QueueAssumption
<1>1. ASSUME NEW k \in KeyVal, NEW s \in SessionVal, NEW r \in RouteVal,
             EnqueueTx(k, s, r)
      PROVE  IInv'
  <2>1. PICK i \in TaskId : /\ IsNextId(i)
                            /\ tasks' = [tasks EXCEPT ![i] = NewRow(k, s, r, now)]
    BY <1>1 DEF EnqueueTx
  <2>2. UNCHANGED <<now, call>> /\ ~UniqueViolation(k)
    BY <1>1 DEF EnqueueTx
  <2>3. now \in Nat /\ now <= now
    BY <1>0
  <2>4. /\ tasks' \in [TaskId -> Row] /\ OneActivePerKey'
        /\ \A j \in TaskId : RowInv(tasks'[j], now)
    <3> HIDE DEF IInv
    <3> QED  BY <2>1, <2>2, <2>3, InsertInv
  <2> QED  BY <2>2, <2>4
<1>2. ASSUME NEW i \in TaskId, Claim(i)
      PROVE  IInv'
  <2> DEFINE row == [tasks[i] EXCEPT !.status = "running", !.started = now, !.updated = now]
  <2>1. tasks' = [tasks EXCEPT ![i] = row] /\ UNCHANGED <<now, call>>
    BY <1>2 DEF Claim
  <2>2. tasks[i].status = "pending"
    BY <1>2 DEF Claim, Oldest, Pending
  <2>3. RowInv(row, now)
    BY <1>0, <2>2, ClaimedInv
  <2>4. \A j \in TaskId : /\ tasks'[j].key = tasks[j].key
                          /\ tasks'[j].status \in Active => tasks[j].status \in Active
    BY <2>1, <2>2 DEF Row, Active
  <2> HIDE DEF row, IInv
  <2>5. OneActivePerKey'
    BY <2>4, NoNewActive
  <2>6. tasks' \in [TaskId -> Row] /\ \A j \in TaskId : RowInv(tasks'[j], now)
    BY <2>1, <2>3, OneRow
  <2> QED  BY <2>1, <2>5, <2>6 DEF IInv
<1>3. ASSUME NEW i \in TaskId, NEW s \in Session, BindSession(i, s)
      PROVE  IInv'
  <2> DEFINE row == [tasks[i] EXCEPT !.session = s, !.updated = now]
  <2>1. tasks' = [tasks EXCEPT ![i] = row] /\ UNCHANGED <<now, call>>
    BY <1>3 DEF BindSession
  <2>2. RowInv(row, now)
    BY <1>0, TouchedInv DEF SessionVal
  <2>3. \A j \in TaskId : /\ tasks'[j].key = tasks[j].key
                          /\ tasks'[j].status \in Active => tasks[j].status \in Active
    BY <2>1 DEF Row
  <2> HIDE DEF row, IInv
  <2>4. OneActivePerKey'
    BY <2>3, NoNewActive
  <2>5. tasks' \in [TaskId -> Row] /\ \A j \in TaskId : RowInv(tasks'[j], now)
    BY <2>1, <2>2, OneRow
  <2> QED  BY <2>1, <2>4, <2>5 DEF IInv
<1>4. ASSUME NEW i \in TaskId, UpdateProgress(i)
      PROVE  IInv'
  <2> DEFINE row == [tasks[i] EXCEPT !.updated = now]
  <2>1. tasks' = [tasks EXCEPT ![i] = row] /\ UNCHANGED <<now, call>>
    BY <1>4 DEF UpdateProgress
  <2>2. RowInv(row, now)
    BY <1>0, TouchedInv DEF SessionVal
  <2>3. \A j \in TaskId : /\ tasks'[j].key = tasks[j].key
                          /\ tasks'[j].status \in Active => tasks[j].status \in Active
    BY <2>1 DEF Row
  <2> HIDE DEF row, IInv
  <2>4. OneActivePerKey'
    BY <2>3, NoNewActive
  <2>5. tasks' \in [TaskId -> Row] /\ \A j \in TaskId : RowInv(tasks'[j], now)
    BY <2>1, <2>2, OneRow
  <2> QED  BY <2>1, <2>4, <2>5 DEF IInv
<1> HIDE DEF IInv
<1> QED
  BY <1>1, <1>2, <1>3, <1>4 DEF Single

\* An operation of several statements begins.
LEMMA BeginInv ==
    ASSUME IInv, NEW c \in Caller, Begin(c)
    PROVE  IInv'
<1> USE DEF IInv
<1>0. now \in Nat \ {0}
  BY QueueAssumption
<1>1. ASSUME NEW k \in KeyVal, NEW s \in SessionVal, NEW r \in RouteVal,
             EnqueueStart(c, k, s, r)
      PROVE  IInv'
  <2> DEFINE cl == [NoCall EXCEPT !.op = IF k = NoKey THEN "insert" ELSE "lookup",
                                  !.key = k, !.session = s, !.route = r, !.at = now]
  <2>1. CallInv(cl, now)
    BY <1>0, FirstCalls
  <2>2. call' = [call EXCEPT ![c] = cl]
    BY <1>1 DEF EnqueueStart
  <2> HIDE DEF cl, IInv
  <2> QED  BY <1>1, <2>1, <2>2, OneCall, QuietInv DEF EnqueueStart
<1>2. ASSUME NEW i \in TaskId, NEW cl, CallInv(cl, now),
             call' = [call EXCEPT ![c] = cl], UNCHANGED <<tasks, now>>
      PROVE  IInv'
  <2> HIDE DEF IInv
  <2> QED  BY <1>2, OneCall, QuietInv
<1>3. ASSUME NEW i \in TaskId, AnnotateGet(c, i)
      PROVE  IInv'
  <2>1. CallInv([NoCall EXCEPT !.op = "annotate", !.task = i], now)
    BY <1>0, FirstCalls
  <2> QED  BY <1>2, <1>3, <2>1 DEF AnnotateGet
<1>4. ASSUME NEW i \in TaskId, NEW status \in Terminal, NEW cause \in Cause
      PROVE  /\ Draft(i, status, cause) \in Completion
             /\ CallInv([NoCall EXCEPT !.op = "finish", !.task = i,
                                       !.draft = Draft(i, status, cause)], now)
  <2> DEFINE d == Draft(i, status, cause)
  <2>1. d \in Completion
    BY DEF Draft, Completion, Row
  <2> HIDE DEF d, IInv
  <2>2. CallInv([NoCall EXCEPT !.op = "finish", !.task = i, !.draft = d], now)
    BY <2>1, <1>0, FirstCalls
  <2> QED  BY <2>1, <2>2 DEF d
<1>5. ASSUME NEW i \in TaskId, MarkDoneGet(c, i)
      PROVE  IInv'
  BY <1>2, <1>4, <1>5 DEF MarkDoneGet, Terminal, Cause
<1>6. ASSUME NEW i \in TaskId, NEW cause \in Failure, MarkFailedGet(c, i, cause)
       PROVE  IInv'
  BY <1>2, <1>4, <1>6, QueueAssumption DEF MarkFailedGet, Terminal, Cause
<1>7. ASSUME NEW i \in TaskId, CancelSelect(c, i)
       PROVE  IInv'
  <2>1. CallInv([NoCall EXCEPT !.op = "cancelbuild", !.task = i], now)
    BY <1>0, FirstCalls
  <2> QED  BY <1>2, <1>7, <2>1 DEF CancelSelect
<1>8. ASSUME RecoverStart(c)
       PROVE  IInv'
  <2>1. CallInv([NoCall EXCEPT !.op = "recover", !.at = now], now)
    BY <1>0, FirstCalls
  <2> HIDE DEF IInv
  <2> QED  BY <1>8, <2>1, OneCall, QuietInv DEF RecoverStart
<1> HIDE DEF IInv
<1> QED
  BY <1>1, <1>3, <1>5, <1>6, <1>7, <1>8
     DEF Begin, CancelTask, CancelPendingTask, Newest, Pending

\* A statement of an operation that is under way.
LEMMA StatementInv ==
    ASSUME IInv, NEW c \in Caller, Step(c)
    PROVE  IInv'
<1> DEFINE cl == call[c]
           i == cl.task
<1>0. /\ now \in Nat /\ CallInv(cl, now) /\ cl \in Call
      /\ tasks \in [TaskId -> Row] /\ \A j \in TaskId : RowInv(tasks[j], now)
  BY QueueAssumption DEF IInv
<1>a. ASSUME NEW op \in Op \ {"annotate", "finish", "cancelbuild", "cancel"},
             call' = [call EXCEPT ![c].op = op], UNCHANGED <<tasks, now>>
      PROVE  IInv'
  <2>1. CallInv([cl EXCEPT !.op = op], now)
    <3> DEFINE new == [cl EXCEPT !.op = op]
    <3>1. new \in Call
      BY <1>0 DEF Call
    <3>2. new.op = op /\ new.at = cl.at
      BY <1>0 DEF Call
    <3> HIDE DEF new, cl
    <3> QED  BY <1>0, <3>1, <3>2 DEF CallInv, new
  <2> QED  BY <1>a, <2>1, OneCall, QuietInv
<1>b. ASSUME Return(c), UNCHANGED <<tasks, now>>
      PROVE  IInv'
  BY <1>b, ReturnInv, QuietInv
<1>c. ASSUME NEW row, i \in TaskId, RowInv(row, now), row.key = tasks[i].key,
             row.status \in Active => tasks[i].status \in Active,
             tasks' = [tasks EXCEPT ![i] = row], Return(c), UNCHANGED now
      PROVE  IInv'
  <2>1. \A j \in TaskId : /\ tasks'[j].key = tasks[j].key
                          /\ tasks'[j].status \in Active => tasks[j].status \in Active
    BY <1>0, <1>c
  <2>2. OneActivePerKey'
    BY <2>1, NoNewActive
  <2>3. tasks' \in [TaskId -> Row] /\ \A j \in TaskId : RowInv(tasks'[j], now)
    BY <1>c, OneRow
  <2> QED  BY <1>c, <2>2, <2>3, ReturnInv, RowsInv
<1> HIDE DEF cl
<1>1. CASE EnqueueLookup(c)
  BY <1>1, <1>a, <1>b DEF EnqueueLookup, Op
<1>2. CASE EnqueueInsert(c)
  <2>1. CASE UniqueViolation(cl.key)
    BY <1>2, <2>1, <1>a DEF EnqueueInsert, Op, cl
  <2>2. CASE ~UniqueViolation(cl.key)
    <3>1. PICK j \in TaskId :
             /\ IsNextId(j)
             /\ tasks' = [tasks EXCEPT ![j] = NewRow(cl.key, cl.session, cl.route, cl.at)]
      BY <1>2, <2>2 DEF EnqueueInsert, cl
    <3>2. Return(c) /\ UNCHANGED now
      BY <1>2, <2>2 DEF EnqueueInsert, cl
    <3>3. /\ cl.key \in KeyVal /\ cl.session \in SessionVal /\ cl.route \in RouteVal
          /\ cl.at \in Nat /\ cl.at <= now
      BY <1>0 DEF Call, CallInv
    <3>4. /\ tasks' \in [TaskId -> Row] /\ OneActivePerKey'
          /\ \A k \in TaskId : RowInv(tasks'[k], now)
      BY <3>1, <3>3, <2>2, InsertInv
    <3> QED  BY <3>2, <3>4, ReturnInv, RowsInv
  <2> QED  BY <2>1, <2>2
<1>3. CASE EnqueueRelookup(c)
  BY <1>3, <1>b DEF EnqueueRelookup
<1>4. CASE AnnotateUpdate(c)
  <2>1. cl.op = "annotate" /\ Return(c) /\ UNCHANGED now
    BY <1>4 DEF AnnotateUpdate, cl
  <2>2. i \in TaskId
    BY <2>1, <1>0 DEF CallInv
  <2>3. CASE tasks[i].status \in Active
    <3> DEFINE row == [tasks[i] EXCEPT !.updated = now]
    <3>1. tasks' = [tasks EXCEPT ![i] = row]
      BY <1>4, <2>3 DEF AnnotateUpdate, cl
    <3>2. RowInv(row, now)
      BY <1>0, <2>2, TouchedInv DEF SessionVal
    <3>3. row.key = tasks[i].key
      BY <1>0, <2>2 DEF Row
    <3> HIDE DEF row
    <3> QED  BY <1>c, <2>1, <2>2, <2>3, <3>1, <3>2, <3>3
  <2>4. CASE tasks[i].status \notin Active
    BY <1>4, <2>1, <2>4, <1>b DEF AnnotateUpdate, cl
  <2> QED  BY <2>3, <2>4
<1>5. CASE FinishUpdate(c)
  <2>1. cl.op = "finish" /\ Return(c) /\ UNCHANGED now
    BY <1>5 DEF FinishUpdate, cl
  <2>2. i \in TaskId /\ cl.draft \in Completion
    BY <2>1, <1>0 DEF CallInv
  <2>3. CASE MayFinish(tasks[i])
    <3> DEFINE row == Finished(tasks[i], cl.draft)
    <3>1. tasks' = [tasks EXCEPT ![i] = row]
      BY <1>5, <2>3 DEF FinishUpdate, cl
    <3>2. tasks[i].status \in Active
      BY <2>3 DEF MayFinish, Active
    <3>3. RowInv(row, now)
      BY <1>0, <2>2, <3>2, FinishedInv
    <3>4. row.key = tasks[i].key
      BY <1>0, <2>2 DEF Row, Finished
    <3> HIDE DEF row
    <3> QED  BY <1>c, <2>1, <2>2, <3>1, <3>2, <3>3, <3>4
  <2>4. CASE ~MayFinish(tasks[i])
    BY <1>5, <2>1, <2>4, <1>b DEF FinishUpdate, cl
  <2> QED  BY <2>3, <2>4
<1>6. CASE CancelBuild(c)
  <2> DEFINE d == Draft(i, "failed", "cancelled")
             new == [cl EXCEPT !.op = "cancel", !.draft = d]
  <2>1. cl.op = "cancelbuild" /\ call' = [call EXCEPT ![c] = new] /\ UNCHANGED <<tasks, now>>
    BY <1>6 DEF CancelBuild, cl
  <2>2. i \in TaskId
    BY <2>1, <1>0 DEF CallInv
  <2>3. d \in Completion /\ d.status = "failed"
    BY <1>0, <2>2 DEF Draft, Completion, Row, Terminal, Cause
  <2> HIDE DEF d
  <2>4. new \in Call
    BY <1>0, <2>3 DEF Call, Op
  <2>5. new.op = "cancel" /\ new.task = i /\ new.draft = d /\ new.at = cl.at
    BY <1>0 DEF Call
  <2> HIDE DEF new
  <2>6. CallInv(new, now)
    BY <1>0, <2>2, <2>3, <2>4, <2>5 DEF CallInv
  <2> QED  BY <2>1, <2>6, OneCall, QuietInv
<1>7. CASE CancelUpdate(c)
  <2>1. cl.op = "cancel" /\ Return(c) /\ UNCHANGED now
    BY <1>7 DEF CancelUpdate, cl
  <2>2. i \in TaskId /\ cl.draft \in Completion
    BY <2>1, <1>0 DEF CallInv
  <2>3. CASE MayCancel(tasks[i])
    <3> DEFINE row == Finished(tasks[i], cl.draft)
    <3>1. tasks' = [tasks EXCEPT ![i] = row]
      BY <1>7, <2>3 DEF CancelUpdate, cl
    <3>2. tasks[i].status \in Active
      BY <2>3 DEF MayCancel, Active
    <3>3. RowInv(row, now)
      BY <1>0, <2>2, <3>2, FinishedInv
    <3>4. row.key = tasks[i].key
      BY <1>0, <2>2 DEF Row, Finished
    <3> HIDE DEF row
    <3> QED  BY <1>c, <2>1, <2>2, <3>1, <3>2, <3>3, <3>4
  <2>4. CASE ~MayCancel(tasks[i])
    BY <1>7, <2>1, <2>4, <1>b DEF CancelUpdate, cl
  <2> QED  BY <2>3, <2>4
<1>8. CASE RecoverTx(c)
  <2>1. Return(c) /\ UNCHANGED now
    BY <1>8 DEF RecoverTx
  <2>2. \A j \in TaskId : tasks'[j] = IF Stale(tasks[j], cl.at)
                                      THEN Recovered(tasks[j], cl.at) ELSE tasks[j]
    BY <1>8 DEF RecoverTx, cl
  <2>3. cl.at \in Nat /\ cl.at <= now
    BY <1>0 DEF CallInv, Call
  <2>4. \A j \in TaskId : RowInv(tasks'[j], now)
    BY <1>0, <2>2, <2>3, RecoveredInv DEF Stale
  <2>5. tasks' \in [TaskId -> Row]
    <3>1. \A j \in TaskId : tasks'[j] \in Row
      BY <2>4 DEF RowInv
    <3>2. tasks' = [j \in TaskId |-> tasks'[j]]
      BY <1>8 DEF RecoverTx
    <3> QED  BY <3>1, <3>2
  <2>6. \A j \in TaskId : tasks'[j].key = tasks[j].key
    BY <1>0, <2>2 DEF Recovered, Counted, Row
  <2>7. \A j \in TaskId : tasks'[j].status \in Active => tasks[j].status \in Active
    BY <2>2 DEF Stale, Active
  <2>8. OneActivePerKey'
    BY <2>6, <2>7, NoNewActive
  <2> QED  BY <2>1, <2>4, <2>5, <2>8, ReturnInv, RowsInv
<1>9. CASE AbortCall(c)
  BY <1>9, <1>b DEF AbortCall
<1> QED
  BY <1>1, <1>2, <1>3, <1>4, <1>5, <1>6, <1>7, <1>8, <1>9 DEF Step

LEMMA NextInv == IInv /\ [QueueNext]_queueVars => IInv'
<1> SUFFICES ASSUME IInv, [QueueNext]_queueVars PROVE IInv'
  OBVIOUS
<1>1. CASE Tick
  <2>1. now \in Nat /\ now' \in Nat /\ now <= now' /\ now' \in 1..MaxTime
    BY <1>1, QueueAssumption DEF Tick, IInv
  <2>2. \A i \in TaskId : RowInv(tasks[i], now')
    BY <2>1, RowInvLater DEF IInv
  <2>3. \A c \in Caller : CallInv(call[c], now')
    BY <2>1 DEF IInv, CallInv, Call
  <2> QED
    BY <1>1, <2>1, <2>2, <2>3 DEF Tick, IInv, OneActivePerKey
<1>2. ASSUME NEW c \in Caller, Begin(c) PROVE IInv'
  BY <1>2, BeginInv
<1>3. ASSUME NEW c \in Caller, Step(c) PROVE IInv'
  BY <1>3, StatementInv
<1>4. CASE Single
  BY <1>4, SingleInv
<1>5. ASSUME NEW S \in SUBSET Caller, Die(S) PROVE IInv'
  <2>1. \A c \in Caller : call'[c] = NoCall \/ call'[c] = call[c]
    BY <1>5 DEF Die
  <2>2. NoCall \in Call /\ CallInv(NoCall, now)
    BY EmptyTypes, QueueAssumption DEF NoCall, CallInv, IInv
  <2>3. call' \in [Caller -> Call] /\ \A c \in Caller : CallInv(call'[c], now)
    BY <1>5, <2>1, <2>2 DEF Die, IInv
  <2> QED  BY <1>5, <2>3, QuietInv DEF Die
<1>6. CASE UNCHANGED queueVars
  BY <1>6 DEF queueVars, IInv, OneActivePerKey
<1> QED
  BY <1>1, <1>2, <1>3, <1>4, <1>5, <1>6 DEF QueueNext

\* What the invariant says about the rows, in the terms of the properties.
LEMMA InvProperties ==
    IInv => /\ QueueTypeOK /\ ReceiptMatchesStatus /\ OneActivePerKey
            /\ RecoveryBudget /\ ClaimStamped
<1>1. IInv => QueueTypeOK /\ OneActivePerKey
  BY DEF IInv, QueueTypeOK
<1>2. IInv => ReceiptMatchesStatus
  BY DEF IInv, RowInv, ReceiptMatchesStatus
<1>3. IInv => RecoveryBudget
  BY DEF IInv, RowInv, RecoveryBudget
<1>4. IInv => ClaimStamped
  BY DEF IInv, RowInv, ClaimStamped
<1> QED  BY <1>1, <1>2, <1>3, <1>4

\* The invariant holds in every behaviour of the queue.
THEOREM Invariance == QueueSpec => []IInv
BY InitInv, NextInv, PTL DEF QueueSpec

\* Type correctness of the table, the clock and the operations under way.
THEOREM TypeCorrect == QueueSpec => []QueueTypeOK
BY Invariance, InvProperties, PTL

\* Status and durable receipt agree, whatever ran between drafting the
\* receipt and storing it.
THEOREM ReceiptsTellTheTruth == QueueSpec => []ReceiptMatchesStatus
BY Invariance, InvProperties, PTL

\* Enqueue never makes a second active task for a key.
THEOREM KeysAreExclusive == QueueSpec => []OneActivePerKey
BY Invariance, InvProperties, PTL

\* RecoverStale gives a task back at most MaxRecoveries times, and
\* started_at tells the claimed rows.
THEOREM RecoveryIsBounded == QueueSpec => [](RecoveryBudget /\ ClaimStamped)
BY Invariance, InvProperties, PTL

-----------------------------------------------------------------------------
(***************************************************************************)
(* What a step may do to a row.                                            *)
(***************************************************************************)
\* The parts of a row that no step changes when it leaves the life of the
\* task alone.
Kept(row) == <<row.key, row.status, row.completion, row.class, row.idle, row.active>>

Inserted(i) ==
    \E k \in KeyVal, s \in SessionVal, r \in RouteVal, at \in Nat :
        /\ tasks[i].status = "absent"
        /\ ~UniqueViolation(k)
        /\ tasks' = [tasks EXCEPT ![i] = NewRow(k, s, r, at)]

Claimed(i) ==
    /\ tasks[i].status = "pending"
    /\ tasks' = [tasks EXCEPT ![i].status = "running", ![i].started = now,
                              ![i].updated = now]

Ended(i) ==
    \E d \in Completion :
        /\ \/ tasks[i].status = "running"
           \/ tasks[i].status = "pending" /\ d.status = "failed"
        /\ tasks' = [tasks EXCEPT ![i] = Finished(tasks[i], d)]

GivenBackAt(at) ==
    tasks' = [i \in TaskId |-> IF Stale(tasks[i], at)
                               THEN Recovered(tasks[i], at) ELSE tasks[i]]

\* Every step is one of these, or keeps the life of every task.
LEMMA StepShape ==
    ASSUME IInv, [QueueNext]_queueVars
    PROVE  \/ \A i \in TaskId : Kept(tasks'[i]) = Kept(tasks[i])
           \/ \E i \in TaskId : Inserted(i) \/ Claimed(i) \/ Ended(i)
           \/ \E at \in Nat : GivenBackAt(at)
<1>0. tasks \in [TaskId -> Row] /\ \A c \in Caller : CallInv(call[c], now)
  BY DEF IInv
<1>1. CASE UNCHANGED tasks
  BY <1>1
<1>2. ASSUME NEW i \in TaskId,
             \/ tasks' = [tasks EXCEPT ![i].updated = now]
             \/ \E s : tasks' = [tasks EXCEPT ![i].session = s, ![i].updated = now]
      PROVE  \A j \in TaskId : Kept(tasks'[j]) = Kept(tasks[j])
  <2>1. ASSUME NEW s
        PROVE  /\ Kept([tasks[i] EXCEPT !.updated = now]) = Kept(tasks[i])
               /\ Kept([tasks[i] EXCEPT !.session = s, !.updated = now]) = Kept(tasks[i])
    BY <1>0 DEF Kept, Row
  <2>2. ASSUME NEW row, tasks' = [tasks EXCEPT ![i] = row], Kept(row) = Kept(tasks[i])
        PROVE  \A j \in TaskId : Kept(tasks'[j]) = Kept(tasks[j])
    BY <1>0, <2>2
  <2>3. CASE tasks' = [tasks EXCEPT ![i].updated = now]
    BY <2>1, <2>2, <2>3
  <2>4. ASSUME NEW s, tasks' = [tasks EXCEPT ![i].session = s, ![i].updated = now]
        PROVE  \A j \in TaskId : Kept(tasks'[j]) = Kept(tasks[j])
    BY <2>1, <2>2, <2>4
  <2> QED  BY <1>2, <2>3, <2>4
<1>3. ASSUME Single
      PROVE  \/ \A i \in TaskId : Kept(tasks'[i]) = Kept(tasks[i])
             \/ \E i \in TaskId : Inserted(i) \/ Claimed(i)
  <2>1. ASSUME NEW k \in KeyVal, NEW s \in SessionVal, NEW r \in RouteVal,
               EnqueueTx(k, s, r)
        PROVE  \E i \in TaskId : Inserted(i)
    <3>1. now \in Nat
      BY QueueAssumption DEF IInv
    <3>2. PICK i \in TaskId : /\ tasks[i].status = "absent"
                              /\ tasks' = [tasks EXCEPT ![i] = NewRow(k, s, r, now)]
      BY <2>1 DEF EnqueueTx, IsNextId
    <3>3. ~UniqueViolation(k)
      BY <2>1 DEF EnqueueTx
    <3>4. Inserted(i)
      BY <3>1, <3>2, <3>3 DEF Inserted
    <3> QED  BY <3>4
  <2>2. ASSUME NEW i \in TaskId, Claim(i)
        PROVE  Claimed(i)
    BY <2>2 DEF Claim, Claimed, Oldest, Pending
  <2>3. ASSUME NEW i \in TaskId, NEW s, BindSession(i, s)
        PROVE  \A j \in TaskId : Kept(tasks'[j]) = Kept(tasks[j])
    BY <2>3, <1>2 DEF BindSession
  <2>4. ASSUME NEW i \in TaskId, UpdateProgress(i)
        PROVE  \A j \in TaskId : Kept(tasks'[j]) = Kept(tasks[j])
    BY <2>4, <1>2 DEF UpdateProgress
  <2> QED
    BY <1>3, <2>1, <2>2, <2>3, <2>4 DEF Single
<1>4. ASSUME NEW c \in Caller, Step(c), tasks' # tasks
      PROVE  \/ \A i \in TaskId : Kept(tasks'[i]) = Kept(tasks[i])
             \/ \E i \in TaskId : Inserted(i) \/ Ended(i)
             \/ \E at \in Nat : GivenBackAt(at)
  <2> DEFINE i == call[c].task
  <2>0. CallInv(call[c], now) /\ call[c] \in Call
    BY <1>0 DEF CallInv
  <2>1. CASE EnqueueInsert(c)
    BY <1>4, <2>0, <2>1 DEF EnqueueInsert, Inserted, IsNextId, Call
  <2>2. CASE AnnotateUpdate(c)
    <3>1. i \in TaskId /\ tasks' = [tasks EXCEPT ![i].updated = now]
      BY <1>4, <2>0, <2>2 DEF AnnotateUpdate, CallInv
    <3> QED  BY <3>1, <1>2
  <2>3. CASE FinishUpdate(c)
    <3>1. i \in TaskId /\ call[c].draft \in Completion
      BY <2>0, <2>3 DEF FinishUpdate, CallInv
    <3>2. /\ tasks[i].status = "running"
          /\ tasks' = [tasks EXCEPT ![i] = Finished(tasks[i], call[c].draft)]
      BY <1>4, <2>3 DEF FinishUpdate, MayFinish
    <3>3. Ended(i)
      BY <3>1, <3>2 DEF Ended
    <3> QED  BY <3>1, <3>3
  <2>4. CASE CancelUpdate(c)
    <3>1. i \in TaskId /\ call[c].draft \in Completion /\ call[c].draft.status = "failed"
      BY <2>0, <2>4 DEF CancelUpdate, CallInv
    <3>2. /\ tasks[i].status = "pending"
          /\ tasks' = [tasks EXCEPT ![i] = Finished(tasks[i], call[c].draft)]
      BY <1>4, <2>4 DEF CancelUpdate, MayCancel
    <3>3. Ended(i)
      BY <3>1, <3>2 DEF Ended
    <3> QED  BY <3>1, <3>3
  <2>5. CASE RecoverTx(c)
    BY <2>0, <2>5 DEF RecoverTx, GivenBackAt, Call
  <2> QED
    BY <1>4, <2>1, <2>2, <2>3, <2>4, <2>5 DEF Step, EnqueueLookup, EnqueueRelookup,
       CancelBuild, AbortCall
<1>5. ASSUME NEW c \in Caller, Begin(c)
      PROVE  UNCHANGED tasks
  BY <1>5 DEF Begin, EnqueueStart, AnnotateGet, MarkDoneGet, MarkFailedGet, CancelTask,
     CancelPendingTask, CancelSelect, RecoverStart
<1> QED
  BY <1>1, <1>3, <1>4, <1>5 DEF QueueNext, Tick, Die, queueVars

\* No step changes the outcome of a finished task.
LEMMA FinalStep ==
    ASSUME IInv, [QueueNext]_queueVars, NEW i \in TaskId, tasks[i].status \in Terminal
    PROVE  Outcome(tasks'[i]) = Outcome(tasks[i])
<1>0. tasks \in [TaskId -> Row]
  BY DEF IInv
<1>1. CASE \A j \in TaskId : Kept(tasks'[j]) = Kept(tasks[j])
  BY <1>1 DEF Kept, Outcome
<1>2. ASSUME NEW j \in TaskId, Inserted(j) \/ Claimed(j) \/ Ended(j)
      PROVE  tasks'[i] = tasks[i]
  <2>1. j # i
    BY <1>2 DEF Inserted, Claimed, Ended, Terminal
  <2> QED  BY <1>0, <1>2, <2>1 DEF Inserted, Claimed, Ended
<1>3. ASSUME NEW at \in Nat, GivenBackAt(at)
      PROVE  tasks'[i] = tasks[i]
  BY <1>3 DEF GivenBackAt, Stale, Terminal
<1> QED
  BY <1>1, <1>2, <1>3, StepShape

\* Once a task is done or failed its outcome never changes, for any number
\* of stale workers, late cancellations and recoveries.
THEOREM OutcomesAreFinal == QueueSpec => TerminalIsFinal
<1>1. IInv /\ [QueueNext]_queueVars
         => [\A i \in TaskId : tasks[i].status \in Terminal
                => Outcome(tasks'[i]) = Outcome(tasks[i])]_queueVars
  BY FinalStep
<1> QED
  BY <1>1, Invariance, PTL DEF QueueSpec, TerminalIsFinal

-----------------------------------------------------------------------------
(***************************************************************************)
(* The queue implements TaskLifecycle.                                     *)
(***************************************************************************)
\* The abstract task a row stands for; the mapping of TaskQueue, row by row.
TaskOf(row) == [state |-> row.status, key |-> row.key,
                tries |-> row.idle + row.active, receipt |-> row.completion.status]

lives == [i \in TaskId |-> TaskOf(tasks[i])]

LEMMA AbstractInit == QueueInit => Lifecycle!Init
BY DEF QueueInit, Lifecycle!Init, Lifecycle!Unborn, NoRow, NoCompletion

LEMMA AbstractInsert ==
    ASSUME IInv, NEW i \in TaskId, Inserted(i)
    PROVE  \E k \in KeyVal : Lifecycle!Submit(i, k)
<1>0. tasks \in [TaskId -> Row]
  BY DEF IInv
<1>1. PICK k \in KeyVal, s \in SessionVal, r \in RouteVal, at \in Nat :
         /\ tasks[i].status = "absent" /\ ~UniqueViolation(k)
         /\ tasks' = [tasks EXCEPT ![i] = NewRow(k, s, r, at)]
  BY DEF Inserted
<1>2. TaskOf(NewRow(k, s, r, at))
        = [state |-> "pending", key |-> k, tries |-> 0, receipt |-> "absent"]
  BY DEF TaskOf, NewRow, NoRow, NoCompletion
<1>3. lives' = [lives EXCEPT ![i] = [state |-> "pending", key |-> k, tries |-> 0,
                                     receipt |-> "absent"]]
  BY <1>0, <1>1, <1>2 DEF lives
<1>4. k # NoKey => \A j \in TaskId : tasks[j].key = k => tasks[j].status \notin Active
  BY <1>0, <1>1 DEF UniqueViolation, ActiveWithKey, Row
<1>5. Lifecycle!Submit(i, k)
  BY <1>1, <1>3, <1>4 DEF Lifecycle!Submit, Lifecycle!Unborn, Lifecycle!Unfinished,
     Active, lives, TaskOf
<1> QED  BY <1>5

LEMMA AbstractClaim ==
    ASSUME IInv, NEW i \in TaskId, Claimed(i)
    PROVE  Lifecycle!Claim(i)
<1>0. tasks \in [TaskId -> Row]
  BY DEF IInv
<1> DEFINE row == [tasks[i] EXCEPT !.status = "running", !.started = now, !.updated = now]
<1>1. TaskOf(row) = [TaskOf(tasks[i]) EXCEPT !.state = "running"]
  BY <1>0 DEF TaskOf, Row
<1>2. tasks' = [tasks EXCEPT ![i] = row] /\ tasks[i].status = "pending"
  BY DEF Claimed
<1> HIDE DEF row
<1>3. lives' = [lives EXCEPT ![i] = [lives[i] EXCEPT !.state = "running"]]
  BY <1>0, <1>1, <1>2 DEF lives
<1> QED  BY <1>2, <1>3 DEF Lifecycle!Claim, lives, TaskOf

LEMMA AbstractEnd ==
    ASSUME IInv, NEW i \in TaskId, Ended(i)
    PROVE  \E outcome \in {"done", "failed"} : Lifecycle!End(i, outcome)
<1>0. tasks \in [TaskId -> Row]
  BY DEF IInv
<1>1. PICK d \in Completion :
         /\ \/ tasks[i].status = "running"
            \/ tasks[i].status = "pending" /\ d.status = "failed"
         /\ tasks' = [tasks EXCEPT ![i] = Finished(tasks[i], d)]
  BY DEF Ended
<1> DEFINE row == Finished(tasks[i], d)
<1>2. TaskOf(row) = Lifecycle!Closed(TaskOf(tasks[i]), d.status)
  <2>1. /\ row.status = d.status /\ row.completion = d /\ row.key = tasks[i].key
        /\ row.idle = tasks[i].idle /\ row.active = tasks[i].active
    BY <1>0 DEF Row, Finished
  <2> HIDE DEF row
  <2> QED  BY <2>1 DEF TaskOf, Lifecycle!Closed
<1>3. d.status \in {"done", "failed"}
  BY DEF Completion, Terminal
<1> HIDE DEF row
<1>4. lives' = [lives EXCEPT ![i] = Lifecycle!Closed(lives[i], d.status)]
  BY <1>0, <1>1, <1>2 DEF lives, row
<1>5. Lifecycle!End(i, d.status)
  BY <1>1, <1>4 DEF Lifecycle!End, lives, TaskOf
<1> QED  BY <1>3, <1>5

LEMMA AbstractGiveBack ==
    ASSUME IInv, NEW at \in Nat, GivenBackAt(at)
    PROVE  \E S \in SUBSET TaskId : Lifecycle!GiveBack(S)
<1> PICK S \in SUBSET TaskId : S = {i \in TaskId : Stale(tasks[i], at)}
  OBVIOUS
<1>0. tasks \in [TaskId -> Row]
  BY DEF IInv
<1>1. ASSUME NEW row \in Row, row.status = "running"
      PROVE  TaskOf(Recovered(row, at)) = Lifecycle!GivenBack(TaskOf(row))
  <2> DEFINE counted == Counted(row)
             n == row.idle + row.active
  <2>1. /\ counted \in Row /\ counted.idle + counted.active = n + 1
        /\ counted.key = row.key /\ counted.completion = row.completion
    BY <1>1, CountedRow
  <2> HIDE DEF counted
  <2>2. CASE MaxRecoveries > 0 /\ n + 1 > MaxRecoveries
    BY <2>1, <2>2 DEF TaskOf, Recovered, Exhausted, ExhaustedReceipt, Row, counted,
       Lifecycle!GivenBack
  <2>3. CASE ~(MaxRecoveries > 0 /\ n + 1 > MaxRecoveries)
    BY <2>1, <2>3 DEF TaskOf, Recovered, Exhausted, Row, counted, Lifecycle!GivenBack
  <2> QED  BY <2>2, <2>3
<1>2. \A i \in S : tasks[i].status = "running"
  BY DEF Stale
<1>3. lives' = [i \in TaskId |-> IF i \in S THEN Lifecycle!GivenBack(lives[i]) ELSE lives[i]]
  <2>1. \A i \in TaskId : TaskOf(tasks'[i]) = IF i \in S
                              THEN Lifecycle!GivenBack(lives[i]) ELSE lives[i]
    BY <1>0, <1>1, <1>2 DEF GivenBackAt, lives
  <2> QED  BY <2>1 DEF lives
<1>4. Lifecycle!GiveBack(S)
  BY <1>2, <1>3 DEF Lifecycle!GiveBack, lives, TaskOf
<1> QED  BY <1>4

LEMMA AbstractStep == IInv /\ [QueueNext]_queueVars => [Lifecycle!Next]_lives
<1> SUFFICES ASSUME IInv, [QueueNext]_queueVars PROVE [Lifecycle!Next]_lives
  OBVIOUS
<1>1. CASE \A i \in TaskId : Kept(tasks'[i]) = Kept(tasks[i])
  <2>1. \A i \in TaskId : TaskOf(tasks'[i]) = TaskOf(tasks[i])
    BY <1>1 DEF Kept, TaskOf
  <2> QED  BY <2>1 DEF lives
<1>2. ASSUME NEW i \in TaskId, Inserted(i) PROVE Lifecycle!Next
  BY <1>2, AbstractInsert DEF Lifecycle!Next
<1>3. ASSUME NEW i \in TaskId, Claimed(i) PROVE Lifecycle!Next
  BY <1>3, AbstractClaim DEF Lifecycle!Next
<1>4. ASSUME NEW i \in TaskId, Ended(i) PROVE Lifecycle!Next
  BY <1>4, AbstractEnd DEF Lifecycle!Next, Lifecycle!Ended
<1>5. ASSUME NEW at \in Nat, GivenBackAt(at) PROVE Lifecycle!Next
  BY <1>5, AbstractGiveBack DEF Lifecycle!Next
<1> QED
  BY <1>1, <1>2, <1>3, <1>4, <1>5, StepShape

\* Every behaviour of the queue is, row by row, a behaviour of the abstract
\* life cycle.
THEOREM Refinement == QueueSpec => ImplementsLifecycle
<1>1. IInv /\ [QueueNext]_queueVars => [Lifecycle!Next]_lives
  BY AbstractStep
<1>2. QueueInit => Lifecycle!Init
  BY AbstractInit
<1> QED
  BY <1>1, <1>2, Invariance, PTL
     DEF QueueSpec, ImplementsLifecycle, Lifecycle!Spec, lives, TaskOf
=============================================================================
