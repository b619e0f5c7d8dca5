---------------------------- MODULE DaemonProofs ----------------------------
(***************************************************************************)
(* Proofs about the daemon, for any number of workers, clients and tasks:  *)
(* every step of the daemon is a use of the queue, so what is proved of    *)
(* the queue holds of it; whatever fails, envelopes, gates and stops are   *)
(* recorded as they happened; when nobody else recovers tasks, a worker    *)
(* owns the task it works on; and when only crashes happen, no finished    *)
(* task is left behind.                                                    *)
(***************************************************************************)
EXTENDS Daemon, TaskQueueProofs

-----------------------------------------------------------------------------
(***************************************************************************)
(* Types.  A worker that is not polling has a task, and one whose run is   *)
(* over has an outcome to record.                                          *)
(***************************************************************************)
WorkerInv(s) ==
    /\ s \in WorkerState
    /\ s.pc = "poll" \/ s.task \in TaskId
    /\ s.pc \in {"evaluate", "mark", "finish"} => s.outcome \in {"done"} \cup Failure

DInv ==
    /\ IInv
    /\ DaemonTypeOK
    /\ \A w \in Worker : WorkerInv(wk[w])

\* Workers, the main goroutine and the clients are callers of the queue.
LEMMA Callers ==
    /\ Worker \subseteq Caller /\ Main \in Caller /\ Client \subseteq Caller
    /\ Main \notin Worker /\ Main \notin Client
    /\ \A w \in Worker : w \notin Client
BY DaemonAssumption

\* Every step of the daemon, its workers and its clients is a step of the
\* queue's callers, or leaves the queue alone.
LEMMA UsesQueue ==
    ASSUME DInv, [DaemonNext]_vars
    PROVE  [QueueNext]_queueVars
<1> USE Callers
<1>1. CASE Tick /\ UNCHANGED daemonVars
  BY <1>1 DEF QueueNext
<1>2. CASE ProcessStep
  <2>1. CASE Open
    BY <2>1 DEF Open, QueueNext, Begin
  <2>2. CASE OpenRecover
    BY <2>2 DEF OpenRecover, QueueNext, Step
  <2>3. CASE Crash
    BY <2>3, Worker \cup {Main} \in SUBSET Caller DEF Crash, QueueNext
  <2> QED
    BY <1>2, <2>1, <2>2, <2>3
    DEF ProcessStep, DeliverExisting, Reconcile, Stop, Halt, Connect, Hangup, queueVars
<1>3. ASSUME NEW w \in Worker, WorkerStep(w) PROVE [QueueNext]_queueVars
  <2>1. CASE WorkerClaim(w)
    BY <2>1 DEF WorkerClaim, QueueNext, Single
  <2>2. CASE Bind(w)
    <3>1. wk[w].task \in TaskId
      BY <2>2 DEF Bind, DInv, WorkerInv
    <3> QED
      BY <2>2, <3>1 DEF Bind, QueueNext, Single
  <2>3. CASE MarkGet(w)
    <3>1. wk[w].task \in TaskId /\ wk[w].outcome \in {"done"} \cup Failure
      BY <2>3 DEF MarkGet, DInv, WorkerInv
    <3>2. CASE MarkDoneGet(w, wk[w].task)
      BY <3>1, <3>2 DEF QueueNext, Begin
    <3>3. CASE wk[w].outcome # "done" /\ MarkFailedGet(w, wk[w].task, wk[w].outcome)
      <4>1. wk[w].outcome \in Failure
        BY <3>1, <3>3
      <4> QED
        BY <3>1, <3>3, <4>1 DEF QueueNext, Begin
    <3> QED
      BY <2>3, <3>2, <3>3 DEF MarkGet
  <2>4. CASE MarkUpdate(w)
    BY <2>4 DEF MarkUpdate, QueueNext, Step
  <2> QED
    BY <1>3, <2>1, <2>2, <2>3, <2>4
    DEF WorkerStep, EnvelopeStart, BeginRun, GateBlocks, RunText, Watchdog, WallClock,
        RunOk, RunErr, Judge, RunEnds, RunPanic, GatePasses, EnvelopeClose, RetireSession, Deliver
<1>4. ASSUME NEW i \in TaskId, Beat(i) \/ CancelRunningTask(i) PROVE [QueueNext]_queueVars
  BY <1>4 DEF Beat, CancelRunningTask, QueueNext, Single
<1>5. ASSUME NEW c \in Client, ClientBegin(c) \/ ClientStep(c) PROVE [QueueNext]_queueVars
  BY <1>5 DEF ClientBegin, ClientStep, QueueNext, Begin
<1>6. CASE UNCHANGED vars
  BY <1>6 DEF vars, queueVars
<1> QED
  BY <1>1, <1>2, <1>3, <1>4, <1>5, <1>6 DEF DaemonNext

-----------------------------------------------------------------------------
(***************************************************************************)
(* Type correctness.                                                       *)
(***************************************************************************)
\* DaemonTypeOK without the workers.
OtherTypes ==
    /\ daemon \in {"down", "opening", "starting", "reconciling", "up", "stopping"}
    /\ running \in [TaskId -> Worker \cup {NoWorker}]
    /\ agentic \in [TaskId -> {"none", "running", "succeeded", "failed"}]
    /\ passed \subseteq TaskId
    /\ beats \in [TaskId -> 0..MaxBeats]
    /\ retired \subseteq TaskId
    /\ handed \subseteq TaskId
    /\ stops \in 0..MaxStops
    /\ conns \subseteq Conn

\* One worker moves to a state s.
LEMMA OneWorker ==
    ASSUME DInv, NEW w \in Worker, NEW s, WorkerInv(s), wk' = [wk EXCEPT ![w] = s]
    PROVE  /\ wk' \in [Worker -> WorkerState]
           /\ \A v \in Worker : WorkerInv(wk'[v])
BY DEF DInv, DaemonTypeOK, WorkerInv

\* What a step of a worker does to its state and to the queue: it takes a
\* task, works on it, begins to mark it, has marked it or could not, closes,
\* and is done with it.
Takes(w, s) ==
    /\ wk[w].pc = "poll" /\ s.pc = "envelope"
    /\ daemon = "up"
    /\ s.task \in TaskId /\ Claim(s.task)
    /\ s.claimed = now
Works(w, s) ==
    /\ wk[w].pc \in Working \ {"finish"} /\ s.pc \in Working \ {"finish"}
    /\ UNCHANGED queueVars \/ \E e \in Session : BindSession(wk[w].task, e)
Marks(w, s) ==
    /\ wk[w].pc = "mark" /\ s.pc = "finish"
    /\ \/ MarkDoneGet(w, wk[w].task)
       \/ \E cause \in Failure : MarkFailedGet(w, wk[w].task, cause)
HasMarked(w, s) ==
    /\ wk[w].pc = "finish" /\ s.pc \in Closing
    /\ FinishUpdate(w) \/ AbortCall(w)
Closes(w, s) ==
    /\ wk[w].pc \in Closing \cup {"mark"} /\ s.pc \in Closing
    /\ UNCHANGED queueVars
GoesOn(w, s) ==
    /\ s.task = wk[w].task /\ s.claimed = wk[w].claimed
    /\ Works(w, s) \/ Marks(w, s) \/ HasMarked(w, s) \/ Closes(w, s)
Leaves(w, s) ==
    wk[w].pc = "deliver" /\ s = Polling /\ UNCHANGED queueVars

Moves(w) ==
    /\ \E s : /\ WorkerInv(s)
              /\ wk' = [wk EXCEPT ![w] = s]
              /\ Takes(w, s) \/ GoesOn(w, s) \/ Leaves(w, s)
    /\ UNCHANGED daemon

\* Every step of a worker takes a task, goes on with it or leaves it.
LEMMA WorkerMoves ==
    ASSUME DInv, NEW w \in Worker, WorkerStep(w)
    PROVE  Moves(w)
<1> USE DaemonAssumption, QueueAssumption
<1>0. /\ WorkerInv(wk[w]) /\ wk[w] \in WorkerState /\ now \in Nat
      /\ tasks \in [TaskId -> Row] /\ wk \in [Worker -> WorkerState]
  BY DEF DInv, WorkerInv, IInv, DaemonTypeOK
<1>1. ASSUME WorkerClaim(w) PROVE Moves(w)
  <2>1. PICK i \in TaskId : /\ Claim(i)
                            /\ wk' = [wk EXCEPT ![w] =
                                 [Polling EXCEPT !.pc = "envelope", !.task = i,
                                                 !.session = tasks[i].session, !.claimed = now]]
    BY <1>1 DEF WorkerClaim
  <2> DEFINE s == [Polling EXCEPT !.pc = "envelope", !.task = i,
                                  !.session = tasks[i].session, !.claimed = now]
  <2>2. tasks[i].session \in SessionVal
    BY <1>0 DEF Row
  <2>3. s \in WorkerState
    BY <1>0, <2>2 DEF Polling, WorkerState, Pc
  <2>4. s.pc = "envelope" /\ s.task = i /\ s.claimed = now
    BY DEF Polling
  <2>5. wk[w].pc = "poll" /\ daemon = "up" /\ daemon' = daemon
    BY <1>1 DEF WorkerClaim, Live, procVars
  <2> HIDE DEF s
  <2>6. WorkerInv(s)
    BY <2>3, <2>4 DEF WorkerInv
  <2>7. wk' = [wk EXCEPT ![w] = s]
    BY <2>1 DEF s
  <2> QED
    BY <2>1, <2>4, <2>5, <2>6, <2>7 DEF Takes, Moves
<1>2. ASSUME EnvelopeStart(w), wk' = [wk EXCEPT ![w].pc = "gate", ![w].env = TRUE] PROVE Moves(w)
  <2> DEFINE s == [wk[w] EXCEPT !.pc = "gate", !.env = TRUE]
  <2>1. s \in WorkerState
    BY <1>0, <1>2 DEF EnvelopeStart, WorkerState, Pc
  <2>2. s.task = wk[w].task /\ s.claimed = wk[w].claimed /\ s.pc = "gate"
    BY <1>0, <1>2 DEF EnvelopeStart, WorkerState
  <2>3. wk' = [wk EXCEPT ![w] = s] /\ UNCHANGED daemon
    BY <1>2 DEF EnvelopeStart, procVars
  <2> HIDE DEF s
  <2>4. Works(w, s)
    BY <1>0, <1>2, <2>2 DEF EnvelopeStart, Works, Working, Closing
  <2>5. WorkerInv(s)
    BY <1>0, <1>2, <2>1, <2>2, <2>4 DEF EnvelopeStart, WorkerInv, Works, Working, Closing
  <2> QED
    BY <2>2, <2>3, <2>4, <2>5 DEF GoesOn, Moves
<1>3. ASSUME EnvelopeStart(w), wk' = [wk EXCEPT ![w].pc = "gate"] PROVE Moves(w)
  <2> DEFINE s == [wk[w] EXCEPT !.pc = "gate"]
  <2>1. s \in WorkerState
    BY <1>0, <1>3 DEF EnvelopeStart, WorkerState, Pc
  <2>2. s.task = wk[w].task /\ s.claimed = wk[w].claimed /\ s.pc = "gate"
    BY <1>0, <1>3 DEF EnvelopeStart, WorkerState
  <2>3. wk' = [wk EXCEPT ![w] = s] /\ UNCHANGED daemon
    BY <1>3 DEF EnvelopeStart, procVars
  <2> HIDE DEF s
  <2>4. Works(w, s)
    BY <1>0, <1>3, <2>2 DEF EnvelopeStart, Works, Working, Closing
  <2>5. WorkerInv(s)
    BY <1>0, <1>3, <2>1, <2>2, <2>4 DEF EnvelopeStart, WorkerInv, Works, Working, Closing
  <2> QED
    BY <2>2, <2>3, <2>4, <2>5 DEF GoesOn, Moves
<1>4. ASSUME BeginRun(w) PROVE Moves(w)
  <2> DEFINE s == [wk[w] EXCEPT !.pc = "run", !.last = now, !.begun = now]
  <2>1. s \in WorkerState
    BY <1>0, <1>4 DEF BeginRun, WorkerState, Pc
  <2>2. s.task = wk[w].task /\ s.claimed = wk[w].claimed /\ s.pc = "run"
    BY <1>0, <1>4 DEF BeginRun, WorkerState
  <2>3. wk' = [wk EXCEPT ![w] = s] /\ UNCHANGED daemon
    BY <1>4 DEF BeginRun, procVars
  <2> HIDE DEF s
  <2>4. Works(w, s)
    BY <1>0, <1>4, <2>2 DEF BeginRun, Works, Working, Closing
  <2>5. WorkerInv(s)
    BY <1>0, <1>4, <2>1, <2>2, <2>4 DEF BeginRun, WorkerInv, Works, Working, Closing
  <2> QED
    BY <2>2, <2>3, <2>4, <2>5 DEF GoesOn, Moves
<1>5. ASSUME GateBlocks(w) PROVE Moves(w)
  <2> DEFINE s == [wk[w] EXCEPT !.pc = "mark", !.outcome = "error"]
  <2>1. s \in WorkerState
    BY <1>0, <1>5 DEF GateBlocks, WorkerState, Pc
  <2>2. s.task = wk[w].task /\ s.claimed = wk[w].claimed /\ s.pc = "mark" /\ s.outcome = "error"
    BY <1>0, <1>5 DEF GateBlocks, WorkerState
  <2>3. wk' = [wk EXCEPT ![w] = s] /\ UNCHANGED daemon
    BY <1>5 DEF GateBlocks, procVars
  <2> HIDE DEF s
  <2>4. Works(w, s)
    BY <1>0, <1>5, <2>2 DEF GateBlocks, Works, Working, Closing
  <2>5. WorkerInv(s)
    BY <1>0, <1>5, <2>1, <2>2, <2>4 DEF GateBlocks, WorkerInv, Works, Working, Closing
  <2> QED
    BY <2>2, <2>3, <2>4, <2>5 DEF GoesOn, Moves
<1>6. ASSUME RunText(w) PROVE Moves(w)
  <2> DEFINE s == [wk[w] EXCEPT !.last = now]
  <2>1. s \in WorkerState
    BY <1>0, <1>6 DEF RunText, WorkerState, Pc
  <2>2. s.task = wk[w].task /\ s.claimed = wk[w].claimed /\ s.pc = wk[w].pc
    BY <1>0, <1>6 DEF RunText, WorkerState
  <2>3. wk' = [wk EXCEPT ![w] = s] /\ UNCHANGED daemon
    BY <1>6 DEF RunText, procVars
  <2> HIDE DEF s
  <2>4. Works(w, s)
    BY <1>0, <1>6, <2>2 DEF RunText, Works, Working, Closing
  <2>5. WorkerInv(s)
    BY <1>0, <1>6, <2>1, <2>2, <2>4 DEF RunText, WorkerInv, Works, Working, Closing
  <2> QED
    BY <2>2, <2>3, <2>4, <2>5 DEF GoesOn, Moves
<1>7. ASSUME Watchdog(w) PROVE Moves(w)
  <2> DEFINE s == [wk[w] EXCEPT !.sig = @ \cup {"idle"}]
  <2>1. s \in WorkerState
    BY <1>0, <1>7 DEF Watchdog, WorkerState, Pc, Signal
  <2>2. s.task = wk[w].task /\ s.claimed = wk[w].claimed /\ s.pc = wk[w].pc
    BY <1>0, <1>7 DEF Watchdog, WorkerState, Signal
  <2>3. wk' = [wk EXCEPT ![w] = s] /\ UNCHANGED daemon
    BY <1>7 DEF Watchdog, procVars, Signal
  <2> HIDE DEF s
  <2>4. Works(w, s)
    BY <1>0, <1>7, <2>2 DEF Watchdog, Works, Working, Closing, Signal
  <2>5. WorkerInv(s)
    BY <1>0, <1>7, <2>1, <2>2, <2>4 DEF Watchdog, WorkerInv, Works, Working, Closing, Signal
  <2> QED
    BY <2>2, <2>3, <2>4, <2>5 DEF GoesOn, Moves
<1>8. ASSUME WallClock(w) PROVE Moves(w)
  <2> DEFINE s == [wk[w] EXCEPT !.sig = @ \cup {"wall"}]
  <2>1. s \in WorkerState
    BY <1>0, <1>8 DEF WallClock, WorkerState, Pc, Signal
  <2>2. s.task = wk[w].task /\ s.claimed = wk[w].claimed /\ s.pc = wk[w].pc
    BY <1>0, <1>8 DEF WallClock, WorkerState, Signal
  <2>3. wk' = [wk EXCEPT ![w] = s] /\ UNCHANGED daemon
    BY <1>8 DEF WallClock, procVars, Signal
  <2> HIDE DEF s
  <2>4. Works(w, s)
    BY <1>0, <1>8, <2>2 DEF WallClock, Works, Working, Closing, Signal
  <2>5. WorkerInv(s)
    BY <1>0, <1>8, <2>1, <2>2, <2>4 DEF WallClock, WorkerInv, Works, Working, Closing, Signal
  <2> QED
    BY <2>2, <2>3, <2>4, <2>5 DEF GoesOn, Moves
<1>9. ASSUME RunOk(w) PROVE Moves(w)
  <2>a. ("manual" \in wk[w].sig) \in BOOLEAN
    OBVIOUS
  <2>b. PICK told \in BOOLEAN : told = ("manual" \in wk[w].sig)
    BY <2>a, Zenon
  <2> DEFINE s == [wk[w] EXCEPT !.pc = "bind", !.told = told]
  <2>1. s \in WorkerState
    BY <1>0 DEF WorkerState, Pc
  <2>2. s.task = wk[w].task /\ s.claimed = wk[w].claimed /\ s.pc = "bind"
    BY <1>0, <1>9 DEF RunOk, WorkerState
  <2>3. wk' = [wk EXCEPT ![w] = s] /\ UNCHANGED daemon
    BY <1>9, <2>b DEF RunOk, procVars
  <2> HIDE DEF s
  <2>4. Works(w, s)
    BY <1>0, <1>9, <2>2 DEF RunOk, Works, Working, Closing
  <2>5. WorkerInv(s)
    BY <1>0, <1>9, <2>1, <2>2, <2>4 DEF RunOk, WorkerInv, Works, Working, Closing
  <2> QED
    BY <2>2, <2>3, <2>4, <2>5 DEF GoesOn, Moves
<1>10. ASSUME Bind(w) PROVE Moves(w)
  <2> DEFINE s == [wk[w] EXCEPT !.pc = IF wk[w].task \in Gated THEN "evaluate" ELSE "mark", !.outcome = "done"]
  <2>1. s \in WorkerState
    BY <1>0, <1>10 DEF Bind, WorkerState, Pc
  <2>2. s.task = wk[w].task /\ s.claimed = wk[w].claimed /\ s.pc \in {"evaluate", "mark"} /\ s.outcome = "done"
    BY <1>0, <1>10 DEF Bind, WorkerState
  <2>3. wk' = [wk EXCEPT ![w] = s] /\ UNCHANGED daemon
    BY <1>10 DEF Bind, procVars
  <2> HIDE DEF s
  <2>4. Works(w, s)
    BY <1>0, <1>10, <2>2 DEF Bind, Works, Working, Closing
  <2>5. WorkerInv(s)
    BY <1>0, <1>10, <2>1, <2>2, <2>4 DEF Bind, WorkerInv, Works, Working, Closing
  <2> QED
    BY <2>2, <2>3, <2>4, <2>5 DEF GoesOn, Moves
\* A run that ends with a verdict, after its error or after it was judged.
<1>11a. ASSUME NEW verdict \in Failure, NEW told \in BOOLEAN, RunEnds(w, verdict, told),
               wk[w].pc \in {"run", "judge"}, UNCHANGED <<queueVars, daemon>>
        PROVE  Moves(w)
  <2>0. PICK r \in MayRetire(verdict) :
           wk' = [wk EXCEPT ![w].pc = "mark", ![w].told = told,
                            ![w].outcome = verdict, ![w].retire = r]
    BY <1>11a DEF RunEnds
  <2>a. r \in BOOLEAN
    BY <2>0 DEF MayRetire
  <2> DEFINE s == [wk[w] EXCEPT !.pc = "mark", !.told = told, !.outcome = verdict, !.retire = r]
  <2>1. s \in WorkerState
    BY <1>0, <2>a DEF WorkerState, Pc
  <2>2. s.task = wk[w].task /\ s.claimed = wk[w].claimed /\ s.pc = "mark" /\ s.outcome \in Failure
    BY <1>0, <2>a DEF WorkerState
  <2>3. wk' = [wk EXCEPT ![w] = s] /\ UNCHANGED daemon
    BY <1>11a, <2>0
  <2> HIDE DEF s
  <2>4. Works(w, s)
    BY <1>11a, <2>2 DEF Works, Working
  <2>5. WorkerInv(s)
    BY <1>0, <1>11a, <2>1, <2>2 DEF WorkerInv
  <2> QED
    BY <2>2, <2>3, <2>4, <2>5 DEF GoesOn, Moves
\* A run whose error is still to be judged.
<1>11b. ASSUME wk[w].pc = "run", UNCHANGED <<queueVars, daemon>>,
               wk' = [wk EXCEPT ![w].pc = "judge", ![w].told = "manual" \in wk[w].sig]
        PROVE  Moves(w)
  <2>a. ("manual" \in wk[w].sig) \in BOOLEAN
    OBVIOUS
  <2>b. PICK told \in BOOLEAN : told = ("manual" \in wk[w].sig)
    BY <2>a, Zenon
  <2> DEFINE s == [wk[w] EXCEPT !.pc = "judge", !.told = told]
  <2>1. s \in WorkerState
    BY <1>0 DEF WorkerState, Pc
  <2>2. s.task = wk[w].task /\ s.claimed = wk[w].claimed /\ s.pc = "judge"
    BY <1>0 DEF WorkerState
  <2>3. wk' = [wk EXCEPT ![w] = s]
    BY <1>11b, <2>b
  <2> HIDE DEF s
  <2>4. Works(w, s)
    BY <1>11b, <2>2 DEF Works, Working
  <2>5. WorkerInv(s)
    BY <1>0, <1>11b, <2>1, <2>2 DEF WorkerInv
  <2> QED
    BY <1>11b, <2>2, <2>3, <2>4, <2>5 DEF GoesOn, Moves
<1>11. ASSUME RunErr(w) PROVE Moves(w)
  <2>a. ("manual" \in wk[w].sig) \in BOOLEAN
    OBVIOUS
  <2>b. PICK told \in BOOLEAN : told = ("manual" \in wk[w].sig)
    BY <2>a, Zenon
  <2>1. wk[w].pc = "run" /\ UNCHANGED <<queueVars, daemon>>
    BY <1>11 DEF RunErr, procVars
  <2>2. CASE RunEnds(w, "stopped", "manual" \in wk[w].sig)
    <3>1. RunEnds(w, "stopped", told)
      BY <2>b, <2>2
    <3> QED
      BY <1>11a, <2>1, <3>1
  <2>3. CASE wk' = [wk EXCEPT ![w].pc = "judge", ![w].told = "manual" \in wk[w].sig]
    BY <1>11b, <2>1, <2>3
  <2> QED
    BY <1>11, <2>2, <2>3 DEF RunErr
<1>11c. ASSUME Judge(w) PROVE Moves(w)
  <2>1. Verdict(w) \in Failure /\ wk[w].told \in BOOLEAN
    BY <1>0 DEF Verdict, WorkerState
  <2> QED
    BY <1>11c, <1>11a, <2>1 DEF Judge, procVars
<1>12. ASSUME RunPanic(w) PROVE Moves(w)
  <2>a. ("manual" \in wk[w].sig) \in BOOLEAN
    OBVIOUS
  <2>b. PICK told \in BOOLEAN : told = ("manual" \in wk[w].sig)
    BY <2>a, Zenon
  <2> DEFINE s == [wk[w] EXCEPT !.pc = "mark", !.told = told,
                                !.outcome = "error", !.retire = TRUE]
  <2>1. s \in WorkerState
    BY <1>0 DEF WorkerState, Pc
  <2>2. s.task = wk[w].task /\ s.claimed = wk[w].claimed /\ s.pc = "mark" /\ s.outcome = "error"
    BY <1>0, <1>12 DEF RunPanic, WorkerState
  <2>3. wk' = [wk EXCEPT ![w] = s] /\ UNCHANGED daemon
    BY <1>12, <2>b DEF RunPanic, procVars
  <2> HIDE DEF s
  <2>4. Works(w, s)
    BY <1>0, <1>12, <2>2 DEF RunPanic, Works, Working, Closing
  <2>5. WorkerInv(s)
    BY <1>0, <1>12, <2>1, <2>2, <2>4 DEF RunPanic, WorkerInv, Works, Working, Closing
  <2> QED
    BY <2>2, <2>3, <2>4, <2>5 DEF GoesOn, Moves
<1>13. ASSUME GatePasses(w) PROVE Moves(w)
  <2> DEFINE s == [wk[w] EXCEPT !.pc = "mark"]
  <2>1. s \in WorkerState
    BY <1>0, <1>13 DEF GatePasses, WorkerState, Pc
  <2>2. s.task = wk[w].task /\ s.claimed = wk[w].claimed /\ s.pc = "mark" /\ s.outcome = wk[w].outcome
    BY <1>0, <1>13 DEF GatePasses, WorkerState
  <2>3. wk' = [wk EXCEPT ![w] = s] /\ UNCHANGED daemon
    BY <1>13 DEF GatePasses, procVars
  <2> HIDE DEF s
  <2>4. Works(w, s)
    BY <1>0, <1>13, <2>2 DEF GatePasses, Works, Working, Closing
  <2>5. WorkerInv(s)
    BY <1>0, <1>13, <2>1, <2>2, <2>4 DEF GatePasses, WorkerInv, Works, Working, Closing
  <2> QED
    BY <2>2, <2>3, <2>4, <2>5 DEF GoesOn, Moves
<1>14. ASSUME wk[w].pc = "mark", UNCHANGED daemon, wk' = [wk EXCEPT ![w].pc = "finish"],
             IF wk[w].outcome = "done" THEN MarkDoneGet(w, wk[w].task)
             ELSE MarkFailedGet(w, wk[w].task, wk[w].outcome)
       PROVE Moves(w)
  <2> DEFINE s == [wk[w] EXCEPT !.pc = "finish"]
  <2>1. s \in WorkerState
    BY <1>0, <1>14 DEF MarkGet, WorkerState, Pc
  <2>2. s.task = wk[w].task /\ s.claimed = wk[w].claimed /\ s.pc = "finish" /\ s.outcome = wk[w].outcome
    BY <1>0, <1>14 DEF MarkGet, WorkerState
  <2>3. wk' = [wk EXCEPT ![w] = s] /\ UNCHANGED daemon
    BY <1>14 DEF MarkGet, procVars
  <2> HIDE DEF s
  <2>4. Marks(w, s)
    BY <1>0, <1>14, <2>2 DEF MarkGet, Marks, Working, Closing, WorkerInv
  <2>5. WorkerInv(s)
    BY <1>0, <1>14, <2>1, <2>2, <2>4 DEF MarkGet, WorkerInv, Marks, Working, Closing
  <2> QED
    BY <2>2, <2>3, <2>4, <2>5 DEF GoesOn, Moves
<1>15. ASSUME wk[w].pc = "mark", UNCHANGED daemon, wk' = [wk EXCEPT ![w].pc = "retire"],
             UNCHANGED queueVars
       PROVE Moves(w)
  <2> DEFINE s == [wk[w] EXCEPT !.pc = "retire"]
  <2>1. s \in WorkerState
    BY <1>0, <1>15 DEF MarkGet, WorkerState, Pc
  <2>2. s.task = wk[w].task /\ s.claimed = wk[w].claimed /\ s.pc = "retire"
    BY <1>0, <1>15 DEF MarkGet, WorkerState
  <2>3. wk' = [wk EXCEPT ![w] = s] /\ UNCHANGED daemon
    BY <1>15 DEF MarkGet, procVars
  <2> HIDE DEF s
  <2>4. Closes(w, s)
    BY <1>0, <1>15, <2>2 DEF MarkGet, Closes, Working, Closing
  <2>5. WorkerInv(s)
    BY <1>0, <1>15, <2>1, <2>2, <2>4 DEF MarkGet, WorkerInv, Closes, Working, Closing
  <2> QED
    BY <2>2, <2>3, <2>4, <2>5 DEF GoesOn, Moves
<1>16. ASSUME MarkUpdate(w), wk' = [wk EXCEPT ![w].pc = AfterMark(w, MayFinish(tasks[wk[w].task]))] PROVE Moves(w)
  <2> DEFINE s == [wk[w] EXCEPT !.pc = AfterMark(w, MayFinish(tasks[wk[w].task]))]
  <2>1. s \in WorkerState
    BY <1>0, <1>16 DEF MarkUpdate, WorkerState, Pc, AfterMark, Closing
  <2>2. s.task = wk[w].task /\ s.claimed = wk[w].claimed /\ s.pc \in Closing
    BY <1>0, <1>16 DEF MarkUpdate, WorkerState, AfterMark, Closing
  <2>3. wk' = [wk EXCEPT ![w] = s] /\ UNCHANGED daemon
    BY <1>16 DEF MarkUpdate, procVars, AfterMark, Closing
  <2> HIDE DEF s
  <2>4. HasMarked(w, s)
    BY <1>0, <1>16, <2>2 DEF MarkUpdate, HasMarked, Working, Closing, AfterMark, Closing
  <2>5. WorkerInv(s)
    BY <1>0, <1>16, <2>1, <2>2, <2>4 DEF MarkUpdate, WorkerInv, HasMarked, Working, Closing, AfterMark, Closing
  <2> QED
    BY <2>2, <2>3, <2>4, <2>5 DEF GoesOn, Moves
<1>17. ASSUME MarkUpdate(w), wk' = [wk EXCEPT ![w].pc = "retire"] PROVE Moves(w)
  <2> DEFINE s == [wk[w] EXCEPT !.pc = "retire"]
  <2>1. s \in WorkerState
    BY <1>0, <1>17 DEF MarkUpdate, WorkerState, Pc
  <2>2. s.task = wk[w].task /\ s.claimed = wk[w].claimed /\ s.pc = "retire"
    BY <1>0, <1>17 DEF MarkUpdate, WorkerState
  <2>3. wk' = [wk EXCEPT ![w] = s] /\ UNCHANGED daemon
    BY <1>17 DEF MarkUpdate, procVars
  <2> HIDE DEF s
  <2>4. HasMarked(w, s)
    BY <1>0, <1>17, <2>2 DEF MarkUpdate, HasMarked, Working, Closing
  <2>5. WorkerInv(s)
    BY <1>0, <1>17, <2>1, <2>2, <2>4 DEF MarkUpdate, WorkerInv, HasMarked, Working, Closing
  <2> QED
    BY <2>2, <2>3, <2>4, <2>5 DEF GoesOn, Moves
<1>18. ASSUME EnvelopeClose(w) PROVE Moves(w)
  <2> DEFINE s == [wk[w] EXCEPT !.pc = "retire"]
  <2>1. s \in WorkerState
    BY <1>0, <1>18 DEF EnvelopeClose, WorkerState, Pc
  <2>2. s.task = wk[w].task /\ s.claimed = wk[w].claimed /\ s.pc = "retire"
    BY <1>0, <1>18 DEF EnvelopeClose, WorkerState
  <2>3. wk' = [wk EXCEPT ![w] = s] /\ UNCHANGED daemon
    BY <1>18 DEF EnvelopeClose, procVars
  <2> HIDE DEF s
  <2>4. Closes(w, s)
    BY <1>0, <1>18, <2>2 DEF EnvelopeClose, Closes, Working, Closing
  <2>5. WorkerInv(s)
    BY <1>0, <1>18, <2>1, <2>2, <2>4 DEF EnvelopeClose, WorkerInv, Closes, Working, Closing
  <2> QED
    BY <2>2, <2>3, <2>4, <2>5 DEF GoesOn, Moves
<1>19. ASSUME RetireSession(w) PROVE Moves(w)
  <2> DEFINE s == [wk[w] EXCEPT !.pc = "deliver"]
  <2>1. s \in WorkerState
    BY <1>0, <1>19 DEF RetireSession, WorkerState, Pc
  <2>2. s.task = wk[w].task /\ s.claimed = wk[w].claimed /\ s.pc = "deliver"
    BY <1>0, <1>19 DEF RetireSession, WorkerState
  <2>3. wk' = [wk EXCEPT ![w] = s] /\ UNCHANGED daemon
    BY <1>19 DEF RetireSession, procVars
  <2> HIDE DEF s
  <2>4. Closes(w, s)
    BY <1>0, <1>19, <2>2 DEF RetireSession, Closes, Working, Closing
  <2>5. WorkerInv(s)
    BY <1>0, <1>19, <2>1, <2>2, <2>4 DEF RetireSession, WorkerInv, Closes, Working, Closing
  <2> QED
    BY <2>2, <2>3, <2>4, <2>5 DEF GoesOn, Moves
<1>20. ASSUME Deliver(w) PROVE Moves(w)
  <2>1. WorkerInv(Polling)
    BY DEF WorkerInv, WorkerState, Polling, Pc, SessionVal, NoTask
  <2> QED
    BY <1>20, <2>1 DEF Deliver, Leaves, Moves, procVars
<1> QED
  <2>1. CASE EnvelopeStart(w)
    BY <2>1, <1>2, <1>3 DEF EnvelopeStart
  <2>2. CASE MarkGet(w)
    BY <2>2, <1>14, <1>15 DEF MarkGet, procVars
  <2>3. CASE MarkUpdate(w)
    BY <2>3, <1>16, <1>17 DEF MarkUpdate
  <2> QED
    BY <2>1, <2>2, <2>3, <1>1, <1>4, <1>5, <1>6, <1>7, <1>8, <1>9, <1>10, <1>11, <1>11c, <1>12,
       <1>13, <1>18, <1>19, <1>20 DEF WorkerStep

\* A step of a worker leaves the other variables of the daemon in their types.
LEMMA WorkerTypes ==
    ASSUME DInv, NEW w \in Worker, WorkerStep(w)
    PROVE  OtherTypes'
<1> USE DaemonAssumption
<1>0. OtherTypes /\ (wk[w].pc # "poll" => wk[w].task \in TaskId)
  BY DEF DInv, DaemonTypeOK, OtherTypes, WorkerInv
<1>1. CASE WorkerClaim(w) \/ GateBlocks(w) \/ Watchdog(w) \/ WallClock(w) \/ RunOk(w)
           \/ MarkGet(w) \/ MarkUpdate(w)
  BY <1>0, <1>1 DEF WorkerClaim, GateBlocks, Watchdog, WallClock, RunOk, MarkGet,
     MarkUpdate, OtherTypes, procVars, recordVars
<1>2. CASE EnvelopeStart(w) \/ EnvelopeClose(w)
  BY <1>0, <1>2 DEF EnvelopeStart, EnvelopeClose, OtherTypes, procVars
<1>3. CASE BeginRun(w)
  BY <1>0, <1>3 DEF BeginRun, OtherTypes, procVars, recordVars
<1>4. CASE RunText(w)
  <2>1. /\ wk[w].task \in TaskId /\ beats[wk[w].task] < MaxBeats
        /\ beats' = [beats EXCEPT ![wk[w].task] = beats[wk[w].task] + 1]
    BY <1>0, <1>4 DEF RunText
  <2>2. beats' \in [TaskId -> 0..MaxBeats]
    BY <1>0, <2>1 DEF OtherTypes
  <2> QED
    BY <1>0, <1>4, <2>2 DEF RunText, OtherTypes, procVars, recordVars
<1>5. CASE Bind(w) \/ RunErr(w) \/ Judge(w) \/ RunPanic(w)
  BY <1>0, <1>5 DEF Bind, RunErr, Judge, RunEnds, RunPanic, Unregister, OtherTypes, procVars, recordVars
<1>6. CASE GatePasses(w) \/ RetireSession(w) \/ Deliver(w)
  BY <1>0, <1>6 DEF GatePasses, RetireSession, Deliver, OtherTypes, procVars
<1> QED
  BY <1>1, <1>2, <1>3, <1>4, <1>5, <1>6 DEF WorkerStep

\* So do the start and the end of the process.
LEMMA ProcessTypes ==
    ASSUME DInv, ProcessStep
    PROVE  OtherTypes'
<1> USE DaemonAssumption
<1>0. OtherTypes
  BY DEF DInv, DaemonTypeOK, OtherTypes
<1>1. CASE Open \/ OpenRecover \/ DeliverExisting
  BY <1>0, <1>1 DEF Open, OpenRecover, DeliverExisting, OtherTypes, recordVars
<1>2. CASE Reconcile
  <2>1. \A i \in TaskId : Reconciled(i) \in {"none", "running", "succeeded", "failed"}
    BY <1>0 DEF Reconciled, OtherTypes
  <2> QED
    BY <1>0, <1>2, <2>1 DEF Reconcile, OtherTypes
<1>3. CASE Stop \/ Halt \/ Crash
  BY <1>0, <1>3 DEF Stop, Halt, Crash, OtherTypes, recordVars
<1>4. ASSUME NEW c \in Conn, Connect(c) \/ Hangup(c) PROVE OtherTypes'
  BY <1>0, <1>4 DEF Connect, Hangup, OtherTypes, recordVars
<1> QED
  BY <1>1, <1>2, <1>3, <1>4 DEF ProcessStep

\* CancelRunningTask tells a worker to stop and moves it nowhere.
LEMMA CancelMoves ==
    ASSUME DInv, NEW i \in TaskId, CancelRunningTask(i)
    PROVE  \E w \in Worker, s \in WorkerState :
              /\ WorkerInv(s) /\ wk' = [wk EXCEPT ![w] = s]
              /\ s.pc = wk[w].pc /\ s.task = wk[w].task /\ s.claimed = wk[w].claimed
<1>0. PICK w \in Worker : w = running[i]
  BY DEF CancelRunningTask, DInv, DaemonTypeOK
<1>1. WorkerInv(wk[w]) /\ wk[w] \in WorkerState
  BY DEF DInv, WorkerInv
<1> DEFINE s == [wk[w] EXCEPT !.sig = @ \cup {"manual"}]
<1>2. s \in WorkerState
  BY <1>1 DEF WorkerState
<1>3. s.pc = wk[w].pc /\ s.task = wk[w].task /\ s.claimed = wk[w].claimed
      /\ s.outcome = wk[w].outcome
  BY <1>1 DEF WorkerState
<1>4. wk' = [wk EXCEPT ![w] = s]
  BY <1>0 DEF CancelRunningTask, Signal
<1> HIDE DEF s
<1>5. WorkerInv(s)
  BY <1>1, <1>2, <1>3 DEF WorkerInv
<1> QED
  BY <1>2, <1>3, <1>4, <1>5

\* The invariant holds before the first start.
LEMMA DaemonInitInv == DaemonInit => DInv
<1> SUFFICES ASSUME DaemonInit PROVE DInv
  OBVIOUS
<1>1. IInv
  BY InitInv DEF DaemonInit
<1>2. WorkerInv(Polling)
  BY DaemonAssumption DEF WorkerInv, WorkerState, Polling, Pc, SessionVal, NoTask
<1>3. wk \in [Worker -> WorkerState] /\ \A w \in Worker : WorkerInv(wk[w])
  BY <1>2 DEF DaemonInit, WorkerInv
<1>4. OtherTypes
  BY DaemonAssumption DEF DaemonInit, OtherTypes
<1> QED
  BY <1>1, <1>3, <1>4 DEF DInv, DaemonTypeOK, OtherTypes

\* Every step of the daemon preserves it.
LEMMA DaemonNextInv == DInv /\ [DaemonNext]_vars => DInv'
<1> SUFFICES ASSUME DInv, [DaemonNext]_vars PROVE DInv'
  OBVIOUS
<1> DEFINE Workers == wk \in [Worker -> WorkerState] /\ \A w \in Worker : WorkerInv(wk[w])
<1>0. OtherTypes /\ Workers
  BY DEF DInv, DaemonTypeOK, OtherTypes
<1>1. IInv'
  BY UsesQueue, NextInv DEF DInv
<1>2. OtherTypes' /\ Workers'
  <2>1. CASE Tick /\ UNCHANGED daemonVars
    BY <1>0, <2>1 DEF OtherTypes, daemonVars, procVars, recordVars
  <2>2. CASE ProcessStep
    <3>1. WorkerInv(Polling)
      BY DaemonAssumption DEF WorkerInv, WorkerState, Polling, Pc, SessionVal, NoTask
    <3>2. Workers'
      BY <1>0, <2>2, <3>1 DEF ProcessStep, Open, OpenRecover, DeliverExisting, Reconcile,
         Stop, Halt, Crash, Connect, Hangup, WorkerInv
    <3> QED
      BY <2>2, <3>2, ProcessTypes
  <2>3. ASSUME NEW w \in Worker, WorkerStep(w) PROVE OtherTypes' /\ Workers'
    BY <2>3, WorkerTypes, WorkerMoves, OneWorker DEF Moves
  <2>4. ASSUME NEW i \in TaskId, Beat(i) PROVE OtherTypes' /\ Workers'
    <3>1. beats' \in [TaskId -> 0..MaxBeats]
      BY <1>0, <2>4, DaemonAssumption DEF Beat, OtherTypes
    <3> QED
      BY <1>0, <2>4, <3>1 DEF Beat, OtherTypes, procVars, recordVars
  <2>5. ASSUME NEW i \in TaskId, CancelRunningTask(i) PROVE OtherTypes' /\ Workers'
    <3>1. OtherTypes'
      BY <1>0, <2>5 DEF CancelRunningTask, OtherTypes, procVars, recordVars
    <3> QED
      BY <2>5, <3>1, CancelMoves, OneWorker
  <2>6. ASSUME NEW c \in Client, ClientBegin(c) \/ ClientStep(c) PROVE OtherTypes' /\ Workers'
    BY <1>0, <2>6 DEF ClientBegin, ClientStep, OtherTypes, daemonVars, procVars, recordVars
  <2>7. CASE UNCHANGED vars
    BY <1>0, <2>7 DEF OtherTypes, vars, daemonVars, procVars, recordVars
  <2> QED
    BY <2>1, <2>2, <2>3, <2>4, <2>5, <2>6, <2>7 DEF DaemonNext
<1> QED
  BY <1>1, <1>2 DEF DInv, DaemonTypeOK, OtherTypes

\* The inductive invariant of the daemon's types: the queue's own invariant, the
\* types, and for each worker the fields that belong to its place in the loop.
THEOREM DaemonInvariance == DaemonSpec => []DInv
BY DaemonInitInv, DaemonNextInv, PTL DEF DaemonSpec

\* Type correctness of the daemon's workers, registry, envelopes and process.
THEOREM DaemonTypeCorrect == DaemonSpec => []DaemonTypeOK
<1>1. DInv => DaemonTypeOK
  BY DEF DInv
<1> QED
  BY <1>1, DaemonInvariance, PTL

\* The daemon, its workers and clients, with all their faults, are users of
\* the queue: every behaviour of the daemon is one of QueueSpec, so what is
\* proved of the queue holds inside the daemon.
THEOREM DaemonUsesQueue == DaemonSpec => QueueSpec
<1>1. DaemonInit => QueueInit
  BY DEF DaemonInit
<1>2. DInv /\ [DaemonNext]_vars => [QueueNext]_queueVars
  BY UsesQueue
<1> QED
  BY <1>1, <1>2, DaemonInvariance, PTL DEF DaemonSpec, QueueSpec

\* What the queue promises of every task, its receipt and its key holds of the
\* daemon's, whoever crashes or recovers, and its rows live as the abstract
\* life cycle lets them.
THEOREM DaemonKeepsThePromises ==
    DaemonSpec => /\ [](ReceiptMatchesStatus /\ OneActivePerKey /\ RecoveryBudget)
                  /\ TerminalIsFinal
                  /\ ImplementsLifecycle
BY DaemonUsesQueue, ReceiptsTellTheTruth, KeysAreExclusive, RecoveryIsBounded,
   OutcomesAreFinal, Refinement, PTL

-----------------------------------------------------------------------------
(***************************************************************************)
(* Ownership, when no other process recovers tasks.  The invariant says    *)
(* who may be inside which operation of the queue: marks are the workers'  *)
(* and recoveries the main goroutine's, at a time when there are no        *)
(* workers.                                                                *)
(***************************************************************************)
\* A worker in state s holds its task, whose row is given.
Held(s, row) ==
    /\ s.pc \in Working => row.status = "running" /\ row.started = s.claimed
    /\ s.pc \in Closing =>
          \/ row.status \in Terminal
          \/ row.status = "running" /\ row.started = s.claimed

WorkersHold == \A w \in Worker : Held(wk[w], tasks[wk[w].task])

Roles ==
    /\ \A c \in Client : call[c].op \notin {"finish", "recover"}
    /\ \A w \in Worker :
          /\ call[w].op = IF wk[w].pc = "finish" THEN "finish" ELSE "idle"
          /\ wk[w].pc = "finish" => call[w].task = wk[w].task
    /\ call[Main].op = IF daemon = "opening" THEN "recover" ELSE "idle"
    /\ daemon \in {"up", "stopping"} \/ \A w \in Worker : wk[w].pc = "poll"

OwnInv == DInv /\ WorkersHold /\ ExclusiveExecution /\ Roles

\* A step leaves a claimed or finished row in its state and claim.
Steady(i) ==
    tasks[i].status \in {"running", "done", "failed"}
        => tasks'[i].status = tasks[i].status /\ tasks'[i].started = tasks[i].started

\* A worker that stays where it is keeps a steady row.
LEMMA StaysHeld ==
    ASSUME OwnInv, NEW w \in Worker, wk'[w].pc = wk[w].pc, wk'[w].task = wk[w].task,
           wk'[w].claimed = wk[w].claimed,
           wk[w].pc # "poll" => Steady(wk[w].task)
    PROVE  Held(wk'[w], tasks'[wk'[w].task])
<1>1. Held(wk[w], tasks[wk[w].task])
  BY DEF OwnInv, WorkersHold
<1> QED
  BY <1>1 DEF Held, Steady, Working, Closing, Terminal

\* A row that a worker has is claimed or finished.
LEMMA NotPending ==
    ASSUME OwnInv, NEW w \in Worker, wk[w].pc # "poll"
    PROVE  wk[w].task \in TaskId /\ tasks[wk[w].task].status \in {"running", "done", "failed"}
<1>1. Held(wk[w], tasks[wk[w].task]) /\ WorkerInv(wk[w])
  BY DEF OwnInv, WorkersHold, DInv
<1>2. wk[w].pc \in Working \cup Closing
  BY <1>1 DEF WorkerInv, WorkerState, Pc, Working, Closing
<1> QED
  BY <1>1, <1>2 DEF Held, Terminal, WorkerInv

\* The statements that touch only pending or absent rows, or only the session
\* and the heartbeat of a row.
LEMMA SteadySingle ==
    ASSUME IInv,
           \E i \in TaskId : Claim(i) \/ UpdateProgress(i) \/ \E e \in Session : BindSession(i, e)
    PROVE  \A j \in TaskId : Steady(j)
<1>0. tasks \in [TaskId -> Row]
  BY DEF IInv
<1>1. PICK i \in TaskId : Claim(i) \/ UpdateProgress(i) \/ \E e \in Session : BindSession(i, e)
  OBVIOUS
<1>2. CASE Claim(i)
  <2>1. tasks[i].status = "pending"
    BY <1>2 DEF Claim, Oldest, Pending
  <2>2. \A j \in TaskId : j # i => tasks'[j] = tasks[j]
    BY <1>0, <1>2 DEF Claim
  <2> QED
    BY <2>1, <2>2 DEF Steady
<1>3. CASE UpdateProgress(i)
  BY <1>0, <1>3 DEF UpdateProgress, Steady, Row
<1>4. ASSUME NEW e \in Session, BindSession(i, e) PROVE \A j \in TaskId : Steady(j)
  <2> DEFINE row == [tasks[i] EXCEPT !.session = e, !.updated = now]
  <2>1. row.status = tasks[i].status /\ row.started = tasks[i].started
    BY <1>0 DEF Row
  <2>2. tasks' = [tasks EXCEPT ![i] = row]
    BY <1>4 DEF BindSession
  <2> HIDE DEF row
  <2> QED
    BY <1>0, <2>1, <2>2 DEF Steady
<1> QED
  BY <1>1, <1>2, <1>3, <1>4

\* The statements of a client leave claimed and finished rows in their status.
LEMMA SteadyClient ==
    ASSUME IInv, NEW c \in Caller, call[c].op \notin {"finish", "recover"}, Step(c)
    PROVE  \A j \in TaskId : Steady(j)
<1>0. tasks \in [TaskId -> Row] /\ CallInv(call[c], now)
  BY DEF IInv
<1>1. CASE EnqueueInsert(c)
  <2>1. CASE UNCHANGED tasks
    BY <2>1 DEF Steady
  <2>2. CASE \E i \in TaskId : IsNextId(i) /\ tasks' = [tasks EXCEPT ![i] =
                NewRow(call[c].key, call[c].session, call[c].route, call[c].at)]
    BY <1>0, <2>2 DEF IsNextId, Steady
  <2> QED
    BY <1>1, <2>1, <2>2 DEF EnqueueInsert
<1>2. CASE AnnotateUpdate(c)
  <2>1. PICK i \in TaskId : i = call[c].task
    BY <1>0, <1>2 DEF AnnotateUpdate, CallInv
  <2>2. tasks' = tasks \/ tasks' = [tasks EXCEPT ![i].updated = now]
    BY <1>2, <2>1 DEF AnnotateUpdate
  <2> QED
    BY <1>0, <2>2 DEF Steady, Row
<1>3. CASE CancelUpdate(c)
  <2>1. PICK i \in TaskId : i = call[c].task
    BY <1>0, <1>3 DEF CancelUpdate, CallInv
  <2>2. \A j \in TaskId : j # i => tasks'[j] = tasks[j]
    BY <1>0, <1>3, <2>1 DEF CancelUpdate
  <2>3. tasks[i].status # "pending" => tasks'[i] = tasks[i]
    BY <1>0, <1>3, <2>1 DEF CancelUpdate, MayCancel
  <2> QED
    BY <2>2, <2>3 DEF Steady
<1>4. CASE EnqueueLookup(c) \/ EnqueueRelookup(c) \/ CancelBuild(c) \/ AbortCall(c)
  BY <1>4 DEF EnqueueLookup, EnqueueRelookup, CancelBuild, AbortCall, Steady
<1> QED
  BY <1>1, <1>2, <1>3, <1>4 DEF Step, FinishUpdate, RecoverTx

\* The calls of one caller do not touch those of another.
CallOnly(c) ==
    \A d \in Caller : d # c => call'[d] = call[d]

\* Beginning or continuing an operation changes the caller's record alone.
LEMMA BeginsAndSteps ==
    ASSUME IInv, NEW c \in Caller
    PROVE  /\ Begin(c) \/ Step(c) => CallOnly(c)
           /\ Step(c) => now' = now
           /\ Begin(c) => UNCHANGED <<tasks, now>>
<1> USE DEF IInv, CallOnly, Return
<1>1. ASSUME Step(c) PROVE CallOnly(c) /\ now' = now
  BY <1>1 DEF Step, EnqueueLookup, EnqueueInsert, EnqueueRelookup, AnnotateUpdate,
     FinishUpdate, CancelBuild, CancelUpdate, RecoverTx, AbortCall
<1>2. ASSUME Begin(c) PROVE CallOnly(c) /\ UNCHANGED <<tasks, now>>
  BY <1>2 DEF Begin, EnqueueStart, AnnotateGet, MarkDoneGet, MarkFailedGet, CancelTask,
     CancelPendingTask, CancelSelect, RecoverStart
<1> QED
  BY <1>1, <1>2

\* A client that is not another daemon neither marks nor recovers.
LEMMA ClientRole ==
    ASSUME OwnInv, "foreign" \notin Fault, NEW c \in Client,
           ClientBegin(c) \/ ClientStep(c)
    PROVE  call'[c].op \notin {"finish", "recover"}
<1>0. c \in Caller /\ call \in [Caller -> Call] /\ call[c].op \notin {"finish", "recover"}
  BY Callers DEF OwnInv, DInv, IInv, Roles
<1>1. CASE ClientBegin(c)
  BY <1>0, <1>1 DEF ClientBegin, EnqueueStart, CancelTask, CancelSelect, CancelPendingTask,
     AnnotateGet, NoCall
<1>2. CASE ClientStep(c)
  BY <1>0, <1>2 DEF ClientStep, Step, EnqueueLookup, EnqueueInsert, EnqueueRelookup,
     AnnotateUpdate, FinishUpdate, CancelBuild, CancelUpdate, RecoverTx, AbortCall, Return,
     NoCall, Call
<1> QED
  BY <1>1, <1>2

\* A client takes no task away from its worker.
LEMMA ClientOwn ==
    ASSUME OwnInv, "foreign" \notin Fault, NEW c \in Client,
           ClientBegin(c) \/ ClientStep(c)
    PROVE  WorkersHold' /\ ExclusiveExecution' /\ Roles'
<1>0. IInv /\ c \in Caller /\ call[c].op \notin {"finish", "recover"}
  BY Callers DEF OwnInv, DInv, Roles
<1>1. wk' = wk /\ daemon' = daemon
  BY DEF ClientBegin, ClientStep, daemonVars, procVars
<1>2. \A j \in TaskId : Steady(j)
  <2>1. CASE ClientStep(c)
    BY <2>1, <1>0, SteadyClient DEF ClientStep
  <2>2. CASE ClientBegin(c)
    BY <2>2 DEF ClientBegin, EnqueueStart, CancelTask, CancelSelect, CancelPendingTask,
       AnnotateGet, RecoverStart, Steady
  <2> QED
    BY <2>1, <2>2
<1>3. WorkersHold'
  BY <1>1, <1>2, StaysHeld, NotPending DEF WorkersHold
<1>4. CallOnly(c)
  <2>1. CASE ClientBegin(c)
    BY <1>0, <2>1 DEF ClientBegin, EnqueueStart, CancelTask, CancelSelect, CancelPendingTask,
       AnnotateGet, RecoverStart, CallOnly, IInv
  <2>2. CASE ClientStep(c)
    BY <1>0, <2>2, BeginsAndSteps DEF ClientStep
  <2> QED
    BY <2>1, <2>2
<1>5. Roles'
  BY <1>1, <1>4, ClientRole, Callers DEF Roles, OwnInv, CallOnly
<1> QED
  BY <1>1, <1>3, <1>5 DEF OwnInv, ExclusiveExecution

\* The step of a worker changes at most its own call.
LEMMA WorkerCall ==
    ASSUME OwnInv, NEW w \in Worker, NEW s, WorkerInv(s), wk' = [wk EXCEPT ![w] = s],
           UNCHANGED daemon, CallOnly(w),
           call'[w].op = IF s.pc = "finish" THEN "finish" ELSE "idle",
           s.pc = "finish" => call'[w].task = s.task,
           daemon \in {"up", "stopping"} \/ s.pc = "poll"
    PROVE  Roles'
<1>1. wk'[w] = s /\ \A v \in Worker : v # w => wk'[v] = wk[v]
  BY DEF OwnInv, DInv, DaemonTypeOK
<1>2. \A c \in Client : call'[c] = call[c]
  BY Callers DEF CallOnly
<1>3. call'[Main] = call[Main] /\ \A v \in Worker : v # w => call'[v] = call[v]
  BY Callers DEF CallOnly
<1> QED
  BY <1>1, <1>2, <1>3 DEF Roles, OwnInv

\* A step of a worker takes no task away from another worker.
LEMMA WorkerOwn ==
    ASSUME OwnInv, NEW w \in Worker, WorkerStep(w)
    PROVE  WorkersHold' /\ ExclusiveExecution' /\ Roles'
<1>0. /\ DInv /\ IInv /\ w \in Caller /\ WorkerInv(wk[w])
      /\ tasks \in [TaskId -> Row] /\ call \in [Caller -> Call]
      /\ wk \in [Worker -> WorkerState]
  BY Callers DEF OwnInv, DInv, IInv, DaemonTypeOK
<1>1. PICK s : /\ WorkerInv(s) /\ wk' = [wk EXCEPT ![w] = s]
               /\ Takes(w, s) \/ GoesOn(w, s) \/ Leaves(w, s)
               /\ daemon' = daemon
  BY <1>0, WorkerMoves DEF Moves
<1>2. wk'[w] = s /\ \A v \in Worker : v # w => wk'[v] = wk[v]
  BY <1>0, <1>1
\* Others keep their tasks when their rows are steady.
<1>3. ASSUME \A v \in Worker : v # w /\ wk[v].pc # "poll" => Steady(wk[v].task),
             Held(s, tasks'[s.task])
      PROVE  WorkersHold'
  <2>1. \A v \in Worker : v # w => Held(wk'[v], tasks'[wk'[v].task])
    BY <1>2, <1>3, StaysHeld
  <2> QED
    BY <1>2, <1>3, <2>1 DEF WorkersHold
<1>4. CASE Takes(w, s)
  <2>1. \A j \in TaskId : Steady(j)
    BY <1>0, <1>4, SteadySingle DEF Takes
  <2>2. tasks'[s.task].status = "running" /\ tasks'[s.task].started = s.claimed
    BY <1>0, <1>4 DEF Takes, Claim, Row
  <2>3. tasks[s.task].status = "pending"
    BY <1>4 DEF Takes, Claim, Oldest, Pending
  <2>4. WorkersHold'
    BY <1>3, <1>4, <2>1, <2>2, NotPending DEF Held, Takes, Working, Closing
  <2>5. \A v \in Worker : v # w /\ wk[v].pc # "poll" => wk[v].task # s.task
    BY <2>3, NotPending
  <2>6. ExclusiveExecution'
    BY <1>2, <2>5 DEF ExclusiveExecution, OwnInv
  <2>7. Roles'
    BY <1>0, <1>1, <1>4, WorkerCall DEF Takes, Claim, CallOnly, Roles, OwnInv
  <2> QED
    BY <2>4, <2>6, <2>7
<1>5. ASSUME GoesOn(w, s) PROVE ExclusiveExecution' /\ (daemon \in {"up", "stopping"})
  <2>1. wk[w].pc # "poll" /\ s.task = wk[w].task
    BY <1>5 DEF GoesOn, Works, Marks, HasMarked, Closes, Working, Closing
  <2>2. ExclusiveExecution'
    BY <1>2, <2>1 DEF ExclusiveExecution, OwnInv
  <2> QED
    BY <2>1, <2>2 DEF OwnInv, Roles
<1>6. CASE GoesOn(w, s) /\ (Works(w, s) \/ Closes(w, s) \/ Marks(w, s))
  <2>0. s.task = wk[w].task /\ s.claimed = wk[w].claimed /\ wk[w].pc # "poll"
    BY <1>6 DEF GoesOn, Works, Closes, Marks, Working, Closing
  <2>1. \A j \in TaskId : Steady(j)
    <3>1. CASE UNCHANGED tasks
      BY <3>1 DEF Steady
    <3>2. CASE \E e \in Session : BindSession(wk[w].task, e)
      BY <1>0, <2>0, <3>2, SteadySingle, NotPending
    <3> QED
      BY <1>6, <3>1, <3>2 DEF Works, Closes, Marks, MarkDoneGet, MarkFailedGet, queueVars
  <2>2. Held(wk[w], tasks[wk[w].task]) /\ Steady(wk[w].task)
    BY <2>0, <2>1, NotPending DEF OwnInv, WorkersHold
  <2>3. Held(s, tasks'[s.task])
    BY <1>6, <2>0, <2>2 DEF Works, Closes, Marks, Held, Steady, Working, Closing, Terminal
  <2>4. WorkersHold'
    BY <1>3, <2>1, <2>3, NotPending
  <2>5. /\ CallOnly(w)
        /\ call'[w].op = IF s.pc = "finish" THEN "finish" ELSE "idle"
        /\ s.pc = "finish" => call'[w].task = s.task
    <3>1. CASE Works(w, s) \/ Closes(w, s)
      BY <3>1 DEF Works, Closes, BindSession, CallOnly, queueVars, Working, Closing, Roles, OwnInv
    <3>2. CASE Marks(w, s)
      BY <1>0, <2>0, <3>2 DEF Marks, MarkDoneGet, MarkFailedGet, CallOnly, NoCall
    <3> QED
      BY <1>6, <3>1, <3>2
  <2>6. Roles'
    BY <1>1, <1>5, <1>6, <2>5, WorkerCall
  <2> QED
    BY <1>5, <1>6, <2>4, <2>6
<1>7. CASE GoesOn(w, s) /\ HasMarked(w, s)
  <2>0. /\ s.task = wk[w].task /\ s.claimed = wk[w].claimed /\ wk[w].pc = "finish"
        /\ s.pc \in Closing /\ call[w].task = wk[w].task
    BY <1>7 DEF GoesOn, HasMarked, OwnInv, Roles
  <2>1. \A j \in TaskId : j # wk[w].task => Steady(j)
    BY <1>0, <1>7, <2>0 DEF HasMarked, FinishUpdate, AbortCall, Steady
  <2>2. \A v \in Worker : v # w /\ wk[v].pc # "poll" => wk[v].task # wk[w].task
    BY <2>0 DEF ExclusiveExecution, OwnInv
  <2>3. Held(s, tasks'[s.task])
    <3>1. tasks[wk[w].task].status = "running" /\ tasks[wk[w].task].started = wk[w].claimed
      BY <2>0 DEF OwnInv, WorkersHold, Held, Working
    <3>2. wk[w].task \in TaskId
      BY <2>0, NotPending
    <3>3. CASE AbortCall(w)
      BY <2>0, <3>1, <3>3 DEF AbortCall, Held, Working, Closing
    <3>4. CASE FinishUpdate(w)
      <4>1. call[w].draft \in Completion
        BY <1>0, <3>4 DEF IInv, CallInv, FinishUpdate
      <4>2. tasks'[wk[w].task] = Finished(tasks[wk[w].task], call[w].draft)
        BY <1>0, <2>0, <3>1, <3>2, <3>4 DEF FinishUpdate, MayFinish
      <4>3. Finished(tasks[wk[w].task], call[w].draft).status = call[w].draft.status
        BY <1>0, <3>2 DEF Finished, Row
      <4> QED
        BY <2>0, <4>1, <4>2, <4>3 DEF Held, Working, Closing, Completion
    <3> QED
      BY <1>7, <3>3, <3>4 DEF HasMarked
  <2>4. WorkersHold'
    BY <1>3, <2>1, <2>2, <2>3, NotPending
  <2>5. CallOnly(w) /\ call'[w].op = "idle" /\ s.pc # "finish"
    BY <1>0, <1>7, <2>0 DEF HasMarked, FinishUpdate, AbortCall, Return, CallOnly, NoCall, Closing
  <2>6. Roles'
    BY <1>1, <1>5, <1>7, <2>5, WorkerCall
  <2> QED
    BY <1>5, <1>7, <2>4, <2>6
<1>8. CASE Leaves(w, s)
  <2>1. s.pc = "poll"
    BY <1>8 DEF Leaves, Polling
  <2>2. \A j \in TaskId : Steady(j)
    BY <1>8 DEF Leaves, queueVars, Steady
  <2>3. WorkersHold'
    BY <1>3, <2>1, <2>2, NotPending DEF Held, Working, Closing
  <2>4. ExclusiveExecution'
    BY <1>2, <2>1 DEF ExclusiveExecution, OwnInv
  <2>5. CallOnly(w) /\ call'[w].op = "idle"
    BY <1>8 DEF Leaves, queueVars, CallOnly, Roles, OwnInv
  <2>6. Roles'
    BY <1>1, <2>1, <2>5, WorkerCall
  <2> QED
    BY <2>3, <2>4, <2>6
<1> QED
  BY <1>1, <1>4, <1>6, <1>7, <1>8 DEF GoesOn

\* Neither does the start, the stop or the death of the process.
LEMMA ProcessOwn ==
    ASSUME OwnInv, ProcessStep
    PROVE  WorkersHold' /\ ExclusiveExecution' /\ Roles'
<1>0. call \in [Caller -> Call] /\ wk \in [Worker -> WorkerState] /\ IInv
  BY DEF OwnInv, DInv, IInv, DaemonTypeOK
<1>a. Polling.pc = "poll" /\ NoCall.op = "idle"
  BY DEF Polling, NoCall
\* While no worker has a task there is nothing to hold.
<1>1. ASSUME \A w \in Worker : wk'[w].pc = "poll" PROVE WorkersHold' /\ ExclusiveExecution'
  BY <1>1 DEF WorkersHold, ExclusiveExecution, Held, Working, Closing
<1>2. CASE Open
  <2>1. /\ call' = [call EXCEPT ![Main] = [NoCall EXCEPT !.op = "recover", !.at = now]]
        /\ daemon = "down" /\ daemon' = "opening" /\ wk' = wk
    BY <1>2 DEF Open, RecoverStart
  <2>2. call'[Main].op = "recover" /\ \A c \in Caller : c # Main => call'[c] = call[c]
    BY <1>0, <2>1, Callers DEF NoCall
  <2> QED
    BY <1>1, <2>1, <2>2, Callers DEF Roles, OwnInv
<1>3. CASE OpenRecover
  <2>1. call' = [call EXCEPT ![Main] = NoCall] /\ daemon = "opening" /\ wk' = wk
        /\ daemon' \in {"starting", "down"}
    BY <1>3 DEF OpenRecover, RecoverTx, AbortCall, Return
  <2>2. call'[Main].op = "idle" /\ \A c \in Caller : c # Main => call'[c] = call[c]
    BY <1>0, <1>a, <2>1, Callers
  <2> QED
    BY <1>1, <2>1, <2>2, Callers DEF Roles, OwnInv
<1>4. CASE DeliverExisting \/ Reconcile
  <2>1. wk' = wk /\ call' = call /\ tasks' = tasks /\ daemon \in {"starting", "reconciling"}
        /\ daemon' \in {"reconciling", "up"}
    BY <1>4 DEF DeliverExisting, Reconcile, queueVars
  <2> QED
    BY <1>1, <2>1 DEF Roles, OwnInv
<1>5. CASE Stop
  <2>1. wk' = wk /\ call' = call /\ tasks' = tasks /\ daemon = "up" /\ daemon' = "stopping"
    BY <1>5 DEF Stop, queueVars
  <2> QED
    BY <2>1 DEF Roles, OwnInv, WorkersHold, ExclusiveExecution
<1>6. CASE Halt
  <2>1. wk' = wk /\ call' = call /\ daemon = "stopping" /\ daemon' = "down"
        /\ \A w \in Worker : wk[w].pc = "poll"
    BY <1>6 DEF Halt, queueVars
  <2> QED
    BY <1>1, <2>1 DEF Roles, OwnInv
<1>7. CASE Crash
  <2>1. /\ call' = [c \in Caller |-> IF c \in Worker \cup {Main} THEN NoCall ELSE call[c]]
        /\ wk' = [w \in Worker |-> Polling] /\ daemon' = "down"
    BY <1>7 DEF Crash, Die
  <2>2. \A w \in Worker : wk'[w].pc = "poll" /\ call'[w].op = "idle"
    BY <1>a, <2>1, Callers
  <2>3. call'[Main].op = "idle" /\ \A c \in Client : call'[c] = call[c]
    BY <1>a, <2>1, Callers
  <2> QED
    BY <1>1, <2>1, <2>2, <2>3 DEF Roles, OwnInv
<1>8. ASSUME NEW c \in Conn, Connect(c) \/ Hangup(c)
      PROVE  WorkersHold' /\ ExclusiveExecution' /\ Roles'
  <2>1. wk' = wk /\ call' = call /\ tasks' = tasks /\ daemon' = daemon
    BY <1>8 DEF Connect, Hangup, queueVars
  <2> QED
    BY <2>1 DEF Roles, OwnInv, WorkersHold, ExclusiveExecution
<1> QED
  BY <1>2, <1>3, <1>4, <1>5, <1>6, <1>7, <1>8 DEF ProcessStep

\* Ownership is preserved by every step.
LEMMA OwnNext ==
    ASSUME "foreign" \notin Fault
    PROVE  OwnInv /\ [DaemonNext]_vars => OwnInv'
<1> SUFFICES ASSUME OwnInv, [DaemonNext]_vars PROVE OwnInv'
  OBVIOUS
<1> DEFINE Owned == WorkersHold /\ ExclusiveExecution /\ Roles
<1>0. IInv /\ wk \in [Worker -> WorkerState]
  BY DEF OwnInv, DInv, DaemonTypeOK
<1>1. DInv'
  BY DaemonNextInv DEF OwnInv
<1>2. ASSUME UNCHANGED <<tasks, call, wk, daemon>> PROVE Owned'
  BY <1>2 DEF OwnInv, WorkersHold, ExclusiveExecution, Roles
<1>3. ASSUME Tick, UNCHANGED daemonVars PROVE Owned'
  BY <1>2, <1>3 DEF Tick, daemonVars, procVars
<1>4. ASSUME UNCHANGED vars PROVE Owned'
  BY <1>2, <1>4 DEF vars, queueVars, daemonVars, procVars
<1>5. ASSUME NEW i \in TaskId, Beat(i) PROVE Owned'
  <2>1. wk' = wk /\ daemon' = daemon /\ call' = call
    BY <1>5 DEF Beat, procVars, queueVars, UpdateProgress
  <2>2. \A j \in TaskId : Steady(j)
    <3>1. CASE UpdateProgress(i)
      BY <1>0, <3>1, SteadySingle
    <3>2. CASE UNCHANGED queueVars
      BY <3>2 DEF queueVars, Steady
    <3> QED
      BY <1>5, <3>1, <3>2 DEF Beat
  <2>3. WorkersHold'
    BY <2>1, <2>2, StaysHeld, NotPending DEF WorkersHold
  <2> QED
    BY <2>1, <2>3 DEF OwnInv, ExclusiveExecution, Roles
<1>6. ASSUME NEW i \in TaskId, CancelRunningTask(i) PROVE Owned'
  <2>1. PICK w \in Worker, s \in WorkerState :
           /\ WorkerInv(s) /\ wk' = [wk EXCEPT ![w] = s]
           /\ s.pc = wk[w].pc /\ s.task = wk[w].task /\ s.claimed = wk[w].claimed
    BY <1>6, CancelMoves DEF OwnInv
  <2>2. \A v \in Worker : /\ wk'[v].pc = wk[v].pc /\ wk'[v].task = wk[v].task
                          /\ wk'[v].claimed = wk[v].claimed
    BY <1>0, <2>1
  <2>3. tasks' = tasks /\ call' = call /\ daemon' = daemon
    BY <1>6 DEF CancelRunningTask, queueVars, procVars
  <2>4. WorkersHold'
    BY <2>2, <2>3, StaysHeld DEF WorkersHold, Steady
  <2> QED
    BY <2>2, <2>3, <2>4 DEF OwnInv, ExclusiveExecution, Roles
<1>7. Owned'
  BY <1>3, <1>4, <1>5, <1>6, WorkerOwn, ProcessOwn, ClientOwn DEF DaemonNext
<1> QED
  BY <1>1, <1>7 DEF OwnInv

\* Ownership holds before the first start.
LEMMA OwnInit == DaemonInit => OwnInv
<1> SUFFICES ASSUME DaemonInit PROVE OwnInv
  OBVIOUS
<1>1. \A w \in Worker : wk[w].pc = "poll" /\ call[w].op = "idle"
  BY Callers DEF DaemonInit, QueueInit, Polling, NoCall
<1>2. call[Main].op = "idle" /\ \A c \in Client : call[c].op = "idle"
  BY Callers DEF DaemonInit, QueueInit, NoCall
<1>3. daemon = "down"
  BY DEF DaemonInit
<1>4. WorkersHold /\ ExclusiveExecution
  BY <1>1 DEF WorkersHold, ExclusiveExecution, Held, Working, Closing
<1> QED
  BY <1>1, <1>2, <1>3, <1>4, DaemonInitInv DEF OwnInv, Roles

\* When no other process recovers stale tasks, a worker owns the task it works
\* on until it has marked it, through crashes, restarts, failing statements,
\* cancellations and late progress updates, for any number of workers, clients
\* and tasks.
THEOREM WorkersOwnTheirTasks ==
    ASSUME "foreign" \notin Fault
    PROVE  DaemonSpec => []ClaimIsHeld
<1>1. OwnInv => ClaimIsHeld
  BY DEF OwnInv, WorkersHold, Held, ClaimIsHeld
<1> QED
  BY <1>1, OwnInit, OwnNext, PTL DEF DaemonSpec

\* Under the same condition no task is ever executed by two workers.
THEOREM TasksRunOnce ==
    ASSUME "foreign" \notin Fault
    PROVE  DaemonSpec => []ExclusiveExecution
<1>1. OwnInv => ExclusiveExecution
  BY DEF OwnInv
<1> QED
  BY <1>1, OwnInit, OwnNext, PTL DEF DaemonSpec

-----------------------------------------------------------------------------
(***************************************************************************)
(* The registry.                                                           *)
(***************************************************************************)
InRunTask == {"run", "judge", "bind"}

\* Worker w moves and the registry stays.
LEMMA RegistryKept ==
    ASSUME RegistryTracksRunners, OwnInv, NEW w \in Worker, running' = running,
           \A v \in Worker : v # w => wk'[v] = wk[v],
           wk'[w].pc \in InRunTask <=> wk[w].pc \in InRunTask,
           wk[w].pc \in InRunTask => wk'[w].task = wk[w].task
    PROVE  RegistryTracksRunners'
BY DEF RegistryTracksRunners, InRunTask

LEMMA RegistryWorker ==
    ASSUME RegistryTracksRunners, OwnInv, NEW w \in Worker, WorkerStep(w)
    PROVE  RegistryTracksRunners'
<1>0. /\ wk \in [Worker -> WorkerState] /\ WorkerInv(wk[w])
      /\ running \in [TaskId -> Worker \cup {NoWorker}] /\ NoWorker \notin Worker
  BY DaemonAssumption DEF OwnInv, DInv, DaemonTypeOK
<1>1. \A v \in Worker : v # w => wk'[v] = wk[v]
  BY <1>0, WorkerMoves DEF Moves, OwnInv
<1>2. CASE WorkerClaim(w)
  <2>1. wk[w].pc = "poll" /\ wk'[w].pc = "envelope" /\ running' = running
    BY <1>0, <1>2 DEF WorkerClaim, Polling
  <2> QED
    BY <1>1, <2>1, RegistryKept DEF InRunTask
<1>3. CASE EnvelopeStart(w) \/ GateBlocks(w) \/ GatePasses(w)
  <2>1. wk[w].pc \in {"envelope", "gate", "evaluate"} /\ wk'[w].pc \in {"gate", "mark"}
        /\ running' = running
    BY <1>0, <1>3 DEF EnvelopeStart, GateBlocks, GatePasses, WorkerState
  <2> QED
    BY <1>1, <2>1, RegistryKept DEF InRunTask
<1>4. CASE RunText(w) \/ Watchdog(w) \/ WallClock(w) \/ RunOk(w)
  <2>1. wk[w].pc \in InRunTask /\ wk'[w].pc \in InRunTask /\ wk'[w].task = wk[w].task
        /\ running' = running
    BY <1>0, <1>4 DEF RunText, Watchdog, WallClock, RunOk, Signal, WorkerState, InRunTask
  <2> QED
    BY <1>1, <2>1, RegistryKept
<1>5. CASE MarkGet(w) \/ EnvelopeClose(w) \/ RetireSession(w)
  <2>1. wk[w].pc \notin InRunTask /\ wk'[w].pc \notin InRunTask /\ running' = running
    BY <1>0, <1>5 DEF MarkGet, EnvelopeClose, RetireSession, WorkerState, InRunTask
  <2> QED
    BY <1>1, <2>1, RegistryKept
<1>6. CASE MarkUpdate(w)
  <2>1. wk[w].pc \notin InRunTask /\ wk'[w].pc \notin InRunTask /\ running' = running
    BY <1>0, <1>6 DEF MarkUpdate, AfterMark, WorkerState, InRunTask
  <2> QED
    BY <1>1, <2>1, RegistryKept
<1>7. CASE Deliver(w)
  <2>1. wk[w].pc \notin InRunTask /\ wk'[w].pc \notin InRunTask /\ running' = running
    BY <1>0, <1>7 DEF Deliver, Polling, InRunTask
  <2> QED
    BY <1>1, <2>1, RegistryKept
<1>8. CASE BeginRun(w)
  <2>1. /\ wk[w].pc = "gate" /\ wk'[w].pc = "run" /\ wk'[w].task = wk[w].task
        /\ running' = [running EXCEPT ![wk[w].task] = w] /\ wk[w].task \in TaskId
    BY <1>0, <1>8 DEF BeginRun, WorkerState, WorkerInv
  <2>2. \A v \in Worker : v # w /\ wk[v].pc \in InRunTask => wk[v].task # wk[w].task
    BY <2>1 DEF OwnInv, ExclusiveExecution, InRunTask
  <2> QED
    BY <1>0, <1>1, <2>1, <2>2 DEF RegistryTracksRunners, InRunTask
<1>9a. CASE RunErr(w) /\ running' = running /\ wk'[w].pc = "judge"
  <2>1. wk[w].pc \in InRunTask /\ wk'[w].task = wk[w].task
    BY <1>0, <1>9a DEF RunErr, RunEnds, WorkerState, InRunTask
  <2> QED
    BY <1>1, <1>9a, <2>1, RegistryKept DEF InRunTask
<1>9. CASE \/ Bind(w) \/ Judge(w) \/ RunPanic(w)
           \/ RunErr(w) /\ ~(running' = running /\ wk'[w].pc = "judge")
  <2>1. /\ wk[w].pc \in InRunTask /\ wk'[w].pc \in {"evaluate", "mark"}
        /\ running' = [running EXCEPT ![wk[w].task] = NoWorker] /\ wk[w].task \in TaskId
    BY <1>0, <1>9 DEF Bind, RunErr, Judge, RunEnds, RunPanic, Unregister, WorkerState, WorkerInv, InRunTask
  <2>2. \A v \in Worker : v # w /\ wk[v].pc \in InRunTask => wk[v].task # wk[w].task
    BY <2>1 DEF OwnInv, ExclusiveExecution, InRunTask
  <2> QED
    BY <1>0, <1>1, <2>1, <2>2 DEF RegistryTracksRunners, InRunTask
<1> QED
  BY <1>2, <1>3, <1>4, <1>5, <1>6, <1>7, <1>8, <1>9, <1>9a DEF WorkerStep

LEMMA RegistryNext ==
    ASSUME RegistryTracksRunners, OwnInv, [DaemonNext]_vars
    PROVE  RegistryTracksRunners'
<1>0. /\ wk \in [Worker -> WorkerState] /\ NoWorker \notin Worker /\ DInv
      /\ running \in [TaskId -> Worker \cup {NoWorker}]
  BY DaemonAssumption DEF OwnInv, DInv, DaemonTypeOK
<1>1. ASSUME wk' = wk, running' = running PROVE RegistryTracksRunners'
  BY <1>1 DEF RegistryTracksRunners
<1>2. CASE (Tick /\ UNCHANGED daemonVars) \/ UNCHANGED vars
           \/ (\E c \in Client : ClientBegin(c) \/ ClientStep(c)) \/ \E i \in TaskId : Beat(i)
  BY <1>1, <1>2 DEF ClientBegin, ClientStep, Beat, daemonVars, vars
<1>3. CASE Open \/ OpenRecover \/ DeliverExisting \/ Reconcile \/ Stop \/ Halt
           \/ \E c \in Conn : Connect(c) \/ Hangup(c)
  BY <1>1, <1>3 DEF Open, OpenRecover, DeliverExisting, Reconcile, Stop, Halt, Connect, Hangup
<1>4. CASE Crash
  BY <1>0, <1>4 DEF Crash, Polling, RegistryTracksRunners
<1>5. ASSUME NEW i \in TaskId, CancelRunningTask(i) PROVE RegistryTracksRunners'
  <2>1. PICK w \in Worker, s \in WorkerState :
           /\ WorkerInv(s) /\ wk' = [wk EXCEPT ![w] = s]
           /\ s.pc = wk[w].pc /\ s.task = wk[w].task /\ s.claimed = wk[w].claimed
    BY <1>0, <1>5, CancelMoves
  <2>2. running' = running
    BY <1>5 DEF CancelRunningTask
  <2> QED
    BY <1>0, <2>1, <2>2, RegistryKept
<1> QED
  BY <1>2, <1>3, <1>4, <1>5, RegistryWorker DEF DaemonNext, ProcessStep

\* Under the same condition the registry of cancel functions holds exactly the
\* tasks inside runTask, each under its runner: task_stop reaches every running
\* task, and nothing else, although entries are deleted by task id.
THEOREM RegistryIsExact ==
    ASSUME "foreign" \notin Fault
    PROVE  DaemonSpec => []RegistryTracksRunners
<1>1. DaemonInit => RegistryTracksRunners
  BY DaemonAssumption DEF DaemonInit, RegistryTracksRunners, Polling
<1>2. OwnInv /\ RegistryTracksRunners /\ [DaemonNext]_vars => RegistryTracksRunners'
  BY RegistryNext
<1> QED
  BY <1>1, <1>2, OwnInit, OwnNext, PTL DEF DaemonSpec

-----------------------------------------------------------------------------
(***************************************************************************)
(* What is recorded of a task, whatever fails: when another process gives  *)
(* a running task away two workers may have it, and only the one whose     *)
(* mark the queue accepts may say how it ended.  The invariant follows the *)
(* outcome of a worker from the verdict through the drafted receipt to the *)
(* row, and the passed gate from its record to the mark.                   *)
(***************************************************************************)
\* The status and the cause a worker in state s records.
Ends(s) == IF s.outcome = "done" THEN "done" ELSE "failed"
EndCause(s) == IF s.outcome = "done" THEN "none" ELSE s.outcome

\* A worker that is marking drafted the receipt of its own outcome.
Marking(s, cl) ==
    s.pc = "finish" => /\ cl.op = "finish" /\ cl.task = s.task
                       /\ cl.draft.status = Ends(s)
                       /\ cl.draft.cause = EndCause(s)

\* A worker closes an envelope only after its own mark ended the row.
Closed(s, row) == s.pc = "close" => row.status = Ends(s)

\* A worker about to mark a gated task done has the record of its gate.
GateRecorded(s, records) ==
    s.pc \in {"mark", "finish"} /\ s.outcome = "done" /\ s.task \in Gated
        => s.task \in records

Truthful(w) ==
    /\ Marking(wk[w], call[w])
    /\ Closed(wk[w], tasks[wk[w].task])
    /\ GateRecorded(wk[w], passed)

ClientsNeverMark == \A c \in Client : call[c].op # "finish"

TruthInv ==
    /\ DInv
    /\ ClientsNeverMark
    /\ \A w \in Worker : Truthful(w)
    /\ EnvelopeNeverAhead
    /\ DoneThroughGate

\* No row becomes done.
NoneDone == \A i \in TaskId : tasks'[i].status = "done" => tasks[i].status = "done"

\* No row becomes done or failed.
NoneEnds == \A i \in TaskId : tasks'[i].status \in Terminal => tasks[i].status \in Terminal

\* A finished row keeps its status and receipt in every step of the daemon.
LEMMA FinishedStays ==
    ASSUME DInv, [DaemonNext]_vars, NEW i \in TaskId, tasks[i].status \in Terminal
    PROVE  tasks'[i].status = tasks[i].status /\ tasks'[i].completion = tasks[i].completion
<1>1. Outcome(tasks'[i]) = Outcome(tasks[i])
  BY UsesQueue, FinalStep DEF DInv
<1> QED
  BY <1>1 DEF Outcome

\* A recovery fails a task or gives it back, it never completes one.
LEMMA RecoveryNotDone ==
    ASSUME NEW row \in Row, NEW at
    PROVE  Recovered(row, at).status \in {"failed", "pending"}
<1> DEFINE counted == Counted(row)
<1>1. counted \in Row
  BY CountedRow DEF Row
<1> HIDE DEF counted
<1>2. Recovered(row, at) = IF Exhausted(counted)
         THEN [counted EXCEPT !.status = "failed", !.updated = at,
                              !.completion = ExhaustedReceipt(row)]
         ELSE [counted EXCEPT !.status = "pending", !.updated = at, !.started = 0]
  BY DEF counted, Recovered
<1> QED
  BY <1>1, <1>2 DEF Row

\* A worker's mark apart, no statement completes a task.
LEMMA NoneDoneStep ==
    ASSUME IInv, NEW c \in Caller, call[c].op # "finish", Step(c)
    PROVE  NoneDone
<1>0. tasks \in [TaskId -> Row] /\ CallInv(call[c], now)
  BY DEF IInv
<1>1. CASE call[c].op # "recover"
  <2>1. \A j \in TaskId : Steady(j)
    BY <1>1, SteadyClient
  <2>2. ASSUME NEW i \in TaskId, tasks[i].status \notin {"running", "done", "failed"}
        PROVE  tasks'[i].status # "done"
    <3>1. CASE EnqueueInsert(c)
      BY <1>0, <2>2, <3>1 DEF EnqueueInsert, IsNextId, NewRow, NoRow
    <3>2. CASE AnnotateUpdate(c)
      <4>1. PICK j \in TaskId : j = call[c].task
        BY <1>0, <3>2 DEF AnnotateUpdate, CallInv
      <4>2. tasks' = tasks \/ tasks' = [tasks EXCEPT ![j].updated = now]
        BY <3>2, <4>1 DEF AnnotateUpdate
      <4> QED
        BY <1>0, <2>2, <4>2 DEF Row
    <3>3. CASE CancelUpdate(c)
      <4>1. PICK j \in TaskId : j = call[c].task
        BY <1>0, <3>3 DEF CancelUpdate, CallInv
      <4>2. tasks' = tasks \/ tasks' = [tasks EXCEPT ![j] = Finished(tasks[j], call[c].draft)]
        BY <3>3, <4>1 DEF CancelUpdate
      <4>3. Finished(tasks[j], call[c].draft).status = "failed"
        BY <1>0, <3>3 DEF CancelUpdate, CallInv, Finished, Row
      <4> QED
        BY <1>0, <2>2, <4>2, <4>3
    <3>4. CASE EnqueueLookup(c) \/ EnqueueRelookup(c) \/ CancelBuild(c) \/ AbortCall(c)
      BY <2>2, <3>4 DEF EnqueueLookup, EnqueueRelookup, CancelBuild, AbortCall
    <3> QED
      BY <1>1, <3>1, <3>2, <3>3, <3>4 DEF Step, FinishUpdate, RecoverTx
  <2> QED
    BY <2>1, <2>2 DEF NoneDone, Steady
<1>2. CASE RecoverTx(c)
  BY <1>0, <1>2, RecoveryNotDone DEF RecoverTx, NoneDone
<1>3. CASE call[c].op = "recover" /\ ~RecoverTx(c)
  BY <1>3 DEF Step, EnqueueLookup, EnqueueInsert, EnqueueRelookup, AnnotateUpdate,
     FinishUpdate, CancelBuild, CancelUpdate, AbortCall, NoneDone
<1> QED
  BY <1>1, <1>2, <1>3

\* Neither does a claim, a heartbeat or the binding of a session, and none ends
\* a task in another way.
LEMMA NoneDoneSingle ==
    ASSUME IInv,
           \E i \in TaskId : Claim(i) \/ UpdateProgress(i) \/ \E e \in Session : BindSession(i, e)
    PROVE  NoneDone /\ NoneEnds
<1>0. tasks \in [TaskId -> Row]
  BY DEF IInv
<1>1. PICK i \in TaskId : Claim(i) \/ UpdateProgress(i) \/ \E e \in Session : BindSession(i, e)
  OBVIOUS
<1>2. CASE Claim(i)
  <2> DEFINE row == [tasks[i] EXCEPT !.status = "running", !.started = now, !.updated = now]
  <2>1. row.status = "running"
    BY <1>0 DEF Row
  <2>2. tasks' = [tasks EXCEPT ![i] = row]
    BY <1>2 DEF Claim
  <2> HIDE DEF row
  <2> QED
    BY <1>0, <2>1, <2>2 DEF NoneDone, NoneEnds, Terminal
<1>3. CASE UpdateProgress(i)
  BY <1>0, <1>3 DEF UpdateProgress, NoneDone, NoneEnds, Row
<1>4. ASSUME NEW e \in Session, BindSession(i, e) PROVE NoneDone /\ NoneEnds
  <2> DEFINE row == [tasks[i] EXCEPT !.session = e, !.updated = now]
  <2>1. row.status = tasks[i].status
    BY <1>0 DEF Row
  <2>2. tasks' = [tasks EXCEPT ![i] = row]
    BY <1>4 DEF BindSession
  <2> HIDE DEF row
  <2> QED
    BY <1>0, <2>1, <2>2 DEF NoneDone, NoneEnds, Terminal
<1> QED
  BY <1>1, <1>2, <1>3, <1>4

\* A step of a worker leaves the calls of the others alone.
LEMMA WorkerCallsOnly ==
    ASSUME DInv, NEW w \in Worker, WorkerStep(w)
    PROVE  CallOnly(w)
<1>0. call \in [Caller -> Call] /\ w \in Caller
  BY Callers DEF DInv, IInv
<1>1. PICK s : Takes(w, s) \/ GoesOn(w, s) \/ Leaves(w, s)
  BY WorkerMoves DEF Moves
<1>2. CASE Takes(w, s) \/ Leaves(w, s) \/ Works(w, s) \/ Closes(w, s)
  BY <1>2 DEF Takes, Claim, Leaves, Works, BindSession, Closes, queueVars, CallOnly
<1>3. CASE Marks(w, s) \/ HasMarked(w, s)
  BY <1>0, <1>3 DEF Marks, MarkDoneGet, MarkFailedGet, HasMarked, FinishUpdate, AbortCall,
     Return, CallOnly
<1> QED
  BY <1>1, <1>2, <1>3 DEF GoesOn

\* The end a receipt gives its row.
LEMMA FinishedRow ==
    ASSUME NEW row \in Row, NEW draft \in Completion
    PROVE  /\ Finished(row, draft).status = draft.status
           /\ Finished(row, draft).completion = draft
BY DEF Finished, Row

\* What the mark of a worker does: it ends its own task, in the state its
\* outcome asks for, or changes nothing.
LEMMA MarkEnds ==
    ASSUME TruthInv, NEW w \in Worker, wk[w].pc = "finish", FinishUpdate(w)
    PROVE  LET i == wk[w].task
           IN  /\ i \in TaskId
               /\ \A j \in TaskId : j # i => tasks'[j] = tasks[j]
               /\ IF MayFinish(tasks[i])
                  THEN /\ tasks'[i].status = Ends(wk[w])
                       /\ tasks'[i].completion.status = Ends(wk[w])
                       /\ tasks'[i].completion.cause = EndCause(wk[w])
                  ELSE tasks'[i] = tasks[i]
<1>1. PICK i \in TaskId : i = wk[w].task
  BY DEF TruthInv, DInv, WorkerInv
<1>2. tasks \in [TaskId -> Row] /\ CallInv(call[w], now)
  BY Callers DEF TruthInv, DInv, IInv
<1>3. Marking(wk[w], call[w])
  BY DEF TruthInv, Truthful
<1>4. call[w].draft \in Completion
  BY <1>2, <1>3 DEF CallInv, Marking
<1>5. tasks' = IF MayFinish(tasks[i]) THEN [tasks EXCEPT ![i] = Finished(tasks[i], call[w].draft)]
               ELSE tasks
  BY <1>1, <1>3 DEF FinishUpdate, Marking
<1>6. tasks[i] \in Row
  BY <1>2
<1>7. /\ Finished(tasks[i], call[w].draft).status = call[w].draft.status
      /\ Finished(tasks[i], call[w].draft).completion = call[w].draft
  BY <1>4, <1>6, FinishedRow
<1>8. CASE MayFinish(tasks[i])
  <2>1. tasks' = [tasks EXCEPT ![i] = Finished(tasks[i], call[w].draft)]
    BY <1>5, <1>8
  <2>2. /\ tasks'[i] = Finished(tasks[i], call[w].draft)
        /\ \A j \in TaskId : j # i => tasks'[j] = tasks[j]
    BY <1>2, <2>1
  <2> QED
    BY <1>1, <1>3, <1>7, <1>8, <2>2 DEF Marking
<1>9. CASE ~MayFinish(tasks[i])
  BY <1>1, <1>5, <1>9
<1> QED
  BY <1>8, <1>9

\* Apart from the mark, no step of a worker completes a task.
LEMMA WorkerNoneDone ==
    ASSUME TruthInv, NEW w \in Worker, WorkerStep(w), ~FinishUpdate(w) \/ wk[w].pc # "finish"
    PROVE  NoneDone
<1>0. IInv /\ WorkerInv(wk[w])
  BY DEF TruthInv, DInv
<1>1. PICK s : WorkerInv(s) /\ (Takes(w, s) \/ GoesOn(w, s) \/ Leaves(w, s))
  BY WorkerMoves DEF Moves, TruthInv
<1>2. CASE UNCHANGED tasks
  BY <1>2 DEF NoneDone
<1>3. CASE Takes(w, s)
  BY <1>0, <1>3, NoneDoneSingle DEF Takes
<1>4. CASE Works(w, s)
  <2>1. wk[w].task \in TaskId
    BY <1>0, <1>4 DEF Works, WorkerInv, Working
  <2> QED
    BY <1>0, <1>2, <1>4, <2>1, NoneDoneSingle DEF Works, queueVars
<1>5. CASE Marks(w, s) \/ HasMarked(w, s) \/ Closes(w, s) \/ Leaves(w, s)
  BY <1>2, <1>5 DEF Marks, MarkDoneGet, MarkFailedGet, HasMarked, AbortCall, Closes, Leaves,
     queueVars
<1> QED
  BY <1>1, <1>3, <1>4, <1>5 DEF GoesOn

\* A worker stays truthful through its own steps.
LEMMA WorkerStaysTruthful ==
    ASSUME TruthInv, NEW w \in Worker, WorkerStep(w)
    PROVE  Truthful(w)'
<1> USE DEF WorkerState
<1>0. /\ wk \in [Worker -> WorkerState] /\ wk[w] \in WorkerState /\ WorkerInv(wk[w])
      /\ call \in [Caller -> Call] /\ w \in Caller /\ tasks \in [TaskId -> Row]
      /\ "done" \notin Failure
  BY Callers, DaemonAssumption DEF TruthInv, DInv, IInv, DaemonTypeOK
<1>1. ASSUME wk'[w].pc \notin {"mark", "finish", "close"} PROVE Truthful(w)'
  BY <1>1 DEF Truthful, Marking, Closed, GateRecorded
<1>2. ASSUME wk'[w].pc = "mark", wk'[w].outcome = "done" /\ wk'[w].task \in Gated
                                     => wk'[w].task \in passed'
      PROVE Truthful(w)'
  BY <1>2 DEF Truthful, Marking, Closed, GateRecorded
<1>3. CASE WorkerClaim(w)
  <2>1. wk'[w].pc = "envelope"
    BY <1>0, <1>3 DEF WorkerClaim, Polling
  <2> QED
    BY <1>1, <2>1
<1>4. CASE EnvelopeStart(w) \/ BeginRun(w) \/ RunText(w) \/ Watchdog(w) \/ WallClock(w)
           \/ RunOk(w) \/ EnvelopeClose(w) \/ RetireSession(w)
  <2>1. wk'[w].pc \in {"gate", "run", "judge", "bind", "retire", "deliver"}
    BY <1>0, <1>4 DEF EnvelopeStart, BeginRun, RunText, Watchdog, WallClock, Signal, RunOk,
       EnvelopeClose, RetireSession
  <2> QED
    BY <1>1, <2>1
<1>5. CASE GateBlocks(w) \/ RunPanic(w)
  <2>1. wk'[w].pc = "mark" /\ wk'[w].outcome = "error"
    BY <1>0, <1>5 DEF GateBlocks, RunPanic
  <2> QED
    BY <1>2, <2>1
<1>6. CASE RunErr(w) \/ Judge(w)
  <2>1. ASSUME NEW verdict, NEW told, RunEnds(w, verdict, told)
        PROVE  wk'[w].pc = "mark" /\ wk'[w].outcome = verdict
    BY <1>0, <2>1 DEF RunEnds
  <2>2. CASE RunErr(w)
    <3>1. CASE RunEnds(w, "stopped", "manual" \in wk[w].sig)
      BY <1>2, <2>1, <3>1
    <3>2. CASE wk' = [wk EXCEPT ![w].pc = "judge", ![w].told = "manual" \in wk[w].sig]
      <4>1. wk'[w].pc = "judge"
        BY <1>0, <3>2
      <4> QED
        BY <1>1, <4>1
    <3> QED
      BY <2>2, <3>1, <3>2 DEF RunErr
  <2>3. CASE Judge(w)
    <3>1. wk'[w].pc = "mark" /\ wk'[w].outcome = Verdict(w) /\ Verdict(w) # "done"
      BY <2>1, <2>3 DEF Judge, Verdict
    <3> QED
      BY <1>2, <3>1
  <2> QED
    BY <1>6, <2>2, <2>3
<1>7. CASE Bind(w)
  <2>1. wk'[w].pc = (IF wk[w].task \in Gated THEN "evaluate" ELSE "mark")
        /\ wk'[w].task = wk[w].task
    BY <1>0, <1>7 DEF Bind
  <2> QED
    BY <1>1, <1>2, <2>1
<1>8. CASE GatePasses(w)
  <2>1. wk'[w].pc = "mark" /\ wk'[w].task = wk[w].task /\ wk[w].task \in passed'
    BY <1>0, <1>8 DEF GatePasses
  <2> QED
    BY <1>2, <2>1
<1>9. CASE MarkGet(w)
  <2>0. wk[w].pc = "mark" /\ passed' = passed /\ GateRecorded(wk[w], passed)
        /\ wk[w].outcome \in {"done"} \cup Failure
    BY <1>0, <1>9 DEF MarkGet, recordVars, TruthInv, Truthful, WorkerInv
  <2>1. CASE wk' = [wk EXCEPT ![w].pc = "retire"]
    BY <1>0, <1>1, <2>1
  <2>2. CASE /\ IF wk[w].outcome = "done" THEN MarkDoneGet(w, wk[w].task)
                ELSE MarkFailedGet(w, wk[w].task, wk[w].outcome)
             /\ wk' = [wk EXCEPT ![w].pc = "finish"]
    <3>1. /\ wk'[w].pc = "finish" /\ wk'[w].task = wk[w].task
          /\ wk'[w].outcome = wk[w].outcome
      BY <1>0, <2>2
    <3>2. call' = [call EXCEPT ![w] = [NoCall EXCEPT !.op = "finish", !.task = wk[w].task,
                      !.draft = Draft(wk[w].task, Ends(wk[w]), EndCause(wk[w]))]]
      BY <2>2 DEF MarkDoneGet, MarkFailedGet, Ends, EndCause
    <3>3. call'[w] = [NoCall EXCEPT !.op = "finish", !.task = wk[w].task,
                      !.draft = Draft(wk[w].task, Ends(wk[w]), EndCause(wk[w]))]
      BY <1>0, <3>2
    <3>4. /\ call'[w].op = "finish" /\ call'[w].task = wk[w].task
          /\ call'[w].draft = Draft(wk[w].task, Ends(wk[w]), EndCause(wk[w]))
      BY <3>3 DEF NoCall
    <3>5. /\ call'[w].draft.status = Ends(wk[w])
          /\ call'[w].draft.cause = EndCause(wk[w])
      BY <3>4 DEF Draft
    <3>6. Marking(wk'[w], call'[w])
      BY <3>1, <3>4, <3>5 DEF Marking, Ends, EndCause
    <3>7. GateRecorded(wk'[w], passed')
      BY <2>0, <3>1 DEF GateRecorded
    <3> QED
      BY <3>1, <3>6, <3>7 DEF Truthful, Closed
  <2> QED
    BY <1>9, <2>1, <2>2 DEF MarkGet
<1>10. CASE MarkUpdate(w)
  <2>1. CASE wk' = [wk EXCEPT ![w].pc = "retire"]
    BY <1>0, <1>1, <2>1
  <2>2. CASE /\ FinishUpdate(w)
             /\ wk' = [wk EXCEPT ![w].pc = AfterMark(w, MayFinish(tasks[wk[w].task]))]
    <3>1. /\ wk'[w].pc = AfterMark(w, MayFinish(tasks[wk[w].task]))
          /\ wk'[w].task = wk[w].task /\ wk'[w].outcome = wk[w].outcome
      BY <1>0, <2>2
    <3>2. CASE wk'[w].pc = "close"
      <4>1. MayFinish(tasks[wk[w].task]) /\ wk[w].pc = "finish"
        BY <1>10, <3>1, <3>2 DEF AfterMark, MarkUpdate
      <4>2. tasks'[wk[w].task].status = Ends(wk[w])
        BY <2>2, <4>1, MarkEnds
      <4> QED
        BY <3>1, <3>2, <4>2 DEF Truthful, Marking, Closed, GateRecorded, Ends
    <3> QED
      BY <1>1, <3>1, <3>2 DEF AfterMark
  <2> QED
    BY <1>10, <2>1, <2>2 DEF MarkUpdate
<1>11. CASE Deliver(w)
  <2>1. wk'[w].pc = "poll"
    BY <1>0, <1>11 DEF Deliver, Polling
  <2> QED
    BY <1>1, <2>1
<1> QED
  BY <1>3, <1>4, <1>5, <1>6, <1>7, <1>8, <1>9, <1>10, <1>11 DEF WorkerStep

\* A worker that does not move stays truthful when its call is its own and the
\* gate's records are kept.
LEMMA OthersStayTruthful ==
    ASSUME TruthInv, [DaemonNext]_vars, NEW v \in Worker,
           wk'[v].pc = wk[v].pc, wk'[v].task = wk[v].task, wk'[v].outcome = wk[v].outcome,
           call'[v] = call[v], passed \subseteq passed'
    PROVE  Truthful(v)'
<1>1. Truthful(v) /\ WorkerInv(wk[v]) /\ DInv
  BY DEF TruthInv, DInv
<1>2. wk[v].pc = "close" => tasks'[wk[v].task].status = tasks[wk[v].task].status
  <2>1. ASSUME wk[v].pc = "close"
        PROVE  wk[v].task \in TaskId /\ tasks[wk[v].task].status \in Terminal
    BY <1>1, <2>1 DEF Truthful, Closed, Ends, WorkerInv, Terminal
  <2> QED
    BY <1>1, <2>1, FinishedStays
<1> QED
  BY <1>1, <1>2 DEF Truthful, Marking, Closed, GateRecorded, Ends, EndCause

\* The envelopes stay behind the queue in a step that closes only what ended.
LEMMA EnvelopesKept ==
    ASSUME TruthInv, [DaemonNext]_vars,
           \A i \in TaskId : \/ agentic'[i] = agentic[i]
                             \/ agentic'[i] = "running"
                             \/ agentic'[i] = "succeeded" /\ tasks[i].status = "done"
                             \/ agentic'[i] = "failed" /\ tasks[i].status = "failed"
    PROVE  EnvelopeNeverAhead'
<1>1. \A i \in TaskId : tasks[i].status \in Terminal => tasks'[i].status = tasks[i].status
  BY FinishedStays DEF TruthInv
<1> QED
  BY <1>1 DEF TruthInv, EnvelopeNeverAhead, Terminal

\* A step of a worker preserves the invariant.
LEMMA WorkerTruth ==
    ASSUME TruthInv, NEW w \in Worker, WorkerStep(w)
    PROVE  TruthInv'
<1>0. /\ DInv /\ wk \in [Worker -> WorkerState] /\ WorkerInv(wk[w])
      /\ agentic \in [TaskId -> {"none", "running", "succeeded", "failed"}]
      /\ passed \subseteq TaskId /\ [DaemonNext]_vars
  BY DEF TruthInv, DInv, DaemonTypeOK, DaemonNext
<1>1. DInv'
  BY <1>0, DaemonNextInv
<1>2. CallOnly(w)
  BY <1>0, WorkerCallsOnly
<1>3. ClientsNeverMark'
  BY <1>2, Callers DEF CallOnly, ClientsNeverMark, TruthInv
<1>4. passed \subseteq passed'
  BY DEF WorkerStep, WorkerClaim, EnvelopeStart, BeginRun, GateBlocks, RunText, Watchdog,
     WallClock, RunOk, Bind, RunErr, Judge, RunEnds, RunPanic, GatePasses, MarkGet, MarkUpdate,
     EnvelopeClose, RetireSession, Deliver, recordVars
<1>5. \A v \in Worker : v # w => wk'[v] = wk[v] /\ call'[v] = call[v]
  BY <1>0, <1>2, WorkerMoves, Callers DEF Moves, CallOnly
<1>6. ASSUME NEW v \in Worker PROVE Truthful(v)'
  BY <1>0, <1>4, <1>5, WorkerStaysTruthful, OthersStayTruthful
<1>7. EnvelopeNeverAhead'
  <2>1. CASE EnvelopeStart(w)
    BY <1>0, <2>1, EnvelopesKept DEF EnvelopeStart
  <2>2. CASE EnvelopeClose(w)
    <3>1. wk[w].task \in TaskId /\ tasks[wk[w].task].status = Ends(wk[w])
      BY <1>0, <2>2 DEF EnvelopeClose, WorkerInv, TruthInv, Truthful, Closed
    <3> QED
      BY <1>0, <2>2, <3>1, EnvelopesKept DEF EnvelopeClose, Ends
  <2>3. CASE ~EnvelopeStart(w) /\ ~EnvelopeClose(w)
    <3>1. agentic' = agentic
      BY <2>3 DEF WorkerStep, WorkerClaim, BeginRun, GateBlocks, RunText, Watchdog,
         WallClock, RunOk, Bind, RunErr, Judge, RunEnds, RunPanic, GatePasses, MarkGet, MarkUpdate,
         RetireSession, Deliver, recordVars
    <3> QED
      BY <1>0, <3>1, EnvelopesKept
  <2> QED
    BY <2>1, <2>2, <2>3
<1>8. DoneThroughGate'
  <2>1. CASE wk[w].pc = "finish" /\ FinishUpdate(w)
    <3>1. /\ \A j \in TaskId : j # wk[w].task => tasks'[j] = tasks[j]
          /\ tasks'[wk[w].task].status = "done" =>
                tasks[wk[w].task].status = "done" \/ wk[w].outcome = "done"
      BY <2>1, MarkEnds DEF Ends
    <3>2. wk[w].outcome = "done" /\ wk[w].task \in Gated => wk[w].task \in passed
      BY <2>1 DEF TruthInv, Truthful, GateRecorded
    <3> QED
      BY <1>4, <3>1, <3>2, DaemonAssumption DEF TruthInv, DoneThroughGate
  <2>2. CASE ~FinishUpdate(w) \/ wk[w].pc # "finish"
    BY <1>4, <2>2, WorkerNoneDone, DaemonAssumption DEF NoneDone, TruthInv, DoneThroughGate
  <2> QED
    BY <2>1, <2>2
<1> QED
  BY <1>1, <1>3, <1>6, <1>7, <1>8 DEF TruthInv

\* A step that moves no worker preserves the invariant when it completes no
\* task and leaves the workers' calls and the gate's records alone.
LEMMA OtherTruth ==
    ASSUME TruthInv, [DaemonNext]_vars, passed' = passed, NoneDone,
           \A w \in Worker : \/ wk'[w].pc = "poll"
                             \/ /\ wk'[w].pc = wk[w].pc /\ wk'[w].task = wk[w].task
                                /\ wk'[w].outcome = wk[w].outcome
                                /\ call'[w] = call[w],
           ClientsNeverMark',
           agentic' = agentic \/ \A i \in TaskId : agentic'[i] = Reconciled(i)
    PROVE  TruthInv'
<1>1. DInv'
  BY DaemonNextInv DEF TruthInv
<1>2. ASSUME NEW w \in Worker PROVE Truthful(w)'
  <2>1. CASE wk'[w].pc = "poll"
    BY <2>1 DEF Truthful, Marking, Closed, GateRecorded
  <2> QED
    BY <2>1, OthersStayTruthful
<1>3. EnvelopeNeverAhead'
  BY EnvelopesKept DEF Reconciled, Terminal
<1>4. DoneThroughGate'
  BY DaemonAssumption DEF NoneDone, TruthInv, DoneThroughGate
<1> QED
  BY <1>1, <1>2, <1>3, <1>4 DEF TruthInv

\* Clients do not mark, and neither do the start and the end of the process.
LEMMA ClientTruth ==
    ASSUME TruthInv, NEW c \in Client, ClientBegin(c) \/ ClientStep(c)
    PROVE  TruthInv'
<1>0. IInv /\ c \in Caller /\ call[c].op # "finish" /\ call \in [Caller -> Call]
      /\ CallInv(call[c], now)
  BY Callers DEF TruthInv, ClientsNeverMark, DInv, IInv
<1>1. wk' = wk /\ passed' = passed /\ agentic' = agentic /\ [DaemonNext]_vars
  BY DEF ClientBegin, ClientStep, daemonVars, recordVars, DaemonNext
<1>2. NoneDone
  <2>1. CASE ClientStep(c)
    BY <1>0, <2>1, NoneDoneStep DEF ClientStep
  <2>2. CASE ClientBegin(c)
    BY <2>2 DEF ClientBegin, EnqueueStart, CancelTask, CancelSelect, CancelPendingTask,
       AnnotateGet, RecoverStart, NoneDone
  <2> QED
    BY <2>1, <2>2
<1>3. CallOnly(c)
  <2>1. CASE ClientBegin(c)
    BY <1>0, <2>1 DEF ClientBegin, EnqueueStart, CancelTask, CancelSelect, CancelPendingTask,
       AnnotateGet, RecoverStart, CallOnly
  <2>2. CASE ClientStep(c)
    BY <1>0, <2>2, BeginsAndSteps DEF ClientStep
  <2> QED
    BY <2>1, <2>2
<1>4. call'[c].op # "finish"
  <2>1. CASE ClientBegin(c)
    BY <1>0, <2>1 DEF ClientBegin, EnqueueStart, CancelTask, CancelSelect, CancelPendingTask,
       AnnotateGet, RecoverStart, NoCall
  <2>2. CASE ClientStep(c)
    BY <1>0, <2>2 DEF ClientStep, Step, EnqueueLookup, EnqueueInsert, EnqueueRelookup,
       AnnotateUpdate, FinishUpdate, CancelBuild, CancelUpdate, RecoverTx, AbortCall, Return,
       NoCall, Call
  <2> QED
    BY <2>1, <2>2
<1>5. ClientsNeverMark'
  BY <1>3, <1>4, Callers DEF CallOnly, ClientsNeverMark, TruthInv
<1> QED
  BY <1>1, <1>2, <1>3, <1>5, OtherTruth, Callers DEF CallOnly

LEMMA ProcessTruth ==
    ASSUME TruthInv, ProcessStep
    PROVE  TruthInv'
<1>0. /\ IInv /\ call \in [Caller -> Call] /\ wk \in [Worker -> WorkerState]
      /\ [DaemonNext]_vars /\ Polling.pc = "poll" /\ NoCall.op = "idle"
  BY DEF TruthInv, DInv, IInv, DaemonTypeOK, DaemonNext, Polling, NoCall
<1>1. passed' = passed
  BY DEF ProcessStep, Open, OpenRecover, DeliverExisting, Reconcile, Stop, Halt, Crash, Connect, Hangup,
     recordVars
<1>2. agentic' = agentic \/ \A i \in TaskId : agentic'[i] = Reconciled(i)
  BY DEF ProcessStep, Open, OpenRecover, DeliverExisting, Reconcile, Stop, Halt, Crash, Connect, Hangup,
     recordVars
<1>3. NoneDone /\ \A c \in Client : call'[c] = call[c]
  <2>1. CASE Open
    BY <1>0, <2>1, Callers DEF Open, RecoverStart, NoneDone, NoCall
  <2>2. CASE OpenRecover
    <3>1. RecoverTx(Main) \/ AbortCall(Main)
      BY <2>2 DEF OpenRecover
    <3>2. NoneDone
      BY <1>0, <3>1, NoneDoneStep, Callers DEF Step, RecoverTx, AbortCall, NoneDone
    <3>3. call' = [call EXCEPT ![Main] = NoCall]
      BY <3>1 DEF RecoverTx, AbortCall, Return
    <3> QED
      BY <1>0, <3>2, <3>3, Callers
  <2>3. CASE Crash
    BY <1>0, <2>3, Callers DEF Crash, Die, NoneDone
  <2>4. CASE DeliverExisting \/ Reconcile \/ Stop \/ Halt
             \/ \E c \in Conn : Connect(c) \/ Hangup(c)
    BY <2>4 DEF DeliverExisting, Reconcile, Stop, Halt, Connect, Hangup, queueVars, NoneDone
  <2> QED
    BY <2>1, <2>2, <2>3, <2>4 DEF ProcessStep
<1>4. ASSUME NEW w \in Worker
      PROVE  wk'[w].pc = "poll" \/ (wk'[w] = wk[w] /\ call'[w] = call[w])
  <2>1. CASE Crash
    BY <1>0, <2>1 DEF Crash
  <2>2. CASE Open \/ OpenRecover
    BY <1>0, <2>2, Callers DEF Open, RecoverStart, OpenRecover, RecoverTx, AbortCall, Return
  <2>3. CASE DeliverExisting \/ Reconcile \/ Stop \/ Halt
             \/ \E c \in Conn : Connect(c) \/ Hangup(c)
    BY <2>3 DEF DeliverExisting, Reconcile, Stop, Halt, Connect, Hangup, queueVars
  <2> QED
    BY <2>1, <2>2, <2>3 DEF ProcessStep
<1>5. ClientsNeverMark'
  BY <1>3 DEF ClientsNeverMark, TruthInv
<1> QED
  BY <1>0, <1>1, <1>2, <1>3, <1>4, <1>5, OtherTruth

LEMMA TruthNext == TruthInv /\ [DaemonNext]_vars => TruthInv'
<1> SUFFICES ASSUME TruthInv, [DaemonNext]_vars PROVE TruthInv'
  OBVIOUS
<1>0. IInv /\ DInv /\ wk \in [Worker -> WorkerState]
  BY DEF TruthInv, DInv, DaemonTypeOK
<1>1. ASSUME UNCHANGED <<tasks, call, wk, agentic, passed>> PROVE TruthInv'
  BY <1>1, OtherTruth DEF NoneDone, ClientsNeverMark, TruthInv
<1>2. CASE (Tick /\ UNCHANGED daemonVars) \/ UNCHANGED vars
  BY <1>1, <1>2 DEF Tick, daemonVars, recordVars, vars, queueVars
<1>3. ASSUME NEW i \in TaskId, Beat(i) PROVE TruthInv'
  <2>1. NoneDone /\ call' = call
    BY <1>0, <1>3, NoneDoneSingle DEF Beat, UpdateProgress, queueVars, NoneDone
  <2>2. wk' = wk /\ agentic' = agentic /\ passed' = passed
    BY <1>3 DEF Beat, recordVars
  <2> QED
    BY <2>1, <2>2, OtherTruth DEF ClientsNeverMark, TruthInv
<1>4. ASSUME NEW i \in TaskId, CancelRunningTask(i) PROVE TruthInv'
  <2>1. PICK w \in Worker : wk' = [wk EXCEPT ![w].sig = @ \cup {"manual"}]
    BY <1>0, <1>4 DEF CancelRunningTask, Signal, DInv, DaemonTypeOK
  <2>2. \A v \in Worker : /\ wk'[v].pc = wk[v].pc /\ wk'[v].task = wk[v].task
                          /\ wk'[v].outcome = wk[v].outcome
    BY <1>0, <2>1 DEF WorkerState
  <2>3. UNCHANGED <<tasks, call, agentic, passed>>
    BY <1>4 DEF CancelRunningTask, queueVars, recordVars
  <2> QED
    BY <2>2, <2>3, OtherTruth DEF NoneDone, ClientsNeverMark, TruthInv
<1> QED
  BY <1>2, <1>3, <1>4, WorkerTruth, ProcessTruth, ClientTruth DEF DaemonNext

LEMMA TruthInit == DaemonInit => TruthInv
<1> SUFFICES ASSUME DaemonInit PROVE TruthInv
  OBVIOUS
<1>1. DInv
  BY DaemonInitInv
<1>2. \A w \in Worker : Truthful(w)
  BY DEF DaemonInit, Polling, Truthful, Marking, Closed, GateRecorded
<1>3. ClientsNeverMark
  BY Callers DEF DaemonInit, QueueInit, NoCall, ClientsNeverMark
<1>4. EnvelopeNeverAhead /\ DoneThroughGate
  BY DaemonAssumption DEF DaemonInit, QueueInit, NoRow, EnvelopeNeverAhead, DoneThroughGate
<1> QED
  BY <1>1, <1>2, <1>3, <1>4 DEF TruthInv

THEOREM TruthInvariance == DaemonSpec => []TruthInv
BY TruthInit, TruthNext, PTL DEF DaemonSpec

\* An envelope is never ahead of the queue: whatever fails and however many
\* workers execute the task, its agentic task is succeeded only if the queue
\* task is done, failed only if it failed.
THEOREM EnvelopesFollowTheQueue == DaemonSpec => []EnvelopeNeverAhead
<1>1. TruthInv => EnvelopeNeverAhead
  BY DEF TruthInv
<1> QED
  BY <1>1, TruthInvariance, PTL

\* A task that asks for a completion gate is done only through a recorded
\* passed gate, whatever fails and however many workers execute the task.
THEOREM GateIsNeverBypassed == DaemonSpec => []DoneThroughGate
<1>1. TruthInv => DoneThroughGate
  BY DEF TruthInv
<1> QED
  BY <1>1, TruthInvariance, PTL

-----------------------------------------------------------------------------
(***************************************************************************)
(* A finished task at rest, when the daemon may crash but nobody else       *)
(* recovers tasks and no statement fails.  A row that ended otherwise than  *)
(* by a cancellation is either settled and handed over, or still in the     *)
(* hands of the worker that ended it; a crash takes it out of those hands,  *)
(* and the next start hands it over and reconciles its envelope.            *)
(***************************************************************************)
CrashesOnly == Fault \cap {"store", "foreign"} = {}

RetireCause == {"error"} \cup Timeouts

\* A worker that has marked its task ended it; only a failed run retires; in a
\* running daemon every claimed task has its envelope; a run that was told to
\* stop is not judged and does not time out, and a timeout is a verdict.
Rested(w) ==
    /\ wk[w].pc \in Closing =>
          /\ tasks[wk[w].task].status = Ends(wk[w])
          /\ tasks[wk[w].task].completion.cause = EndCause(wk[w])
    /\ wk[w].retire =>
          wk[w].pc \in {"mark", "finish"} \cup Closing /\ wk[w].outcome \in RetireCause
    /\ daemon = "up" /\ wk[w].pc \notin {"poll", "envelope"} => wk[w].env
    /\ wk[w].told => wk[w].pc # "judge" /\ wk[w].outcome \notin Timeouts
    /\ wk[w].outcome \in Timeouts => wk[w].pc \in {"mark", "finish"} \cup Closing

\* Task i ended otherwise than by a cancellation.
Over(i) == tasks[i].status \in Terminal /\ tasks[i].completion.cause # "cancelled"

Settled ==
    daemon = "up" =>
        \A i \in TaskId : Over(i) /\ agentic[i] = "running" =>
            \E w \in Worker : wk[w].pc = "close" /\ wk[w].task = i

HandedOver ==
    daemon \in {"reconciling", "up"} =>
        \A i \in TaskId : Over(i) /\ i \notin handed =>
            \E w \in Worker : wk[w].pc \in Closing /\ wk[w].task = i

\* Clients end a task only by cancelling it.
ClientsOnlyCancel ==
    \A c \in Client : call[c].op = "cancel" => call[c].draft.cause = "cancelled"

Restful ==
    /\ \A w \in Worker : Rested(w)
    /\ Settled
    /\ HandedOver
    /\ ClientsOnlyCancel
    /\ RetiredForFailure

RestInv == OwnInv /\ TruthInv /\ Restful

\* What ends in this step is cancelled, or was over before.
OnlyCancelled ==
    \A i \in TaskId : tasks'[i].status \in Terminal =>
        tasks[i].status \in Terminal \/ tasks'[i].completion.cause = "cancelled"

\* The step of a client ends a task only by cancelling it.
LEMMA ClientCancels ==
    ASSUME IInv, NEW c \in Caller, call[c].op \notin {"finish", "recover"},
           call[c].op = "cancel" => call[c].draft.cause = "cancelled", Step(c)
    PROVE  OnlyCancelled
<1>0. tasks \in [TaskId -> Row] /\ CallInv(call[c], now)
  BY DEF IInv
<1>1. CASE EnqueueInsert(c)
  BY <1>0, <1>1 DEF EnqueueInsert, IsNextId, NewRow, NoRow, OnlyCancelled, Terminal
<1>2. CASE AnnotateUpdate(c)
  <2>1. PICK j \in TaskId : j = call[c].task
    BY <1>0, <1>2 DEF AnnotateUpdate, CallInv
  <2>2. tasks' = tasks \/ tasks' = [tasks EXCEPT ![j].updated = now]
    BY <1>2, <2>1 DEF AnnotateUpdate
  <2> QED
    BY <1>0, <2>2 DEF Row, OnlyCancelled
<1>3. CASE CancelUpdate(c)
  <2>1. PICK j \in TaskId : j = call[c].task
    BY <1>0, <1>3 DEF CancelUpdate, CallInv
  <2>2. tasks' = tasks \/ tasks' = [tasks EXCEPT ![j] = Finished(tasks[j], call[c].draft)]
    BY <1>3, <2>1 DEF CancelUpdate
  <2>3. Finished(tasks[j], call[c].draft).completion = call[c].draft
    BY <1>0, <1>3, FinishedRow DEF CancelUpdate, CallInv
  <2>4. call[c].draft.cause = "cancelled"
    BY <1>3 DEF CancelUpdate
  <2> QED
    BY <1>0, <2>2, <2>3, <2>4 DEF OnlyCancelled
<1>4. CASE EnqueueLookup(c) \/ EnqueueRelookup(c) \/ CancelBuild(c) \/ AbortCall(c)
  BY <1>4 DEF EnqueueLookup, EnqueueRelookup, CancelBuild, AbortCall, OnlyCancelled
<1> QED
  BY <1>1, <1>2, <1>3, <1>4 DEF Step, FinishUpdate, RecoverTx

\* Task i, over after the step, was over before it or was ended by it.
LEMMA OverBefore ==
    ASSUME DInv, [DaemonNext]_vars, NEW i \in TaskId, Over(i)', tasks[i].status \in Terminal
    PROVE  Over(i)
BY FinishedStays DEF Over

\* Sessions stay retired for good reasons.
LEMMA RetirementsStay ==
    ASSUME RestInv, [DaemonNext]_vars, NEW i \in retired
    PROVE  tasks'[i].status = "failed" /\ tasks'[i].completion.cause \in RetireCause
<1>1. i \in TaskId /\ DInv
  BY DEF RestInv, TruthInv, DInv, DaemonTypeOK
<1>2. tasks[i].status = "failed" /\ tasks[i].completion.cause \in RetireCause
  BY DEF RestInv, Restful, RetiredForFailure, RetireCause
<1> QED
  BY <1>1, <1>2, FinishedStays DEF Terminal

\* A worker that stays as it is stays rested.
LEMMA StaysRested ==
    ASSUME RestInv, [DaemonNext]_vars, NEW v \in Worker, daemon' = daemon,
           wk'[v].pc = wk[v].pc, wk'[v].task = wk[v].task, wk'[v].outcome = wk[v].outcome,
           wk'[v].retire = wk[v].retire, wk'[v].env = wk[v].env, wk'[v].told = wk[v].told
    PROVE  Rested(v)'
<1>1. Rested(v) /\ WorkerInv(wk[v]) /\ DInv
  BY DEF RestInv, Restful, TruthInv, DInv
<1>2. wk[v].pc \in Closing =>
         /\ tasks'[wk[v].task].status = tasks[wk[v].task].status
         /\ tasks'[wk[v].task].completion = tasks[wk[v].task].completion
  BY <1>1, FinishedStays DEF Rested, WorkerInv, Closing, Ends, Terminal
<1> QED
  BY <1>1, <1>2 DEF Rested, Ends, EndCause

\* Steps that move no worker and end a task only by a cancellation.
LEMMA RestKept ==
    ASSUME RestInv, [DaemonNext]_vars, OnlyCancelled,
           \A v \in Worker : /\ wk'[v].pc = wk[v].pc /\ wk'[v].task = wk[v].task
                             /\ wk'[v].outcome = wk[v].outcome
                             /\ wk'[v].retire = wk[v].retire /\ wk'[v].env = wk[v].env
                             /\ wk'[v].told = wk[v].told,
           UNCHANGED <<daemon, agentic, handed, retired>>,
           ClientsOnlyCancel'
    PROVE  Restful'
<1>0. DInv
  BY DEF RestInv, TruthInv
<1>1. \A v \in Worker : Rested(v)'
  BY StaysRested
<1>2. ASSUME NEW i \in TaskId, Over(i)' PROVE Over(i)
  BY <1>0, <1>2, OverBefore DEF OnlyCancelled, Over
<1>3. Settled' /\ HandedOver'
  BY <1>2 DEF Settled, HandedOver, RestInv, Restful
<1>4. RetiredForFailure'
  BY RetirementsStay DEF RetiredForFailure, RetireCause
<1> QED
  BY <1>1, <1>3, <1>4 DEF Restful

\* A worker stays rested through its own steps.
LEMMA WorkerStaysRested ==
    ASSUME CrashesOnly, RestInv, NEW w \in Worker, WorkerStep(w)
    PROVE  Rested(w)'
<1> USE DEF WorkerState
<1>0. /\ wk \in [Worker -> WorkerState] /\ wk[w] \in WorkerState /\ WorkerInv(wk[w])
      /\ TruthInv /\ DInv /\ [DaemonNext]_vars /\ Rested(w)
      /\ ~MayFail /\ "foreign" \notin Fault
  BY DEF RestInv, TruthInv, Restful, DInv, DaemonTypeOK, DaemonNext, CrashesOnly, MayFail
<1>1. daemon' = daemon
  BY <1>0, WorkerMoves DEF Moves
<1>2. CASE WorkerClaim(w)
  <2>1. /\ wk'[w].pc = "envelope" /\ ~wk'[w].retire /\ ~wk'[w].told
        /\ wk'[w].outcome = "none"
    BY <1>0, <1>2 DEF WorkerClaim, Polling
  <2> QED
    BY <2>1 DEF Rested, Closing, Timeouts
<1>3. CASE EnvelopeStart(w)
  <2>1. wk'[w].pc = "gate" /\ ~wk'[w].retire
    BY <1>0, <1>3 DEF EnvelopeStart, Rested, Closing
  <2>2. wk'[w].env \/ daemon # "up"
    BY <1>0, <1>3 DEF EnvelopeStart, Live
  <2>3. /\ wk[w].pc = "envelope" /\ wk'[w].told = wk[w].told
        /\ wk'[w].outcome = wk[w].outcome
    BY <1>0, <1>3 DEF EnvelopeStart
  <2> QED
    BY <1>0, <1>1, <2>1, <2>2, <2>3 DEF Rested, Closing
<1>4. CASE BeginRun(w) \/ RunText(w) \/ Watchdog(w) \/ WallClock(w)
  <2>1. /\ wk[w].pc \in {"gate", "run", "judge", "bind"}
        /\ wk'[w].pc = wk[w].pc \/ wk'[w].pc = "run"
        /\ wk'[w].retire = wk[w].retire /\ wk'[w].env = wk[w].env
        /\ wk'[w].told = wk[w].told /\ wk'[w].outcome = wk[w].outcome
    BY <1>0, <1>4 DEF BeginRun, RunText, Watchdog, WallClock, Signal
  <2> QED
    BY <1>0, <1>1, <2>1 DEF Rested, Closing
<1>4a. CASE RunOk(w)
  <2>1. /\ wk[w].pc = "run" /\ wk'[w].pc = "bind" /\ wk'[w].outcome = wk[w].outcome
        /\ wk'[w].retire = wk[w].retire /\ wk'[w].env = wk[w].env
    BY <1>0, <1>4a DEF RunOk
  <2> QED
    BY <1>0, <1>1, <2>1 DEF Rested, Closing
<1>5. CASE GateBlocks(w) \/ Bind(w)
  <2>1. /\ wk[w].pc \in {"gate", "bind", "evaluate"} /\ wk'[w].pc \in {"evaluate", "mark"}
        /\ wk'[w].retire = wk[w].retire /\ wk'[w].env = wk[w].env
        /\ wk'[w].outcome \in {"done", "error"}
    BY <1>0, <1>5 DEF GateBlocks, Bind
  <2> QED
    BY <1>0, <1>1, <2>1 DEF Rested, Closing, Timeouts
<1>5a. CASE GatePasses(w)
  <2>1. /\ wk[w].pc = "evaluate" /\ wk'[w].pc = "mark" /\ wk'[w].retire = wk[w].retire
        /\ wk'[w].env = wk[w].env /\ wk'[w].told = wk[w].told
        /\ wk'[w].outcome = wk[w].outcome
    BY <1>0, <1>5a DEF GatePasses
  <2> QED
    BY <1>0, <1>1, <2>1 DEF Rested, Closing
<1>6. CASE RunPanic(w)
  <2>1. wk[w].pc = "run" /\ wk'[w].pc = "mark" /\ wk'[w].outcome = "error" /\ wk'[w].env = wk[w].env
    BY <1>0, <1>6 DEF RunPanic
  <2> QED
    BY <1>0, <1>1, <2>1 DEF Rested, Closing, RetireCause, Timeouts
<1>7a. ASSUME NEW verdict, NEW told, RunEnds(w, verdict, told), wk[w].pc \in {"run", "judge"},
              told => verdict \notin Timeouts,
              verdict \in {"stopped"} \cup RetireCause
       PROVE  Rested(w)'
  <2>1. PICK r \in MayRetire(verdict) :
           wk' = [wk EXCEPT ![w].pc = "mark", ![w].told = told,
                            ![w].outcome = verdict, ![w].retire = r]
    BY <1>7a DEF RunEnds
  <2>2. /\ wk'[w].pc = "mark" /\ wk'[w].told = told /\ wk'[w].outcome = verdict
        /\ wk'[w].retire = r /\ wk'[w].env = wk[w].env
    BY <1>0, <2>1
  <2>3. r => verdict \in RetireCause
    BY <1>7a, <2>1 DEF MayRetire
  <2> QED
    BY <1>0, <1>1, <1>7a, <2>2, <2>3 DEF Rested, Closing
<1>7. CASE RunErr(w)
  <2>1. CASE RunEnds(w, "stopped", "manual" \in wk[w].sig)
    BY <1>7, <1>7a, <2>1 DEF RunErr, Timeouts
  <2>2. CASE ~Stopped(w) /\ wk' = [wk EXCEPT ![w].pc = "judge", ![w].told = "manual" \in wk[w].sig]
    <3>1. /\ wk[w].pc = "run" /\ wk'[w].pc = "judge" /\ ~wk'[w].told
          /\ wk'[w].retire = wk[w].retire /\ wk'[w].env = wk[w].env
          /\ wk'[w].outcome = wk[w].outcome
      BY <1>0, <1>7, <2>2 DEF RunErr, Stopped
    <3> QED
      BY <1>0, <1>1, <3>1 DEF Rested, Closing
  <2> QED
    BY <1>7, <2>1, <2>2 DEF RunErr
<1>7b. CASE Judge(w)
  <2>1. wk[w].pc = "judge" /\ ~wk[w].told /\ RunEnds(w, Verdict(w), wk[w].told)
    BY <1>0, <1>7b DEF Judge, Rested
  <2>2. Verdict(w) \in RetireCause
    BY DEF Verdict, RetireCause, Timeouts
  <2> QED
    BY <1>7a, <2>1, <2>2
<1>8. CASE MarkGet(w)
  <2>1. /\ wk[w].pc = "mark" /\ wk'[w].pc = "finish" /\ wk'[w].outcome = wk[w].outcome
        /\ wk'[w].retire = wk[w].retire /\ wk'[w].env = wk[w].env
        /\ wk'[w].told = wk[w].told
    BY <1>0, <1>8 DEF MarkGet
  <2> QED
    BY <1>0, <1>1, <2>1 DEF Rested, Closing
<1>9. CASE MarkUpdate(w)
  <2>1. /\ wk[w].pc = "finish" /\ FinishUpdate(w)
        /\ wk' = [wk EXCEPT ![w].pc = AfterMark(w, MayFinish(tasks[wk[w].task]))]
    BY <1>0, <1>9 DEF MarkUpdate
  <2>2. MayFinish(tasks[wk[w].task])
    BY <2>1 DEF RestInv, OwnInv, WorkersHold, Held, Working, MayFinish
  <2>3. /\ wk'[w].pc = AfterMark(w, MayFinish(tasks[wk[w].task])) /\ wk'[w].task = wk[w].task
        /\ wk'[w].outcome = wk[w].outcome /\ wk'[w].retire = wk[w].retire
        /\ wk'[w].env = wk[w].env /\ wk'[w].told = wk[w].told
    BY <1>0, <2>1
  <2>4. wk'[w].pc \in {"close", "retire"}
    BY <2>3 DEF AfterMark
  <2>5. /\ tasks'[wk[w].task].status = Ends(wk[w])
        /\ tasks'[wk[w].task].completion.cause = EndCause(wk[w])
    BY <1>0, <2>1, <2>2, MarkEnds
  <2> QED
    BY <1>0, <1>1, <2>1, <2>3, <2>4, <2>5 DEF Rested, Closing, Ends, EndCause
<1>10. CASE EnvelopeClose(w) \/ RetireSession(w)
  <2>1. /\ wk[w].pc \in {"close", "retire"} /\ wk'[w].pc \in {"retire", "deliver"}
        /\ wk'[w].task = wk[w].task /\ wk'[w].outcome = wk[w].outcome
        /\ wk'[w].retire = wk[w].retire /\ wk'[w].env = wk[w].env /\ tasks' = tasks
        /\ wk'[w].told = wk[w].told
    BY <1>0, <1>10 DEF EnvelopeClose, RetireSession, queueVars
  <2> QED
    BY <1>0, <1>1, <2>1 DEF Rested, Closing, Ends, EndCause
<1>11. CASE Deliver(w)
  <2>1. /\ wk'[w].pc = "poll" /\ ~wk'[w].retire /\ ~wk'[w].told
        /\ wk'[w].outcome = "none"
    BY <1>0, <1>11 DEF Deliver, Polling
  <2> QED
    BY <2>1 DEF Rested, Closing, Timeouts
<1> QED
  BY <1>2, <1>3, <1>4, <1>4a, <1>5, <1>5a, <1>6, <1>7, <1>7b, <1>8, <1>9, <1>10, <1>11 DEF WorkerStep

\* A task that a worker's step ends is in its hands: to be closed when it has
\* an envelope.
LEMMA EndsInHand ==
    ASSUME CrashesOnly, RestInv, NEW w \in Worker, WorkerStep(w),
           NEW i \in TaskId, tasks[i].status \notin Terminal, tasks'[i].status \in Terminal
    PROVE  /\ wk'[w].task = i /\ wk'[w].pc \in Closing
           /\ wk[w].env => wk'[w].pc = "close"
           /\ wk[w].pc = "finish"
<1>0. /\ IInv /\ TruthInv /\ wk \in [Worker -> WorkerState] /\ WorkerInv(wk[w])
      /\ ~MayFail
  BY DEF RestInv, TruthInv, DInv, DaemonTypeOK, CrashesOnly, MayFail
<1>1. PICK s : /\ WorkerInv(s) /\ wk' = [wk EXCEPT ![w] = s]
               /\ Takes(w, s) \/ GoesOn(w, s) \/ Leaves(w, s)
  BY <1>0, WorkerMoves DEF Moves, TruthInv
<1>2. ~Takes(w, s)
  BY <1>0, NoneDoneSingle DEF Takes, NoneEnds
<1>3. ~Works(w, s)
  <2>1. Works(w, s) => wk[w].task \in TaskId
    BY <1>0 DEF Works, WorkerInv, Working
  <2> QED
    BY <1>0, <2>1, NoneDoneSingle DEF Works, NoneEnds, queueVars
<1>4. ~Marks(w, s) /\ ~Closes(w, s) /\ ~Leaves(w, s)
  BY DEF Marks, MarkDoneGet, MarkFailedGet, Closes, Leaves, queueVars
<1>5. wk[w].pc = "finish" /\ s.task = wk[w].task /\ s.pc \in Closing /\ MarkUpdate(w)
  <2>1. wk[w].pc = "finish" /\ s.task = wk[w].task /\ s.pc \in Closing
    BY <1>1, <1>2, <1>3, <1>4 DEF GoesOn, HasMarked
  <2>2. MarkUpdate(w)
    BY <2>1 DEF WorkerStep, WorkerClaim, EnvelopeStart, BeginRun, GateBlocks, RunText,
       Watchdog, WallClock, RunOk, Bind, RunErr, Judge, RunEnds, RunPanic, GatePasses, MarkGet,
       EnvelopeClose, RetireSession, Deliver
  <2> QED
    BY <2>1, <2>2
<1>6. FinishUpdate(w) /\ wk' = [wk EXCEPT ![w].pc = AfterMark(w, MayFinish(tasks[wk[w].task]))]
  BY <1>0, <1>5 DEF MarkUpdate
<1>7. wk[w].task = i
  BY <1>0, <1>5, <1>6, MarkEnds
<1>8. MayFinish(tasks[i])
  BY <1>0, <1>5, <1>6, <1>7, MarkEnds
<1>9. wk'[w].pc = AfterMark(w, TRUE) /\ wk'[w].task = i
  BY <1>0, <1>6, <1>7, <1>8 DEF WorkerState
<1> QED
  BY <1>0, <1>1, <1>5, <1>9 DEF AfterMark, Closing

\* The step of a worker leaves no finished task behind: what it ends it keeps
\* in its hands, and what it lets go of is closed and handed over.
LEMMA WorkerRest ==
    ASSUME CrashesOnly, RestInv, NEW w \in Worker, WorkerStep(w)
    PROVE  Restful'
<1>0. /\ DInv /\ TruthInv /\ wk \in [Worker -> WorkerState] /\ WorkerInv(wk[w])
      /\ Rested(w) /\ ~MayFail /\ [DaemonNext]_vars
      /\ agentic \in [TaskId -> {"none", "running", "succeeded", "failed"}]
  BY DEF RestInv, TruthInv, Restful, DInv, DaemonTypeOK, DaemonNext, CrashesOnly, MayFail
<1>1. /\ daemon' = daemon
      /\ \A v \in Worker : v # w => wk'[v] = wk[v]
      /\ \A c \in Client : call'[c] = call[c]
  BY <1>0, WorkerMoves, WorkerCallsOnly, Callers DEF Moves, CallOnly
<1>2. \A v \in Worker : Rested(v)'
  BY <1>0, <1>1, WorkerStaysRested, StaysRested
<1>3. ClientsOnlyCancel'
  BY <1>1 DEF ClientsOnlyCancel, RestInv, Restful
<1>4. RetiredForFailure'
  <2>1. CASE RetireSession(w) /\ retired' # retired
    <3>1. retired' = retired \cup {wk[w].task} /\ wk[w].retire /\ wk[w].pc = "retire"
          /\ tasks' = tasks
      BY <2>1 DEF RetireSession, queueVars
    <3>2. /\ tasks[wk[w].task].status = "failed"
          /\ tasks[wk[w].task].completion.cause \in RetireCause
      BY <1>0, <3>1 DEF Rested, Closing, Ends, EndCause, RetireCause, Timeouts
    <3>3. \A i \in retired : /\ tasks[i].status = "failed"
                             /\ tasks[i].completion.cause \in RetireCause
      BY DEF RestInv, Restful, RetiredForFailure, RetireCause
    <3> QED
      BY <3>1, <3>2, <3>3 DEF RetiredForFailure, RetireCause
  <2>2. CASE ~(RetireSession(w) /\ retired' # retired)
    <3>1. retired' = retired
      BY <2>2 DEF WorkerStep, WorkerClaim, EnvelopeStart, BeginRun, GateBlocks, RunText,
         Watchdog, WallClock, RunOk, Bind, RunErr, Judge, RunEnds, RunPanic, GatePasses, MarkGet, MarkUpdate,
         EnvelopeClose, Deliver, recordVars
    <3> QED
      BY <1>0, <3>1, RetirementsStay DEF RetiredForFailure, RetireCause
  <2> QED
    BY <2>1, <2>2
<1>5. Settled'
  <2>1. SUFFICES ASSUME daemon = "up", NEW i \in TaskId, Over(i)', agentic'[i] = "running"
                 PROVE  \E v \in Worker : wk'[v].pc = "close" /\ wk'[v].task = i
    BY <1>1 DEF Settled
  <2>2. CASE tasks[i].status \notin Terminal
    <3>1. wk'[w].task = i /\ wk[w].pc = "finish" /\ (wk[w].env => wk'[w].pc = "close")
      BY <2>1, <2>2, EndsInHand DEF Over
    <3> QED
      BY <1>0, <2>1, <3>1 DEF Rested
  <2>3. CASE tasks[i].status \in Terminal
    <3>1. Over(i)
      BY <1>0, <2>1, <2>3, OverBefore
    <3>2. agentic[i] = "running" /\ ~(EnvelopeClose(w) /\ wk[w].task = i)
      <4>1. CASE EnvelopeStart(w)
        <5>1. wk[w].task # i
          BY <2>3, <4>1 DEF EnvelopeStart, RestInv, OwnInv, WorkersHold, Held, Working, Terminal
        <5> QED
          BY <1>0, <2>1, <4>1, <5>1 DEF EnvelopeStart, EnvelopeClose
      <4>2. CASE EnvelopeClose(w)
        BY <1>0, <2>1, <4>2 DEF EnvelopeClose
      <4>3. CASE ~EnvelopeStart(w) /\ ~EnvelopeClose(w)
        BY <2>1, <4>3 DEF WorkerStep, WorkerClaim, BeginRun, GateBlocks, RunText, Watchdog,
           WallClock, RunOk, Bind, RunErr, Judge, RunEnds, RunPanic, GatePasses, MarkGet, MarkUpdate,
           RetireSession, Deliver, recordVars
      <4> QED
        BY <4>1, <4>2, <4>3
    <3>3. PICK v \in Worker : wk[v].pc = "close" /\ wk[v].task = i
      BY <2>1, <3>1, <3>2 DEF Settled, RestInv, Restful
    <3>4. v # w
      BY <3>2, <3>3 DEF WorkerStep, WorkerClaim, EnvelopeStart, BeginRun, GateBlocks, RunText,
         Watchdog, WallClock, RunOk, Bind, RunErr, Judge, RunEnds, RunPanic, GatePasses, MarkGet, MarkUpdate,
         RetireSession, Deliver
    <3> QED
      BY <1>1, <3>3, <3>4
  <2> QED
    BY <2>2, <2>3
<1>6. HandedOver'
  <2>1. SUFFICES ASSUME daemon \in {"reconciling", "up"}, NEW i \in TaskId, Over(i)',
                        i \notin handed'
                 PROVE  \E v \in Worker : wk'[v].pc \in Closing /\ wk'[v].task = i
    BY <1>1 DEF HandedOver
  <2>2. CASE tasks[i].status \notin Terminal
    BY <2>1, <2>2, EndsInHand DEF Over
  <2>3. CASE tasks[i].status \in Terminal
    <3>1. Over(i)
      BY <1>0, <2>1, <2>3, OverBefore
    <3>2. i \notin handed /\ ~(Deliver(w) /\ wk[w].task = i)
      <4>1. CASE Deliver(w)
        BY <1>0, <2>1, <2>3, <4>1 DEF Deliver
      <4>2. CASE ~Deliver(w)
        BY <2>1, <4>2 DEF WorkerStep, WorkerClaim, EnvelopeStart, BeginRun, GateBlocks,
           RunText, Watchdog, WallClock, RunOk, Bind, RunErr, Judge, RunEnds, RunPanic, GatePasses, MarkGet,
           MarkUpdate, EnvelopeClose, RetireSession, recordVars
      <4> QED
        BY <4>1, <4>2
    <3>3. PICK v \in Worker : wk[v].pc \in Closing /\ wk[v].task = i
      BY <2>1, <3>1, <3>2 DEF HandedOver, RestInv, Restful
    <3>4. CASE v = w
      <4>1. EnvelopeClose(w) \/ RetireSession(w)
        BY <3>2, <3>3, <3>4 DEF WorkerStep, WorkerClaim, EnvelopeStart, BeginRun, GateBlocks,
           RunText, Watchdog, WallClock, RunOk, Bind, RunErr, Judge, RunEnds, RunPanic, GatePasses, MarkGet,
           MarkUpdate, Closing
      <4>2. wk'[w].pc \in Closing /\ wk'[w].task = wk[w].task
        BY <1>0, <4>1 DEF EnvelopeClose, RetireSession, WorkerState, Closing
      <4> QED
        BY <3>3, <3>4, <4>2
    <3>5. CASE v # w
      BY <1>1, <3>3, <3>5
    <3> QED
      BY <3>4, <3>5
  <2> QED
    BY <2>2, <2>3
<1> QED
  BY <1>2, <1>3, <1>4, <1>5, <1>6 DEF Restful

\* A start hands over and reconciles what the last process left.
LEMMA ProcessRest ==
    ASSUME CrashesOnly, RestInv, ProcessStep
    PROVE  Restful'
<1>0. /\ DInv /\ TruthInv /\ wk \in [Worker -> WorkerState] /\ ~MayFail
      /\ call \in [Caller -> Call] /\ [DaemonNext]_vars
      /\ Polling.pc = "poll" /\ ~Polling.retire /\ ~Polling.told
  BY DEF RestInv, TruthInv, DInv, IInv, DaemonTypeOK, DaemonNext, CrashesOnly, MayFail, Polling
<1>1. retired' = retired
  BY DEF ProcessStep, Open, OpenRecover, DeliverExisting, Reconcile, Stop, Halt, Crash, Connect, Hangup,
     recordVars
<1>2. RetiredForFailure'
  BY <1>0, <1>1, RetirementsStay DEF RetiredForFailure, RetireCause
<1>3. ClientsOnlyCancel'
  <2>1. \A c \in Client : call'[c] = call[c]
    BY <1>0, Callers DEF ProcessStep, Open, RecoverStart, OpenRecover, RecoverTx, AbortCall,
       Return, DeliverExisting, Reconcile, Stop, Halt, Crash, Connect, Hangup, Die, queueVars
  <2> QED
    BY <2>1 DEF ClientsOnlyCancel, RestInv, Restful
<1>4. ASSUME wk' = [w \in Worker |-> Polling] PROVE \A w \in Worker : Rested(w)'
  BY <1>4 DEF Rested, Closing, Polling, Timeouts
<1>5. ASSUME wk' = wk, \A w \in Worker : wk[w].pc = "poll" PROVE \A w \in Worker : Rested(w)'
  <2>1. \A w \in Worker : Rested(w)
    BY DEF RestInv, Restful
  <2> QED
    BY <1>5, <2>1 DEF Rested, Closing
<1>6. CASE Open \/ OpenRecover \/ Halt \/ Crash
  <2>1. daemon' \notin {"reconciling", "up"}
    BY <1>6 DEF Open, OpenRecover, Halt, Crash
  <2>2. Settled' /\ HandedOver'
    BY <2>1 DEF Settled, HandedOver
  <2>3. CASE Crash
    BY <1>0, <1>2, <1>3, <1>4, <2>2, <2>3 DEF Crash, Restful
  <2>4. CASE Open \/ OpenRecover \/ Halt
    <3>1. wk' = wk /\ \A w \in Worker : wk[w].pc = "poll"
      BY <2>4 DEF Open, OpenRecover, Halt, RestInv, OwnInv, Roles
    <3> QED
      BY <1>2, <1>3, <1>5, <2>2, <3>1 DEF Restful
  <2> QED
    BY <1>6, <2>3, <2>4
<1>7. CASE DeliverExisting
  <2>1. /\ wk' = wk /\ tasks' = tasks /\ daemon = "starting" /\ daemon' = "reconciling"
        /\ handed' = handed \cup {i \in TaskId : tasks[i].status \in Terminal}
    BY <1>0, <1>7 DEF DeliverExisting, queueVars
  <2>2. \A w \in Worker : wk[w].pc = "poll"
    BY <2>1 DEF RestInv, OwnInv, Roles
  <2>3. Settled' /\ HandedOver'
    BY <2>1 DEF Settled, HandedOver, Over
  <2> QED
    BY <1>2, <1>3, <1>5, <2>1, <2>2, <2>3 DEF Restful
<1>8. CASE Reconcile
  <2>1. /\ wk' = wk /\ tasks' = tasks /\ daemon = "reconciling" /\ daemon' = "up"
        /\ handed' = handed /\ agentic' = [i \in TaskId |-> Reconciled(i)]
    BY <1>0, <1>8 DEF Reconcile, queueVars
  <2>2. \A w \in Worker : wk[w].pc = "poll"
    BY <2>1 DEF RestInv, OwnInv, Roles
  <2>3. Settled'
    BY <2>1 DEF Settled, Over, Reconciled
  <2>4. HandedOver'
    BY <2>1 DEF HandedOver, Over, RestInv, Restful
  <2> QED
    BY <1>2, <1>3, <1>5, <2>1, <2>2, <2>3, <2>4 DEF Restful
<1>9. CASE Stop
  <2>1. wk' = wk /\ tasks' = tasks /\ daemon = "up" /\ daemon' = "stopping"
    BY <1>9 DEF Stop, queueVars
  <2>2. \A w \in Worker : Rested(w)'
    BY <2>1 DEF Rested, Ends, EndCause, RestInv, Restful
  <2>3. Settled' /\ HandedOver'
    BY <2>1 DEF Settled, HandedOver
  <2> QED
    BY <1>2, <1>3, <2>2, <2>3 DEF Restful
<1>10. ASSUME NEW c \in Conn, Connect(c) \/ Hangup(c) PROVE Restful'
  <2>1. UNCHANGED <<tasks, wk, daemon, agentic, handed, retired>>
    BY <1>10 DEF Connect, Hangup, queueVars, recordVars
  <2> QED
    BY <1>0, <1>3, <2>1, RestKept DEF OnlyCancelled
<1> QED
  BY <1>6, <1>7, <1>8, <1>9, <1>10 DEF ProcessStep

\* A client may only cancel.
LEMMA ClientRest ==
    ASSUME CrashesOnly, RestInv, NEW c \in Client, ClientBegin(c) \/ ClientStep(c)
    PROVE  Restful'
<1>0. /\ IInv /\ c \in Caller /\ call[c].op \notin {"finish", "recover"}
      /\ call \in [Caller -> Call] /\ "foreign" \notin Fault
      /\ (call[c].op = "cancel" => call[c].draft.cause = "cancelled")
  BY Callers DEF RestInv, OwnInv, Roles, TruthInv, DInv, IInv, Restful, ClientsOnlyCancel,
     CrashesOnly
<1>1. UNCHANGED <<wk, daemon, agentic, handed, retired>> /\ [DaemonNext]_vars
  BY DEF ClientBegin, ClientStep, daemonVars, procVars, recordVars, DaemonNext
<1>2. OnlyCancelled
  <2>1. CASE ClientStep(c)
    BY <1>0, <2>1, ClientCancels DEF ClientStep
  <2>2. CASE ClientBegin(c)
    BY <2>2 DEF ClientBegin, EnqueueStart, CancelTask, CancelSelect, CancelPendingTask,
       AnnotateGet, RecoverStart, OnlyCancelled
  <2> QED
    BY <2>1, <2>2
<1>3. CallOnly(c) /\ (call'[c].op = "cancel" => call'[c].draft.cause = "cancelled")
  <2>1. CASE ClientBegin(c)
    BY <1>0, <2>1 DEF ClientBegin, EnqueueStart, CancelTask, CancelSelect, CancelPendingTask,
       AnnotateGet, RecoverStart, CallOnly, NoCall
  <2>2. CASE ClientStep(c)
    <3>1. CallOnly(c)
      BY <1>0, <2>2, BeginsAndSteps DEF ClientStep
    <3>2. CASE CancelBuild(c)
      <4> DEFINE d == Draft(call[c].task, "failed", "cancelled")
                 r == [call[c] EXCEPT !.op = "cancel", !.draft = d]
      <4>1. d.cause = "cancelled"
        BY DEF Draft
      <4>2. call' = [call EXCEPT ![c] = r]
        BY <3>2 DEF CancelBuild
      <4>3. r.draft = d
        BY <1>0 DEF Call
      <4> HIDE DEF r, d
      <4> QED
        BY <1>0, <3>1, <4>1, <4>2, <4>3
    <3>3. CASE ~CancelBuild(c)
      <4>1. call'[c].op # "cancel" \/ call'[c] = call[c]
        BY <1>0, <2>2, <3>3 DEF ClientStep, Step, EnqueueLookup, EnqueueInsert,
           EnqueueRelookup, AnnotateUpdate, FinishUpdate, CancelUpdate, RecoverTx, AbortCall,
           Return, NoCall, Call
      <4> QED
        BY <1>0, <3>1, <4>1
    <3> QED
      BY <3>2, <3>3
  <2> QED
    BY <2>1, <2>2
<1>4. ClientsOnlyCancel'
  BY <1>3, Callers DEF CallOnly, ClientsOnlyCancel, RestInv, Restful
<1> QED
  BY <1>1, <1>2, <1>4, RestKept

LEMMA RestNext ==
    ASSUME CrashesOnly
    PROVE  RestInv /\ [DaemonNext]_vars => RestInv'
<1> SUFFICES ASSUME RestInv, [DaemonNext]_vars PROVE RestInv'
  OBVIOUS
<1>0. DInv /\ IInv /\ wk \in [Worker -> WorkerState] /\ "foreign" \notin Fault
  BY DEF RestInv, TruthInv, DInv, DaemonTypeOK, CrashesOnly
<1>1. OwnInv' /\ TruthInv'
  BY <1>0, OwnNext, TruthNext DEF RestInv
<1>2. ASSUME UNCHANGED <<tasks, call, wk, daemon, agentic, handed, retired>> PROVE Restful'
  <2>1. OnlyCancelled
    BY <1>2 DEF OnlyCancelled
  <2>2. ClientsOnlyCancel'
    BY <1>2 DEF ClientsOnlyCancel, RestInv, Restful
  <2>3. UNCHANGED <<daemon, agentic, handed, retired>> /\ wk' = wk
    BY <1>2
  <2> QED
    BY <2>1, <2>2, <2>3, RestKept
<1>3. ASSUME (Tick /\ UNCHANGED daemonVars) \/ UNCHANGED vars PROVE Restful'
  BY <1>2, <1>3 DEF Tick, daemonVars, procVars, recordVars, vars, queueVars
<1>4. ASSUME NEW i \in TaskId, Beat(i) PROVE Restful'
  <2>1. OnlyCancelled /\ call' = call
    BY <1>0, <1>4, NoneDoneSingle DEF Beat, UpdateProgress, queueVars, NoneEnds, OnlyCancelled
  <2>2. UNCHANGED <<wk, daemon, agentic, handed, retired>>
    BY <1>4 DEF Beat, procVars, recordVars
  <2>3. ClientsOnlyCancel'
    BY <2>1 DEF ClientsOnlyCancel, RestInv, Restful
  <2> QED
    BY <2>1, <2>2, <2>3, RestKept
<1>5. ASSUME NEW i \in TaskId, CancelRunningTask(i) PROVE Restful'
  <2>1. PICK w \in Worker : wk' = [wk EXCEPT ![w].sig = @ \cup {"manual"}]
    BY <1>0, <1>5 DEF CancelRunningTask, Signal, DInv, DaemonTypeOK
  <2>2. \A v \in Worker : /\ wk'[v].pc = wk[v].pc /\ wk'[v].task = wk[v].task
                          /\ wk'[v].outcome = wk[v].outcome
                          /\ wk'[v].retire = wk[v].retire /\ wk'[v].env = wk[v].env
                          /\ wk'[v].told = wk[v].told
    BY <1>0, <2>1 DEF WorkerState
  <2>3. UNCHANGED <<tasks, call, daemon, agentic, handed, retired>>
    BY <1>5 DEF CancelRunningTask, queueVars, procVars, recordVars
  <2>4. OnlyCancelled
    BY <2>3 DEF OnlyCancelled
  <2>5. ClientsOnlyCancel'
    BY <2>3 DEF ClientsOnlyCancel, RestInv, Restful
  <2>6. UNCHANGED <<daemon, agentic, handed, retired>>
    BY <2>3
  <2> QED
    BY <2>2, <2>4, <2>5, <2>6, RestKept
<1>6. Restful'
  BY <1>3, <1>4, <1>5, WorkerRest, ProcessRest, ClientRest DEF DaemonNext
<1> QED
  BY <1>1, <1>6 DEF RestInv

LEMMA RestInit == DaemonInit => RestInv
<1> SUFFICES ASSUME DaemonInit PROVE RestInv
  OBVIOUS
<1>1. OwnInv /\ TruthInv
  BY OwnInit, TruthInit
<1>2. \A w \in Worker : Rested(w)
  BY DEF DaemonInit, Polling, Rested, Closing, Timeouts
<1>3. Settled /\ HandedOver
  BY DEF DaemonInit, Settled, HandedOver
<1>4. ClientsOnlyCancel /\ RetiredForFailure
  BY Callers DEF DaemonInit, QueueInit, NoCall, ClientsOnlyCancel, RetiredForFailure
<1> QED
  BY <1>1, <1>2, <1>3, <1>4 DEF RestInv, Restful

\* Whatever a crash interrupted, the envelope of a finished task at rest in a
\* running daemon is closed, unless the task was cancelled in the queue.
THEOREM EnvelopesAreSettled ==
    ASSUME CrashesOnly
    PROVE  DaemonSpec => []EnvelopeSettles
<1>1. RestInv => EnvelopeSettles
  BY DEF RestInv, Restful, Settled, Over, EnvelopeSettles, AtRest, Live
<1> QED
  BY <1>1, RestInit, RestNext, PTL DEF DaemonSpec

\* Whatever a crash interrupted, the receipt of a finished task at rest in a
\* running daemon was handed to the delivery router, unless it was cancelled.
THEOREM FinishedTasksAreHanded ==
    ASSUME CrashesOnly
    PROVE  DaemonSpec => []FinishedIsHanded
<1>1. RestInv => FinishedIsHanded
  BY DEF RestInv, Restful, HandedOver, Over, FinishedIsHanded, AtRest, Live, Closing
<1> QED
  BY <1>1, RestInit, RestNext, PTL DEF DaemonSpec

\* A session is retired only for a task that is recorded as failed, not as
\* stopped; and the run of a worker that was told to stop before its runner
\* returned retires it only by a panic.
THEOREM RetirementsAreJustified ==
    ASSUME CrashesOnly
    PROVE  DaemonSpec => []RetirementJustified
<1>1. ASSUME RestInv PROVE RetirementJustified
  <2>1. RetiredForFailure /\ \A w \in Worker : Rested(w)
    BY <1>1 DEF RestInv, Restful
  <2>2. ASSUME NEW w \in Worker, wk[w].told, wk[w].pc \in Closing, wk[w].task \in retired
        PROVE  tasks[wk[w].task].completion.cause = "error"
    <3>1. /\ tasks[wk[w].task].completion.cause = EndCause(wk[w])
          /\ wk[w].outcome \notin Timeouts
      BY <2>1, <2>2 DEF Rested
    <3>2. tasks[wk[w].task].completion.cause \in {"error"} \cup Timeouts
      BY <2>1, <2>2 DEF RetiredForFailure
    <3> QED
      BY <3>1, <3>2 DEF EndCause, Timeouts
  <2> QED
    BY <2>1, <2>2 DEF RetirementJustified
<1> QED
  BY <1>1, RestInit, RestNext, PTL DEF DaemonSpec

\* A stop that comes before the runner returns wins over the watchdogs: the run
\* is not judged a timeout and its task is not recorded as one, whatever a crash
\* interrupts.  It is a statement of the reads in runTask's order: a stop that
\* comes after the first of them is no part of it.
THEOREM StopsAreNotTimeouts ==
    ASSUME CrashesOnly
    PROVE  DaemonSpec => []StopIsNotTimeout
<1>1. RestInv => StopIsNotTimeout
  BY DEF RestInv, Restful, Rested, EndCause, Timeouts, StopIsNotTimeout
<1> QED
  BY <1>1, RestInit, RestNext, PTL DEF DaemonSpec
=============================================================================
