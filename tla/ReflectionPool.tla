--------------------------- MODULE ReflectionPool ---------------------------
(***************************************************************************)
(* The pool that reflects on failed runs in the background                 *)
(* (internal/agent/reflection/pool.go): agents offer jobs from their own   *)
(* goroutines, one dispatcher takes them from a bounded channel and starts *)
(* workers under a semaphore, and shutdown closes the channel and waits.   *)
(***************************************************************************)
EXTENDS Sequences, FiniteSets, Naturals

CONSTANTS
    PoolJob,         \* runs that end badly, each offers one job
    PoolCloser,      \* calls of Shutdown
    QueueSize,       \* capacity of the channel
    MaxConcurrent    \* capacity of the semaphore

ASSUME PoolAssumption ==
    /\ QueueSize \in Nat \ {0}
    /\ MaxConcurrent \in Nat \ {0}

VARIABLES
    pjob,        \* where each job is
    pqueue,      \* the channel queue
    pstopped,    \* the flag stopped, set with the channel closed
    pstopCh,     \* stopCh has been closed
    pdispatch,   \* the dispatcher: in select, at the semaphore, or returned
    pshutdown,   \* where each call of Shutdown is
    ppanic       \* a closed channel was sent on or closed again

poolVars == <<pjob, pqueue, pstopped, pstopCh, pdispatch, pshutdown, ppanic>>

PoolTypeOK ==
    /\ pjob \in [PoolJob -> {"new", "checked", "queued", "held", "running",
                             "processed", "refused", "dropped"}]
    /\ pqueue \in Seq(PoolJob)
    /\ Len(pqueue) <= QueueSize
    /\ pstopped \in BOOLEAN
    /\ pstopCh \in BOOLEAN
    /\ pdispatch \in {"select", "semaphore", "returned"}
    /\ pshutdown \in [PoolCloser -> {"idle", "waiting", "drained", "expired"}]
    /\ ppanic \in BOOLEAN

PoolInit ==
    /\ pjob = [j \in PoolJob |-> "new"]
    /\ pqueue = <<>>
    /\ pstopped = FALSE
    /\ pstopCh = FALSE
    /\ pdispatch = "select"
    /\ pshutdown = [s \in PoolCloser |-> "idle"]
    /\ ppanic = FALSE

PoolRunning == {j \in PoolJob : pjob[j] = "running"}

-----------------------------------------------------------------------------
\* Enqueue, first half: the flag is read.
EnqueueCheck(j) ==
    /\ pjob[j] = "new"
    /\ pjob' = [pjob EXCEPT ![j] = IF pstopped THEN "refused" ELSE "checked"]
    /\ UNCHANGED <<pqueue, pstopped, pstopCh, pdispatch, pshutdown, ppanic>>

\* Second half: the non-blocking send.  Sending on a closed channel panics,
\* also in a select with a default branch.
EnqueueSend(j) ==
    /\ pjob[j] = "checked"
    /\ \/ /\ pstopped
          /\ ppanic' = TRUE
          /\ pjob' = [pjob EXCEPT ![j] = "dropped"]
          /\ UNCHANGED pqueue
       \/ /\ ~pstopped
          /\ Len(pqueue) < QueueSize
          /\ pqueue' = Append(pqueue, j)
          /\ pjob' = [pjob EXCEPT ![j] = "queued"]
          /\ UNCHANGED ppanic
       \/ /\ ~pstopped
          /\ Len(pqueue) = QueueSize
          /\ pjob' = [pjob EXCEPT ![j] = "dropped"]
          /\ UNCHANGED <<pqueue, ppanic>>
    /\ UNCHANGED <<pstopped, pstopCh, pdispatch, pshutdown>>

\* The dispatcher's select: a job, if there is one, even after the close.
DispatchReceive ==
    /\ pdispatch = "select"
    /\ pqueue # <<>>
    /\ pdispatch' = "semaphore"
    /\ pjob' = [pjob EXCEPT ![Head(pqueue)] = "held"]
    /\ pqueue' = Tail(pqueue)
    /\ UNCHANGED <<pstopped, pstopCh, pshutdown, ppanic>>

DispatchReturnEarly ==   \* mutant: the dispatcher leaves jobs in a closed channel
    /\ pdispatch = "select"
    /\ pstopCh \/ pstopped
    /\ pdispatch' = "returned"
    /\ UNCHANGED <<pjob, pqueue, pstopped, pstopCh, pshutdown, ppanic>>

\* The channel is closed and empty, or stopCh is closed.
DispatchReturn ==
    /\ pdispatch = "select"
    /\ pstopCh \/ (pstopped /\ pqueue = <<>>)
    /\ pdispatch' = "returned"
    /\ UNCHANGED <<pjob, pqueue, pstopped, pstopCh, pshutdown, ppanic>>

\* The semaphore is acquired and the worker started; stopCh is not looked at.
DispatchSpawn(j) ==
    /\ pjob[j] = "held"
    /\ Cardinality(PoolRunning) < MaxConcurrent
    /\ pdispatch' = "select"
    /\ pjob' = [pjob EXCEPT ![j] = "running"]
    /\ UNCHANGED <<pqueue, pstopped, pstopCh, pshutdown, ppanic>>

\* runJob: the engine's answer or its error within 15 s, the store's append
\* or its error; the job counts as processed in every case.
RunJob(j) ==
    /\ pjob[j] = "running"
    /\ pjob' = [pjob EXCEPT ![j] = "processed"]
    /\ UNCHANGED <<pqueue, pstopped, pstopCh, pdispatch, pshutdown, ppanic>>

-----------------------------------------------------------------------------
\* Shutdown: stopOnce sets the flag and closes the channel.
ShutdownBegin(s) ==
    /\ pshutdown[s] = "idle"
    /\ pstopped' = TRUE
    /\ pshutdown' = [pshutdown EXCEPT ![s] = "waiting"]
    /\ UNCHANGED <<pjob, pqueue, pstopCh, pdispatch, ppanic>>

\* wg.Wait returned: the dispatcher and every worker are gone.
ShutdownDrained(s) ==
    /\ pshutdown[s] = "waiting"
    /\ pdispatch = "returned"
    /\ PoolRunning = {}
    /\ pshutdown' = [pshutdown EXCEPT ![s] = "drained"]
    /\ UNCHANGED <<pjob, pqueue, pstopped, pstopCh, pdispatch, ppanic>>

\* The grace period is over: stopCh is closed, outside stopOnce.
ShutdownExpired(s) ==
    /\ pshutdown[s] = "waiting"
    /\ pstopCh' = TRUE
    /\ ppanic' = (ppanic \/ pstopCh)
    /\ pshutdown' = [pshutdown EXCEPT ![s] = "expired"]
    /\ UNCHANGED <<pjob, pqueue, pstopped, pdispatch>>

PoolDispatch ==
    \/ DispatchReceive \/ DispatchReturn
    \/ \E j \in PoolJob : DispatchSpawn(j) \/ RunJob(j)

\* A panic ends the process.
PoolNext ==
    /\ ~ppanic
    /\ \/ \E j \in PoolJob : EnqueueCheck(j) \/ EnqueueSend(j)
       \/ PoolDispatch
       \/ \E s \in PoolCloser : ShutdownBegin(s) \/ ShutdownDrained(s) \/ ShutdownExpired(s)

PoolSpec == PoolInit /\ [][PoolNext]_poolVars

\* The dispatcher and the workers run (a worker has its 15 s cap), and
\* a shutdown that waits looks at the wait group.
PoolFairness == /\ WF_poolVars(~ppanic /\ PoolDispatch)
                /\ \A s \in PoolCloser : WF_poolVars(~ppanic /\ ShutdownDrained(s))

-----------------------------------------------------------------------------
\* A shutdown that reports success lost nothing: when no grace period had
\* run out before, every job that Enqueue accepted has been processed,
\* wherever the jobs were when the channel was closed.
PoolDrained ==
    (\E s \in PoolCloser : pshutdown[s] = "drained") /\ ~pstopCh =>
       \A j \in PoolJob : pjob[j] \notin {"queued", "held", "running"}

\* "returns false ... when the queue is full or the Pool is shutting down",
\* and later shutdowns "are no-ops": no order of calls makes the pool panic.
PoolNeverPanics == ~ppanic

\* No accepted job is left over unless a shutdown gave up on it, and no
\* shutdown waits.
PoolAtRest ==
    ppanic \/ /\ pstopCh \/ \A j \in PoolJob : pjob[j] \notin {"queued", "held", "running"}
              /\ \A s \in PoolCloser : pshutdown[s] # "waiting"
=============================================================================
