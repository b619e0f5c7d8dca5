---------------------------- MODULE ServiceProofs ----------------------------
(***************************************************************************)
(* Proofs about three services a daemon relies on, each on its own: the    *)
(* reflection pool, the MCP client and the manager of background           *)
(* processes, for any numbers of jobs, calls, faults and processes.  With  *)
(* the proofs about the gateway, the agent and the shell they give what    *)
(* holds of the services a run explores together.                          *)
(***************************************************************************)
EXTENDS MC_Services, GatewayProofs, AgentProofs, ShellProofs

-----------------------------------------------------------------------------
(***************************************************************************)
(* The reflection pool: what PoolDrained rests on.                         *)
(***************************************************************************)
\* A job that is queued is in the channel, and one that is held is the only
\* one the dispatcher carries to the semaphore.
JobsPlaced ==
    /\ \A j \in PoolJob : pjob[j] = "queued" => \E k \in 1..Len(pqueue) : pqueue[k] = j
    /\ \A j \in PoolJob : pjob[j] = "held" =>
          /\ pdispatch = "semaphore"
          /\ \A i \in PoolJob : pjob[i] = "held" => i = j

\* A dispatcher that returned although no grace period ran out has seen the
\* channel closed and empty, and a shutdown that reports success has seen the
\* dispatcher and its workers gone.
DrainInv ==
    /\ pdispatch = "returned" /\ ~pstopCh => pstopped /\ pqueue = <<>>
    /\ \A s \in PoolCloser : pshutdown[s] = "drained" =>
          pdispatch = "returned" /\ PoolRunning = {}

PoolInv == PoolTypeOK /\ JobsPlaced /\ DrainInv

-----------------------------------------------------------------------------
LEMMA PoolInitially == PoolInit => PoolInv
<1> SUFFICES ASSUME PoolInit PROVE PoolInv
  OBVIOUS
<1> USE DEF PoolInit
<1>1. PoolTypeOK
  <2>1. pqueue \in Seq(PoolJob) /\ Len(pqueue) = 0
    BY EmptySeq
  <2>2. QueueSize \in Nat
    BY PoolAssumption
  <2>3. Len(pqueue) <= QueueSize
    BY <2>1, <2>2
  <2> QED
    BY <2>1, <2>3 DEF PoolTypeOK
<1> QED
  BY <1>1 DEF PoolInv, JobsPlaced, DrainInv

\* Head and Tail of the channel.
LEMMA Taken ==
    ASSUME PoolTypeOK, pqueue # <<>>
    PROVE  /\ Head(pqueue) \in PoolJob
           /\ Head(pqueue) = pqueue[1]
           /\ Tail(pqueue) \in Seq(PoolJob)
           /\ Len(Tail(pqueue)) = Len(pqueue) - 1
           /\ \A k \in 1..Len(pqueue) - 1 : Tail(pqueue)[k] = pqueue[k + 1]
           /\ Len(pqueue) \in Nat \ {0}
BY HeadTailProperties, EmptySeq DEF PoolTypeOK

LEMMA PoolTypeStep == PoolInv /\ [PoolNext]_poolVars => PoolTypeOK'
<1> SUFFICES ASSUME PoolInv, [PoolNext]_poolVars PROVE PoolTypeOK'
  OBVIOUS
<1> USE PoolAssumption DEF PoolInv, PoolTypeOK
<1>1. ASSUME NEW j \in PoolJob, EnqueueCheck(j) PROVE PoolTypeOK'
  BY <1>1 DEF EnqueueCheck
<1>2. ASSUME NEW j \in PoolJob, EnqueueSend(j) PROVE PoolTypeOK'
  <2>1. Append(pqueue, j) \in Seq(PoolJob) /\ Len(Append(pqueue, j)) = Len(pqueue) + 1
    BY AppendProperties
  <2>2. Len(pqueue) \in Nat
    BY LenProperties
  <2>3. Len(pqueue) < QueueSize => Len(Append(pqueue, j)) <= QueueSize
    BY <2>1, <2>2
  <2>4. pjob' \in [PoolJob -> {"new", "checked", "queued", "held", "running",
                              "processed", "refused", "dropped"}]
    BY <1>2 DEF EnqueueSend
  <2> QED
    BY <1>2, <2>1, <2>3, <2>4 DEF EnqueueSend
<1>3. CASE DispatchReceive
  BY <1>3, Taken DEF DispatchReceive
<1>4. CASE DispatchReturn
  BY <1>4 DEF DispatchReturn
<1>5. ASSUME NEW j \in PoolJob, DispatchSpawn(j) \/ RunJob(j) PROVE PoolTypeOK'
  BY <1>5 DEF DispatchSpawn, RunJob
<1>6. ASSUME NEW s \in PoolCloser,
             ShutdownBegin(s) \/ ShutdownDrained(s) \/ ShutdownExpired(s)
      PROVE  PoolTypeOK'
  BY <1>6 DEF ShutdownBegin, ShutdownDrained, ShutdownExpired
<1>7. CASE UNCHANGED poolVars
  BY <1>7 DEF poolVars
<1> QED
  BY <1>1, <1>2, <1>3, <1>4, <1>5, <1>6, <1>7 DEF PoolNext, PoolDispatch

LEMMA JobsPlacedStep == PoolInv /\ [PoolNext]_poolVars => JobsPlaced'
<1> SUFFICES ASSUME PoolInv, [PoolNext]_poolVars PROVE JobsPlaced'
  OBVIOUS
<1> USE DEF PoolInv, PoolTypeOK, JobsPlaced
<1>1. ASSUME NEW j \in PoolJob, EnqueueCheck(j) PROVE JobsPlaced'
  BY <1>1 DEF EnqueueCheck
<1>2. ASSUME NEW j \in PoolJob, EnqueueSend(j) PROVE JobsPlaced'
  <2>1. /\ Len(Append(pqueue, j)) = Len(pqueue) + 1
        /\ \A k \in 1..Len(pqueue) : Append(pqueue, j)[k] = pqueue[k]
        /\ Append(pqueue, j)[Len(pqueue) + 1] = j
        /\ Len(pqueue) \in Nat
    BY AppendProperties, LenProperties
  <2>2. CASE ~pstopped /\ pqueue' = Append(pqueue, j) /\ pjob' = [pjob EXCEPT ![j] = "queued"]
             /\ pdispatch' = pdispatch
    BY <2>1, <2>2
  <2>3. CASE pqueue' = pqueue /\ pjob' = [pjob EXCEPT ![j] = "dropped"] /\ pdispatch' = pdispatch
    BY <2>3
  <2> QED
    BY <1>2, <2>2, <2>3 DEF EnqueueSend
<1>3. CASE DispatchReceive
  <2>1. ASSUME NEW j \in PoolJob, pjob'[j] = "queued"
        PROVE  \E k \in 1..Len(pqueue') : pqueue'[k] = j
    <3>1. pjob[j] = "queued" /\ j # Head(pqueue)
      BY <1>3, <2>1, Taken DEF DispatchReceive
    <3>2. PICK k \in 1..Len(pqueue) : pqueue[k] = j
      BY <3>1
    <3>3. k - 1 \in 1..Len(pqueue) - 1 /\ Tail(pqueue)[k - 1] = j
      BY <1>3, <3>1, <3>2, Taken DEF DispatchReceive
    <3> QED
      BY <1>3, <3>3, Taken DEF DispatchReceive
  <2>2. \A j \in PoolJob : pjob'[j] = "held" => j = Head(pqueue)
    BY <1>3, Taken DEF DispatchReceive
  <2> QED
    BY <1>3, <2>1, <2>2 DEF DispatchReceive
<1>4. CASE DispatchReturn
  BY <1>4 DEF DispatchReturn
<1>5. ASSUME NEW j \in PoolJob, DispatchSpawn(j) \/ RunJob(j) PROVE JobsPlaced'
  BY <1>5 DEF DispatchSpawn, RunJob
<1>6. ASSUME NEW s \in PoolCloser,
             ShutdownBegin(s) \/ ShutdownDrained(s) \/ ShutdownExpired(s)
      PROVE  JobsPlaced'
  BY <1>6 DEF ShutdownBegin, ShutdownDrained, ShutdownExpired
<1>7. CASE UNCHANGED poolVars
  BY <1>7 DEF poolVars
<1> QED
  BY <1>1, <1>2, <1>3, <1>4, <1>5, <1>6, <1>7 DEF PoolNext, PoolDispatch

LEMMA DrainStep == PoolInv /\ [PoolNext]_poolVars => DrainInv'
<1> SUFFICES ASSUME PoolInv, [PoolNext]_poolVars PROVE DrainInv'
  OBVIOUS
<1> USE DEF PoolInv, PoolTypeOK, DrainInv, PoolRunning
<1>1. ASSUME NEW j \in PoolJob, EnqueueCheck(j) \/ EnqueueSend(j) PROVE DrainInv'
  BY <1>1 DEF EnqueueCheck, EnqueueSend
<1>2. CASE DispatchReceive
  BY <1>2 DEF DispatchReceive
<1>3. CASE DispatchReturn
  BY <1>3 DEF DispatchReturn
<1>4. ASSUME NEW j \in PoolJob, DispatchSpawn(j) PROVE DrainInv'
  <2>1. pdispatch = "semaphore"
    BY <1>4 DEF DispatchSpawn, JobsPlaced
  <2> QED
    BY <1>4, <2>1 DEF DispatchSpawn
<1>5. ASSUME NEW j \in PoolJob, RunJob(j) PROVE DrainInv'
  BY <1>5 DEF RunJob
<1>6. ASSUME NEW s \in PoolCloser,
             ShutdownBegin(s) \/ ShutdownDrained(s) \/ ShutdownExpired(s)
      PROVE  DrainInv'
  BY <1>6 DEF ShutdownBegin, ShutdownDrained, ShutdownExpired
<1>7. CASE UNCHANGED poolVars
  BY <1>7 DEF poolVars
<1> QED
  BY <1>1, <1>2, <1>3, <1>4, <1>5, <1>6, <1>7 DEF PoolNext, PoolDispatch

LEMMA PoolInductive == PoolSpec => []PoolInv
<1>1. PoolInv /\ [PoolNext]_poolVars => PoolInv'
  BY PoolTypeStep, JobsPlacedStep, DrainStep DEF PoolInv
<1> QED
  BY <1>1, PoolInitially, PTL DEF PoolSpec

-----------------------------------------------------------------------------
\* The channel never holds more than its capacity, and every variable has its
\* type, in every order of Enqueue, dispatcher, workers and Shutdown.
THEOREM PoolTypeCorrect == PoolSpec => []PoolTypeOK
BY PoolInductive, PTL DEF PoolInv

\* A call of Shutdown that returns without an error, when no grace period ran
\* out, leaves no job that Enqueue accepted: closing the channel lets the
\* dispatcher finish what is in it, and no job can enter it afterwards.
THEOREM ShutdownLosesNothing == PoolSpec => []PoolDrained
<1>1. PoolInv => PoolDrained
  <2> SUFFICES ASSUME PoolInv, NEW s \in PoolCloser, pshutdown[s] = "drained", ~pstopCh,
                      NEW j \in PoolJob
               PROVE  pjob[j] \notin {"queued", "held", "running"}
    BY DEF PoolDrained
  <2>1. pdispatch = "returned" /\ PoolRunning = {} /\ pqueue = <<>>
    BY DEF PoolInv, DrainInv
  <2>2. pjob[j] # "queued"
    BY <2>1, Len(<<>>) = 0 DEF PoolInv, JobsPlaced
  <2> QED
    BY <2>1, <2>2 DEF PoolInv, JobsPlaced, PoolRunning
<1> QED
  BY <1>1, PoolInductive, PTL

-----------------------------------------------------------------------------
(***************************************************************************)
(* The MCP client: what McpAnswersInStep rests on.                         *)
(***************************************************************************)
\* The mutex belongs to the call that has sent its request, and a call that
\* waits or has sent has drawn its id.
McpPlaces ==
    /\ \A c \in McpCall : mcall[c].pc \in {"check", "read"} <=> mmutex = c
    /\ \A c \in McpCall : mcall[c].pc \in {"lock", "check", "read"} => mcall[c].id # 0

IsResponse(k) == k \in 1..Len(mwire) /\ mwire[k].kind = "response"

\* What is asked and what is answered and not yet read is one request of the
\* call that holds the mutex.
OneOutstanding ==
    /\ \A k \in 1..Len(mwire) :
          IsResponse(k) => mmutex # 0 /\ mwire[k].id = mcall[mmutex].id
    /\ \A k, l \in 1..Len(mwire) : IsResponse(k) /\ IsResponse(l) => k = l
    /\ mrequests # <<>> =>
          /\ Len(mrequests) = 1
          /\ mmutex # 0
          /\ mrequests[1] = mcall[mmutex].id
          /\ \A k \in 1..Len(mwire) : ~IsResponse(k)

McpInv ==
    /\ McpTypeOK
    /\ McpPlaces
    /\ McpUndisturbed => OneOutstanding
    /\ McpAnswersInStep

-----------------------------------------------------------------------------
LEMMA McpInitially == McpInit => McpInv
<1> SUFFICES ASSUME McpInit PROVE McpInv
  OBVIOUS
<1> USE McpAssumption DEF McpInit
<1>1. mrequests \in Seq(Nat) /\ mwire \in Seq(McpLine) /\ Len(mwire) = 0
  BY EmptySeq
<1>2. 0 \in 0..MaxNotifications /\ 0 \in 0..MaxGarbage
  OBVIOUS
<1>3. McpTypeOK
  BY <1>1, <1>2 DEF McpTypeOK, McpState, McpOver
<1>4. McpPlaces /\ McpAnswersInStep
  BY DEF McpPlaces, McpAnswersInStep
<1>5. OneOutstanding
  BY <1>1 DEF OneOutstanding
<1> QED
  BY <1>3, <1>4, <1>5 DEF McpInv

\* Changing one call's place, or its place and the id it has drawn or got.
LEMMA Moved ==
    ASSUME mcall \in [McpCall -> McpState], NEW c \in McpCall,
           NEW pc \in {"idle", "lock", "check", "read"} \cup McpOver, McpGo(c, pc)
    PROVE  /\ mcall' \in [McpCall -> McpState]
           /\ mcall'[c].pc = pc /\ mcall'[c].id = mcall[c].id
           /\ mcall'[c].answer = mcall[c].answer
           /\ \A d \in McpCall : d # c => mcall'[d] = mcall[d]
BY DEF McpGo, McpState

LEMMA Drawn ==
    ASSUME mcall \in [McpCall -> McpState], NEW c \in McpCall, NEW n \in Nat,
           mcall' = [mcall EXCEPT ![c].pc = "lock", ![c].id = n]
    PROVE  /\ mcall' \in [McpCall -> McpState]
           /\ mcall'[c].pc = "lock" /\ mcall'[c].id = n
           /\ mcall'[c].answer = mcall[c].answer
           /\ \A d \in McpCall : d # c => mcall'[d] = mcall[d]
BY DEF McpState

LEMMA Answered ==
    ASSUME mcall \in [McpCall -> McpState], NEW c \in McpCall, NEW n \in Nat,
           mcall' = [mcall EXCEPT ![c].pc = "answered", ![c].answer = n]
    PROVE  /\ mcall' \in [McpCall -> McpState]
           /\ mcall'[c].pc = "answered" /\ mcall'[c].id = mcall[c].id
           /\ mcall'[c].answer = n
           /\ \A d \in McpCall : d # c => mcall'[d] = mcall[d]
BY DEF McpState, McpOver

\* A step of a call: it begins, sends, looks at its context, skips a line,
\* takes a response or gives up.
Line == Head(mwire)
Moves(c) ==
    /\ mcall' \in [McpCall -> McpState]
    /\ \A d \in McpCall : d # c => mcall'[d] = mcall[d]
    /\ \/ /\ mcall[c].pc = "idle" /\ mcall'[c].pc = "lock" /\ mcall'[c].id = mnextID + 1
          /\ UNCHANGED <<mmutex, mrequests, mwire>>
       \/ /\ mcall[c].pc = "idle" /\ mcall'[c].pc = "cancelled"
          /\ UNCHANGED <<mmutex, mrequests, mwire>>
       \/ /\ mcall[c].pc = "lock" /\ mcall'[c].pc = "check" /\ mcall'[c].id = mcall[c].id
          /\ mmutex = 0 /\ mmutex' = c
          /\ mrequests' = Append(mrequests, mcall[c].id) /\ UNCHANGED mwire
       \/ /\ mcall[c].pc = "lock" /\ mcall'[c].pc = "failed" /\ mcall'[c].id = mcall[c].id
          /\ UNCHANGED <<mmutex, mrequests, mwire>>
       \/ /\ mcall[c].pc \in {"check", "read"} /\ mcall'[c].pc \in {"cancelled", "failed"}
          /\ mcall'[c].id = mcall[c].id /\ mmutex' = 0
          /\ mrequests' = mrequests
       \/ /\ mcall[c].pc = "check" /\ mcall'[c].pc = "read" /\ mcall'[c].id = mcall[c].id
          /\ UNCHANGED <<mmutex, mrequests, mwire>>
       \/ /\ mcall[c].pc = "read" /\ mcall'[c].pc = "check" /\ mcall'[c].id = mcall[c].id
          /\ mwire # <<>> /\ Line = Note
          /\ mwire' = Tail(mwire) /\ UNCHANGED <<mmutex, mrequests>>
       \/ /\ mcall[c].pc = "read" /\ mcall'[c].pc = "answered" /\ mcall'[c].id = mcall[c].id
          /\ mwire # <<>>
          /\ Line = Ask \/ Line.kind = "response"
          /\ mcall'[c].answer = Line.id
          /\ mwire' = Tail(mwire) /\ mmutex' = 0 /\ UNCHANGED mrequests

LEMMA McpCallMoves ==
    ASSUME McpTypeOK, NEW c \in McpCall, McpBegin(c) \/ McpStep(c)
    PROVE  Moves(c)
<1>1. mcall \in [McpCall -> McpState] /\ mnextID \in Nat
  BY DEF McpTypeOK
<1>2. CASE McpBegin(c)
  <2>1. CASE McpGo(c, "cancelled")
    BY <1>1, <1>2, <2>1, Moved DEF McpBegin, Moves, McpOver
  <2>2. CASE mcall' = [mcall EXCEPT ![c].pc = "lock", ![c].id = mnextID + 1]
    <3>1. mnextID + 1 \in Nat
      BY <1>1
    <3>2. /\ mcall' \in [McpCall -> McpState]
          /\ mcall'[c].pc = "lock" /\ mcall'[c].id = mnextID + 1
          /\ \A d \in McpCall : d # c => mcall'[d] = mcall[d]
      BY <1>1, <2>2, <3>1, Drawn
    <3> QED
      BY <1>2, <3>2 DEF McpBegin, Moves
  <2> QED
    BY <1>2, <2>1, <2>2 DEF McpBegin
<1>3. CASE McpSend(c)
  <2>1. CASE McpGo(c, "check") /\ mmutex' = c /\ mrequests' = Append(mrequests, mcall[c].id)
    BY <1>1, <1>3, <2>1, Moved DEF McpSend, Moves
  <2>2. CASE McpGo(c, "failed") /\ UNCHANGED <<mmutex, mrequests>>
    BY <1>1, <1>3, <2>2, Moved DEF McpSend, Moves, McpOver
  <2> QED
    BY <1>3, <2>1, <2>2 DEF McpSend
<1>4. CASE McpCheck(c)
  <2>1. CASE McpReturn(c, "cancelled")
    BY <1>1, <1>4, <2>1, Moved DEF McpCheck, Moves, McpOver, McpReturn
  <2>2. CASE McpGo(c, "read") /\ UNCHANGED mmutex
    BY <1>1, <1>4, <2>2, Moved DEF McpCheck, Moves
  <2> QED
    BY <1>4, <2>1, <2>2 DEF McpCheck
<1>5. CASE McpRead(c)
  <2>1. CASE mwire # <<>> /\ Line = Note /\ McpGo(c, "check") /\ UNCHANGED mmutex
             /\ mwire' = Tail(mwire)
    BY <1>1, <1>5, <2>1, Moved DEF McpRead, Moves
  <2>2. CASE McpReturn(c, "failed")
    BY <1>1, <1>5, <2>2, Moved DEF McpRead, Moves, McpOver, McpReturn
  <2>3. CASE /\ mwire # <<>>
             /\ Line = Ask \/ Line.kind = "response"
             /\ mwire' = Tail(mwire) /\ mmutex' = 0
             /\ mcall' = [mcall EXCEPT ![c].pc = "answered", ![c].answer = Line.id]
    <3>1. Line \in McpLine
      BY <2>3, HeadTailProperties DEF McpTypeOK, Line
    <3>2. Line.id \in Nat
      BY <3>1 DEF McpLine
    <3> QED
      BY <1>1, <1>5, <2>3, <3>2, Answered DEF McpRead, Moves
  <2> QED
    BY <1>5, <2>1, <2>2, <2>3 DEF McpRead, Line
<1> QED
  BY <1>2, <1>3, <1>4, <1>5 DEF McpStep

LEMMA McpTypeStep == McpInv /\ [McpNext]_mcpVars => McpTypeOK'
<1> SUFFICES ASSUME McpTypeOK, [McpNext]_mcpVars PROVE McpTypeOK'
  BY DEF McpInv
<1>1. /\ mcall \in [McpCall -> McpState] /\ mrequests \in Seq(Nat) /\ mwire \in Seq(McpLine)
      /\ mnextID \in Nat
  BY DEF McpTypeOK
<1>2. ASSUME NEW c \in McpCall, McpBegin(c) \/ McpStep(c) PROVE McpTypeOK'
  <2>1. mcall' \in [McpCall -> McpState]
    BY <1>2, McpCallMoves DEF Moves
  <2>2. mrequests' \in Seq(Nat)
    <3>1. mcall[c].id \in Nat
      BY <1>1 DEF McpState
    <3>2. Append(mrequests, mcall[c].id) \in Seq(Nat)
      BY <1>1, <3>1, AppendProperties
    <3> QED
      BY <1>1, <1>2, <3>2 DEF McpBegin, McpStep, McpSend, McpCheck, McpRead
  <2>3. mwire' \in Seq(McpLine)
    <3>1. mwire # <<>> => Tail(mwire) \in Seq(McpLine)
      BY <1>1, HeadTailProperties
    <3> QED
      BY <1>1, <1>2, <3>1 DEF McpBegin, McpStep, McpSend, McpCheck, McpRead
  <2>4. mmutex' \in McpCall \cup {0} /\ mnextID' \in Nat
    BY <1>2 DEF McpTypeOK, McpBegin, McpStep, McpSend, McpCheck, McpRead, McpReturn
  <2>5. UNCHANGED <<mcancelled, mserver, mnotes, mgarbage>>
    BY <1>2 DEF McpBegin, McpStep, McpSend, McpCheck, McpRead
  <2> QED
    BY <2>1, <2>2, <2>3, <2>4, <2>5 DEF McpTypeOK
<1>3. CASE ServerAnswer
  <2>1. Head(mrequests) \in Nat /\ Tail(mrequests) \in Seq(Nat)
    BY <1>1, <1>3, HeadTailProperties DEF ServerAnswer
  <2>2. [kind |-> "response", id |-> Head(mrequests)] \in McpLine
    BY <2>1 DEF McpLine
  <2>3. mwire' \in Seq(McpLine)
    BY <1>1, <1>3, <2>2, AppendProperties DEF ServerAnswer
  <2>4. mrequests' \in Seq(Nat)
    BY <1>3, <2>1 DEF ServerAnswer
  <2>5. UNCHANGED <<mcall, mmutex, mnextID, mcancelled, mserver, mnotes, mgarbage>>
    BY <1>3 DEF ServerAnswer
  <2> QED
    BY <2>3, <2>4, <2>5 DEF McpTypeOK
<1>4. CASE ServerNotify \/ ServerAsk \/ ServerGarbage
  <2>1. Note \in McpLine /\ Ask \in McpLine /\ Garbage \in McpLine
    BY DEF McpLine, Note, Ask, Garbage
  <2>2. mwire' \in Seq(McpLine)
    <3>1. PICK line \in McpLine : mwire' = Append(mwire, line)
      BY <1>4, <2>1 DEF ServerNotify, ServerAsk, ServerGarbage
    <3> QED
      BY <1>1, <3>1, AppendProperties
  <2>3. mnotes' \in 0..MaxNotifications /\ mgarbage' \in 0..MaxGarbage
    BY <1>4, McpAssumption DEF McpTypeOK, ServerNotify, ServerAsk, ServerGarbage
  <2> QED
    BY <1>4, <2>2, <2>3 DEF ServerNotify, ServerAsk, ServerGarbage, McpTypeOK
<1>5. CASE McpClose
  <2>1. mrequests' \in Seq(Nat)
    BY <1>5, EmptySeq DEF McpClose
  <2> QED
    BY <1>5, <2>1 DEF McpClose, McpTypeOK
<1>6. ASSUME NEW c \in McpCall, McpCancel(c) PROVE McpTypeOK'
  BY <1>6 DEF McpCancel, McpTypeOK
<1>7. CASE UNCHANGED mcpVars
  BY <1>7 DEF mcpVars, McpTypeOK
<1> QED
  BY <1>2, <1>3, <1>4, <1>5, <1>6, <1>7 DEF McpNext

LEMMA McpPlacesStep == McpInv /\ [McpNext]_mcpVars => McpPlaces'
<1> SUFFICES ASSUME McpInv, [McpNext]_mcpVars PROVE McpPlaces'
  OBVIOUS
<1>1. McpTypeOK /\ McpPlaces /\ mnextID \in Nat /\ McpCall \subseteq Nat \ {0}
  BY McpAssumption DEF McpInv, McpTypeOK
<1>2. ASSUME NEW c \in McpCall, McpBegin(c) \/ McpStep(c) PROVE McpPlaces'
  <2>1. Moves(c)
    BY <1>1, <1>2, McpCallMoves
  <2> QED
    BY <1>1, <2>1 DEF Moves, McpPlaces
<1>3. CASE UNCHANGED <<mcall, mmutex>>
  BY <1>1, <1>3 DEF McpPlaces
<1> QED
  BY <1>2, <1>3
  DEF McpNext, McpCancel, ServerAnswer, ServerNotify, ServerAsk, ServerGarbage, McpClose, mcpVars

\* A call that ended without a response to a request stays so.
LEMMA DisturbedForEver ==
    ASSUME McpInv, [McpNext]_mcpVars, McpUndisturbed'
    PROVE  McpUndisturbed
<1>1. ASSUME NEW c \in McpCall, McpBegin(c) \/ McpStep(c) PROVE McpUndisturbed
  <2>1. Moves(c)
    BY <1>1, McpCallMoves DEF McpInv
  <2> QED
    BY <2>1 DEF Moves, McpUndisturbed
<1>2. CASE UNCHANGED mcall
  BY <1>2 DEF McpUndisturbed
<1> QED
  BY <1>1, <1>2
  DEF McpNext, McpCancel, ServerAnswer, ServerNotify, ServerAsk, ServerGarbage, McpClose, mcpVars

LEMMA OutstandingStep == McpInv /\ [McpNext]_mcpVars /\ McpUndisturbed' => OneOutstanding'
<1> SUFFICES ASSUME McpInv, [McpNext]_mcpVars, McpUndisturbed' PROVE OneOutstanding'
  OBVIOUS
<1>1. OneOutstanding /\ McpPlaces /\ McpTypeOK
  BY DisturbedForEver DEF McpInv
<1>2. /\ mrequests \in Seq(Nat) /\ mwire \in Seq(McpLine)
      /\ Len(mrequests) \in Nat /\ Len(mwire) \in Nat
      /\ mmutex \in McpCall \cup {0} /\ McpCall \subseteq Nat \ {0}
  BY <1>1, LenProperties, McpAssumption DEF McpTypeOK
<1>3. ASSUME mwire # <<>>
      PROVE  /\ Len(mwire) >= 1 /\ Line = mwire[1]
             /\ Len(Tail(mwire)) = Len(mwire) - 1
             /\ \A k \in 1..Len(mwire) - 1 : Tail(mwire)[k] = mwire[k + 1]
  BY <1>2, <1>3, HeadTailProperties, EmptySeq DEF Line
<1>4. ASSUME NEW line \in McpLine
      PROVE  /\ Len(Append(mwire, line)) = Len(mwire) + 1
             /\ Append(mwire, line)[Len(mwire) + 1] = line
             /\ \A k \in 1..Len(mwire) : Append(mwire, line)[k] = mwire[k]
  BY <1>2, <1>4, AppendProperties
<1>5. ASSUME NEW c \in McpCall, McpBegin(c) \/ McpStep(c) PROVE OneOutstanding'
  <2>1. Moves(c)
    BY <1>1, <1>5, McpCallMoves
  <2>2. CASE /\ mcall'[c].id = mcall[c].id \/ mcall[c].pc = "idle"
             /\ UNCHANGED <<mmutex, mrequests, mwire>>
    <3>1. mmutex # 0 => mcall'[mmutex].id = mcall[mmutex].id
      BY <1>1, <1>2, <2>1, <2>2 DEF Moves, McpPlaces
    <3> QED
      BY <1>1, <2>2, <3>1 DEF OneOutstanding, IsResponse
  <2>3. CASE /\ mcall'[c].id = mcall[c].id /\ mmutex = 0 /\ mmutex' = c
             /\ mrequests' = Append(mrequests, mcall[c].id) /\ mwire' = mwire
    <3>1. mrequests = <<>> /\ \A k \in 1..Len(mwire) : ~IsResponse(k)
      BY <1>1, <2>3 DEF OneOutstanding
    <3>2. mrequests' = <<mcall[c].id>>
      BY <2>3, <3>1
    <3>3. Len(mrequests') = 1 /\ mrequests'[1] = mcall[c].id
      BY <3>2
    <3> QED
      BY <1>2, <2>3, <3>1, <3>3 DEF OneOutstanding, IsResponse
  <2>4. CASE /\ mcall[c].pc \in {"check", "read", "lock"}
             /\ mcall'[c].pc \in {"cancelled", "failed"} /\ mcall'[c].id = mcall[c].id
    BY <1>1, <2>4 DEF McpPlaces, McpUndisturbed
  <2>5. CASE /\ mcall'[c].id = mcall[c].id /\ mwire # <<>> /\ Line = Note
             /\ mwire' = Tail(mwire) /\ UNCHANGED <<mmutex, mrequests>>
    <3>1. mmutex # 0 => mcall'[mmutex].id = mcall[mmutex].id
      BY <1>2, <2>1, <2>5 DEF Moves
    <3>2. \A k \in 1..Len(mwire) - 1 : IsResponse(k)' <=> IsResponse(k + 1)
      BY <1>2, <1>3, <2>5 DEF IsResponse
    <3>3. Len(mwire') = Len(mwire) - 1
      BY <1>3, <2>5
    <3>4. \A k \in 1..Len(mwire') : k + 1 \in 1..Len(mwire) /\ mwire'[k] = mwire[k + 1]
      BY <1>2, <1>3, <2>5, <3>3
    <3> QED
      BY <1>1, <1>2, <2>5, <3>1, <3>2, <3>3, <3>4 DEF OneOutstanding
  <2>6. CASE /\ mcall[c].pc = "read" /\ mwire # <<>> /\ Line.kind = "response"
             /\ mwire' = Tail(mwire) /\ mmutex' = 0 /\ mrequests' = mrequests
    <3>1. IsResponse(1)
      BY <1>2, <1>3, <2>6 DEF IsResponse
    <3>2. mrequests = <<>>
      BY <1>1, <1>2, <1>3, <2>6, <3>1 DEF OneOutstanding
    <3>3. \A k \in 1..Len(mwire) : IsResponse(k) => k = 1
      BY <1>1, <1>2, <1>3, <2>6, <3>1 DEF OneOutstanding
    <3>4. \A k \in 1..Len(mwire') : ~IsResponse(k)'
      <4> SUFFICES ASSUME NEW k \in 1..Len(mwire'), IsResponse(k)' PROVE FALSE
        OBVIOUS
      <4>1. k + 1 \in 1..Len(mwire) /\ IsResponse(k + 1)
        BY <1>2, <1>3, <2>6 DEF IsResponse
      <4> QED
        BY <1>2, <3>3, <4>1
    <3> QED
      BY <2>6, <3>2, <3>4 DEF OneOutstanding
  <2>7. CASE /\ mcall'[c].pc = "answered" /\ Line = Ask /\ mcall'[c].answer = Line.id
    BY <2>7 DEF McpUndisturbed, Ask
  <2>8. mcall[c].pc = "idle" /\ mcall'[c].pc = "cancelled" => UNCHANGED <<mmutex, mrequests, mwire>>
    BY <2>1 DEF Moves
  <2> QED
    BY <2>1, <2>2, <2>3, <2>4, <2>5, <2>6, <2>7, <2>8 DEF Moves
<1>6. CASE ServerAnswer
  <2>1. /\ Len(mrequests) = 1 /\ mmutex # 0 /\ mrequests[1] = mcall[mmutex].id
        /\ \A k \in 1..Len(mwire) : ~IsResponse(k)
    BY <1>1, <1>6 DEF ServerAnswer, OneOutstanding
  <2>2. Head(mrequests) = mrequests[1] /\ Head(mrequests) \in Nat /\ Tail(mrequests) = <<>>
    <3>1. mrequests # <<>>
      BY <1>6 DEF ServerAnswer
    <3>2. Head(mrequests) = mrequests[1] /\ Head(mrequests) \in Nat
      BY <1>2, <3>1, HeadTailProperties
    <3>3. Tail(mrequests) \in Seq(Nat) /\ Len(Tail(mrequests)) = 0
      BY <1>2, <2>1, <3>1, HeadTailProperties
    <3> QED
      BY <3>2, <3>3, EmptySeq
  <2> DEFINE line == [kind |-> "response", id |-> Head(mrequests)]
  <2>3. line \in McpLine
    BY <2>2 DEF McpLine
  <2>4. /\ mwire' = Append(mwire, line) /\ mrequests' = <<>>
        /\ UNCHANGED <<mcall, mmutex>>
    BY <1>6, <2>2 DEF ServerAnswer
  <2>5. \A k \in 1..Len(mwire') : IsResponse(k)' => k = Len(mwire) + 1 /\ mwire'[k] = line
    BY <1>2, <1>4, <2>1, <2>3, <2>4 DEF IsResponse
  <2>6. line.id = mcall[mmutex].id
    BY <2>1, <2>2
  <2> QED
    BY <2>1, <2>4, <2>5, <2>6 DEF OneOutstanding
<1>7. CASE ServerNotify \/ ServerAsk \/ ServerGarbage
  <2>1. /\ Note \in McpLine /\ Ask \in McpLine /\ Garbage \in McpLine
        /\ Note.kind # "response" /\ Ask.kind # "response" /\ Garbage.kind # "response"
    BY DEF McpLine, Note, Ask, Garbage
  <2>2. PICK line \in McpLine : line.kind # "response" /\ mwire' = Append(mwire, line)
    BY <1>7, <2>1 DEF ServerNotify, ServerAsk, ServerGarbage
  <2>3. \A k \in 1..Len(mwire') : IsResponse(k)' => /\ k \in 1..Len(mwire) /\ IsResponse(k)
                                                  /\ mwire'[k] = mwire[k]
    BY <1>2, <1>4, <2>2 DEF IsResponse
  <2>4. UNCHANGED <<mcall, mmutex, mrequests>>
    BY <1>7 DEF ServerNotify, ServerAsk, ServerGarbage
  <2> QED
    BY <1>1, <2>3, <2>4 DEF OneOutstanding
<1>8. CASE McpClose
  BY <1>1, <1>8 DEF McpClose, OneOutstanding, IsResponse
<1>9. ASSUME NEW c \in McpCall, McpCancel(c) PROVE OneOutstanding'
  BY <1>1, <1>9 DEF McpCancel, OneOutstanding, IsResponse
<1>10. CASE UNCHANGED mcpVars
  BY <1>1, <1>10 DEF mcpVars, OneOutstanding, IsResponse
<1> QED
  BY <1>5, <1>6, <1>7, <1>8, <1>9, <1>10 DEF McpNext

LEMMA McpAnswersStep == McpInv /\ [McpNext]_mcpVars => McpAnswersInStep'
<1> SUFFICES ASSUME McpInv, [McpNext]_mcpVars, McpUndisturbed'
             PROVE  \A c \in McpCall : mcall'[c].pc = "answered" => mcall'[c].answer = mcall'[c].id
  BY DEF McpAnswersInStep
<1>1. /\ OneOutstanding /\ McpPlaces /\ McpTypeOK
      /\ \A c \in McpCall : mcall[c].pc = "answered" => mcall[c].answer = mcall[c].id
  BY DisturbedForEver DEF McpInv, McpAnswersInStep
<1>2. ASSUME NEW c \in McpCall, McpBegin(c) \/ McpStep(c), mcall'[c].pc = "answered"
      PROVE  mcall'[c].answer = mcall'[c].id
  <2>1. /\ mcall[c].pc = "read" /\ mcall'[c].id = mcall[c].id /\ mcall'[c].answer = Line.id
        /\ mwire # <<>> /\ Line.kind = "response"
    BY <1>1, <1>2, McpCallMoves DEF Moves, McpUndisturbed, Ask
  <2>2. Line = mwire[1] /\ Len(mwire) \in Nat \ {0}
    BY <1>1, <2>1, HeadTailProperties, EmptySeq DEF McpTypeOK, Line
  <2>3. IsResponse(1) /\ 1 \in 1..Len(mwire) /\ mmutex = c
    BY <1>1, <2>1, <2>2 DEF IsResponse, McpPlaces
  <2> QED
    BY <1>1, <2>1, <2>2, <2>3 DEF OneOutstanding
<1>3. ASSUME NEW c \in McpCall, McpBegin(c) \/ McpStep(c), NEW d \in McpCall, d # c
      PROVE  mcall'[d] = mcall[d]
  BY <1>1, <1>3, McpCallMoves DEF Moves
<1>4. CASE UNCHANGED mcall
  BY <1>1, <1>4
<1> QED
  BY <1>1, <1>2, <1>3, <1>4
  DEF McpNext, McpCancel, ServerAnswer, ServerNotify, ServerAsk, ServerGarbage, McpClose, mcpVars

LEMMA McpInductive == McpSpec => []McpInv
<1>1. McpInv /\ [McpNext]_mcpVars => McpInv'
  BY McpTypeStep, McpPlacesStep, OutstandingStep, McpAnswersStep DEF McpInv
<1> QED
  BY <1>1, McpInitially, PTL DEF McpSpec

-----------------------------------------------------------------------------
\* Every variable of the client and of its server's pipe has its type, and
\* the counters stay within their bounds.
THEOREM McpTypeCorrect == McpSpec => []McpTypeOK
BY McpInductive, PTL DEF McpInv

\* As long as no call was cancelled or failed behind its request and none took a
\* request of the server for its response, every call is answered with the
\* response to its own request: at most one request is outstanding, and it is the
\* one of the call that holds the mutex.
THEOREM AnswersAreInStep == McpSpec => []McpAnswersInStep
BY McpInductive, PTL DEF McpInv

-----------------------------------------------------------------------------
(***************************************************************************)
(* The process manager: the invariant.                                     *)
(***************************************************************************)
\* The wait goroutine of a process and its record agree, and what the
\* goroutine remembers of why it left the select is still true: only it
\* signals the process, and nobody takes a cancellation back.
WaiterInv(p) ==
    /\ mproc[p].status = "absent" <=> waiter[p].pc = "none"
    /\ mproc[p].status = "absent" <=> os[p] = "none"
    /\ IsTerminal(p) <=> waiter[p].pc = "over"
    /\ waiter[p].pc \in {"none", "select"} => os[p] # "signalled"
    /\ waiter[p].pc = "record" => Dead(p) /\ waiter[p].why # "none"
    /\ waiter[p].why = "exit" => waiter[p].pc = "record" /\ os[p] # "signalled"
    /\ waiter[p].pc \in {"terminate", "grace", "killed"} => waiter[p].why \in {"timeout", "stop"}
    /\ waiter[p].why = "stop" => mproc[p].cancelled
StatusInv(p) ==
    /\ IsTerminal(p) => Dead(p)
    /\ mproc[p].status = "stopped" => mproc[p].cancelled
    /\ mproc[p].status \in {"completed", "failed"} => os[p] # "signalled"

\* Once Close has set closed, each process it knew is over, still on its list,
\* the one it is stopping, or one it reports an error for.
CloseInv ==
    LET close == stopper[Closer] IN
    /\ close.pc # "idle" => mclosed
    /\ close.pc \in {"idle", "pick", "stopped", "expired"} => close.target = NoProc
    /\ close.pc = "stopped" => ~close.err /\ close.todo = {}
    /\ close.pc # "idle" =>
          \A p \in Known : IsTerminal(p) \/ p \in close.todo \/ p = close.target \/ close.err

ProcInv ==
    /\ ProcTypeOK
    /\ \A p \in Proc : WaiterInv(p) /\ StatusInv(p)
    /\ CloseInv

-----------------------------------------------------------------------------
(***************************************************************************)
(* Types, and what a step changes.                                         *)
(***************************************************************************)
StopState == [pc : StopPc, target : Proc \cup {NoProc}, todo : SUBSET Proc, err : BOOLEAN]
ProcState == [status : {"absent", "running"} \cup TerminalStatus, cancelled : BOOLEAN]
WaitState == [pc : WaiterPc, why : Outcome]

LEMMA ProcTypes ==
    ProcTypeOK <=>
       /\ os \in [Proc -> {"none", "alive", "ok", "error", "signalled"}]
       /\ held \subseteq Proc
       /\ mproc \in [Proc -> ProcState]
       /\ waiter \in [Proc -> WaitState]
       /\ stopper \in [Stopper \cup {Closer} -> StopState]
       /\ mclosed \in BOOLEAN
BY DEF ProcTypeOK, ProcState, WaitState, StopState

LEMMA ProcInitially == ProcInit => ProcInv
<1> SUFFICES ASSUME ProcInit PROVE ProcInv
  OBVIOUS
<1>1. ProcTypeOK
  BY DEF ProcInit, ProcTypeOK, TerminalStatus, WaiterPc, Outcome, StopPc, NoProc
<1>2. ASSUME NEW p \in Proc PROVE WaiterInv(p) /\ StatusInv(p)
  BY DEF ProcInit, WaiterInv, StatusInv, IsTerminal, TerminalStatus, Dead
<1>3. CloseInv
  BY DEF ProcInit, CloseInv
<1> QED
  BY <1>1, <1>2, <1>3 DEF ProcInv

\* A step of the goroutine of p, or of p itself, is about p only, and leaves
\* the calls of stop alone.  It keeps what is known of p.
LEMMA WaiterKeeps ==
    ASSUME ProcInv, NEW p \in Proc, ProcessStart(p) \/ ProcessExit(p) \/ PipeFreed(p) \/ WaitStep(p)
    PROVE  /\ os' \in [Proc -> {"none", "alive", "ok", "error", "signalled"}]
           /\ held' \subseteq Proc
           /\ mproc' \in [Proc -> ProcState]
           /\ waiter' \in [Proc -> WaitState]
           /\ UNCHANGED <<stopper, mclosed>>
           /\ \A q \in Proc : q # p => /\ os'[q] = os[q]
                                       /\ mproc'[q] = mproc[q]
                                       /\ waiter'[q] = waiter[q]
           /\ IsTerminal(p) => mproc'[p] = mproc[p]
           /\ mproc[p].status = "absent" /\ mproc'[p].status # "absent" => ~mclosed
           /\ (WaiterInv(p) /\ StatusInv(p))'
<1>1. /\ os \in [Proc -> {"none", "alive", "ok", "error", "signalled"}]
      /\ held \subseteq Proc
      /\ mproc \in [Proc -> ProcState]
      /\ waiter \in [Proc -> WaitState]
      /\ WaiterInv(p) /\ StatusInv(p)
  BY ProcTypes DEF ProcInv
<1> USE DEF WaiterInv, StatusInv, IsTerminal, TerminalStatus, Dead, ProcState, WaitState,
            WaiterPc, Outcome, WaiterTo, WaitReturns
<1>2. CASE ProcessStart(p)
  BY <1>1, <1>2 DEF ProcessStart
<1>3. CASE ProcessExit(p)
  BY <1>1, <1>3 DEF ProcessExit
<1>4. CASE WaitSelect(p)
  <2>1. /\ waiter[p].pc = "select"
        /\ UNCHANGED <<os, held, mproc, stopper, mclosed>>
    BY <1>4 DEF WaitSelect
  <2>2. CASE Dead(p) /\ waiter' = [waiter EXCEPT ![p] = [pc |-> "record", why |-> "exit"]]
    BY <1>1, <2>1, <2>2
  <2>3. CASE waiter' = [waiter EXCEPT ![p] = [pc |-> "terminate", why |-> "timeout"]]
    BY <1>1, <2>1, <2>3
  <2>4. CASE /\ mproc[p].cancelled
             /\ waiter' = [waiter EXCEPT ![p] = [pc |-> "terminate", why |-> "stop"]]
    BY <1>1, <2>1, <2>4
  <2> QED
    BY <1>4, <2>2, <2>3, <2>4 DEF WaitSelect
<1>5. CASE Terminate(p)
  BY <1>1, <1>5 DEF Terminate
<1>6. CASE GraceOver(p)
  <2>1. CASE waiter[p].pc = "grace" /\ Dead(p) /\ WaiterTo(p, "record") /\ UNCHANGED os
    BY <1>1, <1>6, <2>1 DEF GraceOver
  <2>2. CASE waiter[p].pc = "grace" /\ WaiterTo(p, "killed")
             /\ os' = [os EXCEPT ![p] = IF @ = "alive" THEN "signalled" ELSE @]
    BY <1>1, <1>6, <2>2 DEF GraceOver
  <2> QED
    BY <1>6, <2>1, <2>2 DEF GraceOver
<1>7. CASE Reap(p)
  BY <1>1, <1>7 DEF Reap
<1>8. CASE WaitRecord(p)
  BY <1>1, <1>8 DEF WaitRecord, WaitStatus
<1>9. CASE PipeFreed(p)
  BY <1>1, <1>9 DEF PipeFreed
<1> QED
  BY <1>2, <1>3, <1>4, <1>5, <1>6, <1>7, <1>8, <1>9 DEF WaitStep

\* A step of process_stop or of Close cancels at most the process it is about,
\* and keeps what is known of every process.
LEMMA StopKeeps ==
    ASSUME ProcInv, NEW s \in Stopper \cup {Closer}, StopStep(s)
    PROVE  /\ UNCHANGED <<os, held, waiter, mclosed>>
           /\ mproc' \in [Proc -> ProcState]
           /\ \A p \in Proc : /\ mproc'[p].status = mproc[p].status
                              /\ mproc[p].cancelled => mproc'[p].cancelled
<1>1. mproc \in [Proc -> ProcState]
  BY ProcTypes DEF ProcInv
<1>2. /\ UNCHANGED <<os, held, waiter, mclosed>>
      /\ \/ mproc' = mproc
         \/ mproc' = [mproc EXCEPT ![stopper[s].target].cancelled = TRUE]
  BY DEF StopStep, StopCancel, StopPoll
<1>3. ASSUME mproc' = [mproc EXCEPT ![stopper[s].target].cancelled = TRUE], NEW p \in Proc
      PROVE  mproc'[p].status = mproc[p].status /\ (mproc[p].cancelled => mproc'[p].cancelled)
  <2>1. CASE p = stopper[s].target
    BY <1>1, <1>3, <2>1 DEF ProcState
  <2>2. CASE p # stopper[s].target
    BY <1>1, <1>3, <2>2
  <2> QED
    BY <2>1, <2>2
<1>4. mproc' \in [Proc -> ProcState]
  BY <1>1, <1>2 DEF ProcState
<1> QED
  BY <1>2, <1>3, <1>4

\* The end of a stop: Close goes on with its list, and remembers a failure.
LEMMA StopReturned ==
    ASSUME ProcInv, NEW s \in Stopper \cup {Closer}, NEW failed \in BOOLEAN,
           StopReturns(s, failed)
    PROVE  /\ stopper' \in [Stopper \cup {Closer} -> StopState]
           /\ \A t \in Stopper \cup {Closer} : t # s => stopper'[t] = stopper[t]
           /\ s = Closer => /\ stopper'[s].pc = "pick"
                            /\ stopper'[s].target = NoProc
                            /\ stopper'[s].todo = stopper[s].todo
                            /\ stopper'[s].err = (stopper[s].err \/ failed)
<1>1. stopper \in [Stopper \cup {Closer} -> StopState]
  BY ProcTypes DEF ProcInv
<1> DEFINE end == IF s = Closer THEN "pick" ELSE IF failed THEN "expired" ELSE "stopped"
<1>2. /\ end \in StopPc
      /\ s = Closer => end = "pick"
  BY DEF StopPc
<1> HIDE DEF end
<1>3. stopper' = [stopper EXCEPT ![s].err = @ \/ failed, ![s].target = NoProc, ![s].pc = end]
  BY DEF StopReturns, end
<1>4. (stopper[s].err \/ failed) \in BOOLEAN
  BY Zenon
<1>5. \A t \in Stopper \cup {Closer} : t # s => stopper'[t] = stopper[t]
  BY <1>1, <1>3
<1>6. /\ stopper'[s].pc = end
      /\ stopper'[s].target = NoProc
      /\ stopper'[s].todo = stopper[s].todo
      /\ stopper'[s].err = (stopper[s].err \/ failed)
  BY <1>1, <1>3 DEF StopState
<1>7. stopper' \in [Stopper \cup {Closer} -> StopState]
  BY <1>1, <1>2, <1>3, <1>4 DEF StopState
<1> QED
  BY <1>2, <1>5, <1>6, <1>7

LEMMA StopTypes ==
    ASSUME ProcInv, NEW s \in Stopper \cup {Closer}, StopStep(s)
    PROVE  stopper' \in [Stopper \cup {Closer} -> StopState]
<1>1. stopper \in [Stopper \cup {Closer} -> StopState]
  BY ProcTypes DEF ProcInv
<1>2. ASSUME NEW pc \in StopPc, StopTo(s, pc)
      PROVE  stopper' \in [Stopper \cup {Closer} -> StopState]
  BY <1>1, <1>2 DEF StopTo, StopState
<1> QED
  BY <1>2, StopReturned DEF StopStep, StopCancel, StopPoll, StopPc

LEMMA CloseKeeps ==
    ASSUME ProcInv, CloseBegin \/ CloseNext
    PROVE  /\ stopper' \in [Stopper \cup {Closer} -> StopState]
           /\ mclosed' \in BOOLEAN
           /\ UNCHANGED <<os, held, mproc, waiter>>
           /\ CloseInv'
<1>1. /\ stopper \in [Stopper \cup {Closer} -> StopState]
      /\ mclosed \in BOOLEAN
      /\ CloseInv
      /\ Known \subseteq Proc
  BY ProcTypes DEF ProcInv, Known
<1>2. CASE CloseBegin
  <2>1. /\ stopper[Closer].pc = "idle"
        /\ stopper' = [stopper EXCEPT ![Closer].pc = "pick", ![Closer].todo = Known]
        /\ mclosed' = TRUE /\ UNCHANGED <<os, held, mproc, waiter>>
    BY <1>2 DEF CloseBegin
  <2>2. /\ stopper' \in [Stopper \cup {Closer} -> StopState]
        /\ stopper'[Closer].pc = "pick" /\ stopper'[Closer].todo = Known
        /\ stopper'[Closer].target = stopper[Closer].target
    BY <1>1, <2>1 DEF StopState, StopPc
  <2>3. Known' = Known
    BY <2>1 DEF Known
  <2> QED
    BY <1>1, <2>1, <2>2, <2>3 DEF CloseInv
<1>3. CASE CloseNext
  <2>0. UNCHANGED <<os, held, mproc, waiter, mclosed>> /\ stopper[Closer].pc = "pick"
    BY <1>3 DEF CloseNext
  <2>1. Known' = Known /\ \A p \in Known : IsTerminal(p)' = IsTerminal(p)
    BY <2>0 DEF Known, IsTerminal
  <2>2. ASSUME NEW p \in stopper[Closer].todo,
               stopper' = [stopper EXCEPT ![Closer].pc = "stop", ![Closer].target = p,
                                          ![Closer].todo = @ \ {p}]
        PROVE  CloseInv' /\ stopper' \in [Stopper \cup {Closer} -> StopState]
    <3>1. p \in Proc
      BY <1>1, <2>2 DEF StopState
    <3>2. /\ stopper' \in [Stopper \cup {Closer} -> StopState]
          /\ stopper'[Closer].pc = "stop" /\ stopper'[Closer].target = p
          /\ stopper'[Closer].todo = stopper[Closer].todo \ {p}
          /\ stopper'[Closer].err = stopper[Closer].err
      BY <1>1, <2>2, <3>1 DEF StopState, StopPc
    <3>3. \A q \in Known : IsTerminal(q) \/ q \in stopper[Closer].todo \/ stopper[Closer].err
      BY <1>1, <2>0, ProcAssumption DEF CloseInv, NoProc
    <3> QED
      BY <1>1, <2>0, <2>1, <3>2, <3>3 DEF CloseInv
  <2>3. ASSUME stopper[Closer].todo = {},
               StopTo(Closer, IF stopper[Closer].err THEN "expired" ELSE "stopped")
        PROVE  CloseInv' /\ stopper' \in [Stopper \cup {Closer} -> StopState]
    <3>1. /\ stopper' \in [Stopper \cup {Closer} -> StopState]
          /\ stopper'[Closer].pc = IF stopper[Closer].err THEN "expired" ELSE "stopped"
          /\ stopper'[Closer].target = stopper[Closer].target
          /\ stopper'[Closer].todo = stopper[Closer].todo
          /\ stopper'[Closer].err = stopper[Closer].err
      BY <1>1, <2>3 DEF StopTo, StopState, StopPc
    <3> QED
      BY <1>1, <2>0, <2>1, <2>3, <3>1 DEF CloseInv
  <2> QED
    BY <1>1, <1>3, <2>0, <2>2, <2>3 DEF CloseNext
<1> QED
  BY <1>2, <1>3

-----------------------------------------------------------------------------
LEMMA CloseInvStop ==
    ASSUME ProcInv, NEW s \in Stopper \cup {Closer}, StopStep(s)
    PROVE  CloseInv'
<1>1. /\ stopper \in [Stopper \cup {Closer} -> StopState]
      /\ CloseInv
      /\ Closer \notin Stopper
  BY ProcTypes, ProcAssumption DEF ProcInv
<1>2. /\ mclosed' = mclosed /\ Known' = Known
      /\ \A p \in Known : IsTerminal(p)' = IsTerminal(p)
  <2>1. mclosed' = mclosed /\ \A p \in Proc : mproc'[p].status = mproc[p].status
    BY StopKeeps
  <2> QED
    BY <2>1 DEF Known, IsTerminal
<1>3. ASSUME s # Closer PROVE stopper'[Closer] = stopper[Closer]
  BY <1>1, <1>3, StopReturned DEF StopStep, StopCancel, StopPoll, StopTo
<1>4. CASE s = Closer /\ StopTo(Closer, "poll") /\ stopper[Closer].pc = "stop"
  <2>1. /\ stopper'[Closer].pc = "poll"
        /\ stopper'[Closer].target = stopper[Closer].target
        /\ stopper'[Closer].todo = stopper[Closer].todo
        /\ stopper'[Closer].err = stopper[Closer].err
    BY <1>1, <1>4 DEF StopTo, StopState
  <2> QED
    BY <1>1, <1>2, <1>4, <2>1 DEF CloseInv
<1>5. ASSUME NEW failed \in BOOLEAN, s = Closer, StopReturns(Closer, failed),
             stopper[Closer].pc \in {"stop", "poll"},
             failed \/ IsTerminal(stopper[Closer].target)
      PROVE  CloseInv'
  <2>1. /\ stopper'[Closer].pc = "pick"
        /\ stopper'[Closer].target = NoProc
        /\ stopper'[Closer].todo = stopper[Closer].todo
        /\ stopper'[Closer].err = (stopper[Closer].err \/ failed)
    BY <1>1, <1>5, StopReturned DEF StopState
  <2> QED
    BY <1>1, <1>2, <1>5, <2>1 DEF CloseInv
<1> QED
  <2>1. CASE s # Closer
    BY <1>1, <1>2, <1>3, <2>1 DEF CloseInv
  <2>2. CASE s = Closer
    BY <1>4, <1>5, <2>2 DEF StopStep, StopCancel, StopPoll
  <2> QED
    BY <2>1, <2>2

LEMMA ProcStep == ProcInv /\ [ProcNext]_procVars => ProcInv'
<1> SUFFICES ASSUME ProcInv, [ProcNext]_procVars PROVE ProcInv'
  OBVIOUS
<1>0. /\ os \in [Proc -> {"none", "alive", "ok", "error", "signalled"}]
      /\ held \subseteq Proc
      /\ mproc \in [Proc -> ProcState]
      /\ waiter \in [Proc -> WaitState]
      /\ stopper \in [Stopper \cup {Closer} -> StopState]
      /\ mclosed \in BOOLEAN
      /\ \A p \in Proc : WaiterInv(p) /\ StatusInv(p)
      /\ CloseInv
  BY ProcTypes DEF ProcInv
<1>1. ASSUME NEW p \in Proc, ProcessStart(p) \/ ProcessExit(p) \/ PipeFreed(p) \/ WaitStep(p) PROVE ProcInv'
  <2>1. ProcTypeOK'
    BY <1>0, <1>1, WaiterKeeps DEF ProcTypeOK, ProcState, WaitState, StopState
  <2>2. ASSUME NEW q \in Proc PROVE (WaiterInv(q) /\ StatusInv(q))'
    <3>1. CASE q = p
      BY <1>1, <3>1, WaiterKeeps
    <3>2. CASE q # p
      <4>1. os'[q] = os[q] /\ mproc'[q] = mproc[q] /\ waiter'[q] = waiter[q]
        BY <1>1, <3>2, WaiterKeeps
      <4> QED
        BY <1>0, <4>1 DEF WaiterInv, StatusInv, IsTerminal, Dead
    <3> QED
      BY <3>1, <3>2
  <2>3. CloseInv'
    <3>1. /\ UNCHANGED <<stopper, mclosed>>
          /\ \A q \in Proc : q # p => mproc'[q] = mproc[q]
          /\ IsTerminal(p) => mproc'[p] = mproc[p]
          /\ mproc[p].status = "absent" /\ mproc'[p].status # "absent" => ~mclosed
      BY <1>1, WaiterKeeps
    <3>2. mclosed => \A q \in Known' : q \in Known /\ (IsTerminal(q) => IsTerminal(q)')
      BY <3>1 DEF Known, IsTerminal
    <3> QED
      BY <1>0, <3>1, <3>2 DEF CloseInv
  <2> QED
    BY <2>1, <2>2, <2>3 DEF ProcInv
<1>2. ASSUME NEW s \in Stopper \cup {Closer}, StopStep(s) PROVE ProcInv'
  <2>1. ProcTypeOK'
    BY <1>0, <1>2, StopKeeps, StopTypes DEF ProcTypeOK, ProcState, WaitState, StopState
  <2>2. ASSUME NEW q \in Proc PROVE (WaiterInv(q) /\ StatusInv(q))'
    <3>1. /\ os' = os /\ waiter' = waiter /\ mproc'[q].status = mproc[q].status
          /\ mproc[q].cancelled => mproc'[q].cancelled
      BY <1>2, StopKeeps
    <3> QED
      BY <1>0, <3>1 DEF WaiterInv, StatusInv, IsTerminal, Dead
  <2> QED
    BY <1>2, <2>1, <2>2, CloseInvStop DEF ProcInv
<1>3. CASE CloseBegin \/ CloseNext
  <2>1. ProcTypeOK'
    BY <1>0, <1>3, CloseKeeps DEF ProcTypeOK, ProcState, WaitState, StopState
  <2>2. ASSUME NEW q \in Proc PROVE (WaiterInv(q) /\ StatusInv(q))'
    <3>1. UNCHANGED <<os, held, mproc, waiter>>
      BY <1>3, CloseKeeps
    <3> QED
      BY <1>0, <3>1 DEF WaiterInv, StatusInv, IsTerminal, Dead
  <2> QED
    BY <1>3, <2>1, <2>2, CloseKeeps DEF ProcInv
<1>4. ASSUME NEW s \in Stopper, NEW p \in Proc, StopBegin(s, p) PROVE ProcInv'
  <2>1. /\ stopper' \in [Stopper \cup {Closer} -> StopState]
        /\ stopper'[Closer] = stopper[Closer]
        /\ UNCHANGED <<os, held, mproc, waiter, mclosed>>
    <3>1. /\ stopper' = [stopper EXCEPT ![s].pc = "stop", ![s].target = p]
          /\ s # Closer
          /\ "stop" \in StopPc
      BY <1>4, ProcAssumption DEF StopBegin, StopPc
    <3>2. stopper' \in [Stopper \cup {Closer} -> StopState]
      BY <1>0, <3>1 DEF StopState
    <3>3. stopper'[Closer] = stopper[Closer]
      BY <1>0, <3>1
    <3> QED
      BY <1>4, <3>2, <3>3 DEF StopBegin
  <2>2. ProcTypeOK'
    BY <1>0, <2>1 DEF ProcTypeOK, ProcState, WaitState, StopState
  <2>3. CloseInv'
    BY <1>0, <2>1 DEF CloseInv, Known, IsTerminal
  <2> QED
    BY <1>0, <2>1, <2>2, <2>3 DEF ProcInv, WaiterInv, StatusInv, IsTerminal, Dead
<1>5. CASE UNCHANGED procVars
  BY <1>0, <1>5 DEF procVars, ProcInv, ProcTypeOK, ProcState, WaitState, StopState,
                    WaiterInv, StatusInv, IsTerminal, Dead, CloseInv, Known
<1> QED
  BY <1>1, <1>2, <1>3, <1>4, <1>5 DEF ProcNext

LEMMA ProcInductive == ProcSpec => []ProcInv
BY ProcInitially, ProcStep, PTL DEF ProcSpec

-----------------------------------------------------------------------------
\* Every variable of the manager, of its processes and of the calls of stop
\* has its type.
THEOREM ProcTypeCorrect == ProcSpec => []ProcTypeOK
BY ProcInductive, PTL DEF ProcInv

\* The status recorded for a process is final only when the process is gone,
\* and says whether it ended by itself or was signalled, whichever ready case
\* the select of its goroutine took.
THEOREM StatusIsTrue == ProcSpec => []StatusTellsEnd
<1>1. ProcInv => StatusTellsEnd
  BY DEF ProcInv, StatusInv, StatusTellsEnd
<1> QED
  BY <1>1, ProcInductive, PTL

\* A Close without an error leaves no process running, and none starts later:
\* what it knew when it set closed is all there is.
THEOREM CloseIsClean == ProcSpec => []CloseLeavesNothing
<1>1. ProcInv => CloseLeavesNothing
  <2> SUFFICES ASSUME ProcInv, stopper[Closer].pc = "stopped", NEW p \in Proc
               PROVE  os[p] # "alive" /\ mproc[p].status # "running"
    BY DEF CloseLeavesNothing
  <2>1. WaiterInv(p) /\ StatusInv(p)
    BY DEF ProcInv
  <2>2. CASE mproc[p].status = "absent"
    BY <2>1, <2>2 DEF WaiterInv
  <2>3. CASE mproc[p].status # "absent"
    <3>1. stopper[Closer].target = NoProc /\ stopper[Closer].todo = {} /\ ~stopper[Closer].err
      BY DEF ProcInv, CloseInv
    <3>2. p \in Known /\ p # NoProc
      BY <2>3, ProcAssumption DEF Known, NoProc
    <3>3. IsTerminal(p)
      BY <3>1, <3>2 DEF ProcInv, CloseInv
    <3> QED
      BY <2>1, <3>3 DEF StatusInv, Dead, IsTerminal, TerminalStatus
  <2> QED
    BY <2>2, <2>3
<1> QED
  BY <1>1, ProcInductive, PTL


-----------------------------------------------------------------------------
(***************************************************************************)
(* The services together, as a run explores them.                          *)
(***************************************************************************)
\* A step of one service, or of none, is for each service a step of its own
\* or a stutter.
LEMMA ServiceSteps ==
    ASSUME [ServicesNext]_servicesVars
    PROVE  /\ [GatewayNext]_gwVars /\ [PoolNext]_poolVars /\ [McpNext]_mcpVars
           /\ [ProcNext]_procVars /\ [AgentNext]_agentVars /\ [ShellNext]_shellVars
BY DEF ServicesNext, servicesVars

\* What is explored of the services together is a behaviour of each of them,
\* so that what is proved of a service holds in it.
THEOREM ServicesAreThemselves ==
    ServicesSpec => GatewaySpec /\ PoolSpec /\ McpSpec /\ ProcSpec /\ AgentSpec /\ ShellSpec
<1>1. ServicesInit => GatewayInit /\ PoolInit /\ McpInit /\ ProcInit /\ AgentInit /\ ShellInit
  BY DEF ServicesInit
<1> QED
  BY <1>1, ServiceSteps, PTL
     DEF ServicesSpec, GatewaySpec, PoolSpec, McpSpec, ProcSpec, AgentSpec, ShellSpec

\* Every service's variables keep their types.
THEOREM ServicesTypes == ServicesSpec => []ServicesTypeOK
<1>1. GatewayTypeOK /\ PoolTypeOK /\ McpTypeOK /\ ProcTypeOK /\ AgentTypeOK /\ ShellTypeOK
          => ServicesTypeOK
  BY DEF ServicesTypeOK
<1> QED
  BY <1>1, ServicesAreThemselves, GatewayTypeCorrect, PoolTypeCorrect, McpTypeCorrect,
     ProcTypeCorrect, AgentTypes, ShellTypes, PTL
=============================================================================
