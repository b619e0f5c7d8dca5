--------------------------- MODULE ProcessManager ---------------------------
(***************************************************************************)
(* The background processes an agent starts, watches and stops             *)
(* (internal/tools/process_tools.go).  Each process has a wait goroutine   *)
(* that selects between its exit, its timeout and its cancelled context;   *)
(* process_stop calls and the manager's Close run beside it, as do         *)
(* process_wait and process_monitor, which only read.                      *)
(***************************************************************************)
EXTENDS FiniteSets, Naturals

CONSTANTS
    Proc,        \* processes, numbered by nextID
    Stopper,     \* calls of process_stop
    Closer       \* the call of ProcessManager.Close

ASSUME ProcAssumption ==
    /\ Proc \subseteq Nat \ {0}
    /\ Closer \notin Stopper

VARIABLES
    os,         \* the operating system's process (external)
    held,       \* processes whose output pipe a child of theirs keeps open
    mproc,      \* managedProcess: status and whether its context is cancelled
    waiter,     \* the wait goroutine
    stopper,    \* the local variables of process_stop calls and of Close
    mclosed     \* ProcessManager.closed

procVars == <<os, held, mproc, waiter, stopper, mclosed>>

TerminalStatus == {"completed", "failed", "timeout", "stopped"}
WaiterPc == {"none", "select", "terminate", "grace", "killed", "record", "over"}
Outcome == {"none", "exit", "timeout", "stop"}
StopPc == {"idle", "pick", "stop", "poll", "stopped", "expired"}
NoProc == 0

ProcTypeOK ==
    /\ os \in [Proc -> {"none", "alive", "ok", "error", "signalled"}]
    /\ held \subseteq Proc
    /\ mproc \in [Proc -> [status : {"absent", "running"} \cup TerminalStatus, cancelled : BOOLEAN]]
    /\ waiter \in [Proc -> [pc : WaiterPc, why : Outcome]]
    /\ stopper \in [Stopper \cup {Closer} ->
                      [pc : StopPc, target : Proc \cup {NoProc}, todo : SUBSET Proc,
                       err : BOOLEAN]]
    /\ mclosed \in BOOLEAN

ProcInit ==
    /\ os = [p \in Proc |-> "none"]
    /\ held = {}
    /\ mproc = [p \in Proc |-> [status |-> "absent", cancelled |-> FALSE]]
    /\ waiter = [p \in Proc |-> [pc |-> "none", why |-> "none"]]
    /\ stopper = [s \in Stopper \cup {Closer} |->
                     [pc |-> "idle", target |-> NoProc, todo |-> {}, err |-> FALSE]]
    /\ mclosed = FALSE

Known == {p \in Proc : mproc[p].status # "absent"}
Dead(p) == os[p] \in {"ok", "error", "signalled"}
\* cmd.Wait returns when the process is gone and its output is at its end; no
\* WaitDelay is set, so that a child that left the process group and kept the
\* pipe holds it up.
WaitReturns(p) == Dead(p) /\ p \notin held
IsTerminal(p) == mproc[p].status \in TerminalStatus
WaiterTo(p, pc) == waiter' = [waiter EXCEPT ![p].pc = pc]

-----------------------------------------------------------------------------
ProcessStartClosed(p) ==   \* mutant: closed is not checked
    /\ mproc[p].status = "absent"
    /\ \A q \in Proc : q < p => mproc[q].status # "absent"
    /\ os' = [os EXCEPT ![p] = "alive"]
    /\ held' \in {held, held \cup {p}}
    /\ mproc' = [mproc EXCEPT ![p].status = "running"]
    /\ waiter' = [waiter EXCEPT ![p].pc = "select"]
    /\ UNCHANGED <<stopper, mclosed>>

\* start: under the manager's lock, closed is checked, the process started
\* and registered; the wait goroutine begins.  Refused and failed starts
\* change nothing a later call can see.
ProcessStart(p) ==
    /\ ~mclosed
    /\ mproc[p].status = "absent"
    /\ \A q \in Proc : q < p => mproc[q].status # "absent"
    /\ os' = [os EXCEPT ![p] = "alive"]
    /\ held' \in {held, held \cup {p}}
    /\ mproc' = [mproc EXCEPT ![p].status = "running"]
    /\ waiter' = [waiter EXCEPT ![p].pc = "select"]
    /\ UNCHANGED <<stopper, mclosed>>

\* The process ends by itself (external).
ProcessExit(p) ==
    /\ os[p] = "alive"
    /\ \E how \in {"ok", "error"} : os' = [os EXCEPT ![p] = how]
    /\ UNCHANGED <<held, mproc, waiter, stopper, mclosed>>

\* The child closes the pipe (external): it may never.
PipeFreed(p) ==
    /\ p \in held
    /\ held' = held \ {p}
    /\ UNCHANGED <<os, mproc, waiter, stopper, mclosed>>

\* wait's select: any case that is ready may be taken, whatever else is.
WaitSelect(p) ==
    /\ waiter[p].pc = "select"
    /\ \/ /\ WaitReturns(p)             \* done; reapOrphanedProcessGroup
          /\ waiter' = [waiter EXCEPT ![p] = [pc |-> "record", why |-> "exit"]]
       \/ waiter' = [waiter EXCEPT ![p] = [pc |-> "terminate", why |-> "timeout"]]
       \/ /\ mproc[p].cancelled
          /\ waiter' = [waiter EXCEPT ![p] = [pc |-> "terminate", why |-> "stop"]]
    /\ UNCHANGED <<os, held, mproc, stopper, mclosed>>

\* terminateAndWaitProcess: SIGTERM, which the process may ignore; after the
\* grace SIGKILL, which it may not.
Terminate(p) ==
    /\ waiter[p].pc = "terminate"
    /\ WaiterTo(p, "grace")
    /\ os' \in {os, [os EXCEPT ![p] = IF @ = "alive" THEN "signalled" ELSE @]}
    /\ UNCHANGED <<held, mproc, stopper, mclosed>>

GraceOver(p) ==
    /\ waiter[p].pc = "grace"
    /\ \/ /\ WaitReturns(p)
          /\ WaiterTo(p, "record")
          /\ UNCHANGED os
       \/ /\ WaiterTo(p, "killed")
          /\ os' = [os EXCEPT ![p] = IF @ = "alive" THEN "signalled" ELSE @]
    /\ UNCHANGED <<held, mproc, stopper, mclosed>>

\* The wait for done after the SIGKILL has no limit.
Reap(p) ==
    /\ waiter[p].pc = "killed"
    /\ WaitReturns(p)
    /\ WaiterTo(p, "record")
    /\ UNCHANGED <<os, held, mproc, stopper, mclosed>>

WaitStatusByExit(p) ==   \* mutant: what wait did to the process is forgotten
    IF os[p] = "ok" THEN "completed" ELSE "failed"

\* The end of wait, under the process's lock: timeout before stop before error.
WaitStatus(p) ==
    CASE waiter[p].why = "timeout" -> "timeout"
      [] waiter[p].why = "stop" -> "stopped"
      [] waiter[p].why = "exit" /\ os[p] # "ok" -> "failed"
      [] OTHER -> "completed"
WaitRecord(p) ==
    /\ waiter[p].pc = "record"
    /\ waiter' = [waiter EXCEPT ![p] = [pc |-> "over", why |-> "none"]]
    /\ mproc' = [mproc EXCEPT ![p].status = WaitStatus(p)]
    /\ UNCHANGED <<os, held, stopper, mclosed>>

-----------------------------------------------------------------------------
StopTo(s, pc) == stopper' = [stopper EXCEPT ![s].pc = pc]

\* process_stop on a process it finds; the snapshots around the stop are
\* what it reports.
StopBegin(s, p) ==
    /\ s \in Stopper
    /\ stopper[s].pc = "idle"
    /\ p \in Known
    /\ stopper' = [stopper EXCEPT ![s].pc = "stop", ![s].target = p]
    /\ UNCHANGED <<os, held, mproc, waiter, mclosed>>

\* Close: closed is set and the processes listed under the manager's lock.
CloseBegin ==
    /\ stopper[Closer].pc = "idle"
    /\ mclosed' = TRUE
    /\ stopper' = [stopper EXCEPT ![Closer].pc = "pick", ![Closer].todo = Known]
    /\ UNCHANGED <<os, held, mproc, waiter>>

CloseNext ==
    /\ stopper[Closer].pc = "pick"
    /\ \/ \E p \in stopper[Closer].todo :
             stopper' = [stopper EXCEPT ![Closer].pc = "stop", ![Closer].target = p,
                                        ![Closer].todo = @ \ {p}]
       \/ /\ stopper[Closer].todo = {}
          /\ StopTo(Closer, IF stopper[Closer].err THEN "expired" ELSE "stopped")
    /\ UNCHANGED <<os, held, mproc, waiter, mclosed>>

\* What a stop call does when managedProcess.stop returns.
StopReturns(s, failed) ==
    stopper' = [stopper EXCEPT ![s].err = @ \/ failed, ![s].target = NoProc,
                               ![s].pc = IF s = Closer THEN "pick"
                                         ELSE IF failed THEN "expired" ELSE "stopped"]

\* stop: terminal already, or cancel the context that wait selects on.
StopCancel(s) ==
    /\ stopper[s].pc = "stop"
    /\ LET p == stopper[s].target IN
       \/ /\ IsTerminal(p)
          /\ StopReturns(s, FALSE)
          /\ UNCHANGED mproc
       \/ /\ ~IsTerminal(p)
          /\ mproc' = [mproc EXCEPT ![p].cancelled = TRUE]
          /\ StopTo(s, "poll")
    /\ UNCHANGED <<os, held, waiter, mclosed>>

\* The polling loop: a terminal status, or its deadline, or its context.
StopPoll(s) ==
    /\ stopper[s].pc = "poll"
    /\ \/ IsTerminal(stopper[s].target) /\ StopReturns(s, FALSE)
       \/ ~IsTerminal(stopper[s].target) /\ StopReturns(s, TRUE)
    /\ UNCHANGED <<os, held, mproc, waiter, mclosed>>

-----------------------------------------------------------------------------
WaitStep(p) == WaitSelect(p) \/ Terminate(p) \/ GraceOver(p) \/ Reap(p) \/ WaitRecord(p)
StopStep(s) == StopCancel(s) \/ StopPoll(s)

ProcNext ==
    \/ \E p \in Proc : ProcessStart(p) \/ ProcessExit(p) \/ PipeFreed(p) \/ WaitStep(p)
    \/ \E s \in Stopper, p \in Proc : StopBegin(s, p)
    \/ \E s \in Stopper \cup {Closer} : StopStep(s)
    \/ CloseBegin \/ CloseNext

ProcSpec == ProcInit /\ [][ProcNext]_procVars

\* The goroutines run, and the timers of wait and of the polls fire.
ProcFairness == /\ \A p \in Proc : WF_procVars(WaitStep(p))
                /\ \A s \in Stopper \cup {Closer} : WF_procVars(StopStep(s))
                /\ WF_procVars(CloseNext)

-----------------------------------------------------------------------------
\* A Close that reports no error leaves no process behind: none it knew is
\* alive, none was started meanwhile, and none can be started any more, in
\* whatever order starts, exits, timeouts, stops and Close come.
CloseLeavesNothing ==
    stopper[Closer].pc = "stopped" => \A p \in Proc : os[p] # "alive" /\ mproc[p].status # "running"

\* The recorded status tells what happened to the process: it is final only
\* when the process is gone, "stopped" only when somebody asked for it, and
\* "completed" or "failed" only for a process that nobody signalled.
StatusTellsEnd ==
    \A p \in Proc :
       /\ IsTerminal(p) => Dead(p)
       /\ mproc[p].status = "stopped" => mproc[p].cancelled
       /\ mproc[p].status \in {"completed", "failed"} => os[p] # "signalled"

\* No process runs, but for the record of one that was killed and whose pipe a
\* child holds, and no stop call waits.
ProcAtRest ==
    /\ \A p \in Proc : \/ mproc[p].status # "running"
                       \/ waiter[p].pc = "killed" /\ Dead(p) /\ p \in held
    /\ \A s \in Stopper \cup {Closer} : stopper[s].pc \in {"idle", "stopped", "expired"}
=============================================================================
