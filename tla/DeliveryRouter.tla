--------------------------- MODULE DeliveryRouter ---------------------------
(***************************************************************************)
(* The delivery router of internal/daemon/delivery.go: completions go to   *)
(* every eligible sink, deduplicated by the table                          *)
(* task_completion_deliveries; progress goes to the sinks of the route     *)
(* registered for the task.  Its callers are the workers (RegisterTaskRoute*)
(* at the claim, OnProgress during the run, Deliver and ClearTaskRoute at  *)
(* the end) and the start of the daemon, which delivers the receipts it    *)
(* finds.                                                                  *)
(***************************************************************************)
EXTENDS Integers, FiniteSets

CONSTANTS
    Task,               \* queue tasks
    NumSinks,           \* sinks, numbered in the order of registration
    Runner,             \* workers
    Main,               \* the goroutine that starts the daemon
    SinkTarget,         \* the DeliveryTarget of each sink; kind "none" for
                        \* one that is no TargetedSink (internal audit)
    PayloadRoute,       \* the route in the payload of each task
    MaxCrashes,         \* bound: crashes of the daemon
    MaxFailures,        \* bound: errors of the sinks and of the database
    Fault               \* "store": a statement or a read of the database fails;
                        \* "double": two workers may have the same task

Sink == 1..NumSinks
NoRoute == [origin |-> "", targets |-> {}]
Caller == Runner \cup {Main}
Pair == Task \X Sink

ASSUME RouterAssumption ==
    /\ NumSinks \in Nat
    /\ Main \notin Runner
    /\ MaxCrashes \in Nat
    /\ MaxFailures \in Nat
    /\ Fault \subseteq {"store", "double"}

VARIABLES
    claims,     \* task_completion_deliveries
    routes,     \* taskRoutes
    at,         \* where each caller is
    finished,   \* tasks with a durable receipt
    todo,       \* receipts deliverExistingCompletions still has to deliver
    up,         \* the workers are running
    notified,   \* notifications each sink took, per task
    progressed, \* tasks and sinks that saw progress of the task
    failed,     \* pairs whose sink returned an error
    refused,    \* pairs for which the table refused a statement
    missed,     \* tasks whose receipt a failing read of the queue kept from the
                \* router since the daemon was last started
    shared,     \* tasks that two workers had at once
    cut,        \* pairs whose notification a crash interrupted
    crashes, failures

vars == <<claims, routes, at, finished, todo, up, notified, progressed,
          failed, refused, missed, shared, cut, crashes, failures>>
\* what happened to the pairs, and the counters of what went wrong
faultVars == <<failed, refused, missed, cut, crashes, failures>>
sinkVars == <<notified, progressed, shared, faultVars>>

-----------------------------------------------------------------------------
\* deliveryTargetMatchesSink
Matches(target, origin, sink) ==
    CASE target.kind = "local" -> sink.kind = "local"
      [] target.kind = "origin" ->
            origin # "" /\ sink.kind = "platform" /\ sink.platform = origin
      [] target.kind = "platform" ->
            /\ sink.kind = "platform"
            /\ sink.platform = target.platform
            /\ target.explicit =>
                  /\ target.address # "" => sink.address = target.address
                  /\ target.thread # "" => sink.thread = target.thread

\* shouldDeliverToSink
ShouldDeliver(s, route) ==
    \/ route.targets = {}
    \/ SinkTarget[s].kind = "none"
    \/ \E target \in route.targets : Matches(target, route.origin, SinkTarget[s])

Idle == [pc |-> "idle", task |-> {}, sink |-> 0, claimed |-> FALSE]

\* A caller that has the task t.
Has(c, t) == at[c].task = {t}
Free(t) == \A c \in Caller : ~Has(c, t)

Init ==
    /\ claims = {}
    /\ routes = [t \in Task |-> NoRoute]
    /\ at = [c \in Caller |-> Idle]
    /\ finished = {}
    /\ todo = {}
    /\ up = FALSE
    /\ notified = [p \in Pair |-> 0]
    /\ progressed = {}
    /\ failed = {}
    /\ refused = {}
    /\ missed = {}
    /\ shared = {}
    /\ cut = {}
    /\ crashes = 0
    /\ failures = 0

-----------------------------------------------------------------------------
(***************************************************************************)
(* The callers.                                                            *)
(***************************************************************************)
\* RegisterTaskRoute, when a worker has claimed a task.
TakeUnrouted(c, t) ==   \* mutant: the route is not registered
    /\ up
    /\ at[c].pc = "idle"
    /\ t \notin finished
    /\ Free(t) \/ "double" \in Fault
    /\ at' = [at EXCEPT ![c] = [Idle EXCEPT !.pc = "run", !.task = {t}]]
    /\ UNCHANGED <<routes, claims, finished, todo, up, sinkVars>>
Take(c, t) ==
    /\ up
    /\ at[c].pc = "idle"
    /\ t \notin finished
    /\ Free(t) \/ "double" \in Fault
    /\ routes' = [routes EXCEPT ![t] = PayloadRoute[t]]
    /\ at' = [at EXCEPT ![c] = [Idle EXCEPT !.pc = "run", !.task = {t}]]
    /\ shared' = IF Free(t) THEN shared ELSE shared \cup {t}
    /\ UNCHANGED <<claims, finished, todo, up, notified, progressed, faultVars>>

\* OnProgress: the sinks of the registered route, or every sink without one.
OnProgress(c, t) ==
    /\ Has(c, t) /\ at[c].pc = "run"
    /\ progressed' = progressed \cup
          {p \in Pair : p[1] = t /\ ShouldDeliver(p[2], routes[t])}
    /\ UNCHANGED <<claims, routes, at, finished, todo, up, notified, shared, faultVars>>

\* A read of the queue fails: deliver and deliverExistingCompletions log it and
\* return, and the receipts are left until the daemon is started again.
ReadFails(lost) ==
    /\ "store" \in Fault
    /\ failures < MaxFailures
    /\ failures' = failures + 1
    /\ missed' = missed \cup lost
    /\ UNCHANGED <<notified, progressed, shared, failed, refused, cut, crashes>>

\* The task is marked; the worker delivers its receipt.
Finish(c, t) ==
    /\ Has(c, t) /\ at[c].pc = "run"
    /\ finished' = finished \cup {t}
    /\ at' = [at EXCEPT ![c].pc = "deliver", ![c].sink = 1]
    /\ UNCHANGED <<claims, routes, todo, up, sinkVars>>

\* The task could not be marked: deliver finds no receipt and returns, after
\* its deferred ClearTaskRoute.
DeliverNothing(c, t) ==
    /\ Has(c, t) /\ at[c].pc = "run"
    /\ t \notin finished
    /\ routes' = [routes EXCEPT ![t] = NoRoute]
    /\ at' = [at EXCEPT ![c] = Idle]
    /\ UNCHANGED <<claims, finished, todo, up, sinkVars>>

\* The task is marked, but deliver cannot read its receipt (a database error, or
\* the context of the worker was cancelled): the deferred ClearTaskRoute runs all
\* the same.
FinishUnread(c, t) ==
    /\ Has(c, t) /\ at[c].pc = "run"
    /\ finished' = finished \cup {t}
    /\ ReadFails({t})
    /\ routes' = [routes EXCEPT ![t] = NoRoute]
    /\ at' = [at EXCEPT ![c] = Idle]
    /\ UNCHANGED <<claims, todo, up>>

\* deliverExistingCompletions, before the workers start: List, then deliver for
\* each receipt it found.
ListFails ==
    /\ at[Main].pc = "idle"
    /\ todo # {} /\ todo = finished
    /\ todo' = {}
    /\ ReadFails(todo)
    /\ UNCHANGED <<claims, routes, at, finished, up>>

ExistingUnread(t) ==
    /\ at[Main].pc = "idle"
    /\ t \in todo
    /\ todo' = todo \ {t}
    /\ ReadFails({t})
    /\ routes' = [routes EXCEPT ![t] = NoRoute]
    /\ UNCHANGED <<claims, at, finished, up>>

DeliverExisting(t) ==
    /\ at[Main].pc = "idle"
    /\ t \in todo
    /\ todo' = todo \ {t}
    /\ at' = [at EXCEPT ![Main] = [Idle EXCEPT !.pc = "deliver", !.task = {t}, !.sink = 1]]
    /\ UNCHANGED <<claims, routes, finished, up, sinkVars>>

StartWorkers ==
    /\ ~up
    /\ todo = {} /\ at[Main].pc = "idle"
    /\ up' = TRUE
    /\ UNCHANGED <<claims, routes, at, finished, todo, sinkVars>>

-----------------------------------------------------------------------------
(***************************************************************************)
(* Deliver: one pass over the sinks.                                       *)
(***************************************************************************)
\* The caller goes on with the next sink.
NextSink(c) ==
    at' = [at EXCEPT ![c].pc = "deliver", ![c].sink = @ + 1, ![c].claimed = FALSE]

SkipIneligible(c, t) ==
    /\ Has(c, t) /\ at[c].pc = "deliver" /\ at[c].sink \in Sink
    /\ ~ShouldDeliver(at[c].sink, PayloadRoute[t])
    /\ NextSink(c)
    /\ UNCHANGED <<claims, routes, finished, todo, up, sinkVars>>

\* A statement about the pair fails.
Refuse(pair) ==
    /\ "store" \in Fault
    /\ failures < MaxFailures
    /\ failures' = failures + 1
    /\ refused' = refused \cup {pair}
    /\ UNCHANGED <<notified, progressed, shared, failed, missed, cut, crashes>>

\* INSERT OR IGNORE: a claim, a duplicate, or an error that is only logged.
InsertNeverSkips(c, t) ==   \* mutant: RowsAffected = 0 is not looked at
    /\ Has(c, t) /\ at[c].pc = "deliver" /\ at[c].sink \in Sink
    /\ ShouldDeliver(at[c].sink, PayloadRoute[t])
    /\ claims' = claims \cup {<<t, at[c].sink>>}
    /\ at' = [at EXCEPT ![c].pc = "notify", ![c].claimed = TRUE]
    /\ UNCHANGED <<routes, finished, todo, up, sinkVars>>
Insert(c, t) ==
    LET pair == <<t, at[c].sink>>
    IN  /\ Has(c, t) /\ at[c].pc = "deliver" /\ at[c].sink \in Sink
        /\ ShouldDeliver(at[c].sink, PayloadRoute[t])
        /\ \/ /\ pair \notin claims
              /\ claims' = claims \cup {pair}
              /\ at' = [at EXCEPT ![c].pc = "notify", ![c].claimed = TRUE]
              /\ UNCHANGED sinkVars
           \/ /\ pair \in claims
              /\ NextSink(c)
              /\ UNCHANGED <<claims, sinkVars>>
           \/ /\ Refuse(pair)
              /\ at' = [at EXCEPT ![c].pc = "notify"]
              /\ UNCHANGED claims
        /\ UNCHANGED <<routes, finished, todo, up>>

NotifyOk(c, t) ==
    /\ Has(c, t) /\ at[c].pc = "notify"
    /\ notified' = [notified EXCEPT ![<<t, at[c].sink>>] = @ + 1]
    /\ NextSink(c)
    /\ UNCHANGED <<claims, routes, finished, todo, up, progressed, shared, faultVars>>

NotifyFailsStops(c, t) ==   \* mutant: the first failure ends the loop
    /\ Has(c, t) /\ at[c].pc = "notify"
    /\ failures < MaxFailures
    /\ failures' = failures + 1
    /\ failed' = failed \cup {<<t, at[c].sink>>}
    /\ claims' = claims \ {<<t, at[c].sink>>}
    /\ at' = [at EXCEPT ![c].pc = "deliver", ![c].sink = NumSinks + 1, ![c].claimed = FALSE]
    /\ UNCHANGED <<routes, finished, todo, up, notified, progressed, refused,
                   missed, shared, cut, crashes>>
NotifyFails(c, t) ==
    /\ Has(c, t) /\ at[c].pc = "notify"
    /\ failures < MaxFailures
    /\ failures' = failures + 1
    /\ failed' = failed \cup {<<t, at[c].sink>>}
    /\ IF at[c].claimed THEN at' = [at EXCEPT ![c].pc = "undo"] ELSE NextSink(c)
    /\ UNCHANGED <<claims, routes, finished, todo, up, notified, progressed, refused,
                   missed, shared, cut, crashes>>

\* DELETE of the claim
UndoNothing(c, t) ==   \* mutant: the claim of a failed delivery stays
    /\ Has(c, t) /\ at[c].pc = "undo"
    /\ NextSink(c)
    /\ UNCHANGED <<claims, routes, finished, todo, up, sinkVars>>
Undo(c, t) ==
    /\ Has(c, t) /\ at[c].pc = "undo"
    /\ \/ claims' = claims \ {<<t, at[c].sink>>} /\ UNCHANGED sinkVars
       \/ Refuse(<<t, at[c].sink>>) /\ UNCHANGED claims
    /\ NextSink(c)
    /\ UNCHANGED <<routes, finished, todo, up>>

\* ClearTaskRoute, deferred by deliver.
Return(c, t) ==
    /\ Has(c, t) /\ at[c].pc = "deliver" /\ at[c].sink \notin Sink
    /\ routes' = [routes EXCEPT ![t] = NoRoute]
    /\ at' = [at EXCEPT ![c] = Idle]
    /\ UNCHANGED <<claims, finished, todo, up, sinkVars>>

-----------------------------------------------------------------------------
\* The pairs whose claim is being acted upon.
InFlight ==
    {p \in Pair : \E c \in Caller : /\ Has(c, p[1]) /\ at[c].sink = p[2]
                                    /\ at[c].pc \in {"notify", "undo"}}

\* The daemon dies and is started again: the claims stay, the routes do not.
Crash ==
    /\ crashes < MaxCrashes
    /\ crashes' = crashes + 1
    /\ cut' = cut \cup InFlight
    /\ at' = [c \in Caller |-> Idle]
    /\ routes' = [t \in Task |-> NoRoute]
    /\ up' = FALSE
    /\ todo' = finished
    /\ missed' = {}
    /\ UNCHANGED <<claims, finished, notified, progressed, failed, refused, shared,
                   failures>>

Serve(c, t) ==
    \/ SkipIneligible(c, t) \/ Insert(c, t) \/ NotifyOk(c, t) \/ NotifyFails(c, t)
    \/ Undo(c, t) \/ Return(c, t)

Next ==
    \/ StartWorkers
    \/ Crash
    \/ ListFails
    \/ \E t \in Task :
          \/ DeliverExisting(t) \/ ExistingUnread(t)
          \/ \E c \in Runner :
                \/ Take(c, t) \/ OnProgress(c, t)
                \/ Finish(c, t) \/ FinishUnread(c, t) \/ DeliverNothing(c, t)
          \/ \E c \in Caller : Serve(c, t)

Spec == Init /\ [][Next]_vars

-----------------------------------------------------------------------------
(***************************************************************************)
(* Properties.                                                             *)
(***************************************************************************)
\* A sink takes the completion of a task at most once, although two workers
\* and every restart deliver it again and sinks fail in between, unless the
\* table refused a statement: after a failed INSERT, Deliver notifies without
\* a claim.
AtMostOnce == \A p \in Pair \ refused : notified[p] <= 1

\* The zombie claims that the comment of Deliver describes come from a crash
\* between the INSERT and the end of the notification, or from a DELETE that
\* failed, and from nothing else: any other claim has been notified or is
\* being dealt with.
ZombieOnlyByCrash ==
    \A p \in claims : notified[p] = 0 => p \in cut \cup refused \cup InFlight

\* A finished task that nobody is delivering has reached every eligible sink,
\* but for the sinks that failed it, the claims a crash cut, and the receipts
\* that deliver or deliverExistingCompletions could not read (daemon.go:745-749,
\* 762-766): nothing retries those while the daemon runs, and the next start
\* delivers them.  A table that refuses the router's own statements keeps no sink
\* from being served.
Served ==
    up => \A t \in finished \ missed, s \in Sink :
        /\ Free(t)
        /\ ShouldDeliver(s, PayloadRoute[t])
        /\ <<t, s>> \notin failed \cup cut
        => notified[<<t, s>>] > 0

\* Progress of a task reaches only the sinks its payload names, although the
\* route is kept in a map that is cleared when the task is delivered: without
\* an entry the router serves every sink.  Holds for a task that never had two
\* workers.
ProgressStaysOnRoute ==
    \A p \in progressed :
        p[1] \in shared \/ ShouldDeliver(p[2], PayloadRoute[p[1]])
=============================================================================
