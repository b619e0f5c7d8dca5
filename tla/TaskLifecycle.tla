--------------------------- MODULE TaskLifecycle ---------------------------
(***************************************************************************)
(* What the task queue promises, one task at a time and without its        *)
(* statements, clock and callers: a submitted task waits, is executed,     *)
(* may be given back to the queue a bounded number of times, and ends once *)
(* with a receipt that says how.  At most one unfinished task has a given  *)
(* key.  TaskQueue implements this specification.                          *)
(***************************************************************************)
EXTENDS Integers

CONSTANTS
    Task,           \* task identifiers
    KeyVal,         \* idempotency keys, and
    NoKey,          \* the one that identifies nothing
    MaxTries        \* how often a task may be given back; 0 for any number

VARIABLE life

Unfinished == {"pending", "running"}
Ended == {"done", "failed"}
Unborn == [state |-> "absent", key |-> NoKey, tries |-> 0, receipt |-> "absent"]

Init == life = [i \in Task |-> Unborn]

Submit(i, k) ==
    /\ life[i].state = "absent"
    /\ k # NoKey => \A j \in Task : life[j].key = k => life[j].state \notin Unfinished
    /\ life' = [life EXCEPT ![i] = [Unborn EXCEPT !.state = "pending", !.key = k]]

Claim(i) ==
    /\ life[i].state = "pending"
    /\ life' = [life EXCEPT ![i].state = "running"]

\* The task with a receipt.
Closed(task, outcome) ==
    [state |-> outcome, key |-> task.key, tries |-> task.tries, receipt |-> outcome]

\* A running task ends either way, a waiting one only by being cancelled.
End(i, outcome) ==
    /\ \/ life[i].state = "running"
       \/ life[i].state = "pending" /\ outcome = "failed"
    /\ life' = [life EXCEPT ![i] = Closed(life[i], outcome)]

\* One more execution is taken away from the task; past the budget it fails.
GivenBack(task) ==
    IF MaxTries > 0 /\ task.tries + 1 > MaxTries
    THEN [task EXCEPT !.tries = task.tries + 1, !.state = "failed",
                      !.receipt = "failed"]
    ELSE [task EXCEPT !.tries = task.tries + 1, !.state = "pending"]

\* Executions presumed dead are given back, several at once.
GiveBack(S) ==
    /\ \A i \in S : life[i].state = "running"
    /\ life' = [i \in Task |-> IF i \in S THEN GivenBack(life[i]) ELSE life[i]]

Next ==
    \/ \E i \in Task :
          \/ \E k \in KeyVal : Submit(i, k)
          \/ Claim(i)
          \/ \E outcome \in Ended : End(i, outcome)
    \/ \E S \in SUBSET Task : GiveBack(S)

Spec == Init /\ [][Next]_life
=============================================================================
