---------------------------- MODULE MC_TaskQueue ----------------------------
(* Small instances of the task queue for TLC. *)
EXTENDS TaskQueue, TLC

\* The callers do the same things.
Symmetry == Permutations(Caller)

\* What is explored of an instance with two rows: two rows that race for a
\* key, for two instants, without sessions and annotations, where one of the
\* callers at least submits, recovers or rests; or one row without a key and
\* what becomes of it for longer, once it is there.
TwoRows ==
    /\ now <= 2
    /\ \A i \in TaskId : tasks[i].session = NoSession
    /\ \A c \in Caller : call[c].session = NoSession /\ call[c].op # "annotate"
    /\ \E c \in Caller : call[c].op \in {"idle", "lookup", "insert", "relookup", "recover"}
OneRow ==
    /\ tasks[1].key = NoKey
    /\ tasks[2].status = "absent"
    /\ \A c \in Caller : call[c].op \notin {"lookup", "insert", "relookup"}
Explored == TwoRows \/ OneRow
=============================================================================
