---------------------------- MODULE TelegramShell ----------------------------
(***************************************************************************)
(* The Telegram operator shell (internal/telegram/shell.go), driven by     *)
(* runTelegramShell (cmd/elnath/cmd_telegram.go): announce completed tasks,*)
(* fetch updates, handle them, remember the offset, and again.  Its state  *)
(* file keeps the offset and the announced tasks; it dies at any step and  *)
(* starts again from the file.                                             *)
(*                                                                         *)
(* saveState writes the file in place, so a failed or interrupted save may *)
(* leave one that nothing can read again.                                  *)
(*                                                                         *)
(* One clarification question without a time limit is open; the shell's    *)
(* operator may answer or cancel it, and others may answer it too: every   *)
(* elnath task answer is a process of its own, and every agent has the     *)
(* tool user_question_answer.  Rows stand for the daemon's queue: Enqueue  *)
(* gives back an active row with the same idempotency key instead of a     *)
(* second one.                                                             *)
(***************************************************************************)
EXTENDS Naturals, Sequences

CONSTANTS MaxUpdates,    \* updates the operator sends, numbered from 1
          Saying,        \* what an update may say: [kind, key]
          Answerer,      \* who else answers, each once
          MaxShellFaults \* failed sends and saves, and crashes

ASSUME ShellAssumption == MaxUpdates \in Nat /\ MaxShellFaults \in Nat

VARIABLES shell,         \* the locals of the loop and of the handler
          disk,          \* telegram-shell-state.json
          server,        \* Telegram: the updates received, and those confirmed
          trows,         \* the queue, as far as the shell sees it
          outcomes,      \* outcomes.jsonl: receipts about the question
          others,        \* how far each answerer is
          tally          \* history: updates handled, notices sent, faults

shellVars == <<shell, disk, server, trows, outcomes, others, tally>>

QuestionReceipt(action, by, key) == [action |-> action, by |-> by, key |-> key]

Told(action) == \E i \in DOMAIN outcomes : outcomes[i].action = action

\* PendingUserQuestions: asked and neither answered nor cancelled.
QuestionPending == Told("ask") /\ ~Told("answer") /\ ~Told("cancel")

NewRow(key) == Append(trows, [key |-> key, status |-> "active"])

\* Queue.Enqueue.
Enqueued(key) == IF \E i \in DOMAIN trows : trows[i] = [key |-> key, status |-> "active"]
                 THEN trows
                 ELSE NewRow(key)

ShellInit ==
    /\ shell = [pc |-> "down", offset |-> 0, todo |-> <<>>, list |-> {}, notified |-> {}]
    /\ disk = [offset |-> 0, notified |-> {}, torn |-> FALSE]
    /\ server = [said |-> <<>>, confirmed |-> 0]
    /\ trows = <<>>
    /\ outcomes = <<QuestionReceipt("ask", "agent", "none")>>
    /\ others = [a \in Answerer |-> "idle"]
    /\ tally = [handled |-> [u \in 1..MaxUpdates |-> 0], sent |-> <<>>, faults |-> 0]

Fault == /\ tally.faults < MaxShellFaults
         /\ tally' = [tally EXCEPT !.faults = @ + 1]

\* os.WriteFile truncates the file before it writes: a save that fails or is
\* cut short leaves the old contents, the new ones, or a part of them.
SaveFails(saved) == disk' \in {disk, saved, [disk EXCEPT !.torn = TRUE]}

\* NextOffset: the loop starts with the offset of the file, or not at all.
ShellStart ==
    /\ shell.pc = "down" /\ ~disk.torn
    /\ shell' = [shell EXCEPT !.pc = "load", !.offset = disk.offset]
    /\ UNCHANGED <<disk, server, trows, outcomes, others, tally>>

\* NotifyCompletions reads the file and lists the completed tasks; while it
\* cannot read the file the loop only starts over.
NotifyLoad ==
    /\ shell.pc = "load" /\ ~disk.torn
    /\ shell' = [shell EXCEPT !.pc = "notify", !.notified = disk.notified,
                  !.list = {i \in DOMAIN trows : trows[i].status = "completed"} \ disk.notified]
    /\ UNCHANGED <<disk, server, trows, outcomes, others, tally>>

NextNotice == CHOOSE i \in shell.list : \A j \in shell.list : i <= j

Sent(i) == IF i \in DOMAIN tally.sent THEN tally.sent[i] ELSE 0

\* One notice is sent and noted in memory.
NotifyOne ==
    /\ shell.pc = "notify" /\ shell.list # {}
    /\ shell' = [shell EXCEPT !.list = @ \ {NextNotice}, !.notified = @ \cup {NextNotice}]
    /\ tally' = [tally EXCEPT !.sent =
                    [i \in DOMAIN trows |-> Sent(i) + (IF i = NextNotice THEN 1 ELSE 0)]]
    /\ UNCHANGED <<disk, server, trows, outcomes, others>>

\* What saveState writes once the whole list was sent.
Announced == [disk EXCEPT !.notified = shell.notified]

\* A send or the save fails: what was noted is forgotten, and the loop
\* starts over without asking for updates.
NotifyFails ==
    /\ shell.pc = "notify"
    /\ Fault
    /\ shell' = [shell EXCEPT !.pc = "load", !.list = {}, !.notified = {}]
    /\ IF shell.list = {} THEN SaveFails(Announced) ELSE UNCHANGED disk
    /\ UNCHANGED <<server, trows, outcomes, others>>

NotifySave ==
    /\ shell.pc = "notify" /\ shell.list = {}
    /\ disk' = Announced
    /\ shell' = [shell EXCEPT !.pc = "poll", !.notified = {}]
    /\ UNCHANGED <<server, trows, outcomes, others, tally>>

\* The first update Telegram returns: not one below the offset, and never
\* again one that an earlier offset confirmed.
NextUpdate == IF shell.offset > server.confirmed THEN shell.offset ELSE server.confirmed + 1

GetUpdatesSaved(n) ==   \* mutant: the offset is saved before the updates are handled
    /\ shell.pc = "poll"
    /\ NextUpdate + n <= Len(server.said) + 1
    /\ n = 0 => NextUpdate > Len(server.said)
    /\ shell' = [shell EXCEPT !.pc = "handle", !.todo = [i \in 1..n |-> NextUpdate + i - 1]]
    /\ server' = [server EXCEPT !.confirmed = NextUpdate - 1]
    /\ disk' = [disk EXCEPT !.offset = NextUpdate + n]
    /\ UNCHANGED <<trows, outcomes, others, tally>>

\* GetUpdates: Telegram forgets the updates below the offset and returns the
\* first n of the others, none only when there are none.
GetUpdates(n) ==
    /\ shell.pc = "poll"
    /\ NextUpdate + n <= Len(server.said) + 1
    /\ n = 0 => NextUpdate > Len(server.said)
    /\ shell' = [shell EXCEPT !.pc = "handle", !.todo = [i \in 1..n |-> NextUpdate + i - 1]]
    /\ server' = [server EXCEPT !.confirmed = NextUpdate - 1]
    /\ UNCHANGED <<disk, trows, outcomes, others, tally>>

\* The poll fails: the loop starts over.
PollFails ==
    /\ shell.pc = "poll"
    /\ Fault
    /\ shell' = [shell EXCEPT !.pc = "load"]
    /\ UNCHANGED <<disk, server, trows, outcomes, others>>

Said == server.said[Head(shell.todo)]

\* HandleUpdate returns, and the offset has moved past the update.
PastUpdate == [shell EXCEPT !.pc = "handle", !.todo = Tail(@), !.offset = Head(shell.todo) + 1]

Handled ==
    /\ shell' = PastUpdate
    /\ tally' = [tally EXCEPT !.handled[Head(shell.todo)] = @ + 1]

\* A text or /submit: one task, unless an active one has its key.
HandleSubmit ==
    /\ shell.pc = "handle" /\ shell.todo # <<>> /\ Said.kind = "submit"
    /\ trows' = Enqueued(Said.key)
    /\ Handled
    /\ UNCHANGED <<disk, server, outcomes, others>>

\* /status, /approvals, a message of another chat, an unknown command...
HandleOther ==
    /\ shell.pc = "handle" /\ shell.todo # <<>> /\ Said.kind = "other"
    /\ Handled
    /\ UNCHANGED <<disk, server, trows, outcomes, others>>

\* /cancel-question: recorded if the question is pending.
HandleCancel ==
    /\ shell.pc = "handle" /\ shell.todo # <<>> /\ Said.kind = "cancel"
    /\ outcomes' = IF QuestionPending
                   THEN Append(outcomes, QuestionReceipt("cancel", "shell", "none"))
                   ELSE outcomes
    /\ Handled
    /\ UNCHANGED <<disk, server, trows, others>>

AnswerUnvalidated ==   \* mutant: the pending questions are not looked at
    /\ shell.pc = "handle" /\ shell.todo # <<>> /\ Said.kind = "answer"
    /\ shell' = [shell EXCEPT !.pc = "validated"]
    /\ UNCHANGED <<disk, server, trows, outcomes, others, tally>>

\* An answer (a button, a text or /answer), validated against the pending
\* questions; enqueued as a resume task; recorded.  Three stores, three steps.
AnswerValidate ==
    /\ shell.pc = "handle" /\ shell.todo # <<>> /\ Said.kind = "answer"
    /\ IF QuestionPending
       THEN shell' = [shell EXCEPT !.pc = "validated"] /\ UNCHANGED tally
       ELSE Handled
    /\ UNCHANGED <<disk, server, trows, outcomes, others>>

AnswerEnqueue ==
    /\ shell.pc = "validated"
    /\ trows' = Enqueued(Said.key)
    /\ shell' = [shell EXCEPT !.pc = "enqueued"]
    /\ UNCHANGED <<disk, server, outcomes, others, tally>>

AnswerRecord ==
    /\ shell.pc = "enqueued"
    /\ outcomes' = Append(outcomes, QuestionReceipt("answer", "shell", Said.key))
    /\ Handled
    /\ UNCHANGED <<disk, server, trows, others>>

\* The handler fails at one of its stores: only logged, and not tried again,
\* so the update counts as handled.
HandleFails ==
    /\ shell.pc \in {"handle", "validated", "enqueued"} /\ shell.todo # <<>>
    /\ tally.faults < MaxShellFaults
    /\ shell' = PastUpdate
    /\ tally' = [tally EXCEPT !.handled[Head(shell.todo)] = @ + 1, !.faults = @ + 1]
    /\ UNCHANGED <<disk, server, trows, outcomes, others>>

\* RememberOffset, which never moves the file's offset back; a failed save
\* is only logged.
Remembered == [disk EXCEPT !.offset = shell.offset]

RememberOffset ==
    /\ shell.pc = "handle" /\ shell.todo = <<>>
    /\ shell' = [shell EXCEPT !.pc = "load"]
    /\ \/ /\ disk' = IF shell.offset > disk.offset THEN Remembered ELSE disk
          /\ UNCHANGED tally
       \/ shell.offset > disk.offset /\ Fault /\ SaveFails(Remembered)
    /\ UNCHANGED <<server, trows, outcomes, others>>

Saving == \/ shell.pc = "notify" /\ shell.list = {}
          \/ shell.pc = "handle" /\ shell.todo = <<>> /\ shell.offset > disk.offset

\* The shell dies, in the middle of a save too.
ShellCrash ==
    /\ shell.pc # "down"
    /\ Fault
    /\ shell' = [shell EXCEPT !.pc = "down", !.todo = <<>>, !.offset = 0, !.list = {},
                              !.notified = {}]
    /\ disk' = disk \/ (Saving /\ disk' = [disk EXCEPT !.torn = TRUE])
    /\ UNCHANGED <<server, trows, outcomes, others>>

\* Another answer to the question, by elnath task answer or by an agent: the
\* same three steps.  The idempotency key is the caller's to give, and an
\* agent's receipt is written only with the outcome of its run; either may
\* stop at any step.
OtherValidate(a) ==
    /\ others[a] = "idle"
    /\ others' = [others EXCEPT ![a] = IF QuestionPending THEN "validated" ELSE "refused"]
    /\ UNCHANGED <<shell, disk, server, trows, outcomes, tally>>

OtherEnqueue(a) ==
    /\ others[a] = "validated"
    /\ trows' \in {Enqueued("other-answer"), NewRow("other-answer")}
    /\ others' = [others EXCEPT ![a] = "enqueued"]
    /\ UNCHANGED <<shell, disk, server, outcomes, tally>>

OtherRecord(a) ==
    /\ others[a] = "enqueued"
    /\ outcomes' = Append(outcomes, QuestionReceipt("answer", "other", "other-answer"))
    /\ others' = [others EXCEPT ![a] = "recorded"]
    /\ UNCHANGED <<shell, disk, server, trows, tally>>

\* An operator writes the next update (external).
Receive(s) ==
    /\ Len(server.said) < MaxUpdates
    /\ server' = [server EXCEPT !.said = Append(@, s)]
    /\ UNCHANGED <<shell, disk, trows, outcomes, others, tally>>

\* The daemon completes a task (external).
CompleteTask(i) ==
    /\ i \in DOMAIN trows /\ trows[i].status = "active"
    /\ trows' = [trows EXCEPT ![i].status = "completed"]
    /\ UNCHANGED <<shell, disk, server, outcomes, others, tally>>

ShellStep ==
    \/ NotifyLoad \/ NotifyOne \/ NotifySave
    \/ \E n \in 0..Len(server.said) : GetUpdates(n)
    \/ HandleSubmit \/ HandleOther \/ HandleCancel
    \/ AnswerValidate \/ AnswerEnqueue \/ AnswerRecord
    \/ RememberOffset

ShellNext ==
    \/ ShellStart \/ ShellStep \/ NotifyFails \/ PollFails \/ HandleFails \/ ShellCrash
    \/ \E a \in Answerer : OtherValidate(a) \/ OtherEnqueue(a) \/ OtherRecord(a)
    \/ \E s \in Saying : Receive(s)
    \/ \E i \in DOMAIN trows : CompleteTask(i)

\* The loop runs on once started; nothing starts it again after a crash.
ShellFairness == WF_shellVars(ShellStep)

ShellSpec == ShellInit /\ [][ShellNext]_shellVars /\ ShellFairness

----------------------------------------------------------------------------

ShellTypeOK ==
    /\ shell.pc \in {"down", "load", "notify", "poll", "handle", "validated", "enqueued"}
    /\ shell.offset \in Nat /\ shell.todo \in Seq(1..MaxUpdates)
    /\ shell.notified \cup shell.list \subseteq DOMAIN trows
    /\ disk.offset \in Nat /\ disk.notified \subseteq DOMAIN trows /\ disk.torn \in BOOLEAN
    /\ Len(server.said) <= MaxUpdates /\ server.confirmed \in 0..Len(server.said)
    /\ \A i \in DOMAIN trows : trows[i].status \in {"active", "completed"}
    /\ \A i \in DOMAIN outcomes : outcomes[i].action \in {"ask", "answer", "cancel"}
    /\ others \in [Answerer -> {"idle", "refused", "validated", "enqueued", "recorded"}]
    /\ tally.handled \in [1..MaxUpdates -> Nat] /\ tally.faults \in 0..MaxShellFaults

\* An update that Telegram will not send again, or that the file says is
\* done, was handled, and a notice the file says was sent was sent; handled
\* or sent twice only after a crash or a failed send or save.
ShellAccounts ==
    /\ \A u \in 1..MaxUpdates :
           /\ u <= server.confirmed \/ u < disk.offset => tally.handled[u] > 0
           /\ tally.handled[u] > 1 => tally.faults > 0
    /\ \A i \in DOMAIN trows :
           /\ i \in disk.notified => Sent(i) > 0
           /\ Sent(i) > 1 => tally.faults > 0

Recorded == {i \in DOMAIN outcomes : outcomes[i].action = "answer"}
ShellRecorded == {i \in Recorded : outcomes[i].by = "shell"}

\* An answer on record has its resume task in the queue, whoever gave it and
\* however the surfaces' steps interleave; and though others may answer at
\* the same time, the shell records one answer to the question at most: its
\* own answers are refused when they are delivered again after a crash.
AnswerHasResume ==
    /\ \A i \in Recorded : \E j \in DOMAIN trows : trows[j].key = outcomes[i].key
    /\ \A i, j \in ShellRecorded : i = j

\* The shell is not running, or cannot read its file any more, or every
\* update was handled and every completed task announced.
ShellAtRest ==
    \/ shell.pc = "down"
    \/ shell.pc = "load" /\ disk.torn
    \/ /\ \A u \in 1..Len(server.said) : tally.handled[u] > 0
       /\ \A i \in DOMAIN trows : trows[i].status = "completed" => Sent(i) > 0
=============================================================================
