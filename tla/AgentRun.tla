------------------------------ MODULE AgentRun ------------------------------
(***************************************************************************)
(* Agent.Run (internal/agent/agent.go): the loop that sends the history to *)
(* a model, runs the tools the model asks for in batches of calls that may *)
(* run together (internal/agent/executor.go), and appends their results.   *)
(*                                                                         *)
(* A tool call is a record of what the scheduler asks of its tool.  A path *)
(* is the sequence of its components; a relative or empty path, which the  *)
(* code lets intersect everything, is <<>>.  A message of the history      *)
(* keeps its kind and, for a tool turn, the positions of its calls.        *)
(*                                                                         *)
(* The only compressor wired in (single.go) is ContextWindow's, which      *)
(* returns no error, so the breaker of tryCompress never trips here.       *)
(***************************************************************************)
EXTENDS Naturals, Sequences

CONSTANTS Turn,          \* the tool turns a model may take: sequences of tools
          File,          \* the files there are, as paths
          MaxIterations, \* maxIterations
          RetryMax,      \* retryMaxAttempts
          AckMax,        \* continuations of a bare acknowledgement: 2
          KeepRecent     \* messages a summary leaves alone: 2*recentTurnsToKeep

Path == Seq(STRING)
ToolCall == [safe : BOOLEAN, conservative : BOOLEAN, cancelOnErr : BOOLEAN,
             reads : SUBSET Path, writes : SUBSET Path]

ASSUME AgentAssumption ==
    /\ \A t \in Turn : t \in Seq(ToolCall)
    /\ File \subseteq Path
    /\ MaxIterations \in Nat /\ AckMax \in Nat /\ KeepRecent \in Nat
    /\ RetryMax \in Nat \ {0}

VARIABLES history,       \* messages
          arun           \* the locals of Run

agentVars == <<history, arun>>

\* Error classes of a provider, by their recovery (errorclass/category.go).
Retryable == {"rate_limit", "server_error"}
ShouldCompress == {"context_overflow"}
OtherClass == {"auth", "unknown"}
ErrorClass == Retryable \cup ShouldCompress \cup OtherClass

\* reflectionSkipCategories: not the agent's doing.
SkipCategory == {"rate_limit", "auth"}

Message(kind, ids) == [kind |-> kind, ids |-> ids]
UserMessage == Message("user", <<>>)
SummaryMessage == Message("summary", <<>>)

----------------------------------------------------------------------------
(* partitionToolCalls: which calls of a turn run together.                 *)

HasPathPrefix(path, prefix) ==
    /\ Len(prefix) <= Len(path)
    /\ \A k \in 1..Len(prefix) : path[k] = prefix[k]

\* pathsIntersect: equal, or one below the other.
PathsIntersect(p, q) == HasPathPrefix(p, q) \/ HasPathPrefix(q, p)

AnyPairIntersects(P, Q) == \E p \in P, q \in Q : PathsIntersect(p, q)

ScopeDisjoint(a, b) ==
    /\ ~a.conservative /\ ~b.conservative
    /\ ~AnyPairIntersects(a.writes, b.writes)
    /\ ~AnyPairIntersects(a.writes, b.reads)
    /\ ~AnyPairIntersects(a.reads, b.writes)

CanRunTogether(a, b) == (a.safe /\ b.safe) \/ ScopeDisjoint(a, b)

CanJoinBatchLast(turn, i, batch) ==   \* mutant: only the last member is asked
    CanRunTogether(turn[i], turn[batch[Len(batch)]])

CanJoinBatch(turn, i, batch) ==
    \A k \in DOMAIN batch : CanRunTogether(turn[i], turn[batch[k]])

\* One more approved call: it joins the current (last) batch or opens one.
Schedule(turn, batches, i) ==
    IF batches # <<>> /\ CanJoinBatch(turn, i, batches[Len(batches)])
    THEN [batches EXCEPT ![Len(batches)] = Append(@, i)]
    ELSE Append(batches, <<i>>)

\* The batches after each call of the turn: those not denied, in turn.
PartitionToolCalls(turn, denied) ==
    LET after[i \in 0..Len(turn)] ==
            IF i = 0 THEN <<>>
            ELSE IF i \in denied THEN after[i - 1]
            ELSE Schedule(turn, after[i - 1], i)
    IN after[Len(turn)]

----------------------------------------------------------------------------
(* CompressMessages: unchanged when it fits the budget, cut to its most    *)
(* recent messages (snip), or the older ones replaced by one summary       *)
(* (autoCompress), which may be cut again.  Sizes are data: any cut.       *)

Suffix(h, n) == SubSeq(h, Len(h) - n + 1, Len(h))

Snipped(h) == {Suffix(h, n) : n \in 1..Len(h)}

AutoCompress(h) ==
    IF Len(h) <= KeepRecent THEN h
    ELSE <<SummaryMessage>> \o Suffix(h, KeepRecent)

CompressMessages(h) == {h} \cup Snipped(h) \cup Snipped(AutoCompress(h))

----------------------------------------------------------------------------

AgentInit ==
    /\ history = <<>>
    /\ arun = [phase |-> "idle", iter |-> 0, attempt |-> 0, compressed |-> FALSE,
               acks |-> 0, turn |-> <<>>, status |-> <<>>, batches |-> <<>>,
               batch |-> 0, class |-> "none", finish |-> "none", reflected |-> FALSE]

\* A workflow calls Run with the conversation and the user's message.
CallRun ==
    /\ arun.phase = "idle"
    /\ history' = <<UserMessage>>
    /\ arun' = [arun EXCEPT !.phase = "iterate"]

\* wantsReflection: a run that ended badly, unless the provider was at fault
\* or the user cancelled it.
WantsReflection(finish, class, cancelled) ==
    /\ ~cancelled
    /\ class \notin SkipCategory
    /\ finish \in {"error", "budget_exceeded", "ack_loop"}

\* Run returns and its deferred fireReflectionHook runs; class is lost.
ReturnFrom(finish, class) ==
    \E cancelled \in BOOLEAN :
        arun' = [arun EXCEPT !.phase = "returned", !.finish = finish, !.class = "none",
                             !.compressed = FALSE, !.attempt = 0,
                             !.reflected = WantsReflection(finish, class, cancelled)]

\* The budget message of an iteration past 70% (or 90%) of the budget.
BudgetPressure(h) ==
    IF 10 * arun.iter >= 7 * MaxIterations THEN Append(h, UserMessage) ELSE h

\* The head of an iteration: its hook, the budget message, the proactive
\* compaction of a history past its threshold, and the pre-LLM hook.
BeginIteration ==
    /\ arun.phase = "iterate" /\ arun.iter < MaxIterations
    /\ \E h \in CompressMessages(BudgetPressure(history)) : history' = h
    /\ arun' = [arun EXCEPT !.phase = "request", !.iter = @ + 1,
                            !.attempt = 0, !.compressed = FALSE]

\* The iteration, pre-LLM, classified-error and post-LLM hooks may refuse.
HookFails ==
    /\ \/ arun.phase = "iterate" /\ arun.iter < MaxIterations
       \/ arun.phase = "request"
    /\ ReturnFrom("error", arun.class)
    /\ UNCHANGED history

\* The budget of iterations is used up.
ExhaustBudget ==
    /\ arun.phase = "iterate" /\ arun.iter = MaxIterations
    /\ ReturnFrom("budget_exceeded", arun.class)
    /\ UNCHANGED history

\* streamWithRetry answers with a text, from the stream or, after an empty
\* stream, from chatFallback: the run stops.
AnswerText ==
    /\ arun.phase = "request"
    /\ history' = Append(history, Message("text", <<>>))
    /\ ReturnFrom("stop", arun.class)

\* A text that only announces work (isAckOnly): pressed on AckMax times.
AnswerAck ==
    /\ arun.phase = "request"
    /\ IF arun.acks < AckMax
       THEN /\ history' = history \o <<Message("text", <<>>), UserMessage>>
            /\ arun' = [arun EXCEPT !.phase = "iterate", !.acks = @ + 1]
       ELSE /\ history' = Append(history, Message("text", <<>>))
            /\ ReturnFrom("ack_loop", arun.class)

\* The model asks for tools.
AnswerTools(t) ==
    /\ arun.phase = "request"
    /\ history' = Append(history, Message("use", [i \in DOMAIN t |-> i]))
    /\ arun' = [arun EXCEPT !.phase = "judge", !.acks = 0, !.turn = t,
                            !.status = [i \in DOMAIN t |-> "waiting"]]

AnswerEmptyOnceMore ==   \* mutant: one attempt too many
    /\ arun.phase = "request"
    /\ IF arun.attempt < RetryMax
       THEN arun' = [arun EXCEPT !.attempt = @ + 1]
       ELSE ReturnFrom("error", arun.class)
    /\ UNCHANGED history

\* Nothing, from the stream and from the fallback: asked again, and after
\* the last attempt an error that no class is known of.
AnswerEmpty ==
    /\ arun.phase = "request"
    /\ IF arun.attempt + 1 < RetryMax
       THEN arun' = [arun EXCEPT !.attempt = @ + 1]
       ELSE ReturnFrom("error", arun.class)
    /\ UNCHANGED history

\* The provider fails with class c: retried, answered with a compaction of
\* the history and a second streamWithRetry, or returned.
ProviderFails(c) ==
    /\ arun.phase = "request"
    /\ \/ /\ c \in Retryable /\ arun.attempt + 1 < RetryMax
          /\ arun' = [arun EXCEPT !.attempt = @ + 1]
          /\ UNCHANGED history
       \/ /\ c \in ShouldCompress /\ ~arun.compressed
          /\ \E h \in CompressMessages(history) : history' = h
          /\ arun' = [arun EXCEPT !.attempt = 0, !.compressed = TRUE, !.class = c]
       \/ /\ IF c \in Retryable THEN arun.attempt + 1 = RetryMax
             ELSE c \in ShouldCompress => arun.compressed
          /\ ReturnFrom("error", c)
          /\ UNCHANGED history

\* collectApprovedToolCalls: permission and pre-tool hook judge every call
\* in turn; the approved ones are partitioned into batches.
CollectApproved(denied) ==
    /\ arun.phase = "judge"
    /\ arun' = [arun EXCEPT !.phase = "execute", !.batch = 1,
                    !.status = [i \in DOMAIN @ |-> IF i \in denied THEN "denied" ELSE @[i]],
                    !.batches = PartitionToolCalls(arun.turn, denied)]
    /\ UNCHANGED history

\* A permission check or a pre-tool hook errs: executeToolsWithStats returns
\* no messages, and the run ends with an empty transcript.
JudgementFails ==
    /\ arun.phase = "judge"
    /\ ReturnFrom("error", arun.class)
    /\ history' = <<>>

InBatch(i) == arun.batch <= Len(arun.batches)
              /\ \E k \in DOMAIN arun.batches[arun.batch] : arun.batches[arun.batch][k] = i

\* A goroutine of executeToolBatch calls its tool.
StartCall(i) ==
    /\ arun.phase = "execute" /\ InBatch(i)
    /\ arun.status[i] = "waiting"
    /\ arun' = [arun EXCEPT !.status[i] = "running"]
    /\ UNCHANGED history

\* The tool is done.  The error of a tool that cancels its siblings leaves no
\* result; every other outcome is finalized and written at the call's index.
FinishCall(i, failed) ==
    /\ arun.phase = "execute" /\ InBatch(i)
    /\ arun.status[i] = "running"
    /\ arun' = [arun EXCEPT !.status[i] =
                    IF failed /\ arun.turn[i].cancelOnErr THEN "fatal" ELSE "done"]
    /\ UNCHANGED history

BatchDone == arun.phase = "execute"
             /\ \A i \in DOMAIN arun.status : InBatch(i) => arun.status[i] \in {"done", "fatal"}

Fatal == \E i \in DOMAIN arun.status : arun.status[i] = "fatal"

\* wg.Wait returns with the batch's fatal error: the run ends, its messages
\* replaced by the nil executeToolsWithStats returned.
AbortTurn ==
    /\ BatchDone /\ Fatal
    /\ ReturnFrom("error", arun.class)
    /\ history' = <<>>

NextBatchAnyway ==   \* mutant: the fatal error of a batch is not looked at
    /\ BatchDone /\ arun.batch <= Len(arun.batches)
    /\ arun' = [arun EXCEPT !.batch = @ + 1]
    /\ UNCHANGED history

NextBatch ==
    /\ BatchDone /\ ~Fatal /\ arun.batch <= Len(arun.batches)
    /\ arun' = [arun EXCEPT !.batch = @ + 1]
    /\ UNCHANGED history

ResultIdsOfRun ==   \* mutant: denied calls have no result
    SelectSeq([i \in DOMAIN arun.turn |-> i], LAMBDA i : arun.status[i] = "done")

\* The calls that have a result, in the order of the calls.
ResultIds ==
    LET after[i \in 0..Len(arun.turn)] ==
            IF i = 0 THEN <<>>
            ELSE IF arun.status[i] \in {"done", "denied"} THEN Append(after[i - 1], i)
            ELSE after[i - 1]
    IN after[Len(arun.turn)]

\* appendToolResults: one user message with every result, and the footer
\* about the files the calls changed.
AppendToolResults(footer) ==
    /\ arun.phase = "execute" /\ arun.batch > Len(arun.batches)
    /\ history' = Append(history, Message("results", ResultIds))
                  \o (IF footer THEN <<UserMessage>> ELSE <<>>)
    /\ arun' = [arun EXCEPT !.phase = "iterate", !.turn = <<>>, !.status = <<>>,
                            !.batches = <<>>, !.batch = 0]

AgentStep ==
    \/ BeginIteration \/ HookFails \/ ExhaustBudget
    \/ AnswerText \/ AnswerAck \/ AnswerEmpty
    \/ \E t \in Turn : AnswerTools(t)
    \/ \E c \in ErrorClass : ProviderFails(c)
    \/ \E i \in DOMAIN arun.turn : StartCall(i)
    \/ AbortTurn \/ NextBatch
    \/ \E footer \in BOOLEAN : AppendToolResults(footer)

\* What the run waits for without a limit of its own: the operator's permission
\* and the command hooks that judge a call, and the tools, of which an MCP call
\* ignores its context and a command may leave its pipe to a child.
AwaitedReturns ==
    \/ \E denied \in SUBSET DOMAIN arun.turn : CollectApproved(denied)
    \/ JudgementFails
    \/ \E i \in DOMAIN arun.turn, failed \in BOOLEAN : FinishCall(i, failed)

AgentNext == CallRun \/ AgentStep \/ AwaitedReturns

\* The loop and its goroutines run on; a provider returns, under the timeout
\* of its HTTP client.  What AwaitedReturns names need not return.
AgentFairness == WF_agentVars(AgentStep)

AgentSpec == AgentInit /\ [][AgentNext]_agentVars /\ AgentFairness

----------------------------------------------------------------------------

AgentTypeOK ==
    /\ \A k \in DOMAIN history :
           history[k].kind \in {"user", "summary", "text", "use", "results"}
    /\ arun.phase \in {"idle", "iterate", "request", "judge", "execute", "returned"}
    /\ arun.iter \in 0..MaxIterations
    /\ arun.attempt \in 0..RetryMax - 1
    /\ arun.acks \in 0..AckMax
    /\ arun.batch \in 0..Len(arun.batches) + 1
    /\ arun.class \in ErrorClass \cup {"none"}
    /\ \A i \in DOMAIN arun.status :
           arun.status[i] \in {"waiting", "denied", "running", "done", "fatal"}
    /\ arun.finish \in {"none", "stop", "ack_loop", "budget_exceeded", "error"}
    /\ arun.reflected \in BOOLEAN

\* The files a tool reads and writes; a conservative one touches them all.
Below(paths) == {f \in File : \E p \in paths : HasPathPrefix(f, p)}
Writes(t) == IF t.conservative THEN File ELSE Below(t.writes)
Reads(t) == IF t.conservative THEN File ELSE Below(t.reads)
Conflict(a, b) == \/ Writes(a) \cap (Reads(b) \cup Writes(b)) # {}
                  \/ Reads(a) \cap Writes(b) # {}

Started == {i \in DOMAIN arun.status : arun.status[i] \in {"running", "done", "fatal"}}

\* Two calls of a turn of which one writes a file the other touches never
\* run at the same time, and they run in the order the model asked for them:
\* the later starts only when the earlier is over.  Not so two calls that
\* both declare themselves safe: canRunTogether does not look at their scopes,
\* although one such tool writes (create_skill).
ConflictsInOrder ==
    \A i \in DOMAIN arun.status, j \in Started :
        i < j /\ Conflict(arun.turn[i], arun.turn[j]) /\ ~(arun.turn[i].safe /\ arun.turn[j].safe)
            => arun.status[i] \in {"done", "denied", "fatal"}

\* After the error of a tool that cancels its siblings no call of a later
\* batch is made, and the run returns that error.
FatalEndsRun ==
    Fatal => /\ \A i \in Started : \E b \in 1..arun.batch :
                    \E k \in DOMAIN arun.batches[b] : arun.batches[b][k] = i
             /\ \A b \in 1..arun.batch - 1 : \A k \in DOMAIN arun.batches[b] :
                    arun.status[arun.batches[b][k]] = "done"
             /\ arun.finish \in {"none", "error"}

\* The history a request carries answers every tool call it shows: right
\* after the message with the calls come all their results, in their order,
\* denied calls included, whatever was compacted, nudged or retried.  The converse
\* is not claimed: a snip may cut a call and keep its results (context.go:412).
HistoryPaired ==
    arun.phase = "request" =>
        \A k \in DOMAIN history : history[k].kind = "use" =>
            /\ k < Len(history)
            /\ history[k + 1] = Message("results", history[k].ids)

\* The run is over, or waits for what it called: for a judgement, or for tools
\* of a batch whose every call is made.
AgentAtRest ==
    \/ arun.phase \in {"idle", "judge", "returned"}
    \/ /\ arun.phase = "execute"
       /\ \E i \in DOMAIN arun.status : arun.status[i] = "running"
       /\ \A i \in DOMAIN arun.status : InBatch(i) => arun.status[i] # "waiting"
=============================================================================
