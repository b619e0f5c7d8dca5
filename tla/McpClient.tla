----------------------------- MODULE McpClient ------------------------------
(***************************************************************************)
(* The client of an external MCP server over stdio (internal/mcp):         *)
(* Initialize, ListTools, ListResources, ReadResource, ListPrompts,        *)
(* GetPrompt and CallTool all go through call, which writes one request    *)
(* and reads lines until one counts as its response, under one mutex.      *)
(***************************************************************************)
EXTENDS Sequences, FiniteSets, Naturals

CONSTANTS
    McpCall,          \* calls of Client.call, numbered as they start
    MaxNotifications, \* bound: notifications and requests the server sends
    MaxGarbage        \* bound: lines that do not parse as a response

ASSUME McpAssumption ==
    /\ McpCall \subseteq Nat \ {0}
    /\ MaxNotifications \in Nat
    /\ MaxGarbage \in Nat

VARIABLES
    mcall,       \* the calls: where each is, its id, and the request that the line
                 \* it was answered with responds to (0: none)
    mmutex,      \* the call that holds mu, or 0
    mrequests,   \* requests the server has not answered yet
    mwire,       \* lines on the server's stdout
    mnextID,
    mcancelled,  \* calls whose context is cancelled
    mserver,     \* "up" or "exited"
    mnotes,      \* notifications and requests the server sent
    mgarbage     \* garbage lines sent

mcpVars == <<mcall, mmutex, mrequests, mwire, mnextID, mcancelled, mserver, mnotes, mgarbage>>

McpOver == {"answered", "cancelled", "failed"}
McpState == [pc : {"idle", "lock", "check", "read"} \cup McpOver, id : Nat, answer : Nat]
McpLine == [kind : {"response", "note", "ask", "garbage"}, id : Nat]
Note == [kind |-> "note", id |-> 0]
Ask == [kind |-> "ask", id |-> 0]
Garbage == [kind |-> "garbage", id |-> 0]

McpTypeOK ==
    /\ mcall \in [McpCall -> McpState]
    /\ mmutex \in McpCall \cup {0}
    /\ mrequests \in Seq(Nat)
    /\ mwire \in Seq(McpLine)
    /\ mnextID \in Nat
    /\ mcancelled \subseteq McpCall
    /\ mserver \in {"up", "exited"}
    /\ mnotes \in 0..MaxNotifications
    /\ mgarbage \in 0..MaxGarbage

McpInit ==
    /\ mcall = [c \in McpCall |-> [pc |-> "idle", id |-> 0, answer |-> 0]]
    /\ mmutex = 0
    /\ mrequests = <<>>
    /\ mwire = <<>>
    /\ mnextID = 0
    /\ mcancelled = {}
    /\ mserver = "up"
    /\ mnotes = 0
    /\ mgarbage = 0

-----------------------------------------------------------------------------
McpGo(c, pc) == mcall' = [mcall EXCEPT ![c].pc = pc]
McpReturnLocked(c, pc) == McpGo(c, pc) /\ UNCHANGED mmutex   \* mutant: no Unlock

\* The deferred Unlock.
McpReturn(c, pc) == McpGo(c, pc) /\ mmutex' = 0

\* call, before the lock: a cancelled context returns, an id is drawn.
McpBegin(c) ==
    /\ mcall[c].pc = "idle"
    /\ \A d \in McpCall : d < c => mcall[d].pc # "idle"
    /\ \/ /\ c \in mcancelled
          /\ McpGo(c, "cancelled")
          /\ UNCHANGED mnextID
       \/ /\ c \notin mcancelled
          /\ mnextID' = mnextID + 1
          /\ mcall' = [mcall EXCEPT ![c].pc = "lock", ![c].id = mnextID + 1]
    /\ UNCHANGED <<mmutex, mrequests, mwire, mcancelled, mserver, mnotes, mgarbage>>

McpSendUnlocked(c) ==   \* mutant: the mutex is not taken
    /\ mcall[c].pc = "lock"
    /\ mserver = "up"
    /\ mmutex' = c
    /\ mrequests' = Append(mrequests, mcall[c].id)
    /\ McpGo(c, "check")
    /\ UNCHANGED <<mwire, mnextID, mcancelled, mserver, mnotes, mgarbage>>

\* The lock, and the request written under it; a server that is gone fails it.
McpSend(c) ==
    /\ mcall[c].pc = "lock"
    /\ mmutex = 0
    /\ \/ /\ mserver = "up"
          /\ mmutex' = c
          /\ mrequests' = Append(mrequests, mcall[c].id)
          /\ McpGo(c, "check")
       \/ /\ mserver = "exited"
          /\ McpGo(c, "failed")
          /\ UNCHANGED <<mmutex, mrequests>>
    /\ UNCHANGED <<mwire, mnextID, mcancelled, mserver, mnotes, mgarbage>>

\* The top of the read loop: ctx.Err().
McpCheck(c) ==
    /\ mcall[c].pc = "check"
    /\ IF c \in mcancelled THEN McpReturn(c, "cancelled")
                           ELSE McpGo(c, "read") /\ UNCHANGED mmutex
    /\ UNCHANGED <<mrequests, mwire, mnextID, mcancelled, mserver, mnotes, mgarbage>>

\* readResponse blocks whatever becomes of the context.  A line without id,
\* result and error is skipped; any other line that parses is taken for the
\* response, the id it carries is not compared: the response to another request,
\* or a request of the server, which has an id and neither result nor error.  A
\* line that does not parse, or the end of the stream, fails.
McpRead(c) ==
    /\ mcall[c].pc = "read"
    /\ \/ /\ mwire # <<>>
          /\ mwire' = Tail(mwire)
          /\ \/ /\ Head(mwire) = Note
                /\ McpGo(c, "check")
                /\ UNCHANGED mmutex
             \/ /\ Head(mwire) = Garbage
                /\ McpReturn(c, "failed")
             \/ /\ Head(mwire) = Ask \/ Head(mwire).kind = "response"
                /\ mcall' = [mcall EXCEPT ![c].pc = "answered", ![c].answer = Head(mwire).id]
                /\ mmutex' = 0
       \/ /\ mwire = <<>>
          /\ mserver = "exited"
          /\ McpReturn(c, "failed")
          /\ UNCHANGED mwire
    /\ UNCHANGED <<mrequests, mnextID, mcancelled, mserver, mnotes, mgarbage>>

-----------------------------------------------------------------------------
\* The server (external): answers in order, notifies, asks the client something
\* (a ping, a sampling request; an error that names no request reads alike),
\* writes what does not parse, exits; Close makes it exit, by closing its stdin
\* or by signals.
ServerAnswer ==
    /\ mserver = "up"
    /\ mrequests # <<>>
    /\ mwire' = Append(mwire, [kind |-> "response", id |-> Head(mrequests)])
    /\ mrequests' = Tail(mrequests)
    /\ UNCHANGED <<mcall, mmutex, mnextID, mcancelled, mserver, mnotes, mgarbage>>

ServerNotify ==
    /\ mserver = "up"
    /\ mnotes < MaxNotifications
    /\ mnotes' = mnotes + 1
    /\ mwire' = Append(mwire, Note)
    /\ UNCHANGED <<mcall, mmutex, mrequests, mnextID, mcancelled, mserver, mgarbage>>

ServerAsk ==
    /\ mserver = "up"
    /\ mnotes < MaxNotifications
    /\ mnotes' = mnotes + 1
    /\ mwire' = Append(mwire, Ask)
    /\ UNCHANGED <<mcall, mmutex, mrequests, mnextID, mcancelled, mserver, mgarbage>>

ServerGarbage ==
    /\ mserver = "up"
    /\ mgarbage < MaxGarbage
    /\ mgarbage' = mgarbage + 1
    /\ mwire' = Append(mwire, Garbage)
    /\ UNCHANGED <<mcall, mmutex, mrequests, mnextID, mcancelled, mserver, mnotes>>

McpClose ==
    /\ mserver = "up"
    /\ mserver' = "exited"
    /\ mrequests' = <<>>
    /\ UNCHANGED <<mcall, mmutex, mwire, mnextID, mcancelled, mnotes, mgarbage>>

\* The caller's context: a task timeout, a cancelled task, a sibling's error.
McpCancel(c) ==
    /\ c \notin mcancelled
    /\ mcall[c].pc \notin McpOver
    /\ mcancelled' = mcancelled \cup {c}
    /\ UNCHANGED <<mcall, mmutex, mrequests, mwire, mnextID, mserver, mnotes, mgarbage>>

McpStep(c) == McpSend(c) \/ McpCheck(c) \/ McpRead(c)

McpNext ==
    \/ \E c \in McpCall : McpBegin(c) \/ McpStep(c) \/ McpCancel(c)
    \/ ServerAnswer \/ ServerNotify \/ ServerAsk \/ ServerGarbage \/ McpClose

McpSpec == McpInit /\ [][McpNext]_mcpVars

\* The calls run.  Nothing makes the server answer: a read has no timeout and
\* ignores the context.
McpFairness == \A c \in McpCall : WF_mcpVars(McpStep(c))

-----------------------------------------------------------------------------
\* Where nothing was left behind on the pipe (no call was cancelled or failed
\* after it had drawn its id) and no call took a request of the server for its
\* response, notifications and concurrent callers never make a call take another
\* call's response.
McpUndisturbed ==
    \A c \in McpCall : /\ mcall[c].id # 0 => mcall[c].pc \notin {"cancelled", "failed"}
                       /\ mcall[c].pc = "answered" => mcall[c].answer # 0
McpAnswersInStep ==
    McpUndisturbed => \A c \in McpCall : mcall[c].pc = "answered" => mcall[c].answer = mcall[c].id

\* "... reads the response.  It skips any server-to-client notifications ...
\* that may arrive before the expected response": the response of a call is
\* the one to its own request.
McpAnswerIsExpected ==
    \A c \in McpCall : mcall[c].pc = "answered" => mcall[c].answer = mcall[c].id

\* No call waits, but for a server that is up and owes a response: behind such
\* a call every other call waits for the mutex.
McpWaits(c) ==
    mcall[c].pc = "read" /\ mwire = <<>> /\ mserver = "up" /\ mrequests # <<>>
McpAtRest ==
    \A c \in McpCall :
        \/ mcall[c].pc \in {"idle"} \cup McpOver
        \/ McpWaits(c)
        \/ mcall[c].pc = "lock" /\ \E d \in McpCall : mmutex = d /\ McpWaits(d)
=============================================================================
