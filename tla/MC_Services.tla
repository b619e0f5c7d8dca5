---------------------------- MODULE MC_Services -----------------------------
(* Small instances of the agent's run and of what serves it: the gateway of  *)
(* its tools, the processes and MCP servers they use, the reflection pool,   *)
(* and the operator's Telegram shell.  These share no state here, so a       *)
(* behaviour is one of one service, named by part.                           *)
EXTENDS ToolGateway, ReflectionPool, McpClient, ProcessManager, AgentRun, TelegramShell

VARIABLE part

servicesVars == <<part, gwVars, poolVars, mcpVars, procVars, agentVars, shellVars>>

\* A write needs an approval, a read none; here the read cancels its siblings.
GatewayRequests ==
    {[tool |-> "write_file", kind |-> "tool_call", dangerous |-> FALSE,
      readonly |-> FALSE, actor |-> 1],
     [tool |-> "read_file", kind |-> "tool_call", dangerous |-> FALSE,
      readonly |-> TRUE, actor |-> 1]}
GatewayCancelOnErr == {r \in GatewayRequests : r.readonly}

\* Tools that read or write a file or its directory, and a skill, which may
\* touch anything and whose error ends the run; create_skill, which writes the
\* wiki and calls itself concurrency-safe.
Tool(safe, reads, writes) == [safe |-> safe, conservative |-> FALSE, cancelOnErr |-> FALSE,
                              reads |-> reads, writes |-> writes]
ReadB == Tool(TRUE, {<<"a", "b">>}, {})
WriteB == Tool(FALSE, {}, {<<"a", "b">>})
WriteC == Tool(FALSE, {}, {<<"a", "c">>})
GitA == Tool(FALSE, {}, {<<"a">>})
Skill == [safe |-> FALSE, conservative |-> TRUE, cancelOnErr |-> TRUE, reads |-> {}, writes |-> {}]
CreateSkill == Tool(TRUE, {<<"d">>}, {<<"d">>})
AgentTurns == {<<WriteB, WriteC, ReadB>>, <<Skill, GitA, ReadB>>,
               <<CreateSkill, CreateSkill, ReadB>>}
AgentFiles == {<<"a", "b">>, <<"a", "c">>, <<"d">>}

\* What the operator may send.
OperatorSayings ==
    {[kind |-> "submit", key |-> "k"], [kind |-> "answer", key |-> "telegram-answer"],
     [kind |-> "cancel", key |-> "none"], [kind |-> "other", key |-> "none"]}

ServicesInit == /\ part \in {"gateway", "pool", "mcp", "process", "agent", "shell"}
                /\ GatewayInit /\ PoolInit /\ McpInit /\ ProcInit /\ AgentInit /\ ShellInit

ServicesNext ==
    \/ part = "gateway" /\ GatewayNext
       /\ UNCHANGED <<part, poolVars, mcpVars, procVars, agentVars, shellVars>>
    \/ part = "pool" /\ PoolNext
       /\ UNCHANGED <<part, gwVars, mcpVars, procVars, agentVars, shellVars>>
    \/ part = "mcp" /\ McpNext
       /\ UNCHANGED <<part, gwVars, poolVars, procVars, agentVars, shellVars>>
    \/ part = "process" /\ ProcNext
       /\ UNCHANGED <<part, gwVars, poolVars, mcpVars, agentVars, shellVars>>
    \/ part = "agent" /\ AgentNext
       /\ UNCHANGED <<part, gwVars, poolVars, mcpVars, procVars, shellVars>>
    \/ part = "shell" /\ ShellNext
       /\ UNCHANGED <<part, gwVars, poolVars, mcpVars, procVars, agentVars>>

\* What is explored: at most two tool calls at a time, since they race for
\* approvals in pairs; only the first process leaves its pipe to a child; and
\* when others answer beside the shell, no completed task, since notices and
\* answers share only the queue.
UnderWay == {c \in Call : gcall[c].pc \notin {"idle"} \cup Returned}
Explored == /\ Cardinality(UnderWay) <= 2
            /\ held \subseteq {1}
            /\ \/ \A a \in Answerer : others[a] = "idle"
               \/ \A i \in DOMAIN trows : trows[i].status = "active"

\* A service that does not move was asked nothing, so its fairness is met.
ServicesSpec ==
    /\ ServicesInit
    /\ [][ServicesNext]_servicesVars
    /\ GatewayFairness /\ PoolFairness /\ McpFairness
    /\ ProcFairness /\ AgentFairness /\ ShellFairness

\* The services' states have their types.
ServicesTypeOK == /\ GatewayTypeOK /\ PoolTypeOK /\ McpTypeOK
                  /\ ProcTypeOK /\ AgentTypeOK /\ ShellTypeOK

\* Every service comes to rest once nothing more is asked of it (what is asked
\* is finite here): tool calls return although no operator decides or another
\* call took the approval, accepted reflections are processed, processes end and
\* are recorded, stops and shutdowns come back, MCP calls return and hand their
\* mutex on, an agent's run returns whatever the provider does, and the shell
\* handles every update and announces every completion.  What may be left is what
\* nothing in the code bounds: an MCP call, and those behind it, while the server
\* owes a response; a run, and a tool call of the gateway, while a tool does not
\* return; the record of a killed process while a child holds its pipe; a shell
\* whose state file is torn.
ServicesComeToRest ==
    <>[](/\ GatewayAtRest /\ PoolAtRest /\ McpAtRest
         /\ ProcAtRest /\ AgentAtRest /\ ShellAtRest)
=============================================================================
