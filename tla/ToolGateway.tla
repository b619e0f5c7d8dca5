---------------------------- MODULE ToolGateway ----------------------------
(***************************************************************************)
(* The gateway in front of the tools of an agentic task                    *)
(* (internal/agentic/tools/gateway.go), with the policy it asks            *)
(* (internal/agentic/policy), the approvals it requests, awaits and spends *)
(* (internal/agentic/approvals, internal/daemon/approval_store.go) and the *)
(* receipts it leaves (internal/agentic/store.go).                         *)
(*                                                                         *)
(* Calls run in parallel, in the executor's goroutines; an operator        *)
(* decides approvals from another process.  One action is one statement or *)
(* transaction on the database, or the tool itself.                        *)
(***************************************************************************)
EXTENDS Sequences, FiniteSets, Naturals

CONSTANTS
    Call,            \* calls of Gateway.Execute, numbered as they start
    Request,         \* what a call asks for, see Evaluate
    WaitApproval,    \* approvalWaitEnabled
    FinalizeResult,  \* the executor reports the visible result afterwards
    CancelOnErr,     \* requests for tools that cancel their siblings on error
    MaxFaults,       \* bound: deaths of the process and statements that fail
    NoRequest

ASSUME GatewayAssumption ==
    /\ Request \subseteq [tool : {"", "bash", "git", "read_file", "write_file"},
                          kind : {"observe", "observe_only", "tool_call"},
                          dangerous : BOOLEAN, readonly : BOOLEAN, actor : Nat]
    /\ NoRequest \notin Request
    /\ Call \subseteq Nat
    /\ WaitApproval \in BOOLEAN
    /\ FinalizeResult \in BOOLEAN
    /\ CancelOnErr \subseteq Request
    /\ MaxFaults \in Nat

VARIABLES
    gcall,      \* the local variables of the calls
    receipts,   \* table tool_action_receipts, in the order of its ids
    approvals,  \* table approval_requests, in the order of its ids
    effects,    \* receipts under which a tool has run
    faults

gwVars == <<gcall, receipts, approvals, effects, faults>>

\* The policy.  Two requests with the same value have the same task, actor,
\* tool and input; dangerous abstracts AnalyzeCommandSafety, the git
\* arguments and the system paths, readonly the name of a read-only tool
\* or git subcommand.
Evaluate(req) ==
    CASE req.dangerous -> "denied"
      [] ~req.dangerous /\ req.kind = "observe_only" /\ req.tool = "" -> "observe_only"
      [] ~req.dangerous /\ req.tool = "git" ->
            IF req.readonly THEN "auto" ELSE "approval_required"
      [] ~req.dangerous /\ req.tool # "git" /\ (req.kind = "observe" \/ req.readonly) -> "auto"
      [] OTHER -> "approval_required"

\* The gateway's own list of read-only tools.
IsReadOnlyTool(req) == req.tool # "git" /\ req.readonly
Blocked(req) == \/ Evaluate(req) = "denied"
                \/ Evaluate(req) = "observe_only" /\ ~IsReadOnlyTool(req)

Pcs == {"idle", "consume", "reuse", "request", "publish", "wait", "deny",
        "spend", "execute", "complete", "finalize", "done", "lost", "dead"}
Returned == {"done", "lost", "dead"}
CallState == [pc : Pcs, req : Request \cup {NoRequest}, receipt : Nat, approval : Nat]
Receipt == [req : Request, approval : Nat,
            status : {"started", "approval_required", "denied", "succeeded", "failed"}]
Approval == [req : Request, decision : {"pending", "approved", "denied"}, consumedBy : Nat]

GatewayTypeOK ==
    /\ gcall \in [Call -> CallState]
    /\ receipts \in Seq(Receipt)
    /\ approvals \in Seq(Approval)
    /\ effects \subseteq DOMAIN receipts
    /\ faults \in 0..MaxFaults

GatewayInit ==
    /\ gcall = [c \in Call |-> [pc |-> "idle", req |-> NoRequest, receipt |-> 0, approval |-> 0]]
    /\ receipts = <<>>
    /\ approvals = <<>>
    /\ effects = {}
    /\ faults = 0

-----------------------------------------------------------------------------
Go(c, pc) == gcall' = [gcall EXCEPT ![c].pc = pc]
GoWith(c, pc, a) == gcall' = [gcall EXCEPT ![c].pc = pc, ![c].approval = a]

CompleteReceiptKeeps(c, status, a) ==   \* mutant: the first approval id is kept
    receipts' = [receipts EXCEPT ![gcall[c].receipt].status = status,
                                 ![gcall[c].receipt].approval = IF @ = 0 THEN a ELSE @]

\* CompleteToolActionReceipt: an empty approval id keeps the one there is.
CompleteReceipt(c, status, a) ==
    receipts' = [receipts EXCEPT ![gcall[c].receipt].status = status,
                                 ![gcall[c].receipt].approval = IF a = 0 THEN @ ELSE a]

\* Execute: evaluate, record the policy decision, then create the receipt:
\* started when the call may run now or after approval, denied otherwise.
Execute(c) ==
    /\ gcall[c].pc = "idle"
    /\ \A d \in Call : d < c => gcall[d].pc # "idle"
    /\ \E req \in Request :
          /\ receipts' = Append(receipts,
                [req |-> req, approval |-> 0,
                 status |-> IF Blocked(req) THEN "denied" ELSE "started"])
          /\ gcall' = [gcall EXCEPT ![c] =
                [pc |-> IF Blocked(req) THEN "done"
                        ELSE IF Evaluate(req) = "approval_required" THEN "consume" ELSE "execute",
                 req |-> req, receipt |-> Len(receipts) + 1, approval |-> 0]]
    /\ UNCHANGED <<approvals, effects, faults>>

\* The receipts an approval of this request may be found through.
Asking(req) == {i \in DOMAIN receipts : /\ receipts[i].req = req
                                        /\ receipts[i].status = "approval_required"
                                        /\ receipts[i].approval # 0}
SpendableTwice(req) ==   \* mutant: a spent approval is found again
    {i \in Asking(req) : approvals[receipts[i].approval].decision = "approved"}

Spendable(req) == {i \in Asking(req) :
                     LET a == approvals[receipts[i].approval]
                     IN  a.decision = "approved" /\ a.consumedBy = 0}
Reusable(req) == {i \in Asking(req) : approvals[receipts[i].approval].decision = "pending"}
Oldest(S) == {i \in S : \A j \in S : i <= j}

\* ConsumeApprovedApprovalRequestID, one transaction: the approval of the
\* oldest asking receipt, spent by the receipt of this call.
Consume(c, pc) ==
    \E i \in Oldest(Spendable(gcall[c].req)) :
       LET a == receipts[i].approval IN
       /\ approvals' = [approvals EXCEPT ![a].consumedBy = gcall[c].receipt]
       /\ GoWith(c, pc, a)

ConsumeApproved(c) ==
    /\ gcall[c].pc = "consume"
    /\ \/ Consume(c, "execute")
       \/ /\ Spendable(gcall[c].req) = {}
          /\ Go(c, "reuse")
          /\ UNCHANGED approvals
    /\ UNCHANGED <<receipts, effects, faults>>

FindReusableApproval(c) ==
    /\ gcall[c].pc = "reuse"
    /\ LET S == Reusable(gcall[c].req) IN
       \/ S = {} /\ Go(c, "request")
       \/ \E i \in Oldest(S) : GoWith(c, "publish", receipts[i].approval)
    /\ UNCHANGED <<receipts, approvals, effects, faults>>

\* Bridge.CreateApproval.  The policy decision is new with each call, so the
\* pending approval of the same decision that it looks for is never there.
CreateApproval(c) ==
    /\ gcall[c].pc = "request"
    /\ approvals' = Append(approvals, [req |-> gcall[c].req, decision |-> "pending", consumedBy |-> 0])
    /\ GoWith(c, "publish", Len(approvals) + 1)
    /\ UNCHANGED <<receipts, effects, faults>>

\* blockOrWaitForApproval: the receipt now names the approval.
PublishApproval(c) ==
    /\ gcall[c].pc = "publish"
    /\ CompleteReceipt(c, "approval_required", gcall[c].approval)
    /\ Go(c, IF WaitApproval THEN "wait" ELSE "done")
    /\ UNCHANGED <<approvals, effects, faults>>

\* ApprovalStore.Wait: a poll that finds a decision.
PollApproval(c) ==
    /\ gcall[c].pc = "wait"
    /\ approvals[gcall[c].approval].decision # "pending"
    /\ Go(c, IF approvals[gcall[c].approval].decision = "approved" THEN "spend" ELSE "deny")
    /\ UNCHANGED <<receipts, approvals, effects, faults>>

\* waitTimeout, or the cancellation of the task; the receipt keeps asking.
WaitTimeout(c) ==
    /\ gcall[c].pc = "wait"
    /\ Go(c, "done")
    /\ UNCHANGED <<receipts, approvals, effects, faults>>

DenyReceipt(c) ==
    /\ gcall[c].pc = "deny"
    /\ CompleteReceipt(c, "denied", gcall[c].approval)
    /\ Go(c, "done")
    /\ UNCHANGED <<approvals, effects, faults>>

\* After the wait the approval is spent like any other; another call may
\* have spent it, or this one may be given an older one.
SpendApproval(c) ==
    /\ gcall[c].pc = "spend"
    /\ \/ Consume(c, "execute") /\ UNCHANGED receipts
       \/ /\ Spendable(gcall[c].req) = {}
          /\ CompleteReceipt(c, "approval_required", gcall[c].approval)
          /\ Go(c, "done")
          /\ UNCHANGED approvals
    /\ UNCHANGED <<effects, faults>>

\* executeWithReceipt: the tool runs, then its receipt is completed, here or
\* in FinalizeToolResult, which finds it in the pending map.
RunTool(c) ==
    /\ gcall[c].pc = "execute"
    /\ effects' = effects \cup {gcall[c].receipt}
    /\ Go(c, IF FinalizeResult THEN "finalize" ELSE "complete")
    /\ UNCHANGED <<receipts, approvals, faults>>

\* The executor of a tool that cancels its siblings leaves on an error
\* before it comes to FinalizeToolResult.
AbandonReceipt(c) ==
    /\ gcall[c].pc = "finalize"
    /\ gcall[c].req \in CancelOnErr
    /\ Go(c, "lost")
    /\ UNCHANGED <<receipts, approvals, effects, faults>>

CompleteCall(c) ==
    /\ gcall[c].pc \in {"complete", "finalize"}
    /\ \E status \in {"succeeded", "failed"} : CompleteReceipt(c, status, gcall[c].approval)
    /\ Go(c, "done")
    /\ UNCHANGED <<approvals, effects, faults>>

-----------------------------------------------------------------------------
\* ApprovalStore.DecideBy, from the CLI or from Telegram.
Decide(a) ==
    /\ approvals[a].decision = "pending"
    /\ \E d \in {"approved", "denied"} : approvals' = [approvals EXCEPT ![a].decision = d]
    /\ UNCHANGED <<gcall, receipts, effects, faults>>

\* The daemon dies: every call is lost where it is, the pending map too.
Die ==
    /\ faults < MaxFaults
    /\ faults' = faults + 1
    /\ \E c \in Call : gcall[c].pc \notin {"idle"} \cup Returned
    /\ gcall' = [c \in Call |-> IF gcall[c].pc \in {"idle"} \cup Returned THEN gcall[c]
                                ELSE [gcall[c] EXCEPT !.pc = "dead"]]
    /\ UNCHANGED <<receipts, approvals, effects>>

\* A statement fails, most often because the context was cancelled: by the
\* task's timeout, or by a sibling.  A failed lookup counts as none found;
\* the other failures are written to the receipt if that still works, except
\* where writing the receipt is what failed.
FailStatement(c) ==
    /\ faults < MaxFaults
    /\ faults' = faults + 1
    /\ \/ /\ gcall[c].pc = "reuse"
          /\ Go(c, "request")
          /\ UNCHANGED receipts
       \/ /\ gcall[c].pc \in {"consume", "request", "spend"}
          /\ CompleteReceipt(c, "approval_required",
                             IF gcall[c].pc = "spend" THEN gcall[c].approval ELSE 0)
          /\ Go(c, "done")
       \/ /\ gcall[c].pc \in {"consume", "request", "spend", "publish", "wait", "deny",
                              "complete", "finalize"}
          /\ Go(c, "lost")
          /\ UNCHANGED receipts
    /\ UNCHANGED <<approvals, effects>>

CallStep(c) ==
    \/ ConsumeApproved(c) \/ FindReusableApproval(c) \/ CreateApproval(c)
    \/ PublishApproval(c) \/ PollApproval(c) \/ WaitTimeout(c) \/ DenyReceipt(c)
    \/ SpendApproval(c) \/ CompleteCall(c) \/ AbandonReceipt(c)

GatewayNext ==
    \/ \E c \in Call : Execute(c) \/ CallStep(c) \/ RunTool(c) \/ FailStatement(c)
    \/ \E a \in DOMAIN approvals : Decide(a)
    \/ Die

GatewaySpec == GatewayInit /\ [][GatewayNext]_gwVars

\* A call goes on: the poll and its timeout are timers of the process.  A tool
\* need not return.
GatewayFairness == \A c \in Call : WF_gwVars(CallStep(c))

-----------------------------------------------------------------------------
\* An approval is spent once and only for what was asked: every run of a
\* tool whose policy requires approval has an approval of its own, approved
\* by the operator for the same request, however identical calls race for
\* it, wait for it, time out, or repeat after a crash.
ApprovalSpentOnce ==
    \A i \in effects :
       Evaluate(receipts[i].req) = "approval_required" =>
          \E a \in DOMAIN approvals :
             /\ approvals[a].consumedBy = i
             /\ approvals[a].decision = "approved"
             /\ approvals[a].req = receipts[i].req

\* The receipts tell what happened: no receipt of any call claims a result
\* or a denial that is not so, and one whose call returned normally is not
\* left started; it says succeeded or failed exactly when the tool ran, under
\* the approval that was spent for it.
ReceiptTellsEffect ==
    /\ \A i \in DOMAIN receipts :
          /\ receipts[i].status \in {"succeeded", "failed"} => i \in effects
          /\ receipts[i].status = "denied" => i \notin effects
    /\ \A c \in Call : gcall[c].pc = "done" =>
          LET i == gcall[c].receipt IN
          /\ receipts[i].status # "started"
          /\ i \in effects => receipts[i].status \in {"succeeded", "failed"}
          /\ i \in effects /\ receipts[i].approval # 0 =>
                approvals[receipts[i].approval].consumedBy = i

\* Every tool action is backed by a completed receipt: unless the process
\* died or the database refused it, a tool that ran and returned has a
\* receipt that says how it ended.
ActionReceiptCompleted ==
    faults = 0 => \A c \in Call : gcall[c].pc \in {"done", "lost"} /\ gcall[c].receipt \in effects =>
       receipts[gcall[c].receipt].status \in {"succeeded", "failed"}

\* No call is under way, but for those whose tool does not return.
GatewayAtRest == \A c \in Call : gcall[c].pc \in {"idle", "execute"} \cup Returned
=============================================================================
