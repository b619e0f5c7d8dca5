--------------------------- MODULE GatewayProofs ----------------------------
(***************************************************************************)
(* Proofs about the tool gateway, for any number of calls, requests and    *)
(* faults, with and without waiting for approval.                          *)
(***************************************************************************)
EXTENDS ToolGateway, SequenceTheorems, TLAPS

-----------------------------------------------------------------------------
(***************************************************************************)
(* The invariant.                                                          *)
(***************************************************************************)
\* The approval a is about the request, or there is none.
About(a, req) == a = 0 \/ (a \in DOMAIN approvals /\ approvals[a].req = req)

BeforeTool == {"consume", "reuse", "request", "publish", "wait", "deny", "spend", "execute"}
AfterTool == {"complete", "finalize"}

\* A call has a receipt for its request.  Until its tool has run the receipt is
\* open; from then on the approval it was given is one that it has spent.
CallInv(c) ==
    LET call == gcall[c]
        r == call.receipt
    IN call.pc # "idle" =>
       /\ r \in DOMAIN receipts
       /\ receipts[r].req = call.req
       /\ About(call.approval, call.req)
       /\ call.pc \in BeforeTool =>
             r \notin effects /\ receipts[r].status \in {"started", "approval_required"}
       /\ call.pc = "wait" => receipts[r].status = "approval_required"
       /\ call.pc \in {"execute"} \cup AfterTool =>
             /\ call.approval = 0 => receipts[r].approval = 0
             /\ call.approval # 0 => approvals[call.approval].consumedBy = r
       /\ call.pc = "execute" /\ Evaluate(call.req) = "approval_required" =>
             call.approval # 0 /\ approvals[call.approval].decision = "approved"
       /\ call.pc \in AfterTool => r \in effects
       /\ call.pc = "done" =>
             /\ receipts[r].status # "started"
             /\ r \in effects => receipts[r].status \in {"succeeded", "failed"}
             /\ r \in effects /\ receipts[r].approval # 0 =>
                   approvals[receipts[r].approval].consumedBy = r

ReceiptInv(i) ==
    /\ About(receipts[i].approval, receipts[i].req)
    /\ receipts[i].status \in {"succeeded", "failed"} => i \in effects
    /\ receipts[i].status = "denied" => i \notin effects
    /\ i \in effects /\ Evaluate(receipts[i].req) = "approval_required" =>
          \E a \in DOMAIN approvals : /\ approvals[a].consumedBy = i
                                      /\ approvals[a].decision = "approved"
                                      /\ approvals[a].req = receipts[i].req

OwnReceipts ==
    \A c, d \in Call :
       gcall[c].pc # "idle" /\ gcall[d].pc # "idle" /\ gcall[c].receipt = gcall[d].receipt => c = d

GatewayInv ==
    /\ GatewayTypeOK
    /\ \A c \in Call : CallInv(c)
    /\ \A i \in DOMAIN receipts : ReceiptInv(i)
    /\ OwnReceipts

-----------------------------------------------------------------------------
(***************************************************************************)
(* What a step changes.                                                    *)
(***************************************************************************)
LEMMA GatewayInitially == GatewayInit => GatewayInv
<1> SUFFICES ASSUME GatewayInit PROVE GatewayInv
  OBVIOUS
<1> USE DEF GatewayInit
<1>1. receipts \in Seq(Receipt) /\ approvals \in Seq(Approval) /\ Len(receipts) = 0
  BY EmptySeq
<1>2. DOMAIN receipts = {}
  <2>1. DOMAIN receipts = 1..Len(receipts)
    BY <1>1, LenProperties
  <2> QED
    BY <1>1, <2>1
<1>3. [pc |-> "idle", req |-> NoRequest, receipt |-> 0, approval |-> 0] \in CallState
  BY DEF CallState, Pcs
<1>4. gcall \in [Call -> CallState]
  BY <1>3
<1>5. 0 \in 0..MaxFaults
  <2>1. MaxFaults \in Nat
    BY GatewayAssumption
  <2> QED
    BY <2>1
<1>6. GatewayTypeOK
  BY <1>1, <1>4, <1>5 DEF GatewayTypeOK
<1>7. \A c \in Call : gcall[c].pc = "idle"
  OBVIOUS
<1> QED
  BY <1>2, <1>6, <1>7 DEF GatewayInv, CallInv, OwnReceipts

\* No approval is taken back, forgotten or spent a second time.
ApprovalsGrow ==
    /\ approvals' \in Seq(Approval)
    /\ DOMAIN approvals \subseteq DOMAIN approvals'
    /\ \A a \in DOMAIN approvals :
          /\ approvals'[a].req = approvals[a].req
          /\ approvals[a].consumedBy # 0 => approvals'[a].consumedBy = approvals[a].consumedBy
          /\ approvals[a].decision = "approved" => approvals'[a].decision = "approved"

LEMMA AboutKept ==
    ASSUME ApprovalsGrow, NEW a, NEW req, About(a, req)
    PROVE  /\ a = 0 \/ (a \in DOMAIN approvals' /\ approvals'[a].req = req)
           /\ About(a, req)'
BY DEF ApprovalsGrow, About

\* A call that the step is not about.
LEMMA OtherCall ==
    ASSUME GatewayInv, ApprovalsGrow, NEW d \in Call, gcall'[d] = gcall[d],
           gcall[d].pc # "idle" => /\ gcall[d].receipt \in DOMAIN receipts'
                                   /\ receipts'[gcall[d].receipt] = receipts[gcall[d].receipt]
                                   /\ gcall[d].receipt \in effects' <=> gcall[d].receipt \in effects
    PROVE  CallInv(d)'
<1> DEFINE r == gcall[d].receipt
<1>1. CASE gcall[d].pc = "idle"
  BY <1>1 DEF CallInv
<1>2. CASE gcall[d].pc # "idle"
  <2>1. /\ CallInv(d)
        /\ r \in DOMAIN receipts /\ ReceiptInv(r)
        /\ receipts \in Seq(Receipt)
    BY <1>2 DEF GatewayInv, GatewayTypeOK, CallInv
  <2>2. r # 0
    BY <2>1, LenProperties
  <2>3. About(gcall[d].approval, gcall[d].req) /\ About(gcall[d].approval, gcall[d].req)'
    BY <1>2, <2>1, AboutKept DEF CallInv, About
  <2>4. ASSUME NEW a, NEW req, About(a, req), a # 0
        PROVE  /\ approvals[a].consumedBy = r => approvals'[a].consumedBy = r
               /\ approvals[a].decision = "approved" => approvals'[a].decision = "approved"
    BY <2>2, <2>4 DEF About, ApprovalsGrow
  <2>5. gcall[d].approval # 0 =>
          /\ approvals[gcall[d].approval].consumedBy = r =>
               approvals'[gcall[d].approval].consumedBy = r
          /\ approvals[gcall[d].approval].decision = "approved" =>
               approvals'[gcall[d].approval].decision = "approved"
    BY <2>3, <2>4
  <2>6. receipts[r].approval # 0 /\ approvals[receipts[r].approval].consumedBy = r =>
           approvals'[receipts[r].approval].consumedBy = r
    BY <2>1, <2>4 DEF ReceiptInv
  <2> QED
    BY <1>2, <2>1, <2>3, <2>5, <2>6 DEF CallInv
<1> QED
  BY <1>1, <1>2

LEMMA OtherReceipt ==
    ASSUME ApprovalsGrow, NEW i \in DOMAIN receipts, receipts \in Seq(Receipt),
           ReceiptInv(i), receipts'[i] = receipts[i], i \in effects' <=> i \in effects
    PROVE  ReceiptInv(i)'
<1>1. i # 0
  BY LenProperties
<1>2. About(receipts[i].approval, receipts[i].req)'
  BY AboutKept DEF ReceiptInv, About
<1>3. ASSUME i \in effects, Evaluate(receipts[i].req) = "approval_required"
      PROVE  \E a \in DOMAIN approvals' : /\ approvals'[a].consumedBy = i
                                          /\ approvals'[a].decision = "approved"
                                          /\ approvals'[a].req = receipts[i].req
  BY <1>1, <1>3 DEF ReceiptInv, ApprovalsGrow
<1> QED
  BY <1>2, <1>3 DEF ReceiptInv, Evaluate

\* A step of one call, about its own receipt.
LEMMA OwnStep ==
    ASSUME GatewayInv, ApprovalsGrow, NEW c \in Call, gcall[c].pc # "idle",
           gcall' \in [Call -> CallState],
           \A d \in Call : d # c => gcall'[d] = gcall[d],
           gcall'[c].receipt = gcall[c].receipt,
           receipts' \in Seq(Receipt), DOMAIN receipts' = DOMAIN receipts,
           \A i \in DOMAIN receipts : i # gcall[c].receipt => receipts'[i] = receipts[i],
           effects \subseteq effects', effects' \subseteq effects \cup {gcall[c].receipt},
           faults' \in 0..MaxFaults,
           CallInv(c)', ReceiptInv(gcall[c].receipt)' \/ UNCHANGED <<receipts, effects>>
    PROVE  GatewayInv'
<1> DEFINE r == gcall[c].receipt
<1>1. /\ GatewayTypeOK /\ OwnReceipts
      /\ \A d \in Call : CallInv(d)
      /\ \A i \in DOMAIN receipts : ReceiptInv(i)
  BY DEF GatewayInv
<1>2. r \in DOMAIN receipts
  BY <1>1 DEF CallInv
<1>3. effects' \subseteq DOMAIN receipts'
  BY <1>1, <1>2 DEF GatewayTypeOK
<1>4. GatewayTypeOK'
  BY <1>1, <1>3 DEF GatewayTypeOK, ApprovalsGrow
<1>5. ASSUME NEW d \in Call PROVE CallInv(d)'
  <2>1. CASE d = c
    BY <2>1
  <2>2. CASE d # c
    <3>1. gcall[d].pc # "idle" => gcall[d].receipt # r /\ gcall[d].receipt \in DOMAIN receipts
      BY <1>1, <2>2 DEF OwnReceipts, CallInv
    <3> QED
      BY <2>2, <3>1, OtherCall
  <2> QED
    BY <2>1, <2>2
<1>6. ASSUME NEW i \in DOMAIN receipts' PROVE ReceiptInv(i)'
  <2>1. CASE i # r
    BY <1>1, <2>1, OtherReceipt DEF GatewayTypeOK
  <2>2. CASE i = r /\ UNCHANGED <<receipts, effects>>
    BY <1>1, <2>2, OtherReceipt DEF GatewayTypeOK
  <2>3. CASE i = r /\ ReceiptInv(gcall[c].receipt)'
    BY <2>3 DEF ReceiptInv
  <2> QED
    BY <2>1, <2>2, <2>3
<1>7. OwnReceipts'
  BY <1>1 DEF OwnReceipts
<1> QED
  BY <1>4, <1>5, <1>6, <1>7 DEF GatewayInv

LEMMA WentTo ==
    ASSUME gcall \in [Call -> CallState], NEW c \in Call, NEW pc \in Pcs, NEW a \in Nat,
           \/ Go(c, pc) /\ a = gcall[c].approval
           \/ GoWith(c, pc, a)
    PROVE  /\ gcall' \in [Call -> CallState]
           /\ \A d \in Call : d # c => gcall'[d] = gcall[d]
           /\ gcall'[c].pc = pc
           /\ gcall'[c].req = gcall[c].req
           /\ gcall'[c].receipt = gcall[c].receipt
           /\ gcall'[c].approval = a
<1>1. CASE Go(c, pc) /\ a = gcall[c].approval
  BY <1>1 DEF Go, CallState
<1>2. CASE GoWith(c, pc, a)
  <2>1. gcall' = [gcall EXCEPT ![c].pc = pc, ![c].approval = a]
    BY <1>2 DEF GoWith
  <2>2. gcall' \in [Call -> CallState] /\ \A d \in Call : d # c => gcall'[d] = gcall[d]
    BY <2>1 DEF CallState
  <2>3. /\ gcall'[c].pc = pc
        /\ gcall'[c].req = gcall[c].req
        /\ gcall'[c].receipt = gcall[c].receipt
        /\ gcall'[c].approval = a
    BY <2>1 DEF CallState
  <2> QED
    BY <2>2, <2>3
<1> QED
  BY <1>1, <1>2

Statuses == {"started", "approval_required", "denied", "succeeded", "failed"}

LEMMA Completed ==
    ASSUME GatewayInv, NEW c \in Call, gcall[c].pc # "idle", NEW status \in Statuses,
           NEW a \in Nat, CompleteReceipt(c, status, a)
    PROVE  LET r == gcall[c].receipt IN
           /\ receipts' \in Seq(Receipt)
           /\ DOMAIN receipts' = DOMAIN receipts
           /\ \A i \in DOMAIN receipts : i # r => receipts'[i] = receipts[i]
           /\ r \in DOMAIN receipts
           /\ receipts'[r].req = receipts[r].req
           /\ receipts'[r].status = status
           /\ a = 0 => receipts'[r].approval = receipts[r].approval
           /\ a # 0 => receipts'[r].approval = a
<1> DEFINE r == gcall[c].receipt
           b == IF a = 0 THEN receipts[r].approval ELSE a
           n == Len(receipts)
<1>1. /\ receipts \in [1..n -> Receipt]
      /\ n \in Nat
      /\ r \in 1..n /\ DOMAIN receipts = 1..n
  BY LenProperties DEF GatewayInv, GatewayTypeOK, CallInv
<1>2. b \in Nat
  BY <1>1 DEF Receipt
<1>3. receipts' = [receipts EXCEPT ![r].status = status,
                                   ![r].approval = IF a = 0 THEN @ ELSE a]
  BY DEF CompleteReceipt
<1> HIDE DEF n, r
<1>4. /\ receipts' \in [1..n -> Receipt]
      /\ \A i \in 1..n : i # r => receipts'[i] = receipts[i]
  BY <1>1, <1>2, <1>3 DEF Receipt, Statuses
<1>5. /\ receipts'[r].req = receipts[r].req
      /\ receipts'[r].status = status
      /\ receipts'[r].approval = b
  BY <1>1, <1>3 DEF Receipt
<1>6. receipts' \in Seq(Receipt) /\ DOMAIN receipts' = 1..n
  BY <1>1, <1>4
<1> QED
  BY <1>1, <1>4, <1>5, <1>6 DEF r

LEMMA ApprovalsSame ==
    ASSUME GatewayInv, UNCHANGED approvals
    PROVE  ApprovalsGrow
BY DEF GatewayInv, GatewayTypeOK, ApprovalsGrow

\* One field of one approval changes, from a value that is not final.
LEMMA ApprovalWritten ==
    ASSUME GatewayInv, NEW a \in DOMAIN approvals, NEW e \in Approval,
           approvals' = [approvals EXCEPT ![a] = e],
           e.req = approvals[a].req,
           approvals[a].consumedBy # 0 => e.consumedBy = approvals[a].consumedBy,
           approvals[a].decision = "approved" => e.decision = "approved"
    PROVE  ApprovalsGrow /\ approvals'[a] = e /\ a \in DOMAIN approvals'
<1>1. approvals \in Seq(Approval)
  BY DEF GatewayInv, GatewayTypeOK
<1>2. a \in 1..Len(approvals)
  BY <1>1, LenProperties
<1>3. approvals' \in Seq(Approval)
  BY <1>1, <1>2, ExceptSeq
<1>4. DOMAIN approvals' = DOMAIN approvals /\ approvals'[a] = e
  OBVIOUS
<1>5. \A b \in DOMAIN approvals : b # a => approvals'[b] = approvals[b]
  OBVIOUS
<1> QED
  BY <1>3, <1>4, <1>5 DEF ApprovalsGrow

-----------------------------------------------------------------------------
(***************************************************************************)
(* The steps of a call.                                                    *)
(***************************************************************************)
\* A call that moves on without writing its receipt.
LEMMA PlainStep ==
    ASSUME GatewayInv, NEW c \in Call, gcall[c].pc # "idle", NEW pc \in Pcs, Go(c, pc),
           UNCHANGED <<receipts, approvals, effects>>, faults' \in 0..MaxFaults,
           pc \notin {"idle", "execute"} \cup AfterTool,
           pc \in BeforeTool => gcall[c].pc \in BeforeTool,
           pc = "wait" => gcall[c].pc = "wait",
           pc = "done" => gcall[c].pc = "wait"
    PROVE  GatewayInv'
<1>1. /\ GatewayTypeOK /\ CallInv(c)
      /\ gcall \in [Call -> CallState]
      /\ gcall[c].approval \in Nat
  BY DEF GatewayInv, GatewayTypeOK, CallState
<1>2. /\ gcall' \in [Call -> CallState]
      /\ \A d \in Call : d # c => gcall'[d] = gcall[d]
      /\ gcall'[c].pc = pc
      /\ gcall'[c].req = gcall[c].req
      /\ gcall'[c].receipt = gcall[c].receipt
      /\ gcall'[c].approval = gcall[c].approval
  BY <1>1, WentTo
<1>3. ApprovalsGrow
  BY ApprovalsSame
<1>4. About(gcall[c].approval, gcall[c].req)'
  BY <1>1, <1>2 DEF CallInv, About
<1>5. CallInv(c)'
  BY <1>1, <1>2, <1>4 DEF CallInv, BeforeTool, AfterTool
<1> QED
  BY <1>1, <1>2, <1>3, <1>5, OwnStep DEF GatewayTypeOK

\* The receipt is written without a result: the call asks, or is refused.
LEMMA WriteStep ==
    ASSUME GatewayInv, NEW c \in Call, gcall[c].pc \in BeforeTool,
           NEW status \in {"approval_required", "denied"}, NEW a \in {0, gcall[c].approval},
           CompleteReceipt(c, status, a),
           NEW pc \in {"wait", "done"}, Go(c, pc), pc = "wait" => status = "approval_required",
           UNCHANGED <<approvals, effects>>, faults' \in 0..MaxFaults
    PROVE  GatewayInv'
<1> DEFINE r == gcall[c].receipt
<1>1. /\ GatewayTypeOK /\ CallInv(c)
      /\ gcall \in [Call -> CallState]
      /\ gcall[c].approval \in Nat
      /\ gcall[c].pc # "idle"
      /\ pc \in Pcs /\ status \in Statuses /\ a \in Nat
  BY DEF GatewayInv, GatewayTypeOK, CallState, BeforeTool, Pcs, Statuses
<1>2. /\ gcall' \in [Call -> CallState]
      /\ \A d \in Call : d # c => gcall'[d] = gcall[d]
      /\ gcall'[c].pc = pc
      /\ gcall'[c].req = gcall[c].req
      /\ gcall'[c].receipt = r
      /\ gcall'[c].approval = gcall[c].approval
  BY <1>1, WentTo
<1>3. /\ receipts' \in Seq(Receipt)
      /\ DOMAIN receipts' = DOMAIN receipts
      /\ \A i \in DOMAIN receipts : i # r => receipts'[i] = receipts[i]
      /\ r \in DOMAIN receipts
      /\ receipts'[r].req = receipts[r].req
      /\ receipts'[r].status = status
      /\ a = 0 => receipts'[r].approval = receipts[r].approval
      /\ a # 0 => receipts'[r].approval = a
  BY <1>1, Completed
<1>4. ApprovalsGrow
  BY ApprovalsSame
<1>5. /\ About(gcall[c].approval, gcall[c].req)
      /\ r \notin effects
      /\ receipts[r].req = gcall[c].req
      /\ ReceiptInv(r)
  BY <1>1, <1>3 DEF CallInv, GatewayInv
<1>6. About(gcall[c].approval, gcall[c].req)'
  BY <1>2, <1>5 DEF About
<1>7. CallInv(c)'
  BY <1>1, <1>2, <1>3, <1>5, <1>6 DEF CallInv, BeforeTool, AfterTool
<1>8. ReceiptInv(r)'
  <2>1. About(receipts[r].approval, receipts[r].req)'
    BY <1>2, <1>3, <1>5 DEF ReceiptInv, About
  <2> QED
    BY <1>2, <1>3, <1>5, <2>1 DEF ReceiptInv, About
<1> QED
  BY <1>1, <1>2, <1>3, <1>4, <1>7, <1>8, OwnStep DEF GatewayTypeOK

LEMMA Spends ==
    ASSUME GatewayInv, NEW c \in Call, gcall[c].pc \in {"consume", "spend"},
           Consume(c, "execute"), UNCHANGED <<receipts, effects, faults>>
    PROVE  GatewayInv'
<1> DEFINE r == gcall[c].receipt
<1>1. /\ GatewayTypeOK /\ CallInv(c)
      /\ gcall \in [Call -> CallState]
      /\ gcall[c].pc \in BeforeTool
      /\ approvals \in Seq(Approval) /\ receipts \in Seq(Receipt)
      /\ "execute" \in Pcs
  BY DEF GatewayInv, GatewayTypeOK, CallState, BeforeTool, Pcs
<1>2. PICK i \in Spendable(gcall[c].req) :
         /\ approvals' = [approvals EXCEPT ![receipts[i].approval].consumedBy = r]
         /\ GoWith(c, "execute", receipts[i].approval)
  BY DEF Consume, Oldest
<1> DEFINE a == receipts[i].approval
<1>3. /\ i \in DOMAIN receipts /\ receipts[i].req = gcall[c].req /\ a # 0
      /\ approvals[a].decision = "approved" /\ approvals[a].consumedBy = 0
  BY <1>2 DEF Spendable, Asking
<1>4. a \in DOMAIN approvals /\ approvals[a].req = gcall[c].req
  BY <1>3 DEF GatewayInv, ReceiptInv, About
<1>5. /\ r \in DOMAIN receipts
      /\ r \notin effects
      /\ receipts[r].req = gcall[c].req
  BY <1>1 DEF CallInv
<1>6. r \in Nat /\ r # 0 /\ a \in Nat
  BY <1>1, <1>4, <1>5, LenProperties
<1>7. approvals[a] \in Approval
  BY <1>1, <1>4, LenProperties
<1> DEFINE e == [approvals[a] EXCEPT !.consumedBy = r]
<1>8. /\ e \in Approval
      /\ e.req = gcall[c].req
      /\ e.consumedBy = r /\ e.decision = "approved"
  BY <1>3, <1>4, <1>6, <1>7 DEF Approval
<1>9. approvals' = [approvals EXCEPT ![a] = e]
  BY <1>2
<1> HIDE DEF e
<1>10. ApprovalsGrow /\ approvals'[a] = e /\ a \in DOMAIN approvals'
  BY <1>3, <1>4, <1>8, <1>9, ApprovalWritten
<1>11. GoWith(c, "execute", a)
  BY <1>2
<1> HIDE DEF a
<1>12. /\ gcall' \in [Call -> CallState]
       /\ \A d \in Call : d # c => gcall'[d] = gcall[d]
       /\ gcall'[c].pc = "execute"
       /\ gcall'[c].req = gcall[c].req
       /\ gcall'[c].receipt = r
       /\ gcall'[c].approval = a
  BY <1>1, <1>6, <1>11, WentTo
<1>13. a # 0
  BY <1>3 DEF a
<1>14. receipts[r].status \in {"started", "approval_required"}
  BY <1>1 DEF CallInv
<1>15. CallInv(c)'
  BY <1>5, <1>8, <1>10, <1>12, <1>13, <1>14 DEF CallInv, About, BeforeTool, AfterTool
<1>16. gcall[c].pc # "idle" /\ faults' \in 0..MaxFaults
  BY <1>1 DEF GatewayTypeOK
<1> QED
  BY <1>1, <1>10, <1>12, <1>15, <1>16, OwnStep

LEMMA ConsumeApprovedStep ==
    ASSUME GatewayInv, NEW c \in Call, ConsumeApproved(c)
    PROVE  GatewayInv'
<1>1. CASE Consume(c, "execute")
  BY <1>1, Spends DEF ConsumeApproved
<1>2. CASE Go(c, "reuse") /\ UNCHANGED approvals
  <2>1. /\ gcall[c].pc = "consume" /\ UNCHANGED <<receipts, approvals, effects, faults>>
        /\ faults' \in 0..MaxFaults
    BY <1>2 DEF ConsumeApproved, GatewayInv, GatewayTypeOK
  <2> QED
    BY <1>2, <2>1, PlainStep DEF Pcs, BeforeTool, AfterTool
<1> QED
  BY <1>1, <1>2 DEF ConsumeApproved

\* A call that is given an approval to wait for.
LEMMA GivenApproval ==
    ASSUME GatewayInv, ApprovalsGrow, NEW c \in Call, gcall[c].pc \in {"reuse", "request"},
           NEW a \in Nat, GoWith(c, "publish", a),
           a \in DOMAIN approvals', approvals'[a].req = gcall[c].req,
           UNCHANGED <<receipts, effects, faults>>
    PROVE  GatewayInv'
<1>1. /\ GatewayTypeOK /\ CallInv(c)
      /\ gcall \in [Call -> CallState]
      /\ receipts \in Seq(Receipt)
      /\ gcall[c].pc \in BeforeTool /\ gcall[c].pc # "idle"
      /\ "publish" \in Pcs /\ faults' \in 0..MaxFaults
  BY DEF GatewayInv, GatewayTypeOK, CallState, BeforeTool, Pcs
<1>2. /\ gcall' \in [Call -> CallState]
      /\ \A d \in Call : d # c => gcall'[d] = gcall[d]
      /\ gcall'[c].pc = "publish"
      /\ gcall'[c].req = gcall[c].req
      /\ gcall'[c].receipt = gcall[c].receipt
      /\ gcall'[c].approval = a
  BY <1>1, WentTo
<1>3. CallInv(c)'
  BY <1>1, <1>2 DEF CallInv, About, BeforeTool, AfterTool
<1> QED
  BY <1>1, <1>2, <1>3, OwnStep

LEMMA FindReusableStep ==
    ASSUME GatewayInv, NEW c \in Call, FindReusableApproval(c)
    PROVE  GatewayInv'
<1>1. /\ gcall[c].pc = "reuse" /\ UNCHANGED <<receipts, approvals, effects, faults>>
      /\ faults' \in 0..MaxFaults
      /\ ApprovalsGrow
  BY ApprovalsSame DEF FindReusableApproval, GatewayInv, GatewayTypeOK
<1>2. CASE Go(c, "request")
  BY <1>1, <1>2, PlainStep DEF Pcs, BeforeTool, AfterTool
<1>3. ASSUME NEW i \in Reusable(gcall[c].req), GoWith(c, "publish", receipts[i].approval)
      PROVE  GatewayInv'
  <2>1. /\ i \in DOMAIN receipts /\ receipts[i].req = gcall[c].req /\ receipts[i].approval # 0
    BY <1>3 DEF Reusable, Asking
  <2>2. /\ receipts[i].approval \in DOMAIN approvals
        /\ approvals[receipts[i].approval].req = gcall[c].req
    BY <2>1 DEF GatewayInv, ReceiptInv, About
  <2>3. receipts[i].approval \in Nat
    BY <2>2, LenProperties DEF GatewayInv, GatewayTypeOK
  <2> QED
    BY <1>1, <1>3, <2>2, <2>3, GivenApproval
<1> QED
  BY <1>2, <1>3 DEF FindReusableApproval, Oldest

LEMMA CreateApprovalStep ==
    ASSUME GatewayInv, NEW c \in Call, CreateApproval(c)
    PROVE  GatewayInv'
<1> DEFINE e == [req |-> gcall[c].req, decision |-> "pending", consumedBy |-> 0]
           n == Len(approvals)
<1>1. /\ gcall[c].pc = "request"
      /\ approvals' = Append(approvals, e)
      /\ GoWith(c, "publish", n + 1)
      /\ UNCHANGED <<receipts, effects, faults>>
  BY DEF CreateApproval
<1>2. /\ approvals \in Seq(Approval) /\ receipts \in Seq(Receipt)
      /\ CallInv(c)
  BY DEF GatewayInv, GatewayTypeOK
<1>3. receipts[gcall[c].receipt] \in Receipt /\ receipts[gcall[c].receipt].req = gcall[c].req
  BY <1>1, <1>2, LenProperties DEF CallInv
<1>4. e \in Approval /\ e.req = gcall[c].req
  BY <1>3 DEF Approval, Receipt
<1> HIDE DEF e
<1>5. /\ approvals' \in Seq(Approval) /\ Len(approvals') = n + 1
      /\ \A i \in 1..n : approvals'[i] = approvals[i]
      /\ approvals'[n + 1] = e
  BY <1>1, <1>2, <1>4, AppendProperties
<1>6. n \in Nat /\ DOMAIN approvals = 1..n /\ DOMAIN approvals' = 1..(n + 1)
  BY <1>2, <1>5, LenProperties
<1> HIDE DEF n
<1>7. ApprovalsGrow
  BY <1>5, <1>6 DEF ApprovalsGrow
<1>8. n + 1 \in Nat /\ n + 1 \in DOMAIN approvals' /\ approvals'[n + 1].req = gcall[c].req
  BY <1>4, <1>5, <1>6
<1> QED
  BY <1>1, <1>7, <1>8, GivenApproval

LEMMA SpendApprovalStep ==
    ASSUME GatewayInv, NEW c \in Call, SpendApproval(c)
    PROVE  GatewayInv'
<1>1. CASE Consume(c, "execute") /\ UNCHANGED receipts
  BY <1>1, Spends DEF SpendApproval
<1>2. CASE /\ CompleteReceipt(c, "approval_required", gcall[c].approval)
           /\ Go(c, "done")
           /\ UNCHANGED approvals
  <2>1. /\ gcall[c].pc = "spend" /\ UNCHANGED <<approvals, effects, faults>>
        /\ faults' \in 0..MaxFaults
    BY <1>2 DEF SpendApproval, GatewayInv, GatewayTypeOK
  <2> QED
    BY <1>2, <2>1, WriteStep DEF BeforeTool
<1> QED
  BY <1>1, <1>2 DEF SpendApproval

LEMMA WaitingSteps ==
    ASSUME GatewayInv, NEW c \in Call,
           PublishApproval(c) \/ PollApproval(c) \/ WaitTimeout(c) \/ DenyReceipt(c)
    PROVE  GatewayInv'
<1>1. /\ UNCHANGED <<approvals, effects, faults>>
      /\ faults' \in 0..MaxFaults
  BY DEF PublishApproval, PollApproval, WaitTimeout, DenyReceipt, GatewayInv, GatewayTypeOK
<1>2. CASE PublishApproval(c)
  <2>1. PICK pc \in {"wait", "done"} : Go(c, pc)
    BY <1>2 DEF PublishApproval
  <2> QED
    BY <1>1, <1>2, <2>1, WriteStep DEF PublishApproval, BeforeTool
<1>3. CASE PollApproval(c)
  <2>1. PICK pc \in {"spend", "deny"} : Go(c, pc)
    BY <1>3 DEF PollApproval
  <2> QED
    BY <1>1, <1>3, <2>1, PlainStep DEF PollApproval, Pcs, BeforeTool, AfterTool
<1>4. CASE WaitTimeout(c)
  BY <1>1, <1>4, PlainStep DEF WaitTimeout, Pcs, BeforeTool, AfterTool
<1>5. CASE DenyReceipt(c)
  BY <1>1, <1>5, WriteStep DEF DenyReceipt, BeforeTool
<1> QED
  BY <1>2, <1>3, <1>4, <1>5

LEMMA RunToolStep ==
    ASSUME GatewayInv, NEW c \in Call, RunTool(c)
    PROVE  GatewayInv'
<1> DEFINE r == gcall[c].receipt
           a == gcall[c].approval
<1>1. /\ GatewayTypeOK /\ CallInv(c)
      /\ gcall \in [Call -> CallState]
      /\ a \in Nat
  BY DEF GatewayInv, GatewayTypeOK, CallState
<1>2. /\ gcall[c].pc = "execute"
      /\ effects' = effects \cup {r}
      /\ UNCHANGED <<receipts, approvals, faults>>
  BY DEF RunTool
<1>3. PICK pc \in AfterTool : Go(c, pc)
  BY DEF RunTool, AfterTool
<1>4. /\ gcall' \in [Call -> CallState]
      /\ \A d \in Call : d # c => gcall'[d] = gcall[d]
      /\ gcall'[c].pc = pc
      /\ gcall'[c].req = gcall[c].req
      /\ gcall'[c].receipt = r
      /\ gcall'[c].approval = a
  BY <1>1, <1>3, WentTo DEF AfterTool, Pcs
<1>5. ApprovalsGrow
  BY <1>2, ApprovalsSame
<1>6. /\ r \in DOMAIN receipts
      /\ receipts[r].req = gcall[c].req
      /\ About(a, gcall[c].req)
      /\ receipts[r].status \in {"started", "approval_required"}
      /\ a = 0 => receipts[r].approval = 0
      /\ a # 0 => approvals[a].consumedBy = r
      /\ Evaluate(gcall[c].req) = "approval_required" =>
            a # 0 /\ approvals[a].decision = "approved"
  BY <1>1, <1>2 DEF CallInv, BeforeTool
<1>7. CallInv(c)'
  BY <1>2, <1>3, <1>4, <1>6 DEF CallInv, About, BeforeTool, AfterTool
<1>8. ReceiptInv(r)'
  <2>1. ReceiptInv(r)
    BY <1>6 DEF GatewayInv
  <2>2. Evaluate(receipts[r].req) = "approval_required" =>
           \E b \in DOMAIN approvals : /\ approvals[b].consumedBy = r
                                       /\ approvals[b].decision = "approved"
                                       /\ approvals[b].req = receipts[r].req
    BY <1>6 DEF About
  <2> QED
    BY <1>2, <1>4, <1>6, <2>1, <2>2 DEF ReceiptInv, About
<1>9. /\ gcall[c].pc # "idle" /\ faults' \in 0..MaxFaults
      /\ receipts' \in Seq(Receipt)
  BY <1>1, <1>2 DEF GatewayTypeOK
<1> QED
  BY <1>2, <1>4, <1>5, <1>7, <1>8, <1>9, OwnStep

LEMMA CompleteCallStep ==
    ASSUME GatewayInv, NEW c \in Call, CompleteCall(c)
    PROVE  GatewayInv'
<1> DEFINE r == gcall[c].receipt
           a == gcall[c].approval
<1>1. /\ GatewayTypeOK /\ CallInv(c)
      /\ gcall \in [Call -> CallState]
      /\ a \in Nat
      /\ "done" \in Pcs
  BY DEF GatewayInv, GatewayTypeOK, CallState, Pcs
<1>2. /\ gcall[c].pc \in AfterTool /\ gcall[c].pc # "idle"
      /\ Go(c, "done")
      /\ UNCHANGED <<approvals, effects, faults>>
  BY DEF CompleteCall, AfterTool
<1>3. PICK status \in {"succeeded", "failed"} : CompleteReceipt(c, status, a)
  BY DEF CompleteCall
<1>4. status \in Statuses
  BY DEF Statuses
<1>5. /\ receipts' \in Seq(Receipt)
      /\ DOMAIN receipts' = DOMAIN receipts
      /\ \A i \in DOMAIN receipts : i # r => receipts'[i] = receipts[i]
      /\ r \in DOMAIN receipts
      /\ receipts'[r].req = receipts[r].req
      /\ receipts'[r].status = status
      /\ a = 0 => receipts'[r].approval = receipts[r].approval
      /\ a # 0 => receipts'[r].approval = a
  BY <1>1, <1>2, <1>3, <1>4, Completed
<1>6. /\ gcall' \in [Call -> CallState]
      /\ \A d \in Call : d # c => gcall'[d] = gcall[d]
      /\ gcall'[c].pc = "done"
      /\ gcall'[c].req = gcall[c].req
      /\ gcall'[c].receipt = r
      /\ gcall'[c].approval = a
  BY <1>1, <1>2, WentTo
<1>7. ApprovalsGrow
  BY <1>2, ApprovalsSame
<1>8. /\ receipts[r].req = gcall[c].req
      /\ About(a, gcall[c].req)
      /\ a = 0 => receipts[r].approval = 0
      /\ a # 0 => approvals[a].consumedBy = r
      /\ r \in effects
      /\ ReceiptInv(r)
  BY <1>1, <1>2, <1>5 DEF CallInv, GatewayInv
<1>9. CallInv(c)'
  BY <1>2, <1>5, <1>6, <1>8 DEF CallInv, About, BeforeTool, AfterTool
<1>10. ReceiptInv(r)'
  BY <1>2, <1>5, <1>6, <1>8 DEF ReceiptInv, About
<1>11. faults' \in 0..MaxFaults
  BY <1>1, <1>2 DEF GatewayTypeOK
<1> QED
  BY <1>2, <1>5, <1>6, <1>7, <1>9, <1>10, <1>11, OwnStep

LEMMA CallSteps ==
    ASSUME GatewayInv, NEW c \in Call, CallStep(c)
    PROVE  GatewayInv'
<1>1. CASE AbandonReceipt(c)
  <2>1. /\ gcall[c].pc = "finalize" /\ Go(c, "lost")
        /\ UNCHANGED <<receipts, approvals, effects, faults>> /\ faults' \in 0..MaxFaults
    BY <1>1 DEF AbandonReceipt, GatewayInv, GatewayTypeOK
  <2> QED
    BY <2>1, PlainStep DEF Pcs, BeforeTool, AfterTool
<1> QED
  BY <1>1, ConsumeApprovedStep, FindReusableStep, CreateApprovalStep, WaitingSteps,
     SpendApprovalStep, CompleteCallStep DEF CallStep

LEMMA FailStep ==
    ASSUME GatewayInv, NEW c \in Call, FailStatement(c)
    PROVE  GatewayInv'
<1>1. UNCHANGED <<approvals, effects>> /\ faults' \in 0..MaxFaults
  <2>1. faults \in 0..MaxFaults /\ faults < MaxFaults /\ faults' = faults + 1 /\ MaxFaults \in Nat
    BY GatewayAssumption DEF FailStatement, GatewayInv, GatewayTypeOK
  <2> QED
    BY <2>1 DEF FailStatement
<1>2. CASE gcall[c].pc = "reuse" /\ Go(c, "request") /\ UNCHANGED receipts
  BY <1>1, <1>2, PlainStep DEF Pcs, BeforeTool, AfterTool
<1>3. CASE /\ gcall[c].pc \in {"consume", "request", "spend"}
           /\ CompleteReceipt(c, "approval_required",
                              IF gcall[c].pc = "spend" THEN gcall[c].approval ELSE 0)
           /\ Go(c, "done")
  <2>1. PICK a \in {0, gcall[c].approval} : CompleteReceipt(c, "approval_required", a)
    BY <1>3
  <2> QED
    BY <1>1, <1>3, <2>1, WriteStep DEF BeforeTool
<1>4. CASE /\ gcall[c].pc \in {"consume", "request", "spend", "publish", "wait", "deny",
                               "complete", "finalize"}
           /\ Go(c, "lost")
           /\ UNCHANGED receipts
  BY <1>1, <1>4, PlainStep DEF Pcs, BeforeTool, AfterTool
<1> QED
  BY <1>2, <1>3, <1>4 DEF FailStatement

-----------------------------------------------------------------------------
(***************************************************************************)
(* A call begins, the operator decides, the process dies.                  *)
(***************************************************************************)
LEMMA ExecuteStep ==
    ASSUME GatewayInv, NEW c \in Call, Execute(c)
    PROVE  GatewayInv'
<1> DEFINE n == Len(receipts)
<1>1. PICK req \in Request :
         /\ receipts' = Append(receipts,
               [req |-> req, approval |-> 0,
                status |-> IF Blocked(req) THEN "denied" ELSE "started"])
         /\ gcall' = [gcall EXCEPT ![c] =
               [pc |-> IF Blocked(req) THEN "done"
                       ELSE IF Evaluate(req) = "approval_required" THEN "consume" ELSE "execute",
                req |-> req, receipt |-> n + 1, approval |-> 0]]
  BY DEF Execute
<1>2. gcall[c].pc = "idle" /\ UNCHANGED <<approvals, effects, faults>>
  BY DEF Execute
<1> DEFINE status == IF Blocked(req) THEN "denied" ELSE "started"
           pc == IF Blocked(req) THEN "done"
                 ELSE IF Evaluate(req) = "approval_required" THEN "consume" ELSE "execute"
           new == [req |-> req, approval |-> 0, status |-> status]
           call == [pc |-> pc, req |-> req, receipt |-> n + 1, approval |-> 0]
<1>3. /\ pc \in {"done", "consume", "execute"} /\ status \in {"denied", "started"}
      /\ pc = "done" => status = "denied"
      /\ pc # "done" => status = "started"
      /\ pc = "execute" => Evaluate(req) # "approval_required"
  OBVIOUS
<1>4. receipts' = Append(receipts, new) /\ gcall' = [gcall EXCEPT ![c] = call]
  BY <1>1
<1> HIDE DEF status, pc
<1>5. new \in Receipt
  BY <1>3 DEF Receipt
<1>6. /\ GatewayTypeOK /\ OwnReceipts
      /\ receipts \in Seq(Receipt) /\ gcall \in [Call -> CallState]
      /\ effects \subseteq DOMAIN receipts
      /\ \A d \in Call : CallInv(d)
      /\ \A i \in DOMAIN receipts : ReceiptInv(i)
  BY DEF GatewayInv, GatewayTypeOK
<1>7. /\ receipts' \in Seq(Receipt) /\ Len(receipts') = n + 1
      /\ \A i \in 1..n : receipts'[i] = receipts[i]
      /\ receipts'[n + 1] = new
  BY <1>4, <1>5, <1>6, AppendProperties
<1>8. n \in Nat /\ DOMAIN receipts = 1..n /\ DOMAIN receipts' = 1..(n + 1)
  BY <1>6, <1>7, LenProperties
<1> HIDE DEF n
<1>9. call \in CallState
  BY <1>3, <1>8 DEF CallState, Pcs
<1>10. /\ gcall' \in [Call -> CallState]
       /\ gcall'[c] = call
       /\ \A d \in Call : d # c => gcall'[d] = gcall[d]
  BY <1>4, <1>6, <1>9
<1> HIDE DEF new, call
<1>11. n + 1 \notin effects /\ effects \subseteq DOMAIN receipts'
  BY <1>6, <1>8
<1>12. GatewayTypeOK'
  BY <1>2, <1>6, <1>7, <1>10, <1>11 DEF GatewayTypeOK
<1>13. ApprovalsGrow
  BY <1>2, ApprovalsSame
<1>14. ASSUME NEW d \in Call PROVE CallInv(d)'
  <2>1. CASE d = c
    <3>1. /\ gcall'[c].pc = pc /\ gcall'[c].req = req
          /\ gcall'[c].receipt = n + 1 /\ gcall'[c].approval = 0
      BY <1>10 DEF call
    <3>2. /\ receipts'[n + 1].req = req /\ receipts'[n + 1].status = status
          /\ receipts'[n + 1].approval = 0
      BY <1>7 DEF new
    <3>3. n + 1 \in DOMAIN receipts' /\ n + 1 \notin effects'
      BY <1>2, <1>8, <1>11
    <3> QED
      BY <1>3, <2>1, <3>1, <3>2, <3>3 DEF CallInv, About, BeforeTool, AfterTool
  <2>2. CASE d # c
    <3>1. gcall[d].pc # "idle" => gcall[d].receipt \in 1..n
      BY <1>6, <1>8 DEF CallInv
    <3>2. gcall[d].pc # "idle" => /\ gcall[d].receipt \in DOMAIN receipts'
                                  /\ receipts'[gcall[d].receipt] = receipts[gcall[d].receipt]
      BY <1>7, <1>8, <3>1
    <3> QED
      BY <1>2, <1>10, <1>13, <2>2, <3>2, OtherCall
  <2> QED
    BY <2>1, <2>2
<1>15. ASSUME NEW i \in DOMAIN receipts' PROVE ReceiptInv(i)'
  <2>1. CASE i = n + 1
    BY <1>2, <1>3, <1>7, <1>11, <2>1 DEF ReceiptInv, About, new
  <2>2. CASE i # n + 1
    <3>1. i \in DOMAIN receipts /\ receipts'[i] = receipts[i]
      BY <1>7, <1>8, <2>2
    <3> QED
      BY <1>2, <1>6, <1>13, <3>1, OtherReceipt
  <2> QED
    BY <2>1, <2>2
<1>16. OwnReceipts'
  <2>1. \A d \in Call : d # c /\ gcall'[d].pc # "idle" => gcall'[d].receipt # n + 1
    BY <1>6, <1>8, <1>10 DEF CallInv
  <2>2. gcall'[c].receipt = n + 1
    BY <1>10 DEF call
  <2> QED
    BY <1>6, <1>10, <2>1, <2>2 DEF OwnReceipts
<1> QED
  BY <1>12, <1>14, <1>15, <1>16 DEF GatewayInv

LEMMA DecideStep ==
    ASSUME GatewayInv, NEW a \in DOMAIN approvals, Decide(a)
    PROVE  GatewayInv'
<1>1. PICK d \in {"approved", "denied"} : approvals' = [approvals EXCEPT ![a].decision = d]
  BY DEF Decide
<1>2. /\ approvals[a].decision = "pending"
      /\ UNCHANGED <<gcall, receipts, effects, faults>>
  BY DEF Decide
<1>3. approvals \in Seq(Approval) /\ receipts \in Seq(Receipt)
  BY DEF GatewayInv, GatewayTypeOK
<1>4. approvals[a] \in Approval
  BY <1>3, LenProperties
<1> DEFINE e == [approvals[a] EXCEPT !.decision = d]
<1>5. /\ e \in Approval
      /\ e.req = approvals[a].req
      /\ e.consumedBy = approvals[a].consumedBy
  BY <1>4 DEF Approval
<1>6. approvals' = [approvals EXCEPT ![a] = e]
  BY <1>1
<1> HIDE DEF e
<1>7. ApprovalsGrow
  BY <1>2, <1>5, <1>6, ApprovalWritten
<1>8. GatewayTypeOK'
  BY <1>2, <1>7 DEF GatewayInv, GatewayTypeOK, ApprovalsGrow
<1>9. ASSUME NEW c \in Call PROVE CallInv(c)'
  <2>1. CASE gcall[c].pc = "idle"
    BY <1>2, <2>1 DEF CallInv
  <2>2. CASE gcall[c].pc # "idle"
    <3>1. gcall[c].receipt \in DOMAIN receipts
      BY <2>2 DEF GatewayInv, CallInv
    <3> QED
      BY <1>2, <1>7, <3>1, OtherCall
  <2> QED
    BY <2>1, <2>2
<1>10. ASSUME NEW i \in DOMAIN receipts' PROVE ReceiptInv(i)'
  BY <1>2, <1>3, <1>7, <1>10, OtherReceipt DEF GatewayInv
<1>11. OwnReceipts'
  BY <1>2 DEF GatewayInv, OwnReceipts
<1> QED
  BY <1>8, <1>9, <1>10, <1>11 DEF GatewayInv

LEMMA DieStep ==
    ASSUME GatewayInv, Die
    PROVE  GatewayInv'
<1>1. UNCHANGED <<receipts, approvals, effects>>
  BY DEF Die
<1>2. faults' \in 0..MaxFaults
  <2>1. faults \in 0..MaxFaults /\ faults < MaxFaults /\ faults' = faults + 1 /\ MaxFaults \in Nat
    BY GatewayAssumption DEF Die, GatewayInv, GatewayTypeOK
  <2> QED
    BY <2>1
<1>3. /\ gcall \in [Call -> CallState]
      /\ "dead" \in Pcs
  BY DEF GatewayInv, GatewayTypeOK, Pcs
<1>4. ASSUME NEW c \in Call
      PROVE  /\ gcall'[c] = gcall[c] \/ gcall'[c] = [gcall[c] EXCEPT !.pc = "dead"]
             /\ gcall'[c] \in CallState
             /\ gcall'[c].pc = "idle" <=> gcall[c].pc = "idle"
             /\ gcall'[c].receipt = gcall[c].receipt
  <2>1. \/ gcall'[c] = gcall[c]
        \/ /\ gcall'[c] = [gcall[c] EXCEPT !.pc = "dead"]
           /\ gcall[c].pc # "idle"
    BY DEF Die
  <2>2. gcall[c] \in CallState
    BY <1>3
  <2> QED
    BY <1>3, <2>1, <2>2 DEF CallState
<1>5. gcall' \in [Call -> CallState]
  <2>1. gcall' = [c \in Call |-> gcall'[c]]
    BY DEF Die
  <2> QED
    BY <1>4, <2>1
<1>6. GatewayTypeOK'
  BY <1>1, <1>2, <1>5 DEF GatewayInv, GatewayTypeOK
<1>7. ASSUME NEW c \in Call PROVE CallInv(c)'
  <2>1. CASE gcall'[c] = gcall[c]
    BY <1>1, <2>1 DEF GatewayInv, CallInv, About
  <2>2. CASE gcall'[c] = [gcall[c] EXCEPT !.pc = "dead"] /\ gcall[c].pc # "idle"
    <3>1. /\ gcall'[c].pc = "dead" /\ gcall'[c].req = gcall[c].req
          /\ gcall'[c].receipt = gcall[c].receipt /\ gcall'[c].approval = gcall[c].approval
      BY <1>3, <2>2 DEF CallState
    <3> QED
      BY <1>1, <2>2, <3>1 DEF GatewayInv, CallInv, About, BeforeTool, AfterTool
  <2> QED
    BY <1>4, <2>1, <2>2 DEF Die
<1>8. ASSUME NEW i \in DOMAIN receipts' PROVE ReceiptInv(i)'
  BY <1>1, <1>8 DEF GatewayInv, ReceiptInv, About
<1>9. OwnReceipts'
  <2>1. OwnReceipts
    BY DEF GatewayInv
  <2>2. ASSUME NEW c \in Call, NEW d \in Call, gcall'[c].pc # "idle", gcall'[d].pc # "idle",
               gcall'[c].receipt = gcall'[d].receipt
        PROVE  c = d
    <3>1. /\ gcall[c].pc # "idle" /\ gcall[d].pc # "idle"
          /\ gcall[c].receipt = gcall[d].receipt
      BY <1>4, <2>2
    <3> QED
      BY <2>1, <3>1 DEF OwnReceipts
  <2> QED
    BY <2>2 DEF OwnReceipts
<1> QED
  BY <1>6, <1>7, <1>8, <1>9 DEF GatewayInv

LEMMA GatewayStep == GatewayInv /\ [GatewayNext]_gwVars => GatewayInv'
<1> SUFFICES ASSUME GatewayInv, [GatewayNext]_gwVars PROVE GatewayInv'
  OBVIOUS
<1>1. CASE UNCHANGED gwVars
  <2>1. UNCHANGED <<gcall, receipts, approvals, effects, faults>>
    BY <1>1 DEF gwVars
  <2>2. GatewayTypeOK' /\ OwnReceipts'
    BY <2>1 DEF GatewayInv, GatewayTypeOK, OwnReceipts
  <2>3. ASSUME NEW c \in Call PROVE CallInv(c)'
    BY <2>1 DEF GatewayInv, CallInv, About
  <2>4. ASSUME NEW i \in DOMAIN receipts' PROVE ReceiptInv(i)'
    BY <2>1, <2>4 DEF GatewayInv, ReceiptInv, About
  <2> QED
    BY <2>2, <2>3, <2>4 DEF GatewayInv
<1> QED
  BY <1>1, ExecuteStep, CallSteps, RunToolStep, FailStep, DecideStep, DieStep DEF GatewayNext

LEMMA GatewayInductive == GatewaySpec => []GatewayInv
BY GatewayInitially, GatewayStep, PTL DEF GatewaySpec

-----------------------------------------------------------------------------
\* The calls, the receipts and the approvals have their types.
THEOREM GatewayTypeCorrect == GatewaySpec => []GatewayTypeOK
BY GatewayInductive, PTL DEF GatewayInv

\* No tool that needs approval runs without one of its own: approved by the
\* operator, for this request, and spent by this call.
THEOREM ApprovalIsSpentOnce == GatewaySpec => []ApprovalSpentOnce
<1>1. GatewayInv => ApprovalSpentOnce
  BY DEF GatewayInv, GatewayTypeOK, ReceiptInv, ApprovalSpentOnce
<1> QED
  BY <1>1, GatewayInductive, PTL

\* A receipt says succeeded or failed only of a tool that ran, denied only of
\* one that did not, and is true of a call that returned.
THEOREM ReceiptIsTrue == GatewaySpec => []ReceiptTellsEffect
<1>1. GatewayInv => ReceiptTellsEffect
  <2> SUFFICES ASSUME GatewayInv PROVE ReceiptTellsEffect
    OBVIOUS
  <2>1. \A i \in DOMAIN receipts :
           /\ receipts[i].status \in {"succeeded", "failed"} => i \in effects
           /\ receipts[i].status = "denied" => i \notin effects
    BY DEF GatewayInv, ReceiptInv
  <2>2. ASSUME NEW c \in Call, gcall[c].pc = "done"
        PROVE  LET i == gcall[c].receipt IN
               /\ receipts[i].status # "started"
               /\ i \in effects => receipts[i].status \in {"succeeded", "failed"}
               /\ i \in effects /\ receipts[i].approval # 0 =>
                     approvals[receipts[i].approval].consumedBy = i
    BY <2>2 DEF GatewayInv, CallInv
  <2> QED
    BY <2>1, <2>2 DEF ReceiptTellsEffect
<1> QED
  BY <1>1, GatewayInductive, PTL
=============================================================================
