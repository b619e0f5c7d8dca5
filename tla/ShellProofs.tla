----------------------------- MODULE ShellProofs -----------------------------
(***************************************************************************)
(* Proofs about the Telegram shell, for any numbers of updates and faults: *)
(* its types, the account of updates and notices (ShellAccounts), and the  *)
(* answers of the question it shares with the command line and the agents  *)
(* (AnswerHasResume).                                                      *)
(*                                                                         *)
(* ShellInv says where the loop is: the next update to handle is always    *)
(* the one of the offset in memory (ShellShape), everything below it was   *)
(* handled, and until a first fault nothing at or above it was             *)
(* (UpdatesKept); a notice noted in memory or in the file was sent, and    *)
(* until a first fault nothing else was (NoticesKept); whoever is past the *)
(* queue has a resume task with the key of the answer, and as long as the  *)
(* shell is past validation it has recorded no answer (AnswersKept).       *)
(***************************************************************************)
EXTENDS TelegramShell, SequenceTheorems, WellFoundedInduction, TLAPS

Keys == {s.key : s \in Saying} \cup {"other-answer"}
Row == [key : Keys, status : {"active", "completed"}]
ShellPc == {"down", "load", "notify", "poll", "handle", "validated", "enqueued"}
ShellOutcome == [action : {"ask", "answer", "cancel"}, by : {"agent", "shell", "other"},
                 key : Keys \cup {"none"}]
OtherState == {"idle", "refused", "validated", "enqueued", "recorded"}
AnyTally == [handled : [1..MaxUpdates -> Nat], sent : Seq(Nat), faults : Nat]
AnyShell == [pc : ShellPc, offset : Nat, todo : Seq(1..MaxUpdates),
             list : SUBSET Nat, notified : SUBSET Nat]

ShellTyped ==
    /\ shell \in AnyShell
    /\ disk \in [offset : Nat, notified : SUBSET Nat, torn : BOOLEAN]
    /\ server \in [said : Seq(Saying), confirmed : Nat]
    /\ trows \in Seq(Row)
    /\ outcomes \in Seq(ShellOutcome)
    /\ others \in [Answerer -> OtherState]
    /\ tally \in AnyTally

ShellBounds ==
    /\ shell.list \subseteq DOMAIN trows /\ shell.notified \subseteq DOMAIN trows
    /\ disk.notified \subseteq DOMAIN trows
    /\ Len(server.said) <= MaxUpdates /\ server.confirmed <= Len(server.said)
    /\ tally.faults <= MaxShellFaults

Handling == {"handle", "validated", "enqueued"}

\* The updates in hand are consecutive from the next one on.
InOrder(todo, next, last) ==
    \A i \in 1..Len(todo) : todo[i] = next + i - 1 /\ todo[i] <= last

ShellShape ==
    /\ shell.pc \notin Handling => shell.todo = <<>>
    /\ shell.pc \in {"validated", "enqueued"} => shell.todo # <<>> /\ Said.kind = "answer"
    /\ shell.pc # "notify" => shell.list = {} /\ shell.notified = {}
    /\ InOrder(shell.todo, NextUpdate, Len(server.said))

UpdatesKept ==
    /\ \A u \in 1..MaxUpdates :
          /\ u <= server.confirmed \/ u < disk.offset => tally.handled[u] > 0
          /\ shell.pc # "down" /\ u < shell.offset => tally.handled[u] > 0
    /\ tally.faults = 0 => \A u \in 1..MaxUpdates :
          /\ tally.handled[u] <= 1
          /\ u >= NextUpdate \/ shell.pc = "down" => tally.handled[u] = 0

NoticesKept ==
    /\ DOMAIN tally.sent \subseteq DOMAIN trows
    /\ \A i \in DOMAIN trows : i \in disk.notified \cup shell.notified => Sent(i) > 0
    /\ shell.pc = "notify" =>
          disk.notified \subseteq shell.notified /\ shell.list \cap shell.notified = {}
    /\ tally.faults = 0 => \A i \in DOMAIN trows :
          /\ Sent(i) <= 1
          /\ i \notin disk.notified \cup shell.notified => Sent(i) = 0

HasRow(key) == \E j \in DOMAIN trows : trows[j].key = key

AnswersKept ==
    /\ \A i \in Recorded : HasRow(outcomes[i].key)
    /\ shell.pc = "enqueued" => HasRow(Said.key)
    /\ \A a \in Answerer : others[a] = "enqueued" => HasRow("other-answer")
    /\ \A i, j \in ShellRecorded : i = j
    /\ shell.pc \in {"validated", "enqueued"} => ShellRecorded = {}

ShellInv == /\ ShellTyped /\ ShellBounds /\ ShellShape
            /\ UpdatesKept /\ NoticesKept /\ AnswersKept

-----------------------------------------------------------------------------
(***************************************************************************)
(* What the steps are made of.                                             *)
(***************************************************************************)
\* The update in hand is the next one, and those after it follow.
LEMMA InHand ==
    ASSUME ShellTyped, ShellShape, shell.todo # <<>>
    PROVE  /\ Head(shell.todo) = NextUpdate /\ Head(shell.todo) \in 1..MaxUpdates
           /\ Head(shell.todo) \in 1..Len(server.said)
           /\ Said \in Saying
           /\ Tail(shell.todo) \in Seq(1..MaxUpdates)
           /\ InOrder(Tail(shell.todo), NextUpdate + 1, Len(server.said))
<1> DEFINE todo == shell.todo
<1>1. /\ todo \in Seq(1..MaxUpdates) /\ server.said \in Seq(Saying)
      /\ shell.offset \in Nat /\ server.confirmed \in Nat
  BY DEF ShellTyped, AnyShell
<1> HIDE DEF todo
<1>2. /\ Head(todo) \in 1..MaxUpdates /\ Head(todo) = todo[1] /\ Tail(todo) \in Seq(1..MaxUpdates)
      /\ Len(Tail(todo)) = Len(todo) - 1 /\ Len(todo) \in Nat \ {0}
      /\ \A i \in 1..Len(Tail(todo)) : Tail(todo)[i] = todo[i + 1]
  <2>1. todo # <<>>
    BY DEF todo
  <2>2. /\ Head(todo) \in 1..MaxUpdates /\ Tail(todo) \in Seq(1..MaxUpdates)
        /\ Len(Tail(todo)) = Len(todo) - 1
        /\ \A i \in 1..Len(Tail(todo)) : Tail(todo)[i] = todo[i + 1]
    BY <1>1, <2>1, HeadTailProperties
  <2>3. Len(todo) \in Nat \ {0}
    BY <1>1, <2>1, EmptySeq
  <2>4. Head(todo) = todo[1]
    BY <1>1, <2>1
  <2> QED
    BY <2>2, <2>3, <2>4
<1>3. \A i \in 1..Len(todo) : todo[i] = NextUpdate + i - 1 /\ todo[i] <= Len(server.said)
  BY DEF ShellShape, InOrder, todo
<1>4. NextUpdate \in Nat /\ MaxUpdates \in Nat /\ Len(server.said) \in Nat
  BY <1>1, ShellAssumption, LenProperties DEF NextUpdate
<1>5. Head(todo) = NextUpdate /\ Head(todo) <= Len(server.said)
  <2>1. 1 \in 1..Len(todo)
    BY <1>2
  <2>2. todo[1] = NextUpdate + 1 - 1 /\ todo[1] <= Len(server.said)
    BY <1>3, <2>1
  <2> QED
    BY <2>2, <1>2, <1>4
<1>6. Head(todo) \in 1..Len(server.said)
  BY <1>2, <1>4, <1>5
<1>7. Said \in Saying
  BY <1>1, <1>6, ElementOfSeq DEF Said, todo
<1>8. InOrder(Tail(todo), NextUpdate + 1, Len(server.said))
  <2> SUFFICES ASSUME NEW i \in 1..Len(Tail(todo))
               PROVE  /\ Tail(todo)[i] = NextUpdate + 1 + i - 1
                      /\ Tail(todo)[i] <= Len(server.said)
    BY DEF InOrder
  <2>1. i + 1 \in 1..Len(todo) /\ Tail(todo)[i] = todo[i + 1]
    BY <1>2
  <2>2. todo[i + 1] = NextUpdate + (i + 1) - 1 /\ todo[i + 1] <= Len(server.said)
    BY <1>3, <2>1
  <2> QED
    BY <2>1, <2>2, <1>4
<1> QED
  BY <1>2, <1>5, <1>6, <1>7, <1>8 DEF todo

\* HandleUpdate has returned.
Past ==
    /\ shell.todo # <<>>
    /\ shell' = PastUpdate
    /\ tally'.handled = [tally.handled EXCEPT ![Head(shell.todo)] = @ + 1]
    /\ tally'.sent = tally.sent /\ tally'.faults >= tally.faults

LEMMA PastFields ==
    ASSUME ShellTyped, Past
    PROVE  /\ shell'.pc = "handle" /\ shell'.todo = Tail(shell.todo)
           /\ shell'.offset = Head(shell.todo) + 1
           /\ shell'.list = shell.list /\ shell'.notified = shell.notified
BY DEF ShellTyped, AnyShell, Past, PastUpdate

\* A new row leaves the rows there are, and has the key.
LEMMA NewRows ==
    ASSUME trows \in Seq(Row), NEW key \in Keys
    PROVE  /\ NewRow(key) \in Seq(Row)
           /\ DOMAIN trows \subseteq DOMAIN NewRow(key)
           /\ \A i \in DOMAIN trows : NewRow(key)[i] = trows[i]
           /\ \E i \in DOMAIN NewRow(key) : NewRow(key)[i].key = key
<1> DEFINE row == [key |-> key, status |-> "active"]
<1>1. row \in Row /\ row.key = key
  BY DEF Row
<1>2. /\ Append(trows, row) \in Seq(Row) /\ Len(Append(trows, row)) = Len(trows) + 1
      /\ \A i \in 1..Len(trows) : Append(trows, row)[i] = trows[i]
      /\ Append(trows, row)[Len(trows) + 1] = row
  BY <1>1, AppendProperties
<1>3. Len(trows) \in Nat /\ DOMAIN trows = 1..Len(trows)
  BY LenProperties
<1>4. DOMAIN Append(trows, row) = 1..Len(trows) + 1
  BY <1>2, LenProperties
<1>5. NewRow(key) = Append(trows, row)
  BY DEF NewRow
<1>6. Len(trows) + 1 \in DOMAIN Append(trows, row)
  BY <1>3, <1>4
<1> HIDE DEF row
<1> QED
  BY <1>1, <1>2, <1>3, <1>4, <1>5, <1>6

\* So does Queue.Enqueue, and one row has the key.
LEMMA EnqueuedRows ==
    ASSUME trows \in Seq(Row), NEW key \in Keys
    PROVE  /\ Enqueued(key) \in Seq(Row)
           /\ DOMAIN trows \subseteq DOMAIN Enqueued(key)
           /\ \A i \in DOMAIN trows : Enqueued(key)[i] = trows[i]
           /\ \E i \in DOMAIN Enqueued(key) : Enqueued(key)[i].key = key
<1>1. CASE \E i \in DOMAIN trows : trows[i] = [key |-> key, status |-> "active"]
  BY <1>1 DEF Enqueued
<1>2. CASE ~\E i \in DOMAIN trows : trows[i] = [key |-> key, status |-> "active"]
  BY <1>2, NewRows DEF Enqueued
<1> QED
  BY <1>1, <1>2

NatLess == {p \in Nat \X Nat : p[1] < p[2]}

\* A set of numbers has a least one, and the next notice is that of the list.
LEMMA LeastNumber ==
    ASSUME NEW S, S \subseteq Nat, S # {}
    PROVE  \E i \in S : \A j \in S : i <= j
<1>1. OpToRel(<, Nat) = NatLess
  BY Zenon DEF OpToRel, NatLess
<1>2. IsWellFoundedOn(NatLess, Nat)
  BY <1>1, NatLessThanWellFounded, Zenon
<1>3. \E i \in S : \A j \in S : ~(<<j, i>> \in NatLess)
  BY <1>2, WFMin, Zenon
<1>4. PICK i \in S : \A j \in S : ~(<<j, i>> \in NatLess)
  BY <1>3
<1>5. ASSUME NEW j \in S PROVE i <= j
  <2>1. i \in Nat /\ j \in Nat /\ <<j, i>> \notin NatLess
    BY <1>4
  <2>2. j < i => <<j, i>> \in NatLess
    BY <2>1 DEF NatLess
  <2> QED
    BY <2>1, <2>2
<1> QED
  BY <1>5

LEMMA NextNoticeListed ==
    ASSUME shell.list \subseteq Nat, shell.list # {}
    PROVE  NextNotice \in shell.list
<1>1. \E i \in shell.list : \A j \in shell.list : i <= j
  BY LeastNumber
<1> QED
  BY <1>1 DEF NextNotice

-----------------------------------------------------------------------------
(***************************************************************************)
(* Types and bounds.                                                       *)
(***************************************************************************)
LEMMA ShellInitially == ShellInit => ShellInv
<1> SUFFICES ASSUME ShellInit PROVE ShellInv
  OBVIOUS
<1> USE ShellAssumption DEF ShellInit
<1>1. /\ <<>> \in Seq(1..MaxUpdates) /\ <<>> \in Seq(Saying) /\ <<>> \in Seq(Row)
      /\ <<>> \in Seq(Nat) /\ outcomes \in Seq(ShellOutcome) /\ Len(<<>>) = 0
  BY EmptySeq DEF ShellOutcome, QuestionReceipt
<1>2. ShellTyped
  BY <1>1 DEF ShellTyped, AnyShell, AnyTally, ShellPc, OtherState
<1>3. ShellBounds
  BY <1>1 DEF ShellBounds
<1>4. ShellShape
  BY DEF ShellShape, Handling, InOrder
<1>5. UpdatesKept
  BY DEF UpdatesKept
<1>6. NoticesKept
  BY DEF NoticesKept
<1>7. AnswersKept
  BY DEF AnswersKept, Recorded, ShellRecorded, QuestionReceipt
<1> QED
  BY <1>2, <1>3, <1>4, <1>5, <1>6, <1>7 DEF ShellInv

\* One more is counted for an update.
LEMMA Counted ==
    ASSUME NEW hs \in [1..MaxUpdates -> Nat], NEW h \in 1..MaxUpdates
    PROVE  [hs EXCEPT ![h] = @ + 1] \in [1..MaxUpdates -> Nat]
<1>1. hs[h] \in Nat /\ hs[h] + 1 \in Nat
  OBVIOUS
<1> QED
  BY <1>1

LEMMA PastTyped ==
    ASSUME ShellTyped, ShellShape, shell.todo # <<>>, shell' = PastUpdate
    PROVE  shell' \in AnyShell
<1>1. Head(shell.todo) \in 1..MaxUpdates /\ Tail(shell.todo) \in Seq(1..MaxUpdates)
  BY InHand
<1>2. shell \in AnyShell /\ "handle" \in ShellPc /\ Head(shell.todo) + 1 \in Nat
  BY <1>1 DEF ShellTyped, ShellPc
<1> DEFINE todo == Tail(shell.todo)
           next == Head(shell.todo) + 1
<1>3. shell' = [shell EXCEPT !.pc = "handle", !.todo = todo, !.offset = next]
  BY DEF PastUpdate
<1>4. todo \in Seq(1..MaxUpdates) /\ next \in Nat
  BY <1>1, <1>2
<1> HIDE DEF todo, next
<1> QED
  BY <1>2, <1>3, <1>4 DEF AnyShell

LEMMA HandledPast ==
    ASSUME ShellTyped, ShellShape, shell.todo # <<>>, Handled
    PROVE  /\ Past /\ tally'.faults = tally.faults
           /\ shell' \in AnyShell /\ tally' \in AnyTally
<1> DEFINE h == Head(shell.todo)
<1>1. h \in 1..MaxUpdates /\ tally \in AnyTally /\ tally.faults \in Nat
  BY InHand DEF ShellTyped, AnyTally
<1>2. tally' = [handled |-> [tally.handled EXCEPT ![h] = @ + 1], sent |-> tally.sent,
                  faults |-> tally.faults]
  BY <1>1 DEF Handled, AnyTally
<1>3. tally.handled \in [1..MaxUpdates -> Nat] /\ tally.sent \in Seq(Nat)
  BY <1>1 DEF AnyTally
<1> HIDE DEF h
<1>4. [tally.handled EXCEPT ![h] = @ + 1] \in [1..MaxUpdates -> Nat]
  BY <1>1, <1>3, Counted
<1>6. tally' \in AnyTally
  BY <1>1, <1>2, <1>3, <1>4 DEF AnyTally
<1>5. shell' \in AnyShell
  BY PastTyped DEF Handled
<1> QED
  BY <1>1, <1>2, <1>5, <1>6 DEF Past, Handled, h

LEMMA FailsPast ==
    ASSUME ShellTyped, ShellShape, HandleFails
    PROVE  /\ Past /\ tally'.faults = tally.faults + 1
           /\ shell' \in AnyShell /\ tally' \in AnyTally
<1> DEFINE h == Head(shell.todo)
<1>1. h \in 1..MaxUpdates /\ tally \in AnyTally /\ tally.faults \in Nat
  BY InHand DEF ShellTyped, AnyTally, HandleFails
<1>2. tally' = [handled |-> [tally.handled EXCEPT ![h] = @ + 1], sent |-> tally.sent,
                  faults |-> tally.faults + 1]
  BY <1>1 DEF HandleFails, AnyTally
<1>3. tally.handled \in [1..MaxUpdates -> Nat] /\ tally.sent \in Seq(Nat)
  BY <1>1 DEF AnyTally
<1> HIDE DEF h
<1>4. [tally.handled EXCEPT ![h] = @ + 1] \in [1..MaxUpdates -> Nat]
  BY <1>1, <1>3, Counted
<1>6. tally' \in AnyTally
  BY <1>1, <1>2, <1>3, <1>4 DEF AnyTally
<1>5. shell' \in AnyShell
  BY PastTyped DEF HandleFails
<1> QED
  BY <1>1, <1>2, <1>5, <1>6 DEF Past, HandleFails, h

LEMMA ShellTypesStep == ShellInv /\ [ShellNext]_shellVars => ShellTyped'
<1> SUFFICES ASSUME ShellInv, [ShellNext]_shellVars PROVE ShellTyped'
  OBVIOUS
<1> USE ShellAssumption
<1>0. /\ ShellTyped /\ ShellBounds /\ ShellShape
      /\ shell \in AnyShell /\ tally \in AnyTally /\ tally.faults \in Nat
      /\ trows \in Seq(Row) /\ outcomes \in Seq(ShellOutcome)
      /\ Len(trows) \in Nat /\ DOMAIN trows = 1..Len(trows) /\ Len(server.said) \in Nat
      /\ "other-answer" \in Keys /\ server.said \in Seq(Saying)
      /\ QuestionReceipt("cancel", "shell", "none") \in ShellOutcome
      /\ QuestionReceipt("answer", "other", "other-answer") \in ShellOutcome
  <2>1. ShellTyped
    BY DEF ShellInv
  <2>2. server.said \in Seq(Saying) /\ trows \in Seq(Row)
    BY <2>1 DEF ShellTyped
  <2> QED
    BY <2>1, <2>2, LenProperties
    DEF ShellInv, ShellTyped, AnyTally, Keys, ShellOutcome, QuestionReceipt
<1>d. /\ Announced \in [offset : Nat, notified : SUBSET Nat, torn : BOOLEAN]
      /\ Remembered \in [offset : Nat, notified : SUBSET Nat, torn : BOOLEAN]
      /\ [disk EXCEPT !.torn = TRUE] \in [offset : Nat, notified : SUBSET Nat, torn : BOOLEAN]
      /\ disk \in [offset : Nat, notified : SUBSET Nat, torn : BOOLEAN]
  BY <1>0 DEF Announced, Remembered, ShellTyped, AnyShell
<1>f. ASSUME Fault PROVE tally' \in AnyTally
  <2>1. tally \in AnyTally /\ tally.faults + 1 \in Nat
    BY <1>0
  <2>2. tally' = [tally EXCEPT !.faults = tally.faults + 1]
    BY <1>f DEF Fault
  <2> DEFINE f == tally.faults + 1
  <2> HIDE DEF f
  <2>3. f \in Nat /\ tally' = [tally EXCEPT !.faults = f]
    BY <2>1, <2>2 DEF f
  <2> QED
    BY ONLY <2>1, <2>3 DEF AnyTally
<1>h. ASSUME Handled, shell.todo # <<>> PROVE shell' \in AnyShell /\ tally' \in AnyTally
  BY <1>0, <1>h, HandledPast
<1>s. ASSUME shell.todo # <<>> PROVE Said \in Saying /\ Said.key \in Keys
  BY <1>0, <1>s, InHand DEF Keys
<1>e. ASSUME NEW key \in Keys PROVE Enqueued(key) \in Seq(Row)
  BY <1>0, EnqueuedRows
<1>1. CASE ShellStart
  BY <1>0, <1>1 DEF ShellStart, ShellTyped, AnyShell, ShellPc
<1>2. CASE NotifyLoad
  <2>1. {i \in DOMAIN trows : trows[i].status = "completed"} \ disk.notified \in SUBSET Nat
    BY <1>0
  <2> QED
    BY <1>0, <1>2, <2>1 DEF NotifyLoad, ShellTyped, AnyShell, ShellPc
<1>3. CASE NotifyOne
  <2>1. NextNotice \in Nat
    BY <1>0, <1>3, NextNoticeListed DEF NotifyOne, AnyShell
  <2>2. ASSUME NEW i \in 1..Len(trows)
        PROVE  Sent(i) + (IF i = NextNotice THEN 1 ELSE 0) \in Nat
    <3>1. tally.sent \in Seq(Nat)
      BY <1>0 DEF AnyTally
    <3>2. Sent(i) \in Nat
      BY <3>1, LenProperties, ElementOfSeq DEF Sent
    <3> QED
      BY <3>2
  <2>3. [i \in 1..Len(trows) |-> Sent(i) + (IF i = NextNotice THEN 1 ELSE 0)] \in Seq(Nat)
    BY <1>0, <2>2, IsASeq
  <2>4. tally' \in AnyTally
    BY <1>0, <1>3, <2>3 DEF NotifyOne, AnyTally
  <2>5. shell' \in AnyShell
    BY <1>0, <1>3, <2>1 DEF NotifyOne, AnyShell
  <2> QED
    BY <1>0, <1>3, <2>4, <2>5 DEF NotifyOne, ShellTyped
<1>4. CASE NotifySave
  BY <1>0, <1>4, <1>d DEF NotifySave, ShellTyped, AnyShell, ShellPc
<1>5. ASSUME NEW n \in 0..Len(server.said), GetUpdates(n) PROVE ShellTyped'
  <2>1. NextUpdate \in Nat \ {0} /\ NextUpdate + n <= Len(server.said) + 1
    BY <1>0, <1>5 DEF GetUpdates, NextUpdate, AnyShell, ShellTyped
  <2>2. Len(server.said) <= MaxUpdates
    BY <1>0 DEF ShellBounds
  <2>3. \A i \in 1..n : NextUpdate + i - 1 \in 1..MaxUpdates
    BY <2>1, <2>2, <1>0
  <2>4. [i \in 1..n |-> NextUpdate + i - 1] \in Seq(1..MaxUpdates)
    BY <2>3, IsASeq
  <2>5. shell' \in AnyShell
    <3>1. shell' = [shell EXCEPT !.pc = "handle", !.todo = [i \in 1..n |-> NextUpdate + i - 1]]
      BY <1>5 DEF GetUpdates, NextUpdate
    <3> QED
      BY <1>0, <2>4, <3>1 DEF AnyShell, ShellPc
  <2>6. server' = [server EXCEPT !.confirmed = NextUpdate - 1]
    BY <1>5 DEF GetUpdates, NextUpdate
  <2>7. server \in [said : Seq(Saying), confirmed : Nat] /\ NextUpdate - 1 \in Nat
    BY <1>0, <2>1 DEF ShellTyped
  <2>8. server' \in [said : Seq(Saying), confirmed : Nat]
    BY <2>6, <2>7
  <2> QED
    BY <1>0, <1>5, <2>5, <2>8 DEF GetUpdates, ShellTyped
<1>6. CASE HandleSubmit
  BY <1>0, <1>6, <1>h, <1>s, <1>e DEF HandleSubmit, ShellTyped
<1>7. CASE HandleOther
  BY <1>0, <1>7, <1>h DEF HandleOther, ShellTyped
<1>8. CASE HandleCancel
  <2>1. Append(outcomes, QuestionReceipt("cancel", "shell", "none")) \in Seq(ShellOutcome)
    BY <1>0, AppendProperties
  <2> QED
    BY <1>0, <1>8, <1>h, <2>1 DEF HandleCancel, ShellTyped
<1>9. CASE AnswerValidate
  <2>1. CASE QuestionPending
    BY <1>0, <1>9, <2>1 DEF AnswerValidate, ShellTyped, AnyShell, ShellPc
  <2>2. CASE ~QuestionPending
    BY <1>0, <1>9, <1>h, <2>2 DEF AnswerValidate, ShellTyped
  <2> QED
    BY <2>1, <2>2
<1>10. CASE AnswerEnqueue
  <2>1. shell.todo # <<>>
    BY <1>0, <1>10 DEF AnswerEnqueue, ShellShape
  <2> QED
    BY <1>0, <1>10, <1>s, <1>e, <2>1 DEF AnswerEnqueue, ShellTyped, AnyShell, ShellPc
<1>11. CASE AnswerRecord
  <2>1. shell.todo # <<>>
    BY <1>0, <1>11 DEF AnswerRecord, ShellShape
  <2>2. Append(outcomes, QuestionReceipt("answer", "shell", Said.key)) \in Seq(ShellOutcome)
    <3>1. QuestionReceipt("answer", "shell", Said.key) \in ShellOutcome
      BY <1>s, <2>1 DEF ShellOutcome, QuestionReceipt
    <3> QED
      BY <1>0, <3>1, AppendProperties
  <2> QED
    BY <1>0, <1>11, <1>h, <2>1, <2>2 DEF AnswerRecord, ShellTyped
<1>12. CASE RememberOffset
  <2>1. shell' \in AnyShell
    BY <1>0, <1>12 DEF RememberOffset, AnyShell, ShellPc
  <2>2. disk' \in [offset : Nat, notified : SUBSET Nat, torn : BOOLEAN]
    BY <1>12, <1>d DEF RememberOffset, SaveFails
  <2>3. tally' \in AnyTally
    BY <1>0, <1>12, <1>f DEF RememberOffset
  <2> QED
    BY <1>0, <1>12, <2>1, <2>2, <2>3 DEF RememberOffset, ShellTyped
<1>13. CASE NotifyFails
  <2>1. disk' \in [offset : Nat, notified : SUBSET Nat, torn : BOOLEAN]
    BY <1>13, <1>d DEF NotifyFails, SaveFails
  <2> QED
    BY <1>0, <1>13, <1>f, <2>1 DEF NotifyFails, ShellTyped, AnyShell, ShellPc
<1>14. CASE PollFails
  BY <1>0, <1>14, <1>f DEF PollFails, ShellTyped, AnyShell, ShellPc
<1>15. CASE HandleFails
  <2>1. shell' \in AnyShell /\ tally' \in AnyTally
    BY <1>0, <1>15, FailsPast
  <2> QED
    BY <1>0, <1>15, <2>1 DEF HandleFails, ShellTyped
<1>16. CASE ShellCrash
  <2>1. <<>> \in Seq(1..MaxUpdates)
    BY EmptySeq
  <2>2. shell' \in AnyShell
    BY <1>0, <1>16, <2>1 DEF ShellCrash, AnyShell, ShellPc
  <2> QED
    BY <1>0, <1>16, <1>d, <1>f, <2>2 DEF ShellCrash, ShellTyped
<1>17. ASSUME NEW a \in Answerer, OtherValidate(a) PROVE ShellTyped'
  BY <1>0, <1>17 DEF OtherValidate, ShellTyped, OtherState
<1>18. ASSUME NEW a \in Answerer, OtherEnqueue(a) PROVE ShellTyped'
  <2>1. NewRow("other-answer") \in Seq(Row)
    <3>1. [key |-> "other-answer", status |-> "active"] \in Row
      BY <1>0 DEF Row
    <3> QED
      BY <1>0, <3>1, AppendProperties DEF NewRow
  <2> QED
    BY <1>0, <1>18, <1>e, <2>1 DEF OtherEnqueue, ShellTyped, OtherState
<1>19. ASSUME NEW a \in Answerer, OtherRecord(a) PROVE ShellTyped'
  <2>1. Append(outcomes, QuestionReceipt("answer", "other", "other-answer")) \in Seq(ShellOutcome)
    BY <1>0, AppendProperties
  <2> QED
    BY <1>0, <1>19, <2>1 DEF OtherRecord, ShellTyped, OtherState
<1>20. ASSUME NEW s \in Saying, Receive(s) PROVE ShellTyped'
  <2>1. Append(server.said, s) \in Seq(Saying)
    BY <1>0, AppendProperties
  <2> QED
    BY <1>0, <1>20, <2>1 DEF Receive, ShellTyped
<1>21. ASSUME NEW i \in DOMAIN trows, CompleteTask(i) PROVE ShellTyped'
  <2>1. trows[i] \in Row
    BY <1>0, ElementOfSeq
  <2>2. [trows[i] EXCEPT !.status = "completed"] \in Row
    BY <2>1 DEF Row
  <2>3. trows' = [trows EXCEPT ![i] = [trows[i] EXCEPT !.status = "completed"]]
    BY <1>21 DEF CompleteTask
  <2>4. trows' \in Seq(Row)
    BY <1>0, <2>2, <2>3, ExceptSeq
  <2> QED
    BY <1>0, <1>21, <2>4 DEF CompleteTask, ShellTyped
<1>22. CASE UNCHANGED shellVars
  BY <1>0, <1>22 DEF shellVars, ShellTyped
<1> QED
  BY <1>1, <1>2, <1>3, <1>4, <1>5, <1>6, <1>7, <1>8, <1>9, <1>10, <1>11, <1>12, <1>13, <1>14,
     <1>15, <1>16, <1>17, <1>18, <1>19, <1>20, <1>21, <1>22 DEF ShellNext, ShellStep

RowsStay == /\ DOMAIN trows \subseteq DOMAIN trows'
            /\ \A i \in DOMAIN trows : trows'[i].key = trows[i].key
SaidStays == /\ \A i \in 1..Len(server.said) : server'.said[i] = server.said[i]
             /\ Len(server.said) <= Len(server'.said) /\ Len(server'.said) <= MaxUpdates
FaultsCount == tally.faults <= tally'.faults /\ tally'.faults <= MaxShellFaults

\* Whatever happens, rows and updates stay where they are, and faults are
\* only counted up.
LEMMA WhatStays ==
    ASSUME ShellInv, [ShellNext]_shellVars
    PROVE  RowsStay /\ SaidStays /\ FaultsCount
<1> USE ShellAssumption
<1>0. /\ ShellTyped /\ ShellBounds /\ ShellShape
      /\ trows \in Seq(Row) /\ server.said \in Seq(Saying) /\ "other-answer" \in Keys
      /\ Len(server.said) \in Nat /\ DOMAIN trows = 1..Len(trows)
      /\ server \in [said : Seq(Saying), confirmed : Nat]
      /\ tally \in AnyTally /\ tally.faults \in Nat
  <2>1. ShellTyped
    BY DEF ShellInv
  <2>2. server.said \in Seq(Saying) /\ trows \in Seq(Row)
    BY <2>1 DEF ShellTyped
  <2> QED
    BY <2>1, <2>2, LenProperties DEF ShellInv, ShellTyped, AnyTally, Keys
<1>s. ASSUME shell.todo # <<>> PROVE Said.key \in Keys
  BY <1>0, <1>s, InHand DEF Keys
<1>1. RowsStay
  <2> USE DEF RowsStay
  <2>1. ASSUME NEW key \in Keys, trows' = Enqueued(key) PROVE RowsStay
    BY <1>0, <2>1, EnqueuedRows
  <2>2. CASE HandleSubmit
    BY <1>s, <2>1, <2>2 DEF HandleSubmit
  <2>3. CASE AnswerEnqueue
    BY <1>0, <1>s, <2>1, <2>3 DEF AnswerEnqueue, ShellShape
  <2>4. ASSUME NEW a \in Answerer, OtherEnqueue(a) PROVE RowsStay
    <3>1. CASE trows' = Enqueued("other-answer")
      BY <1>0, <2>1, <3>1
    <3>2. CASE trows' = NewRow("other-answer")
      BY <1>0, <3>2, NewRows
    <3> QED
      BY <2>4, <3>1, <3>2 DEF OtherEnqueue
  <2>5. ASSUME NEW i \in DOMAIN trows, CompleteTask(i) PROVE RowsStay
    <3>1. trows[i] \in Row
      BY <1>0, ElementOfSeq
    <3>2. /\ DOMAIN trows' = DOMAIN trows
          /\ \A j \in DOMAIN trows : trows'[j] =
                IF j = i THEN [trows[i] EXCEPT !.status = "completed"] ELSE trows[j]
      BY <2>5 DEF CompleteTask
    <3> QED
      BY <3>1, <3>2 DEF Row
  <2>6. CASE UNCHANGED trows
    BY <2>6
  <2> QED
    BY <2>2, <2>3, <2>4, <2>5, <2>6
    DEF ShellNext, ShellStep, shellVars, ShellStart, NotifyLoad, NotifyOne, NotifySave,
        NotifyFails, GetUpdates, PollFails, HandleOther, HandleCancel, AnswerValidate,
        AnswerRecord, HandleFails, RememberOffset, ShellCrash, OtherValidate, OtherRecord, Receive
<1>2. SaidStays
  <2> USE DEF SaidStays
  <2>1. ASSUME NEW s \in Saying, Receive(s) PROVE SaidStays
    <3>1. server'.said = Append(server.said, s)
      BY <1>0, <2>1 DEF Receive
    <3>2. /\ Len(server'.said) = Len(server.said) + 1
          /\ \A i \in 1..Len(server.said) : server'.said[i] = server.said[i]
      BY <1>0, <3>1, AppendProperties
    <3>3. Len(server.said) < MaxUpdates
      BY <2>1 DEF Receive
    <3> QED
      BY <1>0, <3>2, <3>3
  <2>2. ASSUME NEW n \in 0..Len(server.said), GetUpdates(n) PROVE SaidStays
    <3>1. server'.said = server.said
      BY <1>0, <2>2 DEF GetUpdates
    <3> QED
      BY <1>0, <3>1 DEF ShellBounds
  <2>3. CASE UNCHANGED server
    BY <1>0, <2>3 DEF ShellBounds
  <2> QED
    BY <2>1, <2>2, <2>3
    DEF ShellNext, ShellStep, shellVars, ShellStart, NotifyLoad, NotifyOne, NotifySave,
        NotifyFails, PollFails, HandleSubmit, HandleOther, HandleCancel, AnswerValidate,
        AnswerEnqueue, AnswerRecord, HandleFails, RememberOffset, ShellCrash, OtherValidate,
        OtherEnqueue, OtherRecord, CompleteTask
<1>3. FaultsCount
  <2> USE DEF FaultsCount
  <2>1. CASE tally'.faults = tally.faults
    BY <1>0, <2>1 DEF ShellBounds
  <2>2. CASE tally.faults < MaxShellFaults /\ tally'.faults = tally.faults + 1
    BY <1>0, <2>2
  <2>3. ASSUME Fault PROVE FaultsCount
    BY <1>0, <2>2, <2>3 DEF Fault, AnyTally
  <2>4. ASSUME Handled, shell.todo # <<>> PROVE FaultsCount
    BY <1>0, <2>1, <2>4, HandledPast
  <2>5. CASE HandleFails
    <3>1. tally'.faults = tally.faults + 1 /\ tally.faults < MaxShellFaults
      BY <1>0, <2>5, FailsPast DEF HandleFails
    <3> QED
      BY <2>2, <3>1
  <2>6. CASE AnswerRecord
    BY <1>0, <2>4, <2>6 DEF AnswerRecord, ShellShape
  <2>7. CASE NotifyOne
    BY <1>0, <2>1, <2>7 DEF NotifyOne, AnyTally
  <2>8. CASE UNCHANGED tally
    BY <2>1, <2>8
  <2> QED
    BY <2>3, <2>4, <2>5, <2>6, <2>7, <2>8
    DEF ShellNext, ShellStep, shellVars, ShellStart, NotifyLoad, NotifySave, NotifyFails,
        GetUpdates, PollFails, HandleSubmit, HandleOther, HandleCancel, AnswerValidate,
        AnswerEnqueue, RememberOffset, ShellCrash, OtherValidate, OtherEnqueue, OtherRecord,
        Receive, CompleteTask
<1> QED
  BY <1>1, <1>2, <1>3

\* What every proof about a step starts from.
LEMMA ShellFacts ==
    ASSUME ShellInv
    PROVE  /\ ShellTyped /\ ShellBounds /\ ShellShape
           /\ shell \in AnyShell /\ shell.offset \in Nat /\ shell.todo \in Seq(1..MaxUpdates)
           /\ shell.list \subseteq Nat /\ shell.notified \subseteq Nat
           /\ disk \in [offset : Nat, notified : SUBSET Nat, torn : BOOLEAN]
           /\ server \in [said : Seq(Saying), confirmed : Nat]
           /\ server.said \in Seq(Saying) /\ Len(server.said) \in Nat
           /\ trows \in Seq(Row) /\ Len(trows) \in Nat /\ DOMAIN trows = 1..Len(trows)
           /\ outcomes \in Seq(ShellOutcome) /\ Len(outcomes) \in Nat
           /\ DOMAIN outcomes = 1..Len(outcomes)
           /\ tally \in AnyTally /\ tally.handled \in [1..MaxUpdates -> Nat]
           /\ tally.sent \in Seq(Nat) /\ tally.faults \in Nat
           /\ NextUpdate \in Nat \ {0}
<1>1. ShellTyped /\ ShellBounds /\ ShellShape
  BY DEF ShellInv
<1>2. shell \in AnyShell /\ tally \in AnyTally
  BY <1>1 DEF ShellTyped
<1>3. /\ shell.offset \in Nat /\ shell.todo \in Seq(1..MaxUpdates)
      /\ shell.list \subseteq Nat /\ shell.notified \subseteq Nat
  BY <1>2 DEF AnyShell
<1>4. server.said \in Seq(Saying) /\ trows \in Seq(Row) /\ outcomes \in Seq(ShellOutcome)
  BY <1>1 DEF ShellTyped
<1>5. /\ Len(server.said) \in Nat /\ Len(trows) \in Nat /\ DOMAIN trows = 1..Len(trows)
      /\ Len(outcomes) \in Nat /\ DOMAIN outcomes = 1..Len(outcomes)
  BY <1>4, LenProperties
<1>6. /\ tally.handled \in [1..MaxUpdates -> Nat]
      /\ tally.sent \in Seq(Nat) /\ tally.faults \in Nat
  BY <1>2 DEF AnyTally
<1> QED
  BY <1>1, <1>2, <1>3, <1>4, <1>5, <1>6 DEF ShellTyped, NextUpdate

\* The steps that handle an update to its end.
Handles == /\ HandleSubmit \/ HandleOther \/ HandleCancel \/ AnswerRecord \/ HandleFails
              \/ (AnswerValidate /\ ~QuestionPending)

LEMMA HandlesPast ==
    ASSUME ShellInv, Handles
    PROVE  Past /\ shell.pc \in Handling /\ UNCHANGED <<disk, server>>
<1>1. shell.todo # <<>> /\ ShellTyped /\ ShellShape
  BY ShellFacts
  DEF Handles, HandleSubmit, HandleOther, HandleCancel, AnswerRecord, HandleFails,
      AnswerValidate, ShellShape
<1>2. CASE HandleFails
  BY <1>1, <1>2, FailsPast DEF HandleFails, Handling
<1>3. CASE ~HandleFails
  <2>1. Handled /\ shell.pc \in Handling /\ UNCHANGED <<disk, server>>
    BY <1>3
    DEF Handles, HandleSubmit, HandleOther, HandleCancel, AnswerRecord, AnswerValidate, Handling
  <2> QED
    BY <1>1, <2>1, HandledPast
<1> QED
  BY <1>2, <1>3

LEMMA ShellBoundsStep == ShellInv /\ [ShellNext]_shellVars => ShellBounds'
<1> SUFFICES ASSUME ShellInv, [ShellNext]_shellVars PROVE ShellBounds'
  OBVIOUS
<1>0. /\ ShellBounds /\ ShellShape /\ shell \in AnyShell
      /\ disk \in [offset : Nat, notified : SUBSET Nat, torn : BOOLEAN]
      /\ server \in [said : Seq(Saying), confirmed : Nat]
      /\ Len(server.said) \in Nat /\ NextUpdate \in Nat \ {0}
      /\ shell.list \subseteq Nat /\ ShellTyped
  BY ShellFacts
<1>w. RowsStay /\ SaidStays /\ FaultsCount /\ ShellTyped'
  BY WhatStays, ShellTypesStep
<1>l. Len(server'.said) \in Nat
  BY <1>w, LenProperties DEF ShellTyped
<1> SUFFICES /\ shell'.list \subseteq DOMAIN trows /\ shell'.notified \subseteq DOMAIN trows
             /\ disk'.notified \subseteq DOMAIN trows
             /\ server'.confirmed <= Len(server.said) /\ server'.confirmed \in Nat
  <2>1. server'.confirmed <= Len(server.said) /\ server'.confirmed \in Nat
          => server'.confirmed <= Len(server'.said)
    BY <1>0, <1>w, <1>l DEF SaidStays
  <2> QED
    BY <1>w, <2>1 DEF ShellBounds, RowsStay, SaidStays, FaultsCount
<1>u. /\ shell.list \subseteq DOMAIN trows /\ shell.notified \subseteq DOMAIN trows
      /\ disk.notified \subseteq DOMAIN trows
      /\ server.confirmed <= Len(server.said) /\ server.confirmed \in Nat
  BY <1>0 DEF ShellBounds
<1>1. CASE Handles
  BY <1>0, <1>u, <1>1, HandlesPast, PastFields
<1>2. CASE NotifyLoad
  BY <1>0, <1>u, <1>2 DEF NotifyLoad, AnyShell
<1>3. CASE NotifyOne
  <2>1. NextNotice \in DOMAIN trows
    BY <1>0, <1>u, <1>3, NextNoticeListed DEF NotifyOne
  <2> QED
    BY <1>0, <1>u, <1>3, <2>1 DEF NotifyOne, AnyShell
<1>4. CASE NotifySave
  BY <1>0, <1>u, <1>4 DEF NotifySave, Announced, AnyShell
<1>5. ASSUME NEW n \in 0..Len(server.said), GetUpdates(n)
      PROVE  /\ shell'.list \subseteq DOMAIN trows /\ shell'.notified \subseteq DOMAIN trows
             /\ disk'.notified \subseteq DOMAIN trows
             /\ server'.confirmed <= Len(server.said) /\ server'.confirmed \in Nat
  <2>1. NextUpdate + n <= Len(server.said) + 1 /\ server'.confirmed = NextUpdate - 1
    BY <1>0, <1>5 DEF GetUpdates, NextUpdate
  <2>2. shell'.list = shell.list /\ shell'.notified = shell.notified /\ disk' = disk
    BY <1>0, <1>5 DEF GetUpdates, AnyShell
  <2> QED
    BY <1>0, <1>u, <2>1, <2>2
<1>6. CASE UNCHANGED <<shell, disk, server>>
  BY <1>u, <1>6
<1>7. ASSUME NEW s \in Saying, Receive(s)
      PROVE  server'.confirmed = server.confirmed /\ UNCHANGED <<shell, disk>>
  BY <1>0, <1>7 DEF Receive
<1>8. CASE ShellStart
  BY <1>0, <1>u, <1>8 DEF ShellStart, AnyShell
<1>9. CASE NotifyFails
  <2>1. shell'.list = {} /\ shell'.notified = {} /\ server' = server
    BY <1>0, <1>9 DEF NotifyFails, AnyShell
  <2>2. disk'.notified \in {disk.notified, shell.notified}
    BY <1>0, <1>9 DEF NotifyFails, SaveFails, Announced
  <2> QED
    BY <1>0, <1>u, <2>1, <2>2 DEF ShellBounds
<1>10. CASE PollFails
  BY <1>0, <1>u, <1>10 DEF PollFails, AnyShell
<1>11. CASE AnswerValidate /\ QuestionPending
  BY <1>0, <1>u, <1>11 DEF AnswerValidate, AnyShell
<1>12. CASE AnswerEnqueue
  BY <1>0, <1>u, <1>12 DEF AnswerEnqueue, AnyShell
<1>13. CASE RememberOffset
  <2>1. shell'.list = shell.list /\ shell'.notified = shell.notified /\ server' = server
    BY <1>0, <1>13 DEF RememberOffset, AnyShell
  <2>2. disk'.notified = disk.notified
    BY <1>0, <1>13 DEF RememberOffset, SaveFails, Remembered
  <2> QED
    BY <1>u, <2>1, <2>2
<1>14. CASE ShellCrash
  BY <1>0, <1>u, <1>14 DEF ShellCrash, AnyShell
<1> QED
  BY <1>u, <1>1, <1>2, <1>3, <1>4, <1>5, <1>6, <1>7, <1>8, <1>9, <1>10, <1>11, <1>12, <1>13, <1>14
  DEF ShellNext, ShellStep, shellVars, Handles, OtherValidate, OtherEnqueue, OtherRecord, CompleteTask

LEMMA ShellShapeStep == ShellInv /\ [ShellNext]_shellVars => ShellShape'
<1> SUFFICES ASSUME ShellInv, [ShellNext]_shellVars PROVE ShellShape'
  OBVIOUS
<1>0. /\ ShellTyped /\ ShellShape /\ shell \in AnyShell /\ shell.offset \in Nat
      /\ shell.todo \in Seq(1..MaxUpdates) /\ server.said \in Seq(Saying)
      /\ Len(server.said) \in Nat /\ NextUpdate \in Nat \ {0}
      /\ server \in [said : Seq(Saying), confirmed : Nat]
  BY ShellFacts
<1>w. SaidStays /\ ShellTyped'
  BY WhatStays, ShellTypesStep
<1>l. Len(server'.said) \in Nat
  BY <1>w, LenProperties DEF ShellTyped
<1>e. \A n, m : InOrder(<<>>, n, m)
  BY EmptySeq DEF InOrder
\* The update in hand is the same as long as the list is.
<1>i. ASSUME UNCHANGED <<shell.todo, shell.offset, server.confirmed>>
      PROVE  /\ InOrder(shell.todo, NextUpdate, Len(server.said))'
             /\ shell.todo # <<>> => Said' = Said
  <2>1. Len(shell.todo) \in Nat
    BY <1>0, LenProperties
  <2>2. InOrder(shell.todo, NextUpdate, Len(server'.said))
    <3> SUFFICES ASSUME NEW i \in 1..Len(shell.todo) PROVE shell.todo[i] <= Len(server'.said)
      BY <1>0 DEF ShellShape, InOrder
    <3>1. shell.todo[i] <= Len(server.said) /\ shell.todo[i] \in 1..MaxUpdates
      BY <1>0, ElementOfSeq DEF ShellShape, InOrder
    <3>2. MaxUpdates \in Nat
      BY ShellAssumption
    <3> QED
      BY <1>0, <1>w, <1>l, <3>1, <3>2 DEF SaidStays
  <2>3. shell.todo # <<>> => Said' = Said
    BY <1>0, <1>i, <1>w, InHand DEF Said, SaidStays
  <2> QED
    BY <1>i, <2>2, <2>3 DEF NextUpdate
<1>1. CASE Handles
  <2>1. Past /\ shell.pc \in Handling /\ server' = server
    BY <1>1, HandlesPast
  <2>2. /\ shell'.pc = "handle" /\ shell'.todo = Tail(shell.todo)
        /\ shell'.offset = Head(shell.todo) + 1
        /\ shell'.list = shell.list /\ shell'.notified = shell.notified
    BY <1>0, <2>1, PastFields
  <2>3. /\ Head(shell.todo) = NextUpdate /\ Head(shell.todo) \in 1..MaxUpdates
        /\ InOrder(Tail(shell.todo), NextUpdate + 1, Len(server.said))
    BY <1>0, <2>1, InHand DEF Past
  <2>4. NextUpdate' = NextUpdate + 1
    BY <1>0, <2>1, <2>2, <2>3 DEF NextUpdate
  <2>5. InOrder(shell.todo, NextUpdate, Len(server.said))'
    BY <2>1, <2>2, <2>3, <2>4 DEF InOrder
  <2>6. shell'.list = {} /\ shell'.notified = {}
    BY <1>0, <2>1, <2>2 DEF ShellShape, Handling
  <2> QED
    BY <2>2, <2>5, <2>6 DEF ShellShape, Handling
<1>2. CASE NotifyLoad
  BY <1>0, <1>2, <1>e, <1>i DEF NotifyLoad, AnyShell, ShellShape, Handling
<1>3. CASE NotifyOne
  BY <1>0, <1>3, <1>e, <1>i DEF NotifyOne, AnyShell, ShellShape, Handling
<1>4. CASE NotifySave
  BY <1>0, <1>4, <1>e, <1>i DEF NotifySave, AnyShell, ShellShape, Handling
<1>5. ASSUME NEW n \in 0..Len(server.said), GetUpdates(n) PROVE ShellShape'
  <2>1. /\ NextUpdate + n <= Len(server.said) + 1 /\ server'.said = server.said
        /\ server'.confirmed = NextUpdate - 1
        /\ shell'.todo = [i \in 1..n |-> NextUpdate + i - 1] /\ shell'.offset = shell.offset
        /\ shell'.pc = "handle" /\ shell'.list = shell.list /\ shell'.notified = shell.notified
        /\ shell.pc = "poll"
    BY <1>0, <1>5 DEF GetUpdates, NextUpdate, AnyShell
  <2>2. n \in Nat /\ Len(shell'.todo) = n /\ NextUpdate' = NextUpdate
    BY <1>0, <2>1 DEF NextUpdate
  <2>3. InOrder(shell.todo, NextUpdate, Len(server.said))'
    <3> SUFFICES ASSUME NEW i \in 1..n PROVE shell'.todo[i] = NextUpdate + i - 1
                                             /\ shell'.todo[i] <= Len(server.said)
      BY <2>1, <2>2 DEF InOrder
    <3> QED
      BY <1>0, <2>1, <2>2
  <2> QED
    BY <1>0, <2>1, <2>3 DEF ShellShape, Handling
<1>6. CASE UNCHANGED <<shell, server.confirmed>>
  BY <1>0, <1>6, <1>i DEF ShellShape
<1>7. ASSUME NEW s \in Saying, Receive(s) PROVE UNCHANGED <<shell, server.confirmed>>
  BY <1>0, <1>7 DEF Receive
<1>8. CASE ShellStart
  BY <1>0, <1>8, <1>e DEF ShellStart, AnyShell, ShellShape, Handling
<1>9. CASE NotifyFails
  BY <1>0, <1>9, <1>e DEF NotifyFails, AnyShell, ShellShape, Handling
<1>10. CASE PollFails
  BY <1>0, <1>10, <1>e DEF PollFails, AnyShell, ShellShape, Handling
<1>11. CASE AnswerValidate /\ QuestionPending
  BY <1>0, <1>11, <1>i DEF AnswerValidate, AnyShell, ShellShape, Handling
<1>12. CASE AnswerEnqueue
  BY <1>0, <1>12, <1>i DEF AnswerEnqueue, AnyShell, ShellShape, Handling
<1>13. CASE RememberOffset
  BY <1>0, <1>13, <1>e DEF RememberOffset, AnyShell, ShellShape, Handling
<1>14. CASE ShellCrash
  BY <1>0, <1>14, <1>e DEF ShellCrash, AnyShell, ShellShape, Handling
<1> QED
  BY <1>1, <1>2, <1>3, <1>4, <1>5, <1>6, <1>7, <1>8, <1>9, <1>10, <1>11, <1>12, <1>13, <1>14
  DEF ShellNext, ShellStep, shellVars, Handles, OtherValidate, OtherEnqueue, OtherRecord, CompleteTask

-----------------------------------------------------------------------------
(***************************************************************************)
(* Updates.                                                                *)
(***************************************************************************)
LEMMA UpdatesFrame ==
    ASSUME ShellInv, tally'.faults \in Nat, tally'.faults >= tally.faults,
           tally'.handled = tally.handled, shell'.offset = shell.offset,
           shell'.pc = "down" <=> shell.pc = "down",
           disk'.offset = disk.offset, server'.confirmed = server.confirmed
    PROVE  UpdatesKept'
<1>1. UpdatesKept /\ tally.faults \in Nat
  BY ShellFacts DEF ShellInv
<1> QED
  BY <1>1 DEF UpdatesKept, NextUpdate

LEMMA UpdatesStep == ShellInv /\ [ShellNext]_shellVars => UpdatesKept'
<1> SUFFICES ASSUME ShellInv, [ShellNext]_shellVars PROVE UpdatesKept'
  OBVIOUS
<1>0. /\ ShellTyped /\ ShellShape /\ shell \in AnyShell /\ shell.offset \in Nat
      /\ disk \in [offset : Nat, notified : SUBSET Nat, torn : BOOLEAN]
      /\ server \in [said : Seq(Saying), confirmed : Nat] /\ Len(server.said) \in Nat
      /\ tally \in AnyTally /\ tally.handled \in [1..MaxUpdates -> Nat]
      /\ tally.faults \in Nat /\ NextUpdate \in Nat \ {0} /\ UpdatesKept
  BY ShellFacts DEF ShellInv
<1>w. tally'.faults \in Nat /\ tally'.faults >= tally.faults
  <2>1. tally' \in AnyTally /\ tally.faults <= tally'.faults
    BY WhatStays, ShellTypesStep DEF ShellTyped, FaultsCount
  <2> QED
    BY <1>0, <2>1 DEF AnyTally
<1>f. ASSUME Fault PROVE tally'.handled = tally.handled /\ tally'.faults > 0
  BY <1>0, <1>f DEF Fault, AnyTally
<1>1. CASE Handles
  <2> DEFINE h == Head(shell.todo)
  <2>1. Past /\ shell.pc \in Handling /\ UNCHANGED <<disk, server>>
    BY <1>1, HandlesPast
  <2>2. shell'.pc = "handle" /\ shell'.offset = h + 1
    BY <1>0, <2>1, PastFields
  <2>3. h = NextUpdate /\ h \in 1..MaxUpdates
    BY <1>0, <2>1, InHand DEF Past
  <2>4. tally'.handled = [tally.handled EXCEPT ![h] = @ + 1]
    BY <2>1 DEF Past
  <2>5. /\ tally'.handled[h] = tally.handled[h] + 1 /\ tally.handled[h] \in Nat
        /\ \A u \in 1..MaxUpdates : u # h => tally'.handled[u] = tally.handled[u]
    BY <1>0, <2>3, <2>4
  <2>6. h \in Nat /\ h > 0 /\ NextUpdate' = h + 1
    BY <1>0, <2>1, <2>2, <2>3 DEF NextUpdate
  <2>7. shell.pc # "down"
    BY <2>1 DEF Handling
  <2> HIDE DEF h
  <2>8. ASSUME NEW u \in 1..MaxUpdates
        PROVE  /\ tally.handled[u] > 0 => tally'.handled[u] > 0
               /\ u < h => tally.handled[u] > 0
               /\ u < h + 1 => u < h \/ u = h
               /\ tally.faults = 0 => (u > h => tally.handled[u] = 0)
                                      /\ tally.handled[u] <= 1 /\ tally.handled[h] = 0
    <3>1. u \in Nat /\ h \in 1..MaxUpdates /\ tally.handled[u] \in Nat
      <4>1. tally.handled \in [1..MaxUpdates -> Nat]
        BY <1>0
      <4>2. tally.handled[u] \in Nat
        BY <4>1
      <4> QED
        BY <2>3, <4>2
    <3>2. u < h => tally.handled[u] > 0
      <4>1. h = shell.offset \/ h = server.confirmed + 1
        BY <1>0, <2>3 DEF NextUpdate
      <4> QED
        BY <1>0, <2>7, <3>1, <4>1 DEF UpdatesKept
    <3>3. tally.faults = 0 => (u > h => tally.handled[u] = 0)
                              /\ tally.handled[u] <= 1 /\ tally.handled[h] = 0
      BY <1>0, <2>3, <2>6, <3>1 DEF UpdatesKept
    <3> QED
      BY <2>5, <2>6, <3>1, <3>2, <3>3
  <2>9. \A u \in 1..MaxUpdates :
           /\ u <= server'.confirmed \/ u < disk'.offset => tally'.handled[u] > 0
           /\ u < shell'.offset => tally'.handled[u] > 0
    BY <1>0, <2>1, <2>2, <2>5, <2>8 DEF UpdatesKept
  <2>10. tally'.faults = 0 => \A u \in 1..MaxUpdates :
           /\ tally'.handled[u] <= 1
           /\ u >= h + 1 => tally'.handled[u] = 0
    <3> SUFFICES ASSUME tally'.faults = 0, NEW u \in 1..MaxUpdates
                 PROVE  tally'.handled[u] <= 1 /\ (u >= h + 1 => tally'.handled[u] = 0)
      OBVIOUS
    <3>1. tally.faults = 0
      BY <1>0, <1>w
    <3> QED
      BY <2>5, <2>6, <2>8, <3>1
  <2> QED
    BY <2>2, <2>6, <2>9, <2>10 DEF UpdatesKept
<1>2. ASSUME NEW n \in 0..Len(server.said), GetUpdates(n) PROVE UpdatesKept'
  <2>1. /\ server'.confirmed = NextUpdate - 1 /\ shell'.offset = shell.offset
        /\ shell'.pc = "handle" /\ shell.pc = "poll" /\ disk' = disk /\ tally' = tally
    BY <1>0, <1>2 DEF GetUpdates, NextUpdate, AnyShell
  <2>2. \A u \in 1..MaxUpdates : u <= NextUpdate - 1 => u < shell.offset \/ u <= server.confirmed
    BY <1>0 DEF NextUpdate
  <2>3. NextUpdate' = NextUpdate
    BY <1>0, <2>1 DEF NextUpdate
  <2> QED
    BY <1>0, <2>1, <2>2, <2>3 DEF UpdatesKept
<1>3. CASE ShellStart
  <2>1. /\ shell.pc = "down" /\ shell'.pc = "load" /\ shell'.offset = disk.offset
        /\ disk' = disk /\ server' = server /\ tally' = tally
    BY <1>0, <1>3 DEF ShellStart, AnyShell
  <2> QED
    BY <1>0, <2>1 DEF UpdatesKept
<1>4. CASE ShellCrash
  <2>1. /\ shell'.pc = "down" /\ disk'.offset = disk.offset /\ server' = server
        /\ tally'.handled = tally.handled /\ tally'.faults > 0
    BY <1>0, <1>f, <1>4 DEF ShellCrash, AnyShell
  <2> QED
    BY <1>0, <1>w, <2>1 DEF UpdatesKept
<1>5. CASE RememberOffset
  <2>1. /\ shell.pc = "handle" /\ shell'.pc = "load" /\ shell'.offset = shell.offset
        /\ server' = server /\ tally'.handled = tally.handled
    BY <1>0, <1>f, <1>5 DEF RememberOffset, AnyShell
  <2>2. disk'.offset = disk.offset \/ disk'.offset = shell.offset
    BY <1>0, <1>5 DEF RememberOffset, SaveFails, Remembered
  <2>3. NextUpdate' = NextUpdate
    BY <2>1 DEF NextUpdate
  <2>4. tally'.faults = 0 => tally.faults = 0
    BY <1>0, <1>w
  <2> QED
    BY <1>0, <2>1, <2>2, <2>3, <2>4 DEF UpdatesKept
\* The others neither handle nor save nor move on.
<1>6. CASE NotifyLoad
  BY <1>0, <1>w, <1>6, UpdatesFrame DEF NotifyLoad, AnyShell
<1>7. CASE NotifyOne
  <2>1. /\ shell'.pc = shell.pc /\ shell'.offset = shell.offset /\ disk' = disk /\ server' = server
        /\ tally'.handled = tally.handled
    BY <1>0, <1>7 DEF NotifyOne, AnyShell, AnyTally
  <2> QED
    BY <1>w, <2>1, UpdatesFrame
<1>8. CASE NotifySave
  BY <1>0, <1>w, <1>8, UpdatesFrame DEF NotifySave, Announced, AnyShell
<1>9. CASE NotifyFails
  <2>1. disk'.offset = disk.offset
    BY <1>0, <1>9 DEF NotifyFails, SaveFails, Announced
  <2> QED
    BY <1>0, <1>f, <1>w, <1>9, <2>1, UpdatesFrame DEF NotifyFails, AnyShell
<1>10. CASE PollFails
  BY <1>0, <1>f, <1>w, <1>10, UpdatesFrame DEF PollFails, AnyShell
<1>11. CASE AnswerValidate /\ QuestionPending
  BY <1>0, <1>w, <1>11, UpdatesFrame DEF AnswerValidate, AnyShell
<1>12. CASE AnswerEnqueue
  BY <1>0, <1>w, <1>12, UpdatesFrame DEF AnswerEnqueue, AnyShell
<1>13. ASSUME NEW s \in Saying, Receive(s) PROVE UpdatesKept'
  BY <1>0, <1>w, <1>13, UpdatesFrame DEF Receive
<1>14. CASE UNCHANGED <<shell, disk, server, tally>>
  BY <1>w, <1>14, UpdatesFrame
<1> QED
  BY <1>1, <1>2, <1>3, <1>4, <1>5, <1>6, <1>7, <1>8, <1>9, <1>10, <1>11, <1>12, <1>13, <1>14
  DEF ShellNext, ShellStep, shellVars, Handles, OtherValidate, OtherEnqueue, OtherRecord, CompleteTask

-----------------------------------------------------------------------------
(***************************************************************************)
(* Notices.                                                                *)
(***************************************************************************)
LEMMA NoticesFrame ==
    ASSUME ShellInv, tally'.faults \in Nat, tally'.faults >= tally.faults, RowsStay,
           ShellBounds', tally'.sent = tally.sent, disk'.notified = disk.notified,
           \/ UNCHANGED <<shell.pc, shell.list, shell.notified>>
           \/ shell'.pc # "notify" /\ shell'.notified = shell.notified
           \/ shell'.pc # "notify" /\ shell'.notified = {} /\ tally'.faults > 0
    PROVE  NoticesKept'
<1>1. /\ NoticesKept /\ ShellBounds /\ tally.faults \in Nat
      /\ tally.sent \in Seq(Nat) /\ DOMAIN tally.sent = 1..Len(tally.sent)
  <2>1. tally.sent \in Seq(Nat)
    BY ShellFacts
  <2> QED
    BY <2>1, LenProperties, ShellFacts DEF ShellInv
<1>2. \A i : Sent(i)' = Sent(i)
  BY DEF Sent
\* No notice was sent about a row that is new.
<1>3. ASSUME NEW i \in DOMAIN trows', i \notin DOMAIN trows
      PROVE  Sent(i) = 0 /\ i \notin disk.notified \cup shell.notified
  BY <1>1, <1>3 DEF NoticesKept, Sent, ShellBounds
<1>4. DOMAIN tally'.sent \subseteq DOMAIN trows'
  BY <1>1 DEF NoticesKept, RowsStay
<1>5. shell'.notified = shell.notified \/ (shell'.notified = {} /\ tally'.faults > 0)
  OBVIOUS
<1>6. ASSUME NEW i \in DOMAIN trows', i \in disk'.notified \cup shell'.notified
      PROVE  Sent(i)' > 0
  BY <1>1, <1>2, <1>3, <1>5, <1>6 DEF NoticesKept
<1>7. shell'.pc = "notify" =>
          disk'.notified \subseteq shell'.notified /\ shell'.list \cap shell'.notified = {}
  BY <1>1 DEF NoticesKept
<1>8. ASSUME tally'.faults = 0, NEW i \in DOMAIN trows'
      PROVE  Sent(i)' <= 1 /\ (i \notin disk'.notified \cup shell'.notified => Sent(i)' = 0)
  <2>1. tally.faults = 0 /\ shell'.notified = shell.notified
    BY <1>1, <1>5, <1>8
  <2> QED
    BY <1>1, <1>2, <1>3, <2>1 DEF NoticesKept
<1> QED
  BY <1>4, <1>6, <1>7, <1>8 DEF NoticesKept

LEMMA NoticesStep == ShellInv /\ [ShellNext]_shellVars => NoticesKept'
<1> SUFFICES ASSUME ShellInv, [ShellNext]_shellVars PROVE NoticesKept'
  OBVIOUS
<1>0. /\ ShellTyped /\ ShellShape /\ ShellBounds /\ shell \in AnyShell /\ NoticesKept
      /\ disk \in [offset : Nat, notified : SUBSET Nat, torn : BOOLEAN]
      /\ tally \in AnyTally /\ tally.faults \in Nat /\ tally.sent \in Seq(Nat)
      /\ shell.list \subseteq Nat
  BY ShellFacts DEF ShellInv
<1>w. tally'.faults \in Nat /\ tally'.faults >= tally.faults /\ RowsStay /\ ShellBounds'
  <2>1. tally' \in AnyTally /\ tally.faults <= tally'.faults /\ RowsStay
    BY WhatStays, ShellTypesStep DEF ShellTyped, FaultsCount
  <2> QED
    BY <1>0, <2>1, ShellBoundsStep DEF AnyTally
<1>f. ASSUME Fault PROVE tally'.sent = tally.sent /\ tally'.faults > 0
  BY <1>0, <1>f DEF Fault, AnyTally
<1>s. ASSUME NEW i PROVE Sent(i) \in Nat
  BY <1>0, LenProperties, ElementOfSeq DEF Sent
<1>1. CASE Handles
  <2>1. Past /\ UNCHANGED <<disk, server>>
    BY <1>1, HandlesPast
  <2>2. shell'.pc = "handle" /\ shell'.notified = shell.notified /\ tally'.sent = tally.sent
    BY <1>0, <2>1, PastFields DEF Past
  <2> QED
    BY <1>w, <2>1, <2>2, NoticesFrame
<1>2. CASE NotifyLoad
  <2>1. /\ shell.notified = {} /\ shell'.pc = "notify" /\ shell'.notified = disk.notified
        /\ shell'.list \cap disk.notified = {} /\ disk' = disk /\ trows' = trows /\ tally' = tally
    BY <1>0, <1>2 DEF NotifyLoad, AnyShell, ShellShape
  <2>2. \A i : Sent(i)' = Sent(i)
    BY <2>1 DEF Sent
  <2> QED
    BY <1>0, <2>1, <2>2 DEF NoticesKept
<1>3. CASE NotifyOne
  <2> DEFINE m == NextNotice
  <2>1. m \in shell.list /\ shell.pc = "notify" /\ m \in DOMAIN trows
    BY <1>0, <1>3, NextNoticeListed DEF NotifyOne, ShellBounds
  <2>2. /\ shell'.pc = "notify" /\ shell'.list = shell.list \ {m}
        /\ shell'.notified = shell.notified \cup {m} /\ disk' = disk /\ trows' = trows
        /\ tally'.sent = [i \in DOMAIN trows |-> Sent(i) + (IF i = m THEN 1 ELSE 0)]
        /\ tally'.faults = tally.faults
    BY <1>0, <1>3 DEF NotifyOne, AnyShell, AnyTally
  <2> HIDE DEF m
  <2>3. ASSUME NEW i \in DOMAIN trows
        PROVE  /\ Sent(i)' = Sent(i) + (IF i = m THEN 1 ELSE 0) /\ Sent(i) \in Nat
    BY <1>s, <2>2 DEF Sent
  <2>4. m \notin shell.notified /\ m \notin disk.notified
    BY <1>0, <2>1 DEF NoticesKept
  <2>5. DOMAIN tally'.sent = DOMAIN trows
    BY <2>2
  <2>6. ASSUME NEW i \in DOMAIN trows
        PROVE  /\ i \in disk'.notified \cup shell'.notified => Sent(i)' > 0
               /\ tally.faults = 0 =>
                     /\ Sent(i)' <= 1
                     /\ i \notin disk'.notified \cup shell'.notified => Sent(i)' = 0
    BY <1>0, <2>2, <2>3, <2>4 DEF NoticesKept
  <2>7. disk'.notified \subseteq shell'.notified /\ shell'.list \cap shell'.notified = {}
    BY <1>0, <2>1, <2>2 DEF NoticesKept
  <2> QED
    BY <2>2, <2>5, <2>6, <2>7 DEF NoticesKept
<1>4. CASE NotifySave
  <2>1. /\ shell.pc = "notify" /\ shell'.pc = "poll" /\ shell'.notified = {}
        /\ disk'.notified = shell.notified /\ trows' = trows /\ tally' = tally
    BY <1>0, <1>4 DEF NotifySave, Announced, AnyShell
  <2>2. \A i : Sent(i)' = Sent(i)
    BY <2>1 DEF Sent
  <2> QED
    BY <1>0, <2>1, <2>2 DEF NoticesKept
<1>5. CASE NotifyFails
  <2>1. /\ shell.pc = "notify" /\ shell'.pc = "load" /\ shell'.notified = {}
        /\ trows' = trows /\ tally'.sent = tally.sent /\ tally'.faults > 0
    BY <1>0, <1>f, <1>5 DEF NotifyFails, AnyShell
  <2>2. disk'.notified \in {disk.notified, shell.notified}
    BY <1>0, <1>5 DEF NotifyFails, SaveFails, Announced
  <2>3. \A i : Sent(i)' = Sent(i)
    BY <2>1 DEF Sent
  <2> QED
    BY <1>0, <2>1, <2>2, <2>3 DEF NoticesKept
<1>6. CASE ShellCrash
  BY <1>0, <1>f, <1>w, <1>6, NoticesFrame DEF ShellCrash, AnyShell
<1>7. ASSUME NEW n \in 0..Len(server.said), GetUpdates(n) PROVE NoticesKept'
  BY <1>0, <1>w, <1>7, NoticesFrame DEF GetUpdates, AnyShell
<1>8. CASE ShellStart
  BY <1>0, <1>w, <1>8, NoticesFrame DEF ShellStart, AnyShell
<1>9. CASE PollFails
  BY <1>0, <1>f, <1>w, <1>9, NoticesFrame DEF PollFails, AnyShell
<1>10. CASE AnswerValidate /\ QuestionPending
  BY <1>0, <1>w, <1>10, NoticesFrame DEF AnswerValidate, AnyShell
<1>11. CASE AnswerEnqueue
  BY <1>0, <1>w, <1>11, NoticesFrame DEF AnswerEnqueue, AnyShell
<1>12. CASE RememberOffset
  <2>1. /\ shell'.pc = "load" /\ shell'.notified = shell.notified /\ tally'.sent = tally.sent
        /\ disk'.notified = disk.notified
    BY <1>0, <1>f, <1>12 DEF RememberOffset, SaveFails, Remembered, AnyShell
  <2> QED
    BY <1>w, <2>1, NoticesFrame
<1>13. CASE UNCHANGED <<shell, disk, tally>>
  BY <1>w, <1>13, NoticesFrame
<1> QED
  BY <1>1, <1>2, <1>3, <1>4, <1>5, <1>6, <1>7, <1>8, <1>9, <1>10, <1>11, <1>12, <1>13
  DEF ShellNext, ShellStep, shellVars, Handles, OtherValidate, OtherEnqueue, OtherRecord, CompleteTask,
      Receive

-----------------------------------------------------------------------------
(***************************************************************************)
(* Answers.                                                                *)
(***************************************************************************)
StillHasRow(key) == \E j \in DOMAIN trows' : trows'[j].key = key

\* Rows are not taken back, so neither is a resume task.
LEMMA RowStays == RowsStay => \A key : HasRow(key) => StillHasRow(key)
BY DEF RowsStay, HasRow, StillHasRow

\* What one more receipt does to the recorded answers.
LEMMA OneMoreOutcome ==
    ASSUME outcomes \in Seq(ShellOutcome), NEW o \in ShellOutcome, outcomes' = Append(outcomes, o)
    PROVE  /\ Recorded' = IF o.action = "answer" THEN Recorded \cup {Len(outcomes) + 1} ELSE Recorded
           /\ ShellRecorded' = IF o.action = "answer" /\ o.by = "shell"
                               THEN ShellRecorded \cup {Len(outcomes) + 1} ELSE ShellRecorded
           /\ outcomes'[Len(outcomes) + 1] = o
           /\ \A i \in Recorded : outcomes'[i] = outcomes[i]
<1>1. /\ Len(outcomes) \in Nat /\ DOMAIN outcomes = 1..Len(outcomes)
      /\ outcomes' \in Seq(ShellOutcome) /\ Len(outcomes') = Len(outcomes) + 1
      /\ \A i \in 1..Len(outcomes) : outcomes'[i] = outcomes[i]
      /\ outcomes'[Len(outcomes) + 1] = o
  BY LenProperties, AppendProperties
<1>2. DOMAIN outcomes' = 1..Len(outcomes) + 1
  BY <1>1, LenProperties
<1>3. Recorded' = IF o.action = "answer" THEN Recorded \cup {Len(outcomes) + 1} ELSE Recorded
  BY <1>1, <1>2 DEF Recorded
<1>4. \A i \in Recorded : outcomes'[i] = outcomes[i]
  BY <1>1 DEF Recorded
<1> QED
  BY <1>1, <1>3, <1>4 DEF ShellRecorded, Recorded

\* No answer is recorded when the question is pending.
LEMMA PendingUnrecorded == QuestionPending => Recorded = {}
BY DEF QuestionPending, Told, Recorded

\* The answers are kept by a step that records none and leaves the shell
\* where it is or takes it away from answering.
LEMMA AnswersFrame ==
    ASSUME ShellInv, RowsStay, Recorded' = Recorded, ShellRecorded' = ShellRecorded,
           \A i \in Recorded : outcomes'[i] = outcomes[i],
           \A a \in Answerer : others'[a] = "enqueued" =>
              others[a] = "enqueued" \/ StillHasRow("other-answer"),
           \/ shell'.pc = shell.pc /\ (shell.pc = "enqueued" => Said' = Said)
           \/ shell'.pc \notin {"validated", "enqueued"}
    PROVE  AnswersKept'
<1>1. AnswersKept
  BY DEF ShellInv
<1>2. \A i \in Recorded' : StillHasRow(outcomes'[i].key)
  BY <1>1, RowStays DEF AnswersKept
<1>3. \A a \in Answerer : others'[a] = "enqueued" => StillHasRow("other-answer")
  BY <1>1, RowStays DEF AnswersKept
<1>4. shell'.pc = "enqueued" => StillHasRow(Said'.key)
  BY <1>1, RowStays DEF AnswersKept
<1>5. shell'.pc \in {"validated", "enqueued"} => ShellRecorded' = {}
  BY <1>1 DEF AnswersKept
<1>6. \A i, j \in ShellRecorded' : i = j
  BY <1>1 DEF AnswersKept
<1> QED
  BY <1>2, <1>3, <1>4, <1>5, <1>6 DEF AnswersKept, HasRow, StillHasRow

LEMMA ShellAnswersStep == ShellInv /\ [ShellNext]_shellVars => AnswersKept'
<1> SUFFICES ASSUME ShellInv, [ShellNext]_shellVars PROVE AnswersKept'
  OBVIOUS
<1>0. /\ ShellTyped /\ ShellShape /\ shell \in AnyShell /\ AnswersKept
      /\ outcomes \in Seq(ShellOutcome) /\ "other-answer" \in Keys /\ trows \in Seq(Row)
      /\ server.said \in Seq(Saying)
  BY ShellFacts DEF ShellInv, Keys
<1>w. RowsStay /\ SaidStays
  BY WhatStays
<1>r. ASSUME UNCHANGED outcomes
      PROVE  /\ Recorded' = Recorded /\ ShellRecorded' = ShellRecorded
             /\ \A i \in Recorded : outcomes'[i] = outcomes[i]
  BY <1>r DEF Recorded, ShellRecorded
\* The answer in hand has a key, and stays the same.
<1>k. ASSUME shell.pc \in {"validated", "enqueued"}
      PROVE  shell.todo # <<>> /\ Said.key \in Keys /\ (shell'.todo = shell.todo => Said' = Said)
  <2>1. shell.todo # <<>>
    BY <1>0, <1>k DEF ShellShape
  <2>2. Said \in Saying /\ Head(shell.todo) \in 1..Len(server.said)
    BY <1>0, <2>1, InHand
  <2>3. shell'.todo = shell.todo => Said' = Said
    BY <1>w, <2>2 DEF Said, SaidStays
  <2> QED
    BY <2>1, <2>2, <2>3 DEF Keys
<1>1. CASE Handles /\ ~AnswerRecord
  <2>1. shell'.pc = "handle"
    BY <1>0, <1>1, HandlesPast, PastFields
  <2>2. others' = others
    BY <1>1 DEF Handles, HandleSubmit, HandleOther, HandleCancel, HandleFails, AnswerValidate
  <2>3. /\ Recorded' = Recorded /\ ShellRecorded' = ShellRecorded
        /\ \A i \in Recorded : outcomes'[i] = outcomes[i]
    <3>1. CASE HandleCancel /\ QuestionPending
      <4> DEFINE o == QuestionReceipt("cancel", "shell", "none")
      <4>1. o \in ShellOutcome /\ o.action = "cancel" /\ outcomes' = Append(outcomes, o)
        BY <3>1 DEF HandleCancel, ShellOutcome, QuestionReceipt
      <4> HIDE DEF o
      <4> QED
        BY <1>0, <4>1, OneMoreOutcome
    <3>2. CASE ~(HandleCancel /\ QuestionPending)
      <4>1. outcomes' = outcomes
        BY <1>1, <3>2
        DEF Handles, HandleSubmit, HandleOther, HandleCancel, HandleFails, AnswerValidate
      <4> QED
        BY <1>r, <4>1
    <3> QED
      BY <3>1, <3>2
  <2> QED
    BY <1>w, <2>1, <2>2, <2>3, AnswersFrame
<1>2. CASE AnswerRecord
  <2> DEFINE o == QuestionReceipt("answer", "shell", Said.key)
  <2>1. shell.pc = "enqueued" /\ shell'.pc = "handle" /\ others' = others
    <3>1. Handles
      BY <1>2 DEF Handles
    <3> QED
      BY <1>0, <1>2, <3>1, HandlesPast, PastFields DEF AnswerRecord
  <2>2. /\ o \in ShellOutcome /\ o.action = "answer" /\ o.by = "shell" /\ o.key = Said.key
        /\ outcomes' = Append(outcomes, o)
    BY <1>2, <1>k, <2>1 DEF AnswerRecord, ShellOutcome, QuestionReceipt
  <2> HIDE DEF o
  <2>3. /\ Recorded' = Recorded \cup {Len(outcomes) + 1}
        /\ ShellRecorded' = ShellRecorded \cup {Len(outcomes) + 1}
        /\ outcomes'[Len(outcomes) + 1] = o /\ \A i \in Recorded : outcomes'[i] = outcomes[i]
    BY <1>0, <2>2, OneMoreOutcome
  <2>4. ShellRecorded = {} /\ HasRow(Said.key)
    BY <1>0, <2>1 DEF AnswersKept
  <2>5. \A i \in Recorded' : StillHasRow(outcomes'[i].key)
    BY <1>0, <1>w, <2>2, <2>3, <2>4, RowStays DEF AnswersKept
  <2>6. \A a \in Answerer : others'[a] = "enqueued" => StillHasRow("other-answer")
    BY <1>0, <1>w, <2>1, RowStays DEF AnswersKept
  <2> QED
    BY <2>1, <2>3, <2>4, <2>5, <2>6 DEF AnswersKept, HasRow, StillHasRow
<1>3. CASE AnswerValidate /\ QuestionPending
  <2>1. shell'.pc = "validated" /\ others' = others /\ outcomes' = outcomes
    BY <1>0, <1>3 DEF AnswerValidate, AnyShell
  <2>2. Recorded = {} /\ ShellRecorded = {}
    BY <1>3, PendingUnrecorded DEF ShellRecorded
  <2>3. Recorded' = {} /\ ShellRecorded' = {}
    BY <1>r, <2>1, <2>2
  <2>4. \A a \in Answerer : others'[a] = "enqueued" => StillHasRow("other-answer")
    BY <1>0, <1>w, <2>1, RowStays DEF AnswersKept
  <2> QED
    BY <2>1, <2>3, <2>4 DEF AnswersKept, HasRow, StillHasRow
<1>4. CASE AnswerEnqueue
  <2>1. /\ shell.pc = "validated" /\ shell'.pc = "enqueued" /\ others' = others
        /\ outcomes' = outcomes /\ shell'.todo = shell.todo
    BY <1>0, <1>4 DEF AnswerEnqueue, AnyShell
  <2>2. Said' = Said /\ Said.key \in Keys /\ trows' = Enqueued(Said.key)
    BY <1>4, <1>k, <2>1 DEF AnswerEnqueue
  <2>3. StillHasRow(Said'.key)
    BY <1>0, <2>2, EnqueuedRows DEF StillHasRow
  <2>4. \A a \in Answerer : others'[a] = "enqueued" => StillHasRow("other-answer")
    BY <1>0, <1>w, <2>1, RowStays DEF AnswersKept
  <2>5. \A i \in Recorded' : StillHasRow(outcomes'[i].key)
    BY <1>0, <1>r, <1>w, <2>1, RowStays DEF AnswersKept
  <2> QED
    BY <1>0, <1>r, <2>1, <2>2, <2>3, <2>4, <2>5 DEF AnswersKept, HasRow, StillHasRow
<1>5. ASSUME NEW a \in Answerer, OtherValidate(a) \/ OtherEnqueue(a) PROVE AnswersKept'
  <2>1. shell' = shell /\ outcomes' = outcomes /\ server' = server
    BY <1>5 DEF OtherValidate, OtherEnqueue
  <2>2. \A b \in Answerer : others'[b] = "enqueued" =>
           others[b] = "enqueued" \/ StillHasRow("other-answer")
    <3>1. others \in [Answerer -> OtherState]
      BY <1>0 DEF ShellTyped
    <3>2. CASE OtherValidate(a)
      BY <3>1, <3>2 DEF OtherValidate
    <3>3. CASE OtherEnqueue(a)
      <4>1. CASE trows' = Enqueued("other-answer")
        BY <1>0, <4>1, EnqueuedRows DEF StillHasRow
      <4>2. CASE trows' = NewRow("other-answer")
        BY <1>0, <4>2, NewRows DEF StillHasRow
      <4> QED
        BY <3>3, <4>1, <4>2 DEF OtherEnqueue
    <3> QED
      BY <1>5, <3>2, <3>3
  <2>3. Said' = Said
    BY <2>1 DEF Said
  <2> QED
    BY <1>r, <1>w, <2>1, <2>2, <2>3, AnswersFrame
<1>6. ASSUME NEW a \in Answerer, OtherRecord(a) PROVE AnswersKept'
  <2> DEFINE o == QuestionReceipt("answer", "other", "other-answer")
  <2>1. /\ others[a] = "enqueued" /\ shell' = shell /\ server' = server
        /\ \A b \in Answerer : others'[b] = "enqueued" => others[b] = "enqueued"
    <3>1. others \in [Answerer -> OtherState]
      BY <1>0 DEF ShellTyped
    <3> QED
      BY <1>6, <3>1 DEF OtherRecord
  <2>2. /\ o \in ShellOutcome /\ o.action = "answer" /\ o.by = "other"
        /\ o.key = "other-answer" /\ outcomes' = Append(outcomes, o)
    BY <1>0, <1>6 DEF OtherRecord, ShellOutcome, QuestionReceipt
  <2> HIDE DEF o
  <2>3. /\ Recorded' = Recorded \cup {Len(outcomes) + 1} /\ ShellRecorded' = ShellRecorded
        /\ outcomes'[Len(outcomes) + 1] = o /\ \A i \in Recorded : outcomes'[i] = outcomes[i]
    BY <1>0, <2>2, OneMoreOutcome
  <2>4. HasRow("other-answer")
    BY <1>0, <2>1 DEF AnswersKept
  <2>5. \A i \in Recorded' : StillHasRow(outcomes'[i].key)
    BY <1>0, <1>w, <2>2, <2>3, <2>4, RowStays DEF AnswersKept
  <2>6. /\ \A b \in Answerer : others'[b] = "enqueued" => StillHasRow("other-answer")
        /\ shell'.pc = "enqueued" => StillHasRow(Said'.key) /\ Said' = Said
    BY <1>0, <1>w, <2>1, <2>4, RowStays DEF AnswersKept, Said
  <2> QED
    BY <1>0, <2>1, <2>3, <2>5, <2>6 DEF AnswersKept, HasRow, StillHasRow
<1>8. ASSUME UNCHANGED <<shell, others, outcomes>> PROVE AnswersKept'
  BY <1>r, <1>k, <1>w, <1>8, AnswersFrame
<1>9. CASE ShellStart \/ NotifyLoad \/ NotifyOne \/ NotifySave \/ NotifyFails \/ PollFails
           \/ RememberOffset \/ ShellCrash \/ \E n \in 0..Len(server.said) : GetUpdates(n)
  <2>1. others' = others /\ outcomes' = outcomes
    BY <1>9
    DEF ShellStart, NotifyLoad, NotifyOne, NotifySave, NotifyFails, PollFails, RememberOffset,
        ShellCrash, GetUpdates
  <2>2. shell'.pc \notin {"validated", "enqueued"}
    BY <1>0, <1>9
    DEF ShellStart, NotifyLoad, NotifyOne, NotifySave, NotifyFails, PollFails, RememberOffset,
        ShellCrash, GetUpdates, AnyShell
  <2> QED
    BY <1>r, <1>w, <2>1, <2>2, AnswersFrame
<1> QED
  BY <1>1, <1>2, <1>3, <1>4, <1>5, <1>6, <1>8, <1>9
  DEF ShellNext, ShellStep, shellVars, Handles, CompleteTask, Receive

-----------------------------------------------------------------------------
LEMMA ShellStepInv == ShellInv /\ [ShellNext]_shellVars => ShellInv'
BY ShellTypesStep, ShellBoundsStep, ShellShapeStep, UpdatesStep, NoticesStep, ShellAnswersStep
DEF ShellInv

\* The shell's state keeps its invariant, whatever fails.
THEOREM ShellInvariance == ShellSpec => []ShellInv
<1>1. ShellInit => ShellInv
  BY ShellInitially
<1>2. ShellInv /\ [ShellNext]_shellVars => ShellInv'
  BY ShellStepInv
<1> QED
  BY <1>1, <1>2, PTL DEF ShellSpec

\* The shell's state has its types.
THEOREM ShellTypes == ShellSpec => []ShellTypeOK
<1>1. ShellInv => ShellTypeOK
  <2> SUFFICES ASSUME ShellInv PROVE ShellTypeOK
    OBVIOUS
  <2>1. /\ ShellTyped /\ ShellBounds /\ shell \in AnyShell
        /\ trows \in Seq(Row) /\ DOMAIN trows = 1..Len(trows)
        /\ disk \in [offset : Nat, notified : SUBSET Nat, torn : BOOLEAN]
        /\ server \in [said : Seq(Saying), confirmed : Nat] /\ Len(server.said) \in Nat
        /\ tally \in AnyTally /\ tally.faults \in Nat
        /\ tally.handled \in [1..MaxUpdates -> Nat]
    BY ShellFacts
  <2>2. ASSUME NEW i \in DOMAIN trows PROVE trows[i].status \in {"active", "completed"}
    <3>1. trows[i] \in Row
      BY <2>1, ElementOfSeq
    <3> QED
      BY <3>1 DEF Row
  <2>3. tally.faults \in 0..MaxShellFaults
    BY <2>1, ShellAssumption DEF ShellBounds
  <2>4. server.confirmed \in 0..Len(server.said) /\ Len(server.said) <= MaxUpdates
    BY <2>1 DEF ShellBounds
  <2>5. /\ shell.pc \in {"down", "load", "notify", "poll", "handle", "validated", "enqueued"}
        /\ shell.offset \in Nat /\ shell.todo \in Seq(1..MaxUpdates)
    BY <2>1 DEF AnyShell, ShellPc
  <2>6. others \in [Answerer -> {"idle", "refused", "validated", "enqueued", "recorded"}]
    BY <2>1 DEF ShellTyped, OtherState
  <2>8. ASSUME NEW i \in DOMAIN outcomes PROVE outcomes[i].action \in {"ask", "answer", "cancel"}
    <3>1. outcomes[i] \in ShellOutcome
      BY ShellFacts, ElementOfSeq
    <3> QED
      BY <3>1 DEF ShellOutcome
  <2>7. /\ shell.notified \cup shell.list \subseteq DOMAIN trows
        /\ disk.notified \subseteq DOMAIN trows /\ disk.offset \in Nat /\ disk.torn \in BOOLEAN
    BY <2>1 DEF ShellBounds
  <2> QED
    BY <2>1, <2>2, <2>3, <2>4, <2>5, <2>6, <2>7, <2>8 DEF ShellTypeOK
<1> QED
  BY <1>1, ShellInvariance, PTL

\* An update Telegram will not send again or the file says is done was
\* handled, a notice the file says was sent was sent, and either is done
\* twice only after a crash or a failed send or save.
THEOREM ShellKeepsItsAccounts == ShellSpec => []ShellAccounts
<1>1. ShellInv => ShellAccounts
  <2> SUFFICES ASSUME ShellInv PROVE ShellAccounts
    OBVIOUS
  <2>1. /\ UpdatesKept /\ NoticesKept /\ tally.faults \in Nat /\ tally.sent \in Seq(Nat)
        /\ tally.handled \in [1..MaxUpdates -> Nat]
    BY ShellFacts DEF ShellInv
  <2>2. ASSUME NEW u \in 1..MaxUpdates, tally.handled[u] > 1 PROVE tally.faults > 0
    <3>1. tally.faults = 0 => tally.handled[u] <= 1
      BY <2>1 DEF UpdatesKept
    <3>2. tally.handled[u] \in Nat
      BY <2>1
    <3> QED
      BY <2>1, <2>2, <3>1, <3>2
  <2>3. ASSUME NEW i \in DOMAIN trows, Sent(i) > 1 PROVE tally.faults > 0
    <3>1. tally.faults = 0 => Sent(i) <= 1
      BY <2>1 DEF NoticesKept
    <3>2. Sent(i) \in Nat
      BY <2>1, LenProperties, ElementOfSeq DEF Sent
    <3> QED
      BY <2>1, <2>3, <3>1, <3>2
  <2>4. \A u \in 1..MaxUpdates : u <= server.confirmed \/ u < disk.offset => tally.handled[u] > 0
    BY <2>1 DEF UpdatesKept
  <2>5. \A i \in DOMAIN trows : i \in disk.notified => Sent(i) > 0
    BY <2>1 DEF NoticesKept
  <2> QED
    BY <2>2, <2>3, <2>4, <2>5 DEF ShellAccounts
<1> QED
  BY <1>1, ShellInvariance, PTL

\* A recorded answer has its resume task, whoever gave it, and the shell
\* records at most one.
THEOREM AnswersAreResumed == ShellSpec => []AnswerHasResume
<1>1. ShellInv => AnswerHasResume
  <2>1. AnswersKept => AnswerHasResume
    BY DEF AnswersKept, AnswerHasResume, HasRow
  <2> QED
    BY <2>1 DEF ShellInv
<1> QED
  BY <1>1, ShellInvariance, PTL
=============================================================================
