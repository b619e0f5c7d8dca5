----------------------------- MODULE AgentProofs -----------------------------
(***************************************************************************)
(* Proofs about an agent's run, for any tools, turns and budgets: its      *)
(* types, the order of conflicting calls (ConflictsInOrder), what a fatal  *)
(* error stops (FatalEndsRun) and the results every request carries        *)
(* (HistoryPaired).                                                        *)
(*                                                                         *)
(* The batches of a turn are computed by a recursive function over its     *)
(* calls.  That such a function exists and has the properties of           *)
(* Partitioned is shown by looking at the least call it could fail at.     *)
(***************************************************************************)
EXTENDS AgentRun, SequenceTheorems, WellFoundedInduction, TLAPS

Kind == {"user", "summary", "text", "use", "results"}
MessageSet == [kind : Kind, ids : Seq(Nat)]
Status == {"waiting", "denied", "running", "done", "fatal"}
Phase == {"idle", "iterate", "request", "judge", "execute", "returned"}
Finish == {"none", "stop", "ack_loop", "budget_exceeded", "error"}
AnyRun == [phase : Phase, iter : Nat, attempt : Nat, compressed : BOOLEAN, acks : Nat,
           turn : Seq(ToolCall), status : Seq(Status), batches : Seq(Seq(Nat)), batch : Nat,
           class : ErrorClass \cup {"none"}, finish : Finish, reflected : BOOLEAN]

AgentTyped == history \in Seq(MessageSet) /\ arun \in AnyRun

AgentBounds ==
    /\ arun.iter <= MaxIterations /\ arun.attempt < RetryMax /\ arun.acks <= AckMax
    /\ arun.batch <= Len(arun.batches) + 1

\* What partitionToolCalls makes of the first n calls of a turn: every call
\* that is not denied is in a batch, the batches and the calls of a batch are
\* in the order of the turn, and the calls of a batch may run together.
Partitioned(turn, batches, n, denied) ==
    /\ \A b \in DOMAIN batches : \A k \in DOMAIN batches[b] :
          batches[b][k] \in (1..n) \ denied
    /\ \A i \in (1..n) \ denied : \E b \in DOMAIN batches : \E k \in DOMAIN batches[b] :
          batches[b][k] = i
    /\ \A b, c \in DOMAIN batches : b < c =>
          \A k \in DOMAIN batches[b], l \in DOMAIN batches[c] : batches[b][k] < batches[c][l]
    /\ \A b \in DOMAIN batches : \A k, l \in DOMAIN batches[b] : k < l =>
          /\ batches[b][k] < batches[b][l]
          /\ CanRunTogether(turn[batches[b][l]], turn[batches[b][k]])

DeniedCalls == {i \in DOMAIN arun.status : arun.status[i] = "denied"}

TurnShape ==
    /\ Len(arun.status) = Len(arun.turn)
    /\ arun.phase \in {"idle", "iterate", "request"} => arun.status = <<>>
    /\ arun.phase = "judge" => \A i \in DOMAIN arun.status : arun.status[i] = "waiting"
    /\ arun.phase = "execute" => arun.batch > 0
    /\ arun.phase # "returned" => arun.finish = "none"
    /\ arun.phase = "returned" /\ Fatal => arun.finish = "error"

\* Once calls were judged: the batches before the current one are done, and
\* no call of a later one was made.
BatchesKept ==
    arun.phase = "execute" \/ Started # {} =>
        /\ Partitioned(arun.turn, arun.batches, Len(arun.turn), DeniedCalls)
        /\ \A b \in DOMAIN arun.batches : \A k \in DOMAIN arun.batches[b] :
              /\ b < arun.batch => arun.status[arun.batches[b][k]] = "done"
              /\ b > arun.batch => arun.status[arun.batches[b][k]] = "waiting"

\* Up to its n-th message, the history answers its calls.
PairedUpTo(h, n) ==
    \A k \in 1..n : h[k].kind = "use" => k < n /\ h[k + 1] = Message("results", h[k].ids)

HistoryKept ==
    /\ arun.phase \in {"idle", "iterate", "request"} => PairedUpTo(history, Len(history))
    /\ arun.phase \in {"judge", "execute"} =>
          /\ history # <<>>
          /\ PairedUpTo(history, Len(history) - 1)
          /\ history[Len(history)] = Message("use", [i \in 1..Len(arun.turn) |-> i])

AgentInv == AgentTyped /\ AgentBounds /\ TurnShape /\ BatchesKept /\ HistoryKept

-----------------------------------------------------------------------------
(***************************************************************************)
(* Induction over the calls of a turn, as a set that the least call not in *)
(* it would contradict.                                                    *)
(***************************************************************************)
LessThan == {p \in Nat \X Nat : p[1] < p[2]}

LEMMA Induction ==
    ASSUME NEW N \in Nat, NEW G, 0 \in G, \A n \in 1..N : n - 1 \in G => n \in G
    PROVE  0..N \subseteq G
<1> DEFINE S == (0..N) \ G
<1> SUFFICES ASSUME S # {} PROVE FALSE
  OBVIOUS
<1>1. OpToRel(<, Nat) = LessThan
  BY Zenon DEF OpToRel, LessThan
<1>2. IsWellFoundedOn(LessThan, Nat)
  BY <1>1, NatLessThanWellFounded, Zenon
<1>3. S \subseteq Nat
  OBVIOUS
<1>4. \E m \in S : \A n \in S : ~(<<n, m>> \in LessThan)
  BY <1>2, <1>3, WFMin, Zenon
<1>5. PICK m \in S : \A n \in S : ~(<<n, m>> \in LessThan)
  BY <1>4
<1>6. m \in 1..N /\ m - 1 \in 0..N /\ m - 1 \in Nat /\ m \in Nat
  BY <1>5
<1>7. m - 1 \in S
  BY <1>5, <1>6
<1>8. <<m - 1, m>> \in LessThan
  BY <1>6 DEF LessThan
<1> QED
  BY <1>5, <1>7, <1>8

-----------------------------------------------------------------------------
(***************************************************************************)
(* Which calls conflict.                                                   *)
(***************************************************************************)
\* Two paths above one file are one above the other.
LEMMA PathsAboveIntersect ==
    ASSUME NEW f, NEW p \in Path, NEW q \in Path, HasPathPrefix(f, p), HasPathPrefix(f, q)
    PROVE  PathsIntersect(p, q)
<1>1. Len(p) \in Nat /\ Len(q) \in Nat
  BY LenProperties DEF Path
<1>2. CASE Len(p) <= Len(q)
  BY <1>1, <1>2 DEF PathsIntersect, HasPathPrefix
<1>3. CASE Len(q) <= Len(p)
  BY <1>1, <1>3 DEF PathsIntersect, HasPathPrefix
<1> QED
  BY <1>1, <1>2, <1>3

\* Paths of which none intersect another have no file in common.
LEMMA NoPairNoFile ==
    ASSUME NEW P \in SUBSET Path, NEW Q \in SUBSET Path, ~AnyPairIntersects(P, Q)
    PROVE  Below(P) \cap Below(Q) = {}
<1> SUFFICES ASSUME NEW f \in Below(P), f \in Below(Q) PROVE FALSE
  OBVIOUS
<1>1. PICK p \in P, q \in Q : HasPathPrefix(f, p) /\ HasPathPrefix(f, q)
  BY DEF Below
<1>2. PathsIntersect(p, q)
  BY <1>1, PathsAboveIntersect
<1> QED
  BY <1>1, <1>2 DEF AnyPairIntersects

\* Calls that may run together and are not both safe do not conflict.
LEMMA TogetherNoConflict ==
    ASSUME NEW a \in ToolCall, NEW b \in ToolCall, CanRunTogether(a, b), ~(a.safe /\ b.safe)
    PROVE  ~Conflict(b, a)
<1>1. ScopeDisjoint(a, b)
  BY DEF CanRunTogether
<1>2. /\ a.reads \in SUBSET Path /\ a.writes \in SUBSET Path
      /\ b.reads \in SUBSET Path /\ b.writes \in SUBSET Path
  BY DEF ToolCall
<1>3. /\ Below(a.writes) \cap Below(b.writes) = {}
      /\ Below(a.writes) \cap Below(b.reads) = {}
      /\ Below(a.reads) \cap Below(b.writes) = {}
  BY <1>1, <1>2, NoPairNoFile DEF ScopeDisjoint
<1>4. ~a.conservative /\ ~b.conservative
  BY <1>1 DEF ScopeDisjoint
<1> QED
  BY <1>3, <1>4 DEF Conflict, Writes, Reads

-----------------------------------------------------------------------------
(***************************************************************************)
(* The batches of a turn.                                                  *)
(***************************************************************************)
ScheduledCall(turn, denied, g, i) ==
    IF i = 0 THEN <<>>
    ELSE IF i \in denied THEN g[i - 1] ELSE Schedule(turn, g[i - 1], i)

\* The function of the definition exists, one call more at a time.
LEMMA SchedulesExist ==
    ASSUME NEW turn, NEW denied, NEW N \in Nat
    PROVE  \E g : g = [i \in 0..N |-> ScheduledCall(turn, denied, g, i)]
<1> DEFINE Step(g, i) == ScheduledCall(turn, denied, g, i)
           Known(g, n) == g = [i \in 0..n |-> Step(g, i)]
           G == {n \in 0..N : \E g : Known(g, n)}
<1>1. 0 \in G
  <2> DEFINE g == [i \in 0..0 |-> <<>>]
  <2>1. \A i \in 0..0 : Step(g, i) = <<>>
    BY DEF ScheduledCall
  <2>2. Known(g, 0)
    BY <2>1
  <2> QED
    BY <2>2
<1>2. ASSUME NEW n \in 1..N, n - 1 \in G PROVE n \in G
  <2>1. PICK g : Known(g, n - 1)
    BY <1>2
  <2> DEFINE h == [i \in 0..n |-> IF i = n THEN Step(g, n) ELSE g[i]]
  <2>2. ASSUME NEW i \in 0..n PROVE h[i] = Step(h, i)
    <3>1. i = 0 \/ (i - 1 \in 0..n /\ i - 1 # n)
      BY <1>2
    <3>2. i = 0 \/ h[i - 1] = g[i - 1]
      BY <3>1
    <3>3. Step(h, i) = Step(g, i)
      BY <3>2 DEF ScheduledCall
    <3>4. CASE i = n
      BY <3>3, <3>4
    <3>5. CASE i # n
      <4>1. i \in 0..n - 1
        BY <1>2, <3>5
      <4>2. g[i] = Step(g, i)
        BY <2>1, <4>1
      <4> QED
        BY <3>3, <3>5, <4>2
    <3> QED
      BY <3>4, <3>5
  <2> HIDE DEF h, Step
  <2>3. h = [i \in 0..n |-> h[i]]
    BY DEF h
  <2>4. Known(h, n)
    BY <2>2, <2>3
  <2> QED
    BY <1>2, <2>4
<1> HIDE DEF G
<1>3. 0..N \subseteq G
  BY <1>1, <1>2, Induction
<1>4. N \in G
  BY <1>3
<1> QED
  BY <1>4 DEF G

LEMMA PartitionUnfolds ==
    ASSUME NEW turn, NEW denied, Len(turn) \in Nat
    PROVE  \E g : /\ g = [i \in 0..Len(turn) |-> ScheduledCall(turn, denied, g, i)]
                  /\ PartitionToolCalls(turn, denied) = g[Len(turn)]
<1> DEFINE Body(g) == [i \in 0..Len(turn) |-> ScheduledCall(turn, denied, g, i)]
<1>1. PartitionToolCalls(turn, denied) = (CHOOSE g : g = Body(g))[Len(turn)]
  BY DEF PartitionToolCalls, ScheduledCall
<1>2. \E g : g = Body(g)
  BY SchedulesExist
<1> HIDE DEF Body
<1>3. (CHOOSE g : g = Body(g)) = Body(CHOOSE g : g = Body(g))
  BY <1>2, Zenon
<1> QED
  BY <1>1, <1>3 DEF Body


\* new is batches with call i after its last call, or in a batch of its own.
Scheduled(turn, batches, i, new) ==
    /\ \A b \in DOMAIN batches : \A k \in DOMAIN batches[b] :
          b \in DOMAIN new /\ k \in DOMAIN new[b] /\ new[b][k] = batches[b][k]
    /\ \E b \in DOMAIN new : \E k \in DOMAIN new[b] : new[b][k] = i
    /\ \A b \in DOMAIN new : \A k \in DOMAIN new[b] :
          \/ b \in DOMAIN batches /\ k \in DOMAIN batches[b] /\ new[b][k] = batches[b][k]
          \/ /\ new[b][k] = i /\ b = Len(new) /\ k = Len(new[b])
             /\ \A l \in DOMAIN new[b] : l < k =>
                   /\ b \in DOMAIN batches /\ l \in DOMAIN batches[b]
                   /\ CanRunTogether(turn[i], turn[batches[b][l]])

LEMMA OpensBatch ==
    ASSUME NEW turn, NEW batches \in Seq(Seq(Nat)), NEW i \in Nat
    PROVE  /\ Append(batches, <<i>>) \in Seq(Seq(Nat))
           /\ Scheduled(turn, batches, i, Append(batches, <<i>>))
<1> DEFINE one == <<i>>
           new == Append(batches, one)
           L == Len(batches)
<1>1. one \in Seq(Nat) /\ Len(one) = 1 /\ DOMAIN one = 1..1 /\ one[1] = i
  OBVIOUS
<1> HIDE DEF one
<1>2. /\ new \in Seq(Seq(Nat)) /\ L \in Nat /\ Len(new) = L + 1
      /\ DOMAIN batches = 1..L /\ DOMAIN new = 1..L + 1
      /\ \A b \in 1..L : new[b] = batches[b]
      /\ new[L + 1] = one
  BY <1>1, AppendProperties, LenProperties
<1> HIDE DEF new, L
<1>3. Scheduled(turn, batches, i, new)
  <2>1. \E b \in DOMAIN new : \E k \in DOMAIN new[b] : new[b][k] = i
    <3>1. L + 1 \in DOMAIN new /\ 1 \in DOMAIN new[L + 1] /\ new[L + 1][1] = i
      BY <1>1, <1>2
    <3> QED
      BY <3>1
  <2>2. ASSUME NEW b \in DOMAIN new, NEW k \in DOMAIN new[b]
        PROVE  \/ b \in DOMAIN batches /\ k \in DOMAIN batches[b] /\ new[b][k] = batches[b][k]
               \/ /\ new[b][k] = i /\ b = Len(new) /\ k = Len(new[b])
                  /\ \A l \in DOMAIN new[b] : ~(l < k)
    <3>1. CASE b \in 1..L
      BY <1>2, <3>1
    <3>2. CASE b = L + 1
      <4>1. new[b] = one
        BY <1>2, <3>2
      <4>2. k = 1 /\ new[b][k] = i /\ DOMAIN new[b] = 1..1
        BY <1>1, <4>1
      <4>3. b = Len(new) /\ k = Len(new[b])
        BY <1>1, <1>2, <3>2, <4>1, <4>2
      <4> QED
        BY <4>2, <4>3
    <3> QED
      BY <1>2, <3>1, <3>2
  <2>3. \A b \in DOMAIN batches : \A k \in DOMAIN batches[b] :
          b \in DOMAIN new /\ k \in DOMAIN new[b] /\ new[b][k] = batches[b][k]
    BY <1>2
  <2> QED
    BY <2>1, <2>2, <2>3 DEF Scheduled
<1> QED
  BY <1>2, <1>3 DEF new, one

LEMMA JoinsBatch ==
    ASSUME NEW turn, NEW batches \in Seq(Seq(Nat)), NEW i \in Nat, batches # <<>>,
           CanJoinBatch(turn, i, batches[Len(batches)])
    PROVE  /\ [batches EXCEPT ![Len(batches)] = Append(@, i)] \in Seq(Seq(Nat))
           /\ Scheduled(turn, batches, i, [batches EXCEPT ![Len(batches)] = Append(@, i)])
<1> DEFINE new == [batches EXCEPT ![Len(batches)] = Append(@, i)]
           L == Len(batches)
           last == batches[L]
           longer == Append(last, i)
<1>1. L \in Nat \ {0} /\ DOMAIN batches = 1..L /\ L \in 1..L
  BY EmptySeq, LenProperties
<1>2. last \in Seq(Nat) /\ Len(last) \in Nat /\ DOMAIN last = 1..Len(last)
  BY <1>1, ElementOfSeq, LenProperties
<1>3. /\ longer \in Seq(Nat) /\ Len(longer) = Len(last) + 1
      /\ DOMAIN longer = 1..Len(last) + 1
      /\ \A k \in 1..Len(last) : longer[k] = last[k]
      /\ longer[Len(last) + 1] = i
  BY <1>2, AppendProperties, LenProperties
<1>4. new \in Seq(Seq(Nat)) /\ Len(new) = L
  BY <1>1, <1>3, ExceptSeq
<1>5. /\ DOMAIN new = 1..L /\ new[L] = longer
      /\ \A b \in 1..L : b # L => new[b] = batches[b]
  BY <1>1
<1>6. \A l \in 1..Len(last) : CanRunTogether(turn[i], turn[last[l]])
  BY <1>2 DEF CanJoinBatch
<1> HIDE DEF new, longer, last, L
<1>7. Scheduled(turn, batches, i, new)
  <2>0. batches[L] = last
    BY DEF last
  <2>1. \E b \in DOMAIN new : \E k \in DOMAIN new[b] : new[b][k] = i
    <3>1. Len(last) + 1 \in DOMAIN new[L]
      BY <1>2, <1>3, <1>5
    <3> QED
      BY <1>1, <1>3, <1>5, <3>1
  <2>2. ASSUME NEW b \in DOMAIN new, NEW k \in DOMAIN new[b]
        PROVE  \/ b \in DOMAIN batches /\ k \in DOMAIN batches[b] /\ new[b][k] = batches[b][k]
               \/ /\ new[b][k] = i /\ b = Len(new) /\ k = Len(new[b])
                  /\ \A l \in DOMAIN new[b] : l < k =>
                        /\ b \in DOMAIN batches /\ l \in DOMAIN batches[b]
                        /\ CanRunTogether(turn[i], turn[batches[b][l]])
    <3>1. CASE b # L
      BY <1>1, <1>5, <3>1
    <3>2. CASE b = L /\ k # Len(last) + 1
      <4>1. k \in 1..Len(last)
        BY <1>2, <1>3, <1>5, <3>2
      <4> QED
        BY <1>1, <1>2, <1>3, <1>5, <2>0, <3>2, <4>1
    <3>3. CASE b = L /\ k = Len(last) + 1
      <4>1. new[b][k] = i /\ b = Len(new) /\ k = Len(new[b])
        BY <1>3, <1>4, <1>5, <3>3
      <4>2. ASSUME NEW l \in DOMAIN new[b], l < k PROVE l \in 1..Len(last)
        BY <1>2, <1>3, <1>5, <3>3, <4>2
      <4> QED
        BY <1>1, <1>2, <1>6, <2>0, <3>3, <4>1, <4>2
    <3> QED
      BY <3>1, <3>2, <3>3
  <2>3. ASSUME NEW b \in DOMAIN batches, NEW k \in DOMAIN batches[b]
        PROVE  b \in DOMAIN new /\ k \in DOMAIN new[b] /\ new[b][k] = batches[b][k]
    <3>1. CASE b # L
      BY <1>1, <1>5, <3>1
    <3>2. CASE b = L
      BY <1>1, <1>2, <1>3, <1>5, <2>0, <3>2
    <3> QED
      BY <3>1, <3>2
  <2> QED
    BY <2>1, <2>2, <2>3 DEF Scheduled
<1> QED
  BY <1>4, <1>7 DEF new, L

LEMMA ScheduledIsPartitioned ==
    ASSUME NEW turn, NEW denied, NEW i \in Nat \ {0}, i \notin denied,
           NEW batches \in Seq(Seq(Nat)), NEW new \in Seq(Seq(Nat)),
           Partitioned(turn, batches, i - 1, denied), Scheduled(turn, batches, i, new)
    PROVE  Partitioned(turn, new, i, denied)
<1> DEFINE Old(b, k) == b \in DOMAIN batches /\ k \in DOMAIN batches[b] /\ new[b][k] = batches[b][k]
           New(b, k) == new[b][k] = i /\ b = Len(new) /\ k = Len(new[b])
<1>1. ASSUME NEW b \in DOMAIN new, NEW k \in DOMAIN new[b] PROVE Old(b, k) \/ New(b, k)
  BY DEF Scheduled
<1>2. ASSUME NEW b, NEW k, Old(b, k) PROVE new[b][k] \in (1..i - 1) \ denied
  BY <1>2 DEF Partitioned
<1>3. ASSUME NEW b, NEW k, Old(b, k) PROVE new[b][k] \in (1..i) \ denied /\ new[b][k] < i
  <2>1. new[b][k] \in (1..i - 1) \ denied
    BY <1>2, <1>3
  <2> QED
    BY <2>1
<1>4. ASSUME NEW b \in DOMAIN new
      PROVE  /\ b \in Nat /\ b <= Len(new) /\ Len(new[b]) \in Nat
             /\ \A k \in DOMAIN new[b] : k \in Nat /\ k <= Len(new[b])
  <2>1. Len(new) \in Nat /\ DOMAIN new = 1..Len(new)
    BY LenProperties
  <2>2. new[b] \in Seq(Nat)
    BY <2>1, ElementOfSeq
  <2>3. Len(new[b]) \in Nat /\ DOMAIN new[b] = 1..Len(new[b])
    BY <2>2, LenProperties
  <2> QED
    BY <2>1, <2>3
<1>5. ASSUME NEW b \in DOMAIN new, NEW k \in DOMAIN new[b] PROVE new[b][k] \in (1..i) \ denied
  <2>1. CASE Old(b, k)
    BY <1>3, <2>1
  <2>2. CASE New(b, k)
    BY <2>2
  <2> QED
    BY <1>1, <2>1, <2>2
<1>6. ASSUME NEW j \in (1..i) \ denied PROVE \E b \in DOMAIN new : \E k \in DOMAIN new[b] : new[b][k] = j
  <2>1. CASE j = i
    BY <2>1 DEF Scheduled
  <2>2. CASE j # i
    <3>1. j \in (1..i - 1) \ denied
      BY <2>2
    <3>2. PICK b \in DOMAIN batches : \E k \in DOMAIN batches[b] : batches[b][k] = j
      BY <3>1 DEF Partitioned
    <3> QED
      BY <3>2 DEF Scheduled
  <2> QED
    BY <2>1, <2>2
<1>7. ASSUME NEW b \in DOMAIN new, NEW c \in DOMAIN new, b < c,
             NEW k \in DOMAIN new[b], NEW l \in DOMAIN new[c]
      PROVE  new[b][k] < new[c][l]
  <2>1. Old(b, k)
    BY <1>1, <1>4, <1>7
  <2>2. CASE Old(c, l)
    BY <1>7, <2>1, <2>2 DEF Partitioned
  <2>3. CASE New(c, l)
    BY <1>3, <2>1, <2>3
  <2> QED
    BY <1>1, <2>2, <2>3
<1>8. ASSUME NEW b \in DOMAIN new, NEW k \in DOMAIN new[b], NEW l \in DOMAIN new[b], k < l
      PROVE  new[b][k] < new[b][l] /\ CanRunTogether(turn[new[b][l]], turn[new[b][k]])
  <2>1. Old(b, k)
    BY <1>1, <1>4, <1>8
  <2>2. CASE Old(b, l)
    BY <1>8, <2>1, <2>2 DEF Partitioned
  <2>3. CASE ~Old(b, l)
    <3>1. New(b, l) /\ CanRunTogether(turn[i], turn[batches[b][k]])
      BY <1>8, <2>3 DEF Scheduled
    <3> QED
      BY <1>3, <2>1, <3>1
  <2> QED
    BY <2>2, <2>3
<1> QED
  BY <1>5, <1>6, <1>7, <1>8 DEF Partitioned

\* partitionToolCalls partitions the calls that are not denied.
LEMMA PartitionIsPartitioned ==
    ASSUME NEW turn, NEW denied, Len(turn) \in Nat
    PROVE  /\ PartitionToolCalls(turn, denied) \in Seq(Seq(Nat))
           /\ Partitioned(turn, PartitionToolCalls(turn, denied), Len(turn), denied)
<1> DEFINE N == Len(turn)
<1>1. PICK f : /\ f = [i \in 0..N |-> ScheduledCall(turn, denied, f, i)]
               /\ PartitionToolCalls(turn, denied) = f[N]
  BY PartitionUnfolds
<1>2. \A i \in 0..N : f[i] = ScheduledCall(turn, denied, f, i)
  BY <1>1
<1> HIDE DEF N
<1> DEFINE Good(i) == f[i] \in Seq(Seq(Nat)) /\ Partitioned(turn, f[i], i, denied)
           G == {i \in 0..N : Good(i)}
<1>3. N \in Nat
  BY DEF N
<1>4. 0 \in G
  <2>1. f[0] = <<>>
    BY <1>2, <1>3 DEF ScheduledCall
  <2>2. f[0] \in Seq(Seq(Nat)) /\ DOMAIN f[0] = {}
    BY <2>1
  <2>3. (1..0) \ denied = {}
    OBVIOUS
  <2>4. Partitioned(turn, f[0], 0, denied)
    BY <2>2, <2>3 DEF Partitioned
  <2> QED
    BY <1>3, <2>2, <2>4
<1>5. ASSUME NEW i \in 1..N, i - 1 \in G PROVE i \in G
  <2>1. Good(i - 1) /\ i \in 0..N /\ i # 0 /\ i \in Nat \ {0}
    BY <1>3, <1>5
  <2>2. f[i] = IF i \in denied THEN f[i - 1] ELSE Schedule(turn, f[i - 1], i)
    BY <1>2, <2>1 DEF ScheduledCall
  <2>3. CASE i \in denied
    <3>1. (1..i - 1) \ denied = (1..i) \ denied
      BY <2>1, <2>3
    <3>2. Partitioned(turn, f[i - 1], i, denied)
      BY <2>1, <3>1 DEF Partitioned
    <3> QED
      BY <2>1, <2>2, <2>3, <3>2
  <2>4. CASE i \notin denied
    <3> DEFINE old == f[i - 1]
               new == Schedule(turn, old, i)
    <3>1. old \in Seq(Seq(Nat)) /\ Partitioned(turn, old, i - 1, denied)
      BY <2>1
    <3> HIDE DEF old
    <3>2. new \in Seq(Seq(Nat)) /\ Scheduled(turn, old, i, new)
      <4>1. CASE old # <<>> /\ CanJoinBatch(turn, i, old[Len(old)])
        BY <2>1, <3>1, <4>1, JoinsBatch DEF Schedule
      <4>2. CASE ~(old # <<>> /\ CanJoinBatch(turn, i, old[Len(old)]))
        BY <2>1, <3>1, <4>2, OpensBatch DEF Schedule
      <4> QED
        BY <4>1, <4>2
    <3> HIDE DEF new
    <3>3. Partitioned(turn, new, i, denied)
      BY <2>1, <2>4, <3>1, <3>2, ScheduledIsPartitioned
    <3>4. f[i] = new
      BY <2>2, <2>4 DEF new, old
    <3> QED
      BY <2>1, <3>2, <3>3, <3>4
  <2> QED
    BY <2>3, <2>4
<1> HIDE DEF G
<1>6. 0..N \subseteq G
  BY <1>3, <1>4, <1>5, Induction
<1>7. N \in G
  BY <1>3, <1>6
<1> QED
  BY <1>1, <1>7 DEF G, N

-----------------------------------------------------------------------------
(***************************************************************************)
(* The results of a turn, and what its calls are allowed to do.            *)
(***************************************************************************)
Count(n) == [i \in 1..n |-> i]

LEMMA CountProperties ==
    ASSUME NEW n \in Nat
    PROVE  Count(n) \in Seq(Nat) /\ Len(Count(n)) = n /\ Append(Count(n), n + 1) = Count(n + 1)
<1>1. \A m \in Nat : Count(m) \in Seq(Nat) /\ Len(Count(m)) = m
  <2> TAKE m \in Nat
  <2>1. \A i \in 1..m : i \in Nat
    OBVIOUS
  <2>2. Count(m) \in Seq(Nat)
    BY <2>1, IsASeq DEF Count
  <2>3. DOMAIN Count(m) = 1..m
    BY DEF Count
  <2> QED
    BY <2>2, <2>3, LenProperties
<1> DEFINE s == Append(Count(n), n + 1)
           t == Count(n + 1)
<1>2. n + 1 \in Nat /\ Count(n) \in Seq(Nat) /\ Len(Count(n)) = n
  BY <1>1
<1>3. /\ s \in Seq(Nat) /\ Len(s) = n + 1 /\ s[n + 1] = n + 1
      /\ \A i \in 1..n : s[i] = Count(n)[i]
  BY <1>2, AppendProperties
<1>4. t \in Seq(Nat) /\ Len(t) = n + 1 /\ \A i \in 1..n + 1 : t[i] = i
  BY <1>1, <1>2 DEF Count
<1>5. \A i \in 1..n : Count(n)[i] = i
  BY DEF Count
<1> HIDE DEF s, t
<1>6. \A i \in 1..n + 1 : s[i] = t[i]
  BY <1>3, <1>4, <1>5
<1>7. s = t
  BY <1>3, <1>4, <1>6, SeqEqual
<1> QED
  BY <1>2, <1>7 DEF s, t

\* When every call of a turn is over, each has its result.
LEMMA AllResults ==
    ASSUME Len(arun.turn) \in Nat,
           \A i \in 1..Len(arun.turn) : arun.status[i] \in {"done", "denied"}
    PROVE  ResultIds = Count(Len(arun.turn))
<1> DEFINE N == Len(arun.turn)
           Step(g, i) == IF i = 0 THEN <<>>
                         ELSE IF arun.status[i] \in {"done", "denied"} THEN Append(g[i - 1], i)
                         ELSE g[i - 1]
           Body(g) == [i \in 0..N |-> Step(g, i)]
           f == CHOOSE g : g = Body(g)
           counts == [n \in 0..N |-> Count(n)]
<1>1. ResultIds = f[N]
  BY DEF ResultIds
<1>2. counts = Body(counts)
  <2>1. ASSUME NEW n \in 0..N PROVE Count(n) = Step(counts, n)
    <3>1. CASE n = 0
      BY <3>1 DEF Count
    <3>2. CASE n # 0
      <4>1. n \in 1..N /\ n - 1 \in 0..N /\ n - 1 \in Nat
        BY <3>2
      <4>2. counts[n - 1] = Count(n - 1)
        BY <4>1
      <4>3. Append(Count(n - 1), n - 1 + 1) = Count(n - 1 + 1)
        BY <4>1, CountProperties
      <4>4. n - 1 + 1 = n
        BY <4>1
      <4> QED
        BY <3>2, <4>1, <4>2, <4>3, <4>4
    <3> QED
      BY <3>1, <3>2
  <2> QED
    BY <2>1
<1> HIDE DEF Body
<1>3. f = Body(f)
  BY <1>2, Zenon
<1>4. f = [i \in 0..N |-> Step(f, i)]
  BY <1>3 DEF Body
<1> HIDE DEF f
<1>5. \A i \in 0..N : f[i] = Step(f, i)
  BY <1>4
<1> DEFINE G == {n \in 0..N : f[n] = Count(n)}
<1>6. 0 \in G
  BY <1>5 DEF Count
<1>7. ASSUME NEW n \in 1..N, n - 1 \in G PROVE n \in G
  <2>1. n \in 0..N /\ n # 0 /\ n - 1 \in Nat /\ n - 1 + 1 = n
    BY <1>7
  <2>2. f[n] = Append(f[n - 1], n)
    BY <1>5, <2>1
  <2>3. Append(Count(n - 1), n - 1 + 1) = Count(n - 1 + 1)
    BY <2>1, CountProperties
  <2> QED
    BY <1>7, <2>1, <2>2, <2>3
<1> HIDE DEF G
<1>8. 0..N \subseteq G
  BY <1>6, <1>7, Induction
<1>9. N \in G
  BY <1>8
<1> QED
  BY <1>1, <1>9 DEF G


-----------------------------------------------------------------------------
(***************************************************************************)
(* The invariant implies what the runs check.                              *)
(***************************************************************************)
LEMMA RunTypes ==
    ASSUME AgentTyped
    PROVE  /\ arun.turn \in Seq(ToolCall) /\ Len(arun.turn) \in Nat
           /\ DOMAIN arun.turn = 1..Len(arun.turn)
           /\ arun.status \in Seq(Status) /\ Len(arun.status) \in Nat
           /\ DOMAIN arun.status = 1..Len(arun.status)
           /\ arun.batches \in Seq(Seq(Nat)) /\ Len(arun.batches) \in Nat
           /\ DOMAIN arun.batches = 1..Len(arun.batches)
           /\ arun.batch \in Nat
<1>1. /\ arun.turn \in Seq(ToolCall) /\ arun.status \in Seq(Status)
      /\ arun.batches \in Seq(Seq(Nat)) /\ arun.batch \in Nat
  BY DEF AgentTyped, AnyRun
<1> QED
  BY <1>1, LenProperties

\* A call that was made is in a batch that was begun.
LEMMA StartedInBatch ==
    ASSUME AgentTyped, TurnShape, BatchesKept, NEW j \in Started
    PROVE  \E c \in DOMAIN arun.batches : \E l \in DOMAIN arun.batches[c] :
              arun.batches[c][l] = j /\ c \in 1..arun.batch
<1>1. /\ Partitioned(arun.turn, arun.batches, Len(arun.turn), DeniedCalls)
      /\ \A b \in DOMAIN arun.batches : \A k \in DOMAIN arun.batches[b] :
            b > arun.batch => arun.status[arun.batches[b][k]] = "waiting"
  BY DEF BatchesKept
<1>2. j \in (1..Len(arun.turn)) \ DeniedCalls
  BY RunTypes DEF Started, DeniedCalls, TurnShape
<1>3. PICK c \in DOMAIN arun.batches : \E l \in DOMAIN arun.batches[c] : arun.batches[c][l] = j
  BY <1>1, <1>2 DEF Partitioned
<1>4. PICK l \in DOMAIN arun.batches[c] : arun.batches[c][l] = j
  BY <1>3
<1>5. arun.status[j] # "waiting"
  BY DEF Started
<1>6. ~(c > arun.batch)
  BY <1>1, <1>4, <1>5
<1>7. c \in 1..arun.batch
  BY <1>6, RunTypes
<1> QED
  BY <1>4, <1>7

LEMMA InvConflicts ==
    ASSUME AgentTyped, TurnShape, BatchesKept
    PROVE  ConflictsInOrder
<1> SUFFICES ASSUME NEW i \in DOMAIN arun.status, NEW j \in Started, i < j,
                    Conflict(arun.turn[i], arun.turn[j]),
                    ~(arun.turn[i].safe /\ arun.turn[j].safe),
                    arun.status[i] # "denied"
             PROVE  arun.status[i] = "done"
  BY DEF ConflictsInOrder
<1>1. /\ Partitioned(arun.turn, arun.batches, Len(arun.turn), DeniedCalls)
      /\ \A b \in DOMAIN arun.batches : \A k \in DOMAIN arun.batches[b] :
            b < arun.batch => arun.status[arun.batches[b][k]] = "done"
  BY DEF BatchesKept
<1>2. /\ i \in (1..Len(arun.turn)) \ DeniedCalls /\ j \in 1..Len(arun.turn)
      /\ i \in Nat /\ j \in Nat
  BY RunTypes DEF Started, DeniedCalls, TurnShape
<1>3. PICK b \in DOMAIN arun.batches : \E k \in DOMAIN arun.batches[b] : arun.batches[b][k] = i
  BY <1>1, <1>2 DEF Partitioned
<1>4. PICK k \in DOMAIN arun.batches[b] : arun.batches[b][k] = i
  BY <1>3
<1>5. PICK c \in DOMAIN arun.batches : \E l \in DOMAIN arun.batches[c] :
              arun.batches[c][l] = j /\ c \in 1..arun.batch
  BY StartedInBatch
<1>6. PICK l \in DOMAIN arun.batches[c] : arun.batches[c][l] = j /\ c \in 1..arun.batch
  BY <1>5
<1>7. b \in Nat /\ c \in Nat /\ arun.batch \in Nat
  <2>1. DOMAIN arun.batches = 1..Len(arun.batches) /\ Len(arun.batches) \in Nat /\ arun.batch \in Nat
    BY RunTypes
  <2> QED
    BY <2>1
<1>8. ~(c < b)
  <2>1. c < b => j < i
    BY <1>1, <1>4, <1>6 DEF Partitioned
  <2> QED
    BY <1>2, <2>1
<1>9. CASE b < c
  <2>1. b < arun.batch
    BY <1>6, <1>7, <1>9
  <2> QED
    BY <1>1, <1>4, <2>1
<1>10. CASE b = c
  <2>1. k \in Nat /\ l \in Nat
    <3>1. arun.batches[b] \in Seq(Nat)
      BY RunTypes, ElementOfSeq
    <3>2. DOMAIN arun.batches[b] = 1..Len(arun.batches[b]) /\ Len(arun.batches[b]) \in Nat
      BY <3>1, LenProperties
    <3> QED
      BY <1>10, <3>2
  <2>2. k < l
    <3>1. l < k => j < i
      BY <1>1, <1>4, <1>6, <1>10 DEF Partitioned
    <3>2. k # l
      BY <1>2, <1>4, <1>6, <1>10
    <3> QED
      BY <1>2, <2>1, <3>1, <3>2
  <2>3. CanRunTogether(arun.turn[j], arun.turn[i])
    BY <1>1, <1>4, <1>6, <1>10, <2>2 DEF Partitioned
  <2>4. arun.turn[i] \in ToolCall /\ arun.turn[j] \in ToolCall
    BY <1>2, RunTypes, ElementOfSeq
  <2>5. ~Conflict(arun.turn[i], arun.turn[j])
    BY <2>3, <2>4, TogetherNoConflict
  <2> QED
    BY <2>5
<1> QED
  BY <1>7, <1>8, <1>9, <1>10

LEMMA InvFatal ==
    ASSUME AgentTyped, AgentBounds, TurnShape, BatchesKept
    PROVE  FatalEndsRun
<1> SUFFICES ASSUME Fatal
             PROVE  /\ \A i \in Started : \E b \in 1..arun.batch :
                          \E k \in DOMAIN arun.batches[b] : arun.batches[b][k] = i
                    /\ \A b \in 1..arun.batch - 1 : \A k \in DOMAIN arun.batches[b] :
                          arun.status[arun.batches[b][k]] = "done"
                    /\ arun.finish \in {"none", "error"}
  BY DEF FatalEndsRun
<1>1. \A i \in Started : \E b \in 1..arun.batch :
          \E k \in DOMAIN arun.batches[b] : arun.batches[b][k] = i
  BY StartedInBatch
<1>2. Started # {}
  BY DEF Fatal, Started
<1>3. \A b \in DOMAIN arun.batches : \A k \in DOMAIN arun.batches[b] :
          b < arun.batch => arun.status[arun.batches[b][k]] = "done"
  BY <1>2 DEF BatchesKept
<1>4. \A b \in 1..arun.batch - 1 : b \in DOMAIN arun.batches /\ b < arun.batch
  BY RunTypes DEF AgentBounds
<1>5. arun.finish \in {"none", "error"}
  BY DEF TurnShape
<1> QED
  BY <1>1, <1>3, <1>4, <1>5

LEMMA InvPaired ==
    ASSUME AgentTyped, HistoryKept
    PROVE  HistoryPaired
<1>1. DOMAIN history = 1..Len(history)
  BY LenProperties DEF AgentTyped
<1> QED
  BY <1>1 DEF HistoryKept, PairedUpTo, HistoryPaired

LEMMA InvTypes ==
    ASSUME AgentTyped, AgentBounds
    PROVE  AgentTypeOK
<1>1. \A k \in DOMAIN history : history[k].kind \in Kind
  <2>1. \A k \in DOMAIN history : history[k] \in MessageSet
    BY ElementOfSeq, LenProperties DEF AgentTyped
  <2> QED
    BY <2>1 DEF MessageSet
<1>2. \A i \in DOMAIN arun.status : arun.status[i] \in Status
  BY RunTypes, ElementOfSeq
<1>3. /\ arun.phase \in Phase /\ arun.class \in ErrorClass \cup {"none"}
      /\ arun.finish \in Finish /\ arun.reflected \in BOOLEAN
      /\ arun.iter \in Nat /\ arun.attempt \in Nat /\ arun.acks \in Nat
  BY DEF AgentTyped, AnyRun
<1>4. arun.iter \in 0..MaxIterations /\ arun.acks \in 0..AckMax
  BY <1>3, AgentAssumption DEF AgentBounds
<1>5. arun.attempt \in 0..RetryMax - 1
  BY <1>3, AgentAssumption DEF AgentBounds
<1>6. arun.batch \in 0..Len(arun.batches) + 1
  BY RunTypes DEF AgentBounds
<1> QED
  BY <1>1, <1>2, <1>3, <1>4, <1>5, <1>6 DEF AgentTypeOK, Kind, Status, Phase, Finish


-----------------------------------------------------------------------------
(***************************************************************************)
(* What happens to the history.                                            *)
(***************************************************************************)
Paired(h) == h \in Seq(MessageSet) /\ PairedUpTo(h, Len(h))

LEMMA PairedConcat ==
    ASSUME NEW h, NEW s, Paired(h), Paired(s)
    PROVE  Paired(h \o s)
<1> DEFINE c == h \o s
<1>1. /\ h \in Seq(MessageSet) /\ s \in Seq(MessageSet)
      /\ Len(h) \in Nat /\ Len(s) \in Nat
      /\ PairedUpTo(h, Len(h)) /\ PairedUpTo(s, Len(s))
  BY LenProperties DEF Paired
<1>2. /\ c \in Seq(MessageSet) /\ Len(c) = Len(h) + Len(s)
      /\ \A k \in 1..Len(h) + Len(s) : c[k] = IF k <= Len(h) THEN h[k] ELSE s[k - Len(h)]
  BY <1>1, ConcatProperties
<1> HIDE DEF c
<1>3. ASSUME NEW k \in 1..Len(h) + Len(s), c[k].kind = "use"
      PROVE  k < Len(h) + Len(s) /\ c[k + 1] = Message("results", c[k].ids)
  <2>1. CASE k <= Len(h)
    <3>1. k \in 1..Len(h) /\ c[k] = h[k]
      BY <1>1, <1>2, <2>1
    <3>2. k < Len(h) /\ h[k + 1] = Message("results", h[k].ids)
      BY <1>1, <1>3, <3>1 DEF PairedUpTo
    <3>3. k + 1 \in 1..Len(h) + Len(s) /\ k + 1 <= Len(h)
      BY <1>1, <3>1, <3>2
    <3> QED
      BY <1>1, <1>2, <3>1, <3>2, <3>3
  <2>2. CASE ~(k <= Len(h))
    <3> DEFINE j == k - Len(h)
    <3>1. j \in 1..Len(s) /\ c[k] = s[j]
      BY <1>1, <1>2, <2>2
    <3>2. j < Len(s) /\ s[j + 1] = Message("results", s[j].ids)
      BY <1>1, <1>3, <3>1 DEF PairedUpTo
    <3>3. /\ k + 1 \in 1..Len(h) + Len(s) /\ ~(k + 1 <= Len(h))
          /\ k + 1 - Len(h) = j + 1 /\ k < Len(h) + Len(s)
      BY <1>1, <2>2, <3>1, <3>2
    <3>4. c[k + 1] = s[j + 1]
      BY <1>2, <3>3
    <3> QED
      BY <3>1, <3>2, <3>3, <3>4
  <2> QED
    BY <2>1, <2>2
<1>4. PairedUpTo(c, Len(c))
  BY <1>2, <1>3 DEF PairedUpTo
<1> QED
  BY <1>2, <1>4 DEF Paired, c

\* A history may lose its oldest messages, between any two of them.
LEMMA PairedSuffix ==
    ASSUME NEW h, Paired(h), NEW n \in Nat, n <= Len(h)
    PROVE  Paired(Suffix(h, n))
<1> DEFINE s == Suffix(h, n)
           d == Len(h) - n
<1>1. h \in Seq(MessageSet) /\ Len(h) \in Nat /\ PairedUpTo(h, Len(h))
  BY LenProperties DEF Paired
<1>2. d \in 0..Len(h) /\ d + 1 \in 1..Len(h) + 1 /\ Len(h) \in d..Len(h) /\ d + n = Len(h)
  BY <1>1
<1>3. /\ s \in Seq(MessageSet) /\ Len(s) = n
      /\ \A k \in 1..n : s[k] = h[d + k]
  <2>1. \A k \in d + 1..Len(h) : h[k] \in MessageSet
    <3>1. \A k \in d + 1..Len(h) : k \in 1..Len(h)
      BY <1>1, <1>2
    <3> QED
      BY <1>1, <3>1, ElementOfSeq
  <2>2. /\ s \in Seq(MessageSet)
        /\ Len(s) = IF d + 1 <= Len(h) THEN Len(h) - (d + 1) + 1 ELSE 0
        /\ \A k \in 1..Len(h) - (d + 1) + 1 : s[k] = h[d + 1 + k - 1]
    <3>1. d + 1 \in Int /\ Len(h) \in Int
      BY <1>1, <1>2
    <3>2. s = SubSeq(h, d + 1, Len(h))
      BY DEF Suffix
    <3> HIDE DEF s, d
    <3> QED
      BY <2>1, <3>1, <3>2, SubSeqProperties
  <2>3. Len(h) - (d + 1) + 1 = n /\ \A k \in 1..n : d + 1 + k - 1 = d + k
    BY <1>1, <1>2
  <2> QED
    BY <1>1, <1>2, <2>2, <2>3
<1> HIDE DEF s, d
<1>4. ASSUME NEW k \in 1..n, s[k].kind = "use"
      PROVE  k < n /\ s[k + 1] = Message("results", s[k].ids)
  <2>1. d + k \in 1..Len(h) /\ s[k] = h[d + k]
    BY <1>1, <1>2, <1>3
  <2>2. d + k < Len(h) /\ h[d + k + 1] = Message("results", h[d + k].ids)
    BY <1>1, <1>4, <2>1 DEF PairedUpTo
  <2>3. k < n /\ k + 1 \in 1..n /\ d + k + 1 = d + (k + 1)
    BY <1>1, <1>2, <2>2
  <2> QED
    BY <1>3, <2>1, <2>2, <2>3
<1>5. PairedUpTo(s, Len(s))
  BY <1>3, <1>4 DEF PairedUpTo
<1> QED
  BY <1>3, <1>5 DEF Paired, s

LEMMA PairedOne ==
    ASSUME NEW m \in MessageSet, m.kind # "use"
    PROVE  Paired(<<m>>)
<1> DEFINE s == <<m>>
<1>1. s \in Seq(MessageSet) /\ Len(s) = 1 /\ s[1] = m
  OBVIOUS
<1> HIDE DEF s
<1>2. PairedUpTo(s, Len(s))
  BY <1>1 DEF PairedUpTo
<1> QED
  BY <1>1, <1>2 DEF Paired, s

LEMMA SomeMessages ==
    /\ UserMessage \in MessageSet /\ UserMessage.kind # "use"
    /\ SummaryMessage \in MessageSet /\ SummaryMessage.kind # "use"
    /\ Message("text", <<>>) \in MessageSet /\ Message("text", <<>>).kind # "use"
<1>1. <<>> \in Seq(Nat)
  OBVIOUS
<1> QED
  BY <1>1 DEF UserMessage, SummaryMessage, Message, MessageSet, Kind

LEMMA PairedCompressed ==
    ASSUME NEW h, Paired(h), NEW g \in CompressMessages(h)
    PROVE  Paired(g)
<1>1. ASSUME NEW s, Paired(s), NEW t \in Snipped(s) PROVE Paired(t)
  <2>1. PICK n \in 1..Len(s) : t = Suffix(s, n)
    BY DEF Snipped
  <2>2. n \in Nat /\ n <= Len(s)
    BY <1>1, LenProperties DEF Paired
  <2> QED
    BY <1>1, <2>1, <2>2, PairedSuffix
<1>2. Paired(AutoCompress(h))
  <2>1. CASE Len(h) <= KeepRecent
    BY <2>1 DEF AutoCompress
  <2>2. CASE ~(Len(h) <= KeepRecent)
    <3>1. KeepRecent \in Nat /\ KeepRecent <= Len(h)
      <4>1. KeepRecent \in Nat /\ Len(h) \in Nat
        BY AgentAssumption, LenProperties DEF Paired
      <4> QED
        BY <2>2, <4>1
    <3>2. Paired(Suffix(h, KeepRecent)) /\ Paired(<<SummaryMessage>>)
      BY <3>1, PairedSuffix, PairedOne, SomeMessages
    <3> QED
      BY <2>2, <3>2, PairedConcat DEF AutoCompress
  <2> QED
    BY <2>1, <2>2
<1> QED
  BY <1>1, <1>2 DEF CompressMessages

LEMMA PairedAppend ==
    ASSUME NEW h, Paired(h), NEW m \in MessageSet, m.kind # "use"
    PROVE  Paired(Append(h, m))
<1>1. h \in Seq(MessageSet) /\ <<m>> \in Seq(MessageSet)
  BY DEF Paired
<1>2. Append(h, m) = h \o <<m>>
  BY <1>1, AppendIsConcat
<1> QED
  BY <1>2, PairedOne, PairedConcat

\* The results of its last calls complete a history.
LEMMA PairedResults ==
    ASSUME NEW h \in Seq(MessageSet), h # <<>>, NEW ids \in Seq(Nat),
           PairedUpTo(h, Len(h) - 1), h[Len(h)] = Message("use", ids)
    PROVE  Paired(Append(h, Message("results", ids)))
<1> DEFINE m == Message("results", ids)
           g == Append(h, m)
<1>1. m \in MessageSet /\ m.kind = "results"
  BY DEF Message, MessageSet, Kind
<1>2. Len(h) \in Nat /\ Len(h) > 0
  BY EmptySeq, LenProperties
<1>3. /\ g \in Seq(MessageSet) /\ Len(g) = Len(h) + 1 /\ g[Len(h) + 1] = m
      /\ \A k \in 1..Len(h) : g[k] = h[k]
  BY <1>1, AppendProperties
<1> HIDE DEF g
<1>4. ASSUME NEW k \in 1..Len(h) + 1, g[k].kind = "use"
      PROVE  k < Len(h) + 1 /\ g[k + 1] = Message("results", g[k].ids)
  <2>1. k # Len(h) + 1
    BY <1>1, <1>3, <1>4
  <2>2. CASE k = Len(h)
    <3>1. g[k].ids = ids
      BY <1>2, <1>3, <2>2 DEF Message
    <3> QED
      BY <1>2, <1>3, <2>2, <3>1
  <2>3. CASE k # Len(h)
    <3>1. k \in 1..Len(h) - 1 /\ k \in 1..Len(h) /\ k + 1 \in 1..Len(h)
      BY <1>2, <2>1, <2>3
    <3>2. h[k + 1] = Message("results", h[k].ids)
      BY <1>3, <1>4, <3>1 DEF PairedUpTo
    <3> QED
      BY <1>2, <1>3, <3>1, <3>2
  <2> QED
    BY <2>2, <2>3
<1>5. PairedUpTo(g, Len(g))
  BY <1>3, <1>4 DEF PairedUpTo
<1> QED
  BY <1>3, <1>5 DEF Paired, g


-----------------------------------------------------------------------------
(***************************************************************************)
(* The steps of a run that are not those of its calls.                     *)
(***************************************************************************)
LEMMA RunReturned ==
    ASSUME AgentTyped, NEW finish \in Finish, NEW class \in ErrorClass \cup {"none"},
           ReturnFrom(finish, class)
    PROVE  /\ arun' \in AnyRun
           /\ arun'.phase = "returned" /\ arun'.finish = finish /\ arun'.attempt = 0
           /\ arun'.turn = arun.turn /\ arun'.status = arun.status
           /\ arun'.batches = arun.batches /\ arun'.batch = arun.batch
           /\ arun'.iter = arun.iter /\ arun'.acks = arun.acks
<1>1. PICK cancelled \in BOOLEAN :
        arun' = [arun EXCEPT !.phase = "returned", !.finish = finish, !.class = "none",
                             !.compressed = FALSE, !.attempt = 0,
                             !.reflected = WantsReflection(finish, class, cancelled)]
  BY DEF ReturnFrom
<1>2. WantsReflection(finish, class, cancelled) \in BOOLEAN
  BY DEF WantsReflection
<1>3. arun \in AnyRun
  BY DEF AgentTyped
<1> QED
  BY <1>1, <1>2, <1>3 DEF AnyRun, Phase

\* A run that returns keeps what its calls were.
LEMMA ReturnKeeps ==
    ASSUME AgentInv, NEW finish \in Finish, NEW class \in ErrorClass \cup {"none"},
           ReturnFrom(finish, class), Fatal => finish = "error", history' \in Seq(MessageSet)
    PROVE  AgentInv'
<1>1. AgentTyped /\ AgentBounds /\ TurnShape /\ BatchesKept
  BY DEF AgentInv
<1>2. /\ arun' \in AnyRun
      /\ arun'.phase = "returned" /\ arun'.finish = finish /\ arun'.attempt = 0
      /\ arun'.turn = arun.turn /\ arun'.status = arun.status
      /\ arun'.batches = arun.batches /\ arun'.batch = arun.batch
      /\ arun'.iter = arun.iter /\ arun'.acks = arun.acks
  BY <1>1, RunReturned
<1>3. AgentTyped'
  BY <1>2 DEF AgentTyped
<1>4. AgentBounds'
  BY <1>1, <1>2, AgentAssumption DEF AgentBounds
<1>5. Fatal' <=> Fatal
  BY <1>2 DEF Fatal
<1>6. TurnShape'
  BY <1>1, <1>2, <1>5 DEF TurnShape
<1>7. Started' = Started /\ DeniedCalls' = DeniedCalls
  BY <1>2 DEF Started, DeniedCalls
<1>8. BatchesKept'
  BY <1>1, <1>2, <1>7 DEF BatchesKept
<1>9. HistoryKept'
  BY <1>2 DEF HistoryKept
<1> QED
  BY <1>3, <1>4, <1>6, <1>8, <1>9 DEF AgentInv

\* A run between its calls.
LEMMA RequestKeeps ==
    ASSUME arun' \in AnyRun, arun'.phase \in {"iterate", "request"}, arun'.status = <<>>,
           Len(arun'.turn) = 0, arun'.finish = "none", AgentBounds', Paired(history')
    PROVE  AgentInv'
<1>1. AgentTyped'
  BY DEF AgentTyped, Paired
<1>2. Len(arun'.status) = 0 /\ DOMAIN arun'.status = {}
  OBVIOUS
<1>3. TurnShape'
  BY <1>2 DEF TurnShape
<1>4. Started' = {}
  BY <1>2 DEF Started
<1>5. BatchesKept'
  BY <1>4 DEF BatchesKept
<1>6. HistoryKept'
  BY DEF HistoryKept, Paired
<1> QED
  BY <1>1, <1>3, <1>5, <1>6 DEF AgentInv

LEMMA IdleRun ==
    ASSUME AgentInv, arun.phase \in {"idle", "iterate", "request"}
    PROVE  /\ arun \in AnyRun /\ arun.status = <<>> /\ Len(arun.turn) = 0 /\ ~Fatal
           /\ arun.finish = "none" /\ Paired(history) /\ AgentBounds
<1>1. AgentTyped /\ AgentBounds /\ TurnShape /\ HistoryKept
  BY DEF AgentInv
<1>2. arun.status = <<>> /\ Len(arun.turn) = 0 /\ arun.finish = "none"
  <2>1. arun.status = <<>> /\ Len(arun.status) = Len(arun.turn) /\ arun.finish = "none"
    BY <1>1 DEF TurnShape
  <2> QED
    BY <2>1
<1>3. Paired(history) /\ arun \in AnyRun
  BY <1>1 DEF AgentTyped, HistoryKept, Paired
<1>4. ~Fatal
  <2>1. DOMAIN arun.status = {}
    BY <1>2
  <2> QED
    BY <2>1 DEF Fatal
<1> QED
  BY <1>1, <1>2, <1>3, <1>4

LEMMA AgentInitially == AgentInit => AgentInv
<1> SUFFICES ASSUME AgentInit PROVE AgentInv
  OBVIOUS
<1>1. /\ arun.phase = "idle" /\ arun.status = <<>> /\ arun.turn = <<>> /\ arun.batches = <<>>
      /\ arun.batch = 0 /\ arun.finish = "none" /\ arun.iter = 0 /\ arun.attempt = 0
      /\ arun.acks = 0 /\ history = <<>>
  BY DEF AgentInit
<1>2. <<>> \in Seq(ToolCall) /\ <<>> \in Seq(Status) /\ <<>> \in Seq(Seq(Nat)) /\ <<>> \in Seq(MessageSet)
  OBVIOUS
<1>3. AgentTyped
  BY <1>2 DEF AgentInit, AgentTyped, AnyRun, Phase, Finish
<1>4. AgentBounds
  BY <1>1, AgentAssumption DEF AgentBounds
<1>5. Len(arun.status) = 0 /\ DOMAIN arun.status = {} /\ Len(arun.turn) = 0 /\ Len(history) = 0
  BY <1>1
<1>6. TurnShape
  BY <1>1, <1>5 DEF TurnShape
<1>7. BatchesKept
  BY <1>1, <1>5 DEF BatchesKept, Started
<1>8. HistoryKept
  BY <1>1, <1>5 DEF HistoryKept, PairedUpTo
<1> QED
  BY <1>3, <1>4, <1>6, <1>7, <1>8 DEF AgentInv

LEMMA CallRunStep == ASSUME AgentInv, CallRun PROVE AgentInv'
<1>1. /\ arun \in AnyRun /\ arun.status = <<>> /\ Len(arun.turn) = 0
      /\ arun.finish = "none" /\ AgentBounds
  BY IdleRun DEF CallRun
<1>2. /\ arun' \in AnyRun /\ arun'.phase = "iterate" /\ arun'.status = <<>>
      /\ Len(arun'.turn) = 0 /\ arun'.finish = "none"
  BY <1>1 DEF CallRun, AnyRun, Phase
<1>3. AgentBounds'
  BY <1>1 DEF CallRun, AgentBounds, AnyRun
<1>4. Paired(history')
  BY PairedOne, SomeMessages DEF CallRun
<1> QED
  BY <1>2, <1>3, <1>4, RequestKeeps

LEMMA BeginIterationStep == ASSUME AgentInv, BeginIteration PROVE AgentInv'
<1>1. /\ arun \in AnyRun /\ arun.status = <<>> /\ Len(arun.turn) = 0
      /\ arun.finish = "none" /\ AgentBounds /\ Paired(history)
  BY IdleRun DEF BeginIteration
<1>2. /\ arun' \in AnyRun /\ arun'.phase = "request" /\ arun'.status = <<>>
      /\ Len(arun'.turn) = 0 /\ arun'.finish = "none"
  <2>1. arun.iter \in Nat
    BY <1>1 DEF AnyRun
  <2>2. arun.iter + 1 \in Nat
    BY <2>1
  <2> QED
    BY <1>1, <2>2 DEF BeginIteration, AnyRun, Phase
<1>3. AgentBounds'
  <2>1. /\ arun'.iter = arun.iter + 1 /\ arun'.attempt = 0 /\ arun'.acks = arun.acks
        /\ arun'.batch = arun.batch /\ arun'.batches = arun.batches
    BY <1>1 DEF BeginIteration, AnyRun
  <2>2. arun.iter \in Nat /\ arun.iter < MaxIterations
    BY <1>1 DEF BeginIteration, AnyRun
  <2>3. arun.iter + 1 <= MaxIterations
    BY <2>2, AgentAssumption
  <2>4. 0 < RetryMax
    BY AgentAssumption
  <2> QED
    BY <1>1, <2>1, <2>3, <2>4 DEF AgentBounds
<1>4. Paired(history')
  <2>1. Paired(BudgetPressure(history))
    BY <1>1, PairedAppend, SomeMessages DEF BudgetPressure
  <2>2. history' \in CompressMessages(BudgetPressure(history))
    BY DEF BeginIteration
  <2> QED
    BY <2>1, <2>2, PairedCompressed
<1> QED
  BY <1>2, <1>3, <1>4, RequestKeeps

LEMMA HookFailsStep == ASSUME AgentInv, HookFails PROVE AgentInv'
<1>1. arun \in AnyRun /\ Paired(history)
  BY IdleRun DEF HookFails
<1>2. arun.class \in ErrorClass \cup {"none"} /\ history' \in Seq(MessageSet)
  BY <1>1 DEF AnyRun, HookFails, Paired
<1>3. ReturnFrom("error", arun.class) /\ "error" \in Finish
  BY DEF HookFails, Finish
<1> QED
  BY <1>2, <1>3, ReturnKeeps

LEMMA ExhaustBudgetStep == ASSUME AgentInv, ExhaustBudget PROVE AgentInv'
<1>1. arun \in AnyRun /\ Paired(history) /\ ~Fatal
  BY IdleRun DEF ExhaustBudget
<1>2. arun.class \in ErrorClass \cup {"none"} /\ history' \in Seq(MessageSet)
  BY <1>1 DEF AnyRun, ExhaustBudget, Paired
<1>3. ReturnFrom("budget_exceeded", arun.class) /\ "budget_exceeded" \in Finish
  BY DEF ExhaustBudget, Finish
<1> QED
  BY <1>1, <1>2, <1>3, ReturnKeeps

LEMMA AnswerTextStep == ASSUME AgentInv, AnswerText PROVE AgentInv'
<1>1. arun \in AnyRun /\ Paired(history) /\ ~Fatal
  BY IdleRun DEF AnswerText
<1>2. Paired(history')
  BY <1>1, PairedAppend, SomeMessages DEF AnswerText
<1>3. arun.class \in ErrorClass \cup {"none"} /\ history' \in Seq(MessageSet)
  BY <1>1, <1>2 DEF AnyRun, Paired
<1>4. ReturnFrom("stop", arun.class) /\ "stop" \in Finish
  BY DEF AnswerText, Finish
<1> QED
  BY <1>1, <1>3, <1>4, ReturnKeeps

LEMMA AnswerAckStep == ASSUME AgentInv, AnswerAck PROVE AgentInv'
<1>1. /\ arun \in AnyRun /\ arun.status = <<>> /\ Len(arun.turn) = 0 /\ ~Fatal
      /\ arun.finish = "none" /\ AgentBounds /\ Paired(history)
  BY IdleRun DEF AnswerAck
<1> DEFINE text == Message("text", <<>>)
<1>2. Paired(Append(history, text)) /\ Paired(<<text>>) /\ Paired(<<UserMessage>>)
  BY <1>1, PairedAppend, PairedOne, SomeMessages
<1>3. CASE arun.acks < AckMax
  <2>1. /\ history' = history \o <<text, UserMessage>>
        /\ arun' = [arun EXCEPT !.phase = "iterate", !.acks = @ + 1]
    BY <1>3 DEF AnswerAck
  <2>2. /\ arun' \in AnyRun /\ arun'.phase = "iterate" /\ arun'.status = <<>>
        /\ Len(arun'.turn) = 0 /\ arun'.finish = "none"
    <3>1. arun.acks \in Nat
      BY <1>1 DEF AnyRun
    <3>2. arun.acks + 1 \in Nat
      BY <3>1
    <3> QED
      BY <1>1, <2>1, <3>2 DEF AnyRun, Phase
  <2>3. AgentBounds'
    <3>1. arun.acks \in Nat /\ arun.acks + 1 <= AckMax
      BY <1>1, <1>3, AgentAssumption DEF AnyRun
    <3> QED
      BY <1>1, <2>1, <3>1 DEF AgentBounds, AnyRun
  <2>4. Paired(history')
    <3>1. <<text, UserMessage>> = <<text>> \o <<UserMessage>>
      OBVIOUS
    <3>2. Paired(<<text, UserMessage>>)
      BY <1>2, <3>1, PairedConcat
    <3> QED
      BY <1>1, <2>1, <3>2, PairedConcat
  <2> QED
    BY <2>2, <2>3, <2>4, RequestKeeps
<1>4. CASE ~(arun.acks < AckMax)
  <2>1. history' = Append(history, text) /\ ReturnFrom("ack_loop", arun.class)
    BY <1>4 DEF AnswerAck
  <2>2. arun.class \in ErrorClass \cup {"none"} /\ history' \in Seq(MessageSet) /\ "ack_loop" \in Finish
    BY <1>1, <1>2, <2>1 DEF AnyRun, Paired, Finish
  <2> QED
    BY <1>1, <2>1, <2>2, ReturnKeeps
<1> QED
  BY <1>3, <1>4

\* A request is asked again, with the history as it was or compacted.
LEMMA AskAgain ==
    ASSUME AgentInv, arun.phase = "request", Paired(history'),
           NEW n \in Nat, n < RetryMax, NEW compressed \in BOOLEAN,
           NEW class \in ErrorClass \cup {"none"},
           arun' = [arun EXCEPT !.attempt = n, !.compressed = compressed, !.class = class]
    PROVE  AgentInv'
<1>1. /\ arun \in AnyRun /\ arun.status = <<>> /\ Len(arun.turn) = 0
      /\ arun.finish = "none" /\ AgentBounds
  BY IdleRun
<1>2. /\ arun' \in AnyRun /\ arun'.phase = "request" /\ arun'.status = <<>>
      /\ Len(arun'.turn) = 0 /\ arun'.finish = "none"
  BY <1>1 DEF AnyRun
<1>3. AgentBounds'
  BY <1>1 DEF AgentBounds, AnyRun
<1> QED
  BY <1>2, <1>3, RequestKeeps

LEMMA FailRequest ==
    ASSUME AgentInv, arun.phase = "request", UNCHANGED history,
           NEW class \in ErrorClass \cup {"none"}, ReturnFrom("error", class)
    PROVE  AgentInv'
<1>1. Paired(history)
  BY IdleRun
<1>2. history' \in Seq(MessageSet) /\ "error" \in Finish
  BY <1>1 DEF Paired, Finish
<1> QED
  BY <1>2, ReturnKeeps

LEMMA AnswerEmptyStep == ASSUME AgentInv, AnswerEmpty PROVE AgentInv'
<1>1. arun \in AnyRun /\ Paired(history)
  BY IdleRun DEF AnswerEmpty
<1>2. /\ arun.phase = "request" /\ arun.attempt \in Nat /\ arun.compressed \in BOOLEAN
      /\ arun.class \in ErrorClass \cup {"none"} /\ UNCHANGED history
  BY <1>1 DEF AnswerEmpty, AnyRun
<1>3. CASE arun.attempt + 1 < RetryMax
  <2>1. arun' = [arun EXCEPT !.attempt = arun.attempt + 1, !.compressed = arun.compressed,
                             !.class = arun.class]
    BY <1>1, <1>3 DEF AnswerEmpty, AnyRun
  <2>2. arun.attempt + 1 \in Nat
    BY <1>2
  <2>3. Paired(history')
    BY <1>1, <1>2, <1>3
  <2> QED
    BY <1>2, <1>3, <2>1, <2>2, <2>3, AskAgain
<1>4. CASE ~(arun.attempt + 1 < RetryMax)
  <2>1. ReturnFrom("error", arun.class)
    BY <1>4 DEF AnswerEmpty
  <2> QED
    BY <1>2, <2>1, FailRequest
<1> QED
  BY <1>3, <1>4

LEMMA ProviderFailsStep ==
    ASSUME AgentInv, NEW c \in ErrorClass, ProviderFails(c) PROVE AgentInv'
<1>1. arun \in AnyRun /\ Paired(history)
  BY IdleRun DEF ProviderFails
<1>2. /\ arun.phase = "request" /\ arun.attempt \in Nat /\ arun.compressed \in BOOLEAN
      /\ arun.class \in ErrorClass \cup {"none"}
  BY <1>1 DEF ProviderFails, AnyRun
<1>3. CASE /\ arun.attempt + 1 < RetryMax
           /\ arun' = [arun EXCEPT !.attempt = @ + 1] /\ UNCHANGED history
  <2>1. arun' = [arun EXCEPT !.attempt = arun.attempt + 1, !.compressed = arun.compressed,
                             !.class = arun.class]
    BY <1>1, <1>3 DEF AnyRun
  <2>2. arun.attempt + 1 \in Nat
    BY <1>2
  <2>3. Paired(history')
    BY <1>1, <1>2, <1>3
  <2> QED
    BY <1>2, <1>3, <2>1, <2>2, <2>3, AskAgain
<1>4. CASE /\ \E h \in CompressMessages(history) : history' = h
           /\ arun' = [arun EXCEPT !.attempt = 0, !.compressed = TRUE, !.class = c]
  <2>1. Paired(history')
    BY <1>1, <1>4, PairedCompressed
  <2>2. 0 < RetryMax
    BY AgentAssumption
  <2> QED
    BY <1>2, <1>4, <2>1, <2>2, AskAgain
<1>5. CASE ReturnFrom("error", c) /\ UNCHANGED history
  BY <1>2, <1>5, FailRequest
<1> QED
  BY <1>3, <1>4, <1>5 DEF ProviderFails


-----------------------------------------------------------------------------
(***************************************************************************)
(* The steps of a run's calls.                                             *)
(***************************************************************************)
LEMMA AnswerToolsStep == ASSUME AgentInv, NEW t \in Turn, AnswerTools(t) PROVE AgentInv'
<1>1. /\ arun \in AnyRun /\ Paired(history) /\ AgentBounds /\ arun.finish = "none"
  BY IdleRun DEF AnswerTools
<1>2. t \in Seq(ToolCall) /\ Len(t) \in Nat /\ DOMAIN t = 1..Len(t)
  BY AgentAssumption, LenProperties
<1> DEFINE status == [i \in 1..Len(t) |-> "waiting"]
           m == Message("use", Count(Len(t)))
<1>3. status \in Seq(Status) /\ Len(status) = Len(t) /\ DOMAIN status = 1..Len(t)
  <2>1. status \in Seq(Status)
    BY <1>2 DEF Status
  <2>2. DOMAIN status = 1..Len(t)
    OBVIOUS
  <2> QED
    BY <1>2, <2>1, <2>2, LenProperties
<1>4. m \in MessageSet
  BY <1>2, CountProperties DEF Message, MessageSet, Kind
<1>5. \A i \in 1..Len(t) : status[i] = "waiting"
  OBVIOUS
<1>6. /\ history' = Append(history, m)
      /\ arun' = [arun EXCEPT !.phase = "judge", !.acks = 0, !.turn = t, !.status = status]
  BY <1>2 DEF AnswerTools, Count
<1> HIDE DEF status, m
<1>7. /\ arun' \in AnyRun /\ arun'.phase = "judge" /\ arun'.acks = 0 /\ arun'.turn = t
      /\ arun'.status = status /\ arun'.finish = "none" /\ arun'.iter = arun.iter
      /\ arun'.attempt = arun.attempt /\ arun'.batch = arun.batch /\ arun'.batches = arun.batches
  BY <1>1, <1>2, <1>3, <1>6 DEF AnyRun, Phase
<1>8. history \in Seq(MessageSet) /\ PairedUpTo(history, Len(history)) /\ Len(history) \in Nat
  BY <1>1, LenProperties DEF Paired
<1>9. /\ history' \in Seq(MessageSet) /\ Len(history') = Len(history) + 1 /\ history' # <<>>
      /\ history'[Len(history) + 1] = m /\ \A k \in 1..Len(history) : history'[k] = history[k]
  BY <1>4, <1>6, <1>8, AppendProperties
<1>10. AgentTyped'
  BY <1>7, <1>9 DEF AgentTyped
<1>11. AgentBounds'
  BY <1>1, <1>7, AgentAssumption DEF AgentBounds
<1>12. TurnShape'
  BY <1>3, <1>5, <1>7 DEF TurnShape
<1>13. BatchesKept'
  <2>1. Started' = {}
    BY <1>3, <1>5, <1>7 DEF Started
  <2> QED
    BY <1>7, <2>1 DEF BatchesKept
<1>14. HistoryKept'
  <2>1. PairedUpTo(history', Len(history))
    <3> SUFFICES ASSUME NEW k \in 1..Len(history), history'[k].kind = "use"
                 PROVE  k < Len(history) /\ history'[k + 1] = Message("results", history'[k].ids)
      BY DEF PairedUpTo
    <3>1. k < Len(history) /\ history[k + 1] = Message("results", history[k].ids)
      BY <1>8, <1>9 DEF PairedUpTo
    <3>2. k + 1 \in 1..Len(history)
      BY <1>8, <3>1
    <3> QED
      BY <1>9, <3>1, <3>2
  <2>2. Len(history') - 1 = Len(history)
    BY <1>8, <1>9
  <2>3. history'[Len(history')] = Message("use", [i \in 1..Len(arun'.turn) |-> i])
    BY <1>7, <1>9 DEF m, Count
  <2> QED
    BY <1>7, <1>9, <2>1, <2>2, <2>3 DEF HistoryKept
<1> QED
  BY <1>10, <1>11, <1>12, <1>13, <1>14 DEF AgentInv

LEMMA CollectApprovedStep ==
    ASSUME AgentInv, NEW denied \in SUBSET DOMAIN arun.turn, CollectApproved(denied)
    PROVE  AgentInv'
<1>1. /\ AgentTyped /\ AgentBounds /\ TurnShape /\ HistoryKept
      /\ arun.phase = "judge" /\ arun \in AnyRun /\ history \in Seq(MessageSet)
  BY DEF AgentInv, AgentTyped, CollectApproved
<1>2. /\ arun.turn \in Seq(ToolCall) /\ Len(arun.turn) \in Nat
      /\ DOMAIN arun.turn = 1..Len(arun.turn)
      /\ Len(arun.status) = Len(arun.turn) /\ DOMAIN arun.status = 1..Len(arun.turn)
      /\ \A i \in 1..Len(arun.turn) : arun.status[i] = "waiting"
  BY <1>1, RunTypes DEF TurnShape
<1> DEFINE N == Len(arun.turn)
           status == [i \in 1..N |-> IF i \in denied THEN "denied" ELSE "waiting"]
           batches == PartitionToolCalls(arun.turn, denied)
<1>3. status \in Seq(Status) /\ Len(status) = N /\ DOMAIN status = 1..N
  <2>1. status \in Seq(Status)
    BY <1>2 DEF Status
  <2>2. DOMAIN status = 1..N
    OBVIOUS
  <2> QED
    BY <1>2, <2>1, <2>2, LenProperties
<1>4. \A i \in 1..N : status[i] = IF i \in denied THEN "denied" ELSE "waiting"
  OBVIOUS
<1>5. batches \in Seq(Seq(Nat)) /\ Partitioned(arun.turn, batches, N, denied)
  BY <1>2, PartitionIsPartitioned
<1>6. arun' = [arun EXCEPT !.phase = "execute", !.batch = 1, !.status = status, !.batches = batches]
  <2>1. status = [i \in DOMAIN arun.status |-> IF i \in denied THEN "denied" ELSE arun.status[i]]
    BY <1>2
  <2> QED
    BY <1>1, <2>1 DEF CollectApproved, AnyRun
<1> HIDE DEF status, batches
<1>7. /\ arun' \in AnyRun /\ arun'.phase = "execute" /\ arun'.batch = 1 /\ arun'.turn = arun.turn
      /\ arun'.status = status /\ arun'.batches = batches /\ arun'.finish = arun.finish
      /\ arun'.iter = arun.iter /\ arun'.attempt = arun.attempt /\ arun'.acks = arun.acks
  BY <1>1, <1>3, <1>5, <1>6 DEF AnyRun, Phase
<1>8. history' = history
  BY DEF CollectApproved
<1>9. AgentTyped'
  BY <1>1, <1>7, <1>8 DEF AgentTyped
<1>10. AgentBounds'
  <2>1. Len(batches) \in Nat
    BY <1>5, LenProperties
  <2>2. 1 <= Len(batches) + 1
    BY <2>1
  <2> QED
    BY <1>1, <1>7, <2>2 DEF AgentBounds
<1>11. TurnShape'
  BY <1>1, <1>3, <1>7 DEF TurnShape
<1>12. BatchesKept'
  <2>1. DeniedCalls' = denied
    <3>1. denied \subseteq 1..N
      BY <1>2
    <3> QED
      BY <1>3, <1>4, <1>7, <3>1 DEF DeniedCalls
  <2>2. ASSUME NEW b \in DOMAIN batches, NEW k \in DOMAIN batches[b]
        PROVE  status[batches[b][k]] = "waiting" /\ b > 0
    <3>1. batches[b][k] \in (1..N) \ denied
      BY <1>5 DEF Partitioned
    <3>2. Len(batches) \in Nat /\ DOMAIN batches = 1..Len(batches)
      BY <1>5, LenProperties
    <3> QED
      BY <1>4, <3>1, <3>2
  <2>3. ASSUME NEW b \in DOMAIN batches PROVE b \in Nat
    <3>1. Len(batches) \in Nat /\ DOMAIN batches = 1..Len(batches)
      BY <1>5, LenProperties
    <3> QED
      BY <3>1
  <2>4. \A b \in DOMAIN batches : \A k \in DOMAIN batches[b] :
          /\ b < 1 => status[batches[b][k]] = "done"
          /\ b > 1 => status[batches[b][k]] = "waiting"
    BY <2>2, <2>3
  <2> QED
    BY <1>5, <1>7, <2>1, <2>4 DEF BatchesKept
<1>13. HistoryKept'
  BY <1>1, <1>7, <1>8 DEF HistoryKept
<1> QED
  BY <1>9, <1>10, <1>11, <1>12, <1>13 DEF AgentInv

LEMMA JudgementFailsStep == ASSUME AgentInv, JudgementFails PROVE AgentInv'
<1>1. arun \in AnyRun /\ <<>> \in Seq(MessageSet)
  BY DEF AgentInv, AgentTyped
<1>2. arun.class \in ErrorClass \cup {"none"} /\ history' \in Seq(MessageSet)
  BY <1>1 DEF AnyRun, JudgementFails
<1>3. ReturnFrom("error", arun.class) /\ "error" \in Finish
  BY DEF JudgementFails, Finish
<1> QED
  BY <1>2, <1>3, ReturnKeeps

LEMMA AbortTurnStep == ASSUME AgentInv, AbortTurn PROVE AgentInv'
<1>1. arun \in AnyRun /\ <<>> \in Seq(MessageSet)
  BY DEF AgentInv, AgentTyped
<1>2. arun.class \in ErrorClass \cup {"none"} /\ history' \in Seq(MessageSet)
  BY <1>1 DEF AnyRun, AbortTurn
<1>3. ReturnFrom("error", arun.class) /\ "error" \in Finish
  BY DEF AbortTurn, Finish
<1> QED
  BY <1>2, <1>3, ReturnKeeps

\* A call of the current batch is started, or ends.
LEMMA ToolCallMoves ==
    ASSUME AgentInv, arun.phase = "execute", NEW i \in DOMAIN arun.turn, InBatch(i),
           arun.status[i] \in {"waiting", "running"}, NEW s \in {"running", "done", "fatal"},
           arun' = [arun EXCEPT !.status[i] = s], UNCHANGED history
    PROVE  AgentInv'
<1>1. /\ AgentTyped /\ AgentBounds /\ TurnShape /\ BatchesKept /\ HistoryKept
      /\ arun \in AnyRun /\ history \in Seq(MessageSet)
  BY DEF AgentInv, AgentTyped
<1>2. /\ arun.status \in Seq(Status) /\ i \in 1..Len(arun.status)
      /\ DOMAIN arun.status = 1..Len(arun.status) /\ DOMAIN arun.batches \subseteq Nat
      /\ arun.batch \in Nat /\ Len(arun.status) = Len(arun.turn)
  BY <1>1, RunTypes DEF TurnShape
<1> DEFINE status == [arun.status EXCEPT ![i] = s]
<1>3. /\ status \in Seq(Status) /\ Len(status) = Len(arun.status)
      /\ DOMAIN status = DOMAIN arun.status /\ status[i] = s
      /\ \A j \in DOMAIN arun.status : j # i => status[j] = arun.status[j]
  BY <1>2, ExceptSeq DEF Status
<1>4. arun' = [arun EXCEPT !.status = status]
  BY <1>1 DEF AnyRun
<1> HIDE DEF status
<1>5. /\ arun' \in AnyRun /\ arun'.phase = arun.phase /\ arun'.batch = arun.batch
      /\ arun'.turn = arun.turn /\ arun'.status = status /\ arun'.batches = arun.batches
      /\ arun'.finish = arun.finish /\ arun'.iter = arun.iter /\ arun'.attempt = arun.attempt
      /\ arun'.acks = arun.acks
  BY <1>1, <1>3, <1>4 DEF AnyRun
<1>6. AgentTyped'
  BY <1>1, <1>5 DEF AgentTyped
<1>7. AgentBounds'
  BY <1>1, <1>5 DEF AgentBounds
<1>8. TurnShape'
  BY <1>1, <1>3, <1>5 DEF TurnShape
<1>9. BatchesKept'
  <2>1. DeniedCalls' = DeniedCalls
    BY <1>2, <1>3, <1>5 DEF DeniedCalls
  <2>2. /\ Partitioned(arun.turn, arun.batches, Len(arun.turn), DeniedCalls)
        /\ \A b \in DOMAIN arun.batches : \A k \in DOMAIN arun.batches[b] :
              /\ b < arun.batch => arun.status[arun.batches[b][k]] = "done"
              /\ b > arun.batch => arun.status[arun.batches[b][k]] = "waiting"
    BY <1>1 DEF BatchesKept
  <2>3. ASSUME NEW b \in DOMAIN arun.batches, NEW k \in DOMAIN arun.batches[b], b # arun.batch
        PROVE  status[arun.batches[b][k]] = arun.status[arun.batches[b][k]]
    <3>1. PICK l \in DOMAIN arun.batches[arun.batch] : arun.batches[arun.batch][l] = i
      BY DEF InBatch
    <3>2. arun.batch \in DOMAIN arun.batches
      BY <1>1, RunTypes DEF InBatch, TurnShape
    <3>3. arun.batches[b][k] \in DOMAIN arun.status
      BY <1>2, <2>2 DEF Partitioned
    <3>4. b \in Nat /\ arun.batch \in Nat /\ i \in Nat
      BY <1>2
    <3>5. CASE b < arun.batch
      <4>1. arun.batches[b][k] < i
        BY <2>2, <3>1, <3>2, <3>5 DEF Partitioned
      <4>2. arun.batches[b][k] # i
        BY <3>4, <4>1
      <4> QED
        BY <1>3, <3>3, <4>2
    <3>6. CASE arun.batch < b
      <4>1. i < arun.batches[b][k]
        BY <2>2, <3>1, <3>2, <3>6 DEF Partitioned
      <4>2. arun.batches[b][k] # i
        BY <3>4, <4>1
      <4> QED
        BY <1>3, <3>3, <4>2
    <3> QED
      BY <2>3, <3>4, <3>5, <3>6
  <2>4. \A b \in DOMAIN arun.batches : \A k \in DOMAIN arun.batches[b] :
          /\ b < arun.batch => status[arun.batches[b][k]] = "done"
          /\ b > arun.batch => status[arun.batches[b][k]] = "waiting"
    <3> TAKE b \in DOMAIN arun.batches
    <3> TAKE k \in DOMAIN arun.batches[b]
    <3>1. b \in Nat /\ arun.batch \in Nat
      BY <1>2
    <3>2. b # arun.batch => status[arun.batches[b][k]] = arun.status[arun.batches[b][k]]
      BY <2>3
    <3>3. b < arun.batch => b # arun.batch
      BY <3>1
    <3>4. b > arun.batch => b # arun.batch
      BY <3>1
    <3> QED
      BY <2>2, <3>2, <3>3, <3>4
  <2> QED
    BY <1>5, <2>1, <2>2, <2>4 DEF BatchesKept
<1>10. HistoryKept'
  BY <1>1, <1>5 DEF HistoryKept
<1> QED
  BY <1>6, <1>7, <1>8, <1>9, <1>10 DEF AgentInv

LEMMA StartCallStep == ASSUME AgentInv, NEW i \in DOMAIN arun.turn, StartCall(i) PROVE AgentInv'
BY ToolCallMoves DEF StartCall

LEMMA FinishCallStep ==
    ASSUME AgentInv, NEW i \in DOMAIN arun.turn, NEW failed \in BOOLEAN, FinishCall(i, failed)
    PROVE  AgentInv'
<1> DEFINE s == IF failed /\ arun.turn[i].cancelOnErr THEN "fatal" ELSE "done"
<1>1. s \in {"running", "done", "fatal"} /\ arun' = [arun EXCEPT !.status[i] = s]
  BY DEF FinishCall
<1> HIDE DEF s
<1> QED
  BY <1>1, ToolCallMoves DEF FinishCall

LEMMA NextBatchStep == ASSUME AgentInv, NextBatch PROVE AgentInv'
<1>1. /\ AgentTyped /\ AgentBounds /\ TurnShape /\ BatchesKept /\ HistoryKept
      /\ arun \in AnyRun /\ history \in Seq(MessageSet)
  BY DEF AgentInv, AgentTyped
<1>2. /\ DOMAIN arun.status = 1..Len(arun.turn) /\ DOMAIN arun.batches \subseteq Nat
      /\ arun.batch \in Nat /\ Len(arun.batches) \in Nat /\ arun.batch + 1 \in Nat
  BY <1>1, RunTypes DEF TurnShape
<1>3. arun.phase = "execute" /\ arun.batch <= Len(arun.batches) /\ history' = history
  BY DEF NextBatch, BatchDone
<1>4. /\ arun' \in AnyRun /\ arun'.phase = "execute" /\ arun'.batch = arun.batch + 1
      /\ arun'.turn = arun.turn /\ arun'.status = arun.status /\ arun'.batches = arun.batches
      /\ arun'.finish = arun.finish /\ arun'.iter = arun.iter /\ arun'.attempt = arun.attempt
      /\ arun'.acks = arun.acks
  BY <1>1, <1>2, <1>3 DEF NextBatch, AnyRun
<1>5. AgentTyped'
  BY <1>1, <1>3, <1>4 DEF AgentTyped
<1>6. AgentBounds'
  <2>1. arun.batch + 1 <= Len(arun.batches) + 1
    BY <1>2, <1>3
  <2> QED
    BY <1>1, <1>4, <2>1 DEF AgentBounds
<1>7. TurnShape'
  <2>1. arun'.batch > 0
    BY <1>2, <1>4
  <2> QED
    BY <1>1, <1>3, <1>4, <2>1 DEF TurnShape
<1>8. BatchesKept'
  <2>1. DeniedCalls' = DeniedCalls
    BY <1>4 DEF DeniedCalls
  <2>2. /\ Partitioned(arun.turn, arun.batches, Len(arun.turn), DeniedCalls)
        /\ \A b \in DOMAIN arun.batches : \A k \in DOMAIN arun.batches[b] :
              /\ b < arun.batch => arun.status[arun.batches[b][k]] = "done"
              /\ b > arun.batch => arun.status[arun.batches[b][k]] = "waiting"
    BY <1>1, <1>3 DEF BatchesKept
  <2>3. ASSUME NEW k \in DOMAIN arun.batches[arun.batch], arun.batch \in DOMAIN arun.batches
        PROVE  arun.status[arun.batches[arun.batch][k]] = "done"
    <3>1. arun.batches[arun.batch][k] \in DOMAIN arun.status
      BY <1>2, <2>2, <2>3 DEF Partitioned
    <3>2. InBatch(arun.batches[arun.batch][k])
      BY <1>3 DEF InBatch
    <3> QED
      BY <3>1, <3>2 DEF NextBatch, BatchDone, Fatal
  <2>4. \A b \in DOMAIN arun.batches : \A k \in DOMAIN arun.batches[b] :
          /\ b < arun.batch + 1 => arun.status[arun.batches[b][k]] = "done"
          /\ b > arun.batch + 1 => arun.status[arun.batches[b][k]] = "waiting"
    <3> TAKE b \in DOMAIN arun.batches
    <3> TAKE k \in DOMAIN arun.batches[b]
    <3>1. b \in Nat /\ arun.batch \in Nat
      BY <1>2
    <3>2. b < arun.batch + 1 => b < arun.batch \/ b = arun.batch
      BY <3>1
    <3>3. b > arun.batch + 1 => b > arun.batch
      BY <3>1
    <3>4. b = arun.batch => arun.status[arun.batches[b][k]] = "done"
      BY <2>3
    <3> QED
      BY <2>2, <3>2, <3>3, <3>4
  <2> QED
    BY <1>4, <2>1, <2>2, <2>4 DEF BatchesKept
<1>9. HistoryKept'
  BY <1>1, <1>3, <1>4 DEF HistoryKept
<1> QED
  BY <1>5, <1>6, <1>7, <1>8, <1>9 DEF AgentInv

LEMMA AppendToolResultsStep ==
    ASSUME AgentInv, NEW footer \in BOOLEAN, AppendToolResults(footer) PROVE AgentInv'
<1>1. /\ AgentTyped /\ AgentBounds /\ TurnShape /\ BatchesKept /\ HistoryKept
      /\ arun \in AnyRun /\ history \in Seq(MessageSet) /\ arun.phase = "execute"
      /\ arun.finish = "none"
  BY DEF AgentInv, AgentTyped, TurnShape, AppendToolResults
<1>2. /\ Len(arun.turn) \in Nat /\ DOMAIN arun.status = 1..Len(arun.turn)
      /\ DOMAIN arun.batches = 1..Len(arun.batches)
      /\ arun.batch \in Nat /\ Len(arun.batches) \in Nat
  BY <1>1, RunTypes DEF TurnShape
<1>3. ASSUME NEW i \in 1..Len(arun.turn) PROVE arun.status[i] \in {"done", "denied"}
  <2>1. CASE i \in DeniedCalls
    BY <2>1 DEF DeniedCalls
  <2>2. CASE i \notin DeniedCalls
    <3>1. PICK b \in DOMAIN arun.batches : \E k \in DOMAIN arun.batches[b] : arun.batches[b][k] = i
      BY <1>1, <2>2 DEF BatchesKept, Partitioned
    <3>2. b < arun.batch
      BY <1>2 DEF AppendToolResults
    <3> QED
      BY <1>1, <3>1, <3>2 DEF BatchesKept
  <2> QED
    BY <2>1, <2>2
<1>4. ResultIds = Count(Len(arun.turn))
  BY <1>2, <1>3, AllResults
<1> DEFINE ids == Count(Len(arun.turn))
           m == Message("results", ids)
<1>5. ids \in Seq(Nat)
  BY <1>2, CountProperties
<1>6. /\ history # <<>> /\ PairedUpTo(history, Len(history) - 1)
      /\ history[Len(history)] = Message("use", ids)
  BY <1>1 DEF HistoryKept, Count
<1> HIDE DEF ids
<1>7. Paired(Append(history, m))
  BY <1>1, <1>5, <1>6, PairedResults
<1>8. Paired(history')
  <2>1. Paired(<<UserMessage>>)
    BY PairedOne, SomeMessages
  <2>2. history' = Append(history, m) \o (IF footer THEN <<UserMessage>> ELSE <<>>)
    BY <1>4 DEF AppendToolResults, ids
  <2>3. CASE footer
    BY <1>7, <2>1, <2>2, <2>3, PairedConcat
  <2>4. CASE ~footer
    BY <1>7, <2>2, <2>4, ConcatEmptySeq DEF Paired
  <2> QED
    BY <2>3, <2>4
<1>9. arun' = [arun EXCEPT !.phase = "iterate", !.turn = <<>>, !.status = <<>>,
                            !.batches = <<>>, !.batch = 0]
  BY DEF AppendToolResults
<1>10. /\ arun' \in AnyRun /\ arun'.phase = "iterate" /\ arun'.status = <<>> /\ arun'.turn = <<>>
       /\ arun'.finish = "none" /\ arun'.batches = <<>> /\ arun'.batch = 0
       /\ arun'.iter = arun.iter /\ arun'.attempt = arun.attempt /\ arun'.acks = arun.acks
  <2>1. <<>> \in Seq(ToolCall) /\ <<>> \in Seq(Status) /\ <<>> \in Seq(Seq(Nat))
    OBVIOUS
  <2> QED
    BY <1>1, <1>9, <2>1 DEF AnyRun, Phase
<1>11. Len(arun'.turn) = 0 /\ Len(arun'.batches) = 0
  BY <1>10
<1>12. AgentBounds'
  BY <1>1, <1>10, <1>11 DEF AgentBounds
<1> QED
  BY <1>8, <1>10, <1>11, <1>12, RequestKeeps

-----------------------------------------------------------------------------
(***************************************************************************)
(* The theorems.                                                           *)
(***************************************************************************)
LEMMA AgentInvStep == AgentInv /\ [AgentNext]_agentVars => AgentInv'
<1> SUFFICES ASSUME AgentInv, [AgentNext]_agentVars PROVE AgentInv'
  OBVIOUS
<1>1. CASE CallRun
  BY <1>1, CallRunStep
<1>2. CASE BeginIteration
  BY <1>2, BeginIterationStep
<1>3. CASE HookFails
  BY <1>3, HookFailsStep
<1>4. CASE ExhaustBudget
  BY <1>4, ExhaustBudgetStep
<1>5. CASE AnswerText
  BY <1>5, AnswerTextStep
<1>6. CASE AnswerAck
  BY <1>6, AnswerAckStep
<1>7. CASE AnswerEmpty
  BY <1>7, AnswerEmptyStep
<1>8. CASE \E t \in Turn : AnswerTools(t)
  BY <1>8, AnswerToolsStep
<1>9. CASE \E c \in ErrorClass : ProviderFails(c)
  BY <1>9, ProviderFailsStep
<1>10. CASE \E denied \in SUBSET DOMAIN arun.turn : CollectApproved(denied)
  BY <1>10, CollectApprovedStep
<1>11. CASE JudgementFails
  BY <1>11, JudgementFailsStep
<1>12. CASE \E i \in DOMAIN arun.turn :
              StartCall(i) \/ \E failed \in BOOLEAN : FinishCall(i, failed)
  BY <1>12, StartCallStep, FinishCallStep
<1>13. CASE AbortTurn
  BY <1>13, AbortTurnStep
<1>14. CASE NextBatch
  BY <1>14, NextBatchStep
<1>15. CASE \E footer \in BOOLEAN : AppendToolResults(footer)
  BY <1>15, AppendToolResultsStep
<1>16. CASE UNCHANGED agentVars
  BY <1>16 DEF agentVars, AgentInv, AgentTyped, AgentBounds, TurnShape, BatchesKept, HistoryKept,
               Fatal, Started, DeniedCalls
<1> QED
  BY <1>1, <1>2, <1>3, <1>4, <1>5, <1>6, <1>7, <1>8, <1>9, <1>10, <1>11, <1>12, <1>13, <1>14,
     <1>15, <1>16 DEF AgentNext, AgentStep, AwaitedReturns

\* The inductive invariant of a run: where it is, which of its calls were
\* made and what its history answers.
THEOREM AgentInvariance == AgentSpec => []AgentInv
<1> QED
  BY AgentInitially, AgentInvStep, PTL DEF AgentSpec

\* The locals of Run keep their types and the loop its budgets.
THEOREM AgentTypes == AgentSpec => []AgentTypeOK
<1>1. AgentInv => AgentTypeOK
  BY InvTypes DEF AgentInv
<1> QED
  BY <1>1, AgentInvariance, PTL

\* partitionToolCalls and executeToolBatch run conflicting calls in order,
\* whatever tools a turn asks for.
THEOREM ConflictsRunInOrder == AgentSpec => []ConflictsInOrder
<1>1. AgentInv => ConflictsInOrder
  BY InvConflicts DEF AgentInv
<1> QED
  BY <1>1, AgentInvariance, PTL

\* After a fatal error no later batch is begun and the run ends with it.
THEOREM FatalErrorsEndTheRun == AgentSpec => []FatalEndsRun
<1>1. AgentInv => FatalEndsRun
  BY InvFatal DEF AgentInv
<1> QED
  BY <1>1, AgentInvariance, PTL

\* Every request carries the results of all the calls it shows, whatever
\* CompressMessages cut from the history.
THEOREM RequestsArePaired == AgentSpec => []HistoryPaired
<1>1. AgentInv => HistoryPaired
  BY InvPaired DEF AgentInv
<1> QED
  BY <1>1, AgentInvariance, PTL
=============================================================================
