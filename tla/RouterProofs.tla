---------------------------- MODULE RouterProofs ----------------------------
(***************************************************************************)
(* Proofs about the delivery router, for any number of tasks, sinks,       *)
(* workers, failures and crashes.                                          *)
(***************************************************************************)
EXTENDS DeliveryRouter, TLAPS

-----------------------------------------------------------------------------
(***************************************************************************)
(* The invariant.                                                          *)
(***************************************************************************)
Route == {PayloadRoute[t] : t \in Task} \cup {NoRoute}
CallerState == [pc : {"idle", "run", "deliver", "notify", "undo"}, task : SUBSET Task,
                sink : Nat, claimed : BOOLEAN]

RouterTypeOK ==
    /\ claims \subseteq Pair
    /\ routes \in [Task -> Route]
    /\ at \in [Caller -> CallerState]
    /\ notified \in [Pair -> Nat]
    /\ finished \subseteq Task
    /\ todo \subseteq finished

\* The workers start when the receipts found are delivered.
StartInv ==
    /\ todo # {} => ~up
    /\ ~up => \A c \in Runner : at[c].task = {}

CallerInv(c) ==
    /\ at[c].pc \in {"notify", "undo"} => at[c].sink \in Sink
    /\ at[c].pc = "deliver" => at[c].sink >= 1
    /\ at[c].pc = "undo" => \A t \in Task : Has(c, t) => <<t, at[c].sink>> \in failed

\* The caller acts upon its claim of the pair.
Working(c, t, s) == Has(c, t) /\ at[c].sink = s /\ at[c].pc \in {"notify", "undo"}

\* As long as the table took every statement about a pair, the claim is a lock:
\* who works on the pair holds it, alone, and it is kept once the sink is
\* notified.
LockInv(t, s) ==
    <<t, s>> \notin refused =>
       /\ notified[<<t, s>>] <= 1
       /\ notified[<<t, s>>] > 0 => <<t, s>> \in claims
       /\ \A c \in Caller : Working(c, t, s) =>
              at[c].claimed /\ <<t, s>> \in claims /\ notified[<<t, s>>] = 0
       /\ \A c, d \in Caller : Working(c, t, s) /\ Working(d, t, s) => c = d

\* Where a claim without a notification comes from, in two ways: which step
\* left it, and whether its sink failed.
ZombieInv(t, s) ==
    <<t, s>> \in claims /\ notified[<<t, s>>] = 0 =>
       /\ <<t, s>> \in cut \cup refused \/ \E c \in Caller : Working(c, t, s)
       /\ \/ <<t, s>> \in cut \cup failed
          \/ \E c \in Caller : Working(c, t, s) /\ at[c].pc = "notify"

\* The caller has still to come to the sink, or is about to notify it.
Coming(c, t, s) ==
    /\ Has(c, t)
    /\ \/ at[c].pc \in {"deliver", "notify"} /\ at[c].sink <= s
       \/ at[c].pc = "undo" /\ at[c].sink < s
ReachInv(t, s) ==
    t \in finished \ missed /\ ShouldDeliver(s, PayloadRoute[t])
    /\ <<t, s>> \notin failed \cup cut =>
       notified[<<t, s>>] > 0 \/ t \in todo \/ \E c \in Caller : Coming(c, t, s)

\* A task that never had two workers has one caller, and its route while it runs.
RouteInv(t) ==
    t \notin shared =>
       /\ \A c, d \in Caller : Has(c, t) /\ Has(d, t) => c = d
       /\ \A c \in Caller : Has(c, t) /\ at[c].pc = "run" => routes[t] = PayloadRoute[t]

PairInv(t, s) == LockInv(t, s) /\ ZombieInv(t, s) /\ ReachInv(t, s)

RouterInv ==
    /\ RouterTypeOK
    /\ StartInv
    /\ \A c \in Caller : CallerInv(c)
    /\ \A t \in Task, s \in Sink : PairInv(t, s)
    /\ \A t \in Task : RouteInv(t)
    /\ ProgressStaysOnRoute

-----------------------------------------------------------------------------
(***************************************************************************)
(* Types, and what a step changes.                                         *)
(***************************************************************************)
LEMMA IdleState ==
    /\ Idle \in CallerState
    /\ Idle.pc = "idle" /\ Idle.task = {}
BY DEF Idle, CallerState

LEMMA RouterInitially == Init => RouterInv
<1> SUFFICES ASSUME Init PROVE RouterInv
  OBVIOUS
<1> USE DEF Init
<1>1. RouterTypeOK
  BY IdleState DEF RouterTypeOK, Route
<1>2. StartInv
  BY IdleState DEF StartInv, Caller
<1>3. \A c \in Caller : CallerInv(c)
  BY IdleState DEF CallerInv
<1>4. ASSUME NEW t \in Task, NEW s \in Sink PROVE PairInv(t, s)
  <2>1. <<t, s>> \in Pair /\ notified[<<t, s>>] = 0
    BY <1>4 DEF Pair
  <2>2. \A c \in Caller : ~Working(c, t, s)
    BY IdleState DEF Working
  <2> QED
    BY <2>1, <2>2 DEF PairInv, LockInv, ZombieInv, ReachInv
<1>5. \A t \in Task : RouteInv(t)
  BY IdleState DEF RouteInv, Has
<1> QED
  BY <1>1, <1>2, <1>3, <1>4, <1>5 DEF RouterInv, ProgressStaysOnRoute

\* Going on to the next sink.
LEMMA NextSinkMoves ==
    ASSUME at \in [Caller -> CallerState], NEW c \in Caller, NextSink(c)
    PROVE  /\ at' \in [Caller -> CallerState]
           /\ \A d \in Caller : d # c => at'[d] = at[d]
           /\ at'[c].pc = "deliver"
           /\ at'[c].task = at[c].task
           /\ at'[c].sink = at[c].sink + 1
<1>1. at[c].sink \in Nat
  BY DEF CallerState
<1>2. \A d \in Caller : d # c => at'[d] = at[d]
  BY DEF NextSink
<1>3. /\ at'[c].pc = "deliver"
      /\ at'[c].task = at[c].task
      /\ at'[c].sink = at[c].sink + 1
  BY DEF NextSink, CallerState
<1>4. at' \in [Caller -> CallerState]
  BY <1>1 DEF NextSink, CallerState
<1> QED
  BY <1>2, <1>3, <1>4

\* What a step of Deliver leaves alone when it moves the caller c.
LEMMA ServeKeeps ==
    ASSUME RouterInv, NEW c \in Caller,
           \A d \in Caller : d # c => at'[d] = at[d],
           at'[c].task = at[c].task, at'[c].pc # "run",
           UNCHANGED <<routes, todo, up, progressed, shared>>
    PROVE  /\ StartInv'
           /\ \A t \in Task : RouteInv(t)'
           /\ ProgressStaysOnRoute'
<1>1. /\ StartInv
      /\ \A t \in Task : RouteInv(t)
      /\ ProgressStaysOnRoute
  BY DEF RouterInv
<1>2. \A d \in Caller : at'[d].task = at[d].task
  OBVIOUS
<1>3. StartInv'
  BY <1>1, <1>2 DEF StartInv, Caller
<1>4. ASSUME NEW t \in Task PROVE RouteInv(t)'
  BY <1>1, <1>2 DEF RouteInv, Has
<1>5. ProgressStaysOnRoute'
  BY <1>1 DEF ProgressStaysOnRoute
<1> QED
  BY <1>3, <1>4, <1>5

LEMMA SkipStep ==
    ASSUME RouterInv, NEW c \in Caller, NEW t \in Task, SkipIneligible(c, t)
    PROVE  RouterInv'
<1>1. /\ RouterTypeOK
      /\ \A d \in Caller : CallerInv(d)
      /\ \A u \in Task, s \in Sink : PairInv(u, s)
  BY DEF RouterInv
<1>2. /\ Has(c, t) /\ at[c].pc = "deliver" /\ at[c].sink \in Sink
      /\ ~ShouldDeliver(at[c].sink, PayloadRoute[t])
      /\ NextSink(c)
      /\ UNCHANGED <<claims, routes, finished, todo, up, notified, progressed, shared,
                     failed, refused, missed, cut>>
  BY DEF SkipIneligible, sinkVars, faultVars
<1>3. /\ at' \in [Caller -> CallerState]
      /\ \A d \in Caller : d # c => at'[d] = at[d]
      /\ at'[c].pc = "deliver"
      /\ at'[c].task = at[c].task
      /\ at'[c].sink = at[c].sink + 1
  BY <1>1, <1>2, NextSinkMoves DEF RouterTypeOK
<1>4. RouterTypeOK'
  BY <1>1, <1>2, <1>3 DEF RouterTypeOK
<1>5. ASSUME NEW d \in Caller PROVE CallerInv(d)'
  BY <1>1, <1>2, <1>3 DEF CallerInv, Has, Sink
<1>6. ASSUME NEW u \in Task, NEW s \in Sink PROVE PairInv(u, s)'
  <2>1. /\ \A d \in Caller : Working(d, u, s)' <=> Working(d, u, s)
        /\ \A d \in Caller : Working(d, u, s) => at'[d] = at[d]
    BY <1>2, <1>3 DEF Working, Has
  <2>2. LockInv(u, s)'
    BY <1>1, <1>2, <2>1 DEF PairInv, LockInv
  <2>3. ZombieInv(u, s)'
    BY <1>1, <1>2, <2>1 DEF PairInv, ZombieInv
  <2>4. ASSUME NEW d \in Caller, Coming(d, u, s), ShouldDeliver(s, PayloadRoute[u])
        PROVE  Coming(d, u, s)'
    <3>1. CASE d = c
      <4>1. u = t /\ at[c].sink # s /\ at[c].sink <= s
        BY <1>2, <2>4, <3>1 DEF Coming, Has
      <4> QED
        BY <1>2, <1>3, <2>4, <3>1, <4>1 DEF Coming, Has, Sink
    <3>2. CASE d # c
      BY <1>3, <2>4, <3>2 DEF Coming, Has
    <3> QED
      BY <3>1, <3>2
  <2>5. ReachInv(u, s)'
    BY <1>1, <1>2, <2>4 DEF PairInv, ReachInv
  <2> QED
    BY <2>2, <2>3, <2>5 DEF PairInv
<1> QED
  BY <1>2, <1>3, <1>4, <1>5, <1>6, ServeKeeps DEF RouterInv

\* The claim of the pair, a duplicate, or a refusal.
LEMMA InsertStep ==
    ASSUME RouterInv, NEW c \in Caller, NEW t \in Task, Insert(c, t)
    PROVE  RouterInv'
<1>1. /\ RouterTypeOK
      /\ \A d \in Caller : CallerInv(d)
      /\ \A u \in Task, s \in Sink : PairInv(u, s)
  BY DEF RouterInv
<1> DEFINE k == at[c].sink
<1>2. /\ Has(c, t) /\ at[c].pc = "deliver" /\ k \in Sink
      /\ UNCHANGED <<routes, finished, todo, up, notified, progressed, shared, failed, missed, cut>>
      /\ <<t, k>> \in Pair
  BY DEF Insert, Refuse, sinkVars, faultVars, Pair
<1>3. CASE /\ <<t, k>> \notin claims
           /\ claims' = claims \cup {<<t, k>>}
           /\ at' = [at EXCEPT ![c].pc = "notify", ![c].claimed = TRUE]
           /\ UNCHANGED refused
  <2>1. /\ at' \in [Caller -> CallerState]
        /\ \A d \in Caller : d # c => at'[d] = at[d]
    BY <1>1, <1>3 DEF RouterTypeOK, CallerState
  <2>2. /\ at'[c].pc = "notify"
        /\ at'[c].task = at[c].task
        /\ at'[c].sink = k
        /\ at'[c].claimed = TRUE
    BY <1>1, <1>3 DEF RouterTypeOK, CallerState
  <2>3. RouterTypeOK'
    BY <1>1, <1>2, <1>3, <2>1 DEF RouterTypeOK
  <2>4. ASSUME NEW d \in Caller PROVE CallerInv(d)'
    BY <1>1, <1>2, <2>1, <2>2 DEF CallerInv, Has
  <2>5. ASSUME NEW u \in Task, NEW s \in Sink PROVE PairInv(u, s)'
    <3>1. \A d \in Caller : Coming(d, u, s) => Coming(d, u, s)'
      BY <1>2, <2>1, <2>2 DEF Coming, Has
    <3>2. ReachInv(u, s)'
      BY <1>1, <1>2, <3>1 DEF PairInv, ReachInv
    <3>3. CASE u = t /\ s = k
      <4>1. <<u, s>> \in Pair /\ notified[<<u, s>>] \in Nat
        BY <1>1, <2>5 DEF Pair, RouterTypeOK
      <4>2. Working(c, u, s)' /\ at'[c].pc = "notify"
        BY <1>2, <2>2, <3>3 DEF Working, Has
      <4>3. \A d \in Caller : Working(d, u, s)' => d = c \/ Working(d, u, s)
        BY <2>1 DEF Working, Has
      <4>4. /\ <<u, s>> \in claims' /\ <<u, s>> \notin claims
            /\ notified' = notified /\ refused' = refused
        BY <1>2, <1>3, <3>3
      <4>5. LockInv(u, s)'
        <5>1. LockInv(u, s)
          BY <1>1 DEF PairInv
        <5>2. <<u, s>> \notin refused =>
                notified[<<u, s>>] = 0 /\ \A d \in Caller : ~Working(d, u, s)
          BY <4>1, <4>4, <5>1 DEF LockInv
        <5> QED
          BY <2>2, <4>3, <4>4, <5>2 DEF LockInv
      <4>6. ZombieInv(u, s)'
        BY <4>2 DEF ZombieInv
      <4> QED
        BY <3>2, <4>5, <4>6 DEF PairInv
    <3>4. CASE <<u, s>> # <<t, k>>
      <4>1. /\ \A d \in Caller : Working(d, u, s)' <=> Working(d, u, s)
            /\ \A d \in Caller : Working(d, u, s) => at'[d] = at[d]
            /\ <<u, s>> \in claims' <=> <<u, s>> \in claims
        BY <1>2, <1>3, <2>1, <2>2, <3>4 DEF Working, Has
      <4>2. LockInv(u, s)'
        BY <1>1, <1>2, <1>3, <4>1 DEF PairInv, LockInv
      <4>3. ZombieInv(u, s)'
        BY <1>1, <1>2, <1>3, <4>1 DEF PairInv, ZombieInv
      <4> QED
        BY <3>2, <4>2, <4>3 DEF PairInv
    <3> QED
      BY <3>3, <3>4
  <2> QED
    BY <1>2, <2>1, <2>2, <2>3, <2>4, <2>5, ServeKeeps DEF RouterInv
<1>4. CASE <<t, k>> \in claims /\ NextSink(c) /\ UNCHANGED <<claims, refused>>
  <2>1. /\ at' \in [Caller -> CallerState]
        /\ \A d \in Caller : d # c => at'[d] = at[d]
        /\ at'[c].pc = "deliver"
        /\ at'[c].task = at[c].task
        /\ at'[c].sink = k + 1
    BY <1>1, <1>4, NextSinkMoves DEF RouterTypeOK
  <2>2. RouterTypeOK'
    BY <1>1, <1>2, <1>4, <2>1 DEF RouterTypeOK
  <2>3. ASSUME NEW d \in Caller PROVE CallerInv(d)'
    BY <1>1, <1>2, <2>1 DEF CallerInv, Has, Sink
  <2>4. ASSUME NEW u \in Task, NEW s \in Sink PROVE PairInv(u, s)'
    <3>1. /\ \A d \in Caller : Working(d, u, s)' <=> Working(d, u, s)
          /\ \A d \in Caller : Working(d, u, s) => at'[d] = at[d]
      BY <1>2, <2>1 DEF Working, Has
    <3>2. LockInv(u, s)'
      BY <1>1, <1>2, <1>4, <3>1 DEF PairInv, LockInv
    <3>3. ZombieInv(u, s)'
      BY <1>1, <1>2, <1>4, <3>1 DEF PairInv, ZombieInv
    <3>4. ASSUME NEW d \in Caller, Coming(d, u, s), <<u, s>> # <<t, k>>
          PROVE  Coming(d, u, s)'
      <4>1. CASE d = c
        <5>1. u = t /\ k # s /\ k <= s
          BY <1>2, <3>4, <4>1 DEF Coming, Has
        <5> QED
          BY <1>2, <2>1, <3>4, <4>1, <5>1 DEF Coming, Has, Sink
      <4>2. CASE d # c
        BY <2>1, <3>4, <4>2 DEF Coming, Has
      <4> QED
        BY <4>1, <4>2
    <3>5. CASE <<u, s>> # <<t, k>>
      <4>1. ReachInv(u, s)'
        BY <1>1, <1>2, <3>4, <3>5 DEF PairInv, ReachInv
      <4> QED
        BY <3>2, <3>3, <4>1 DEF PairInv
    <3>6. CASE u = t /\ s = k
      <4>1. <<u, s>> \in Pair /\ notified[<<u, s>>] \in Nat
        BY <1>1, <2>4 DEF Pair, RouterTypeOK
      <4>2. \A d \in Caller : Working(d, u, s) /\ at[d].pc = "notify" => Coming(d, u, s)'
        BY <1>2, <2>1, <2>4 DEF Working, Coming, Has, Sink
      <4>3. ReachInv(u, s)'
        BY <1>1, <1>2, <1>4, <3>6, <4>1, <4>2 DEF PairInv, ReachInv, ZombieInv
      <4> QED
        BY <3>2, <3>3, <4>3 DEF PairInv
    <3> QED
      BY <3>5, <3>6
  <2> QED
    BY <1>2, <2>1, <2>2, <2>3, <2>4, ServeKeeps DEF RouterInv
<1>5. CASE /\ refused' = refused \cup {<<t, k>>}
           /\ at' = [at EXCEPT ![c].pc = "notify"]
           /\ UNCHANGED claims
  <2>1. /\ at' \in [Caller -> CallerState]
        /\ \A d \in Caller : d # c => at'[d] = at[d]
    BY <1>1, <1>5 DEF RouterTypeOK, CallerState
  <2>2. /\ at'[c].pc = "notify"
        /\ at'[c].task = at[c].task
        /\ at'[c].sink = k
    BY <1>1, <1>5 DEF RouterTypeOK, CallerState
  <2>3. RouterTypeOK'
    BY <1>1, <1>2, <1>5, <2>1 DEF RouterTypeOK
  <2>4. ASSUME NEW d \in Caller PROVE CallerInv(d)'
    BY <1>1, <1>2, <2>1, <2>2 DEF CallerInv, Has
  <2>5. ASSUME NEW u \in Task, NEW s \in Sink PROVE PairInv(u, s)'
    <3>1. \A d \in Caller : /\ Coming(d, u, s) => Coming(d, u, s)'
                            /\ Working(d, u, s) => Working(d, u, s)' /\ at'[d] = at[d]
      BY <1>2, <2>1, <2>2 DEF Coming, Working, Has
    <3>2. ReachInv(u, s)'
      BY <1>1, <1>2, <3>1 DEF PairInv, ReachInv
    <3>3. ZombieInv(u, s)'
      BY <1>1, <1>2, <1>5, <3>1 DEF PairInv, ZombieInv
    <3>4. LockInv(u, s)'
      <4>1. CASE <<u, s>> = <<t, k>>
        BY <1>5, <4>1 DEF LockInv
      <4>2. CASE <<u, s>> # <<t, k>>
        <5>1. \A d \in Caller : Working(d, u, s)' => Working(d, u, s) /\ at'[d] = at[d]
          BY <1>2, <2>1, <2>2, <4>2 DEF Working, Has
        <5> QED
          BY <1>1, <1>2, <1>5, <5>1 DEF PairInv, LockInv
      <4> QED
        BY <4>1, <4>2
    <3> QED
      BY <3>2, <3>3, <3>4 DEF PairInv
  <2> QED
    BY <1>2, <2>1, <2>2, <2>3, <2>4, <2>5, ServeKeeps DEF RouterInv
<1> QED
  BY <1>3, <1>4, <1>5 DEF Insert, Refuse, sinkVars, faultVars

\* A pair that a step is not about keeps its part of the invariant.
LEMMA OtherPair ==
    ASSUME NEW u \in Task, NEW s \in Sink, PairInv(u, s),
           \A d \in Caller : /\ Working(d, u, s)' <=> Working(d, u, s)
                             /\ Working(d, u, s) => at'[d] = at[d]
                             /\ Coming(d, u, s) => Coming(d, u, s)',
           notified'[<<u, s>>] = notified[<<u, s>>],
           <<u, s>> \in claims' <=> <<u, s>> \in claims,
           <<u, s>> \in refused' <=> <<u, s>> \in refused,
           <<u, s>> \in failed => <<u, s>> \in failed',
           missed' = missed, cut' = cut, finished' = finished, todo' = todo
    PROVE  PairInv(u, s)'
<1>1. LockInv(u, s)'
  BY DEF PairInv, LockInv
<1>2. ZombieInv(u, s)'
  BY DEF PairInv, ZombieInv
<1>3. ReachInv(u, s)'
  BY DEF PairInv, ReachInv
<1> QED
  BY <1>1, <1>2, <1>3 DEF PairInv

\* The caller leaves the pair it works on: the others are as before, and on
\* this one it no longer works.
LEMMA LeavesPair ==
    ASSUME RouterInv, NEW c \in Caller, NEW t \in Task, Has(c, t),
           at[c].pc \in {"notify", "undo"}, NextSink(c)
    PROVE  /\ at[c].sink \in Sink
           /\ at' \in [Caller -> CallerState]
           /\ at'[c].task = at[c].task /\ at'[c].pc = "deliver"
           /\ \A d \in Caller : d # c => at'[d] = at[d]
           /\ \A d \in Caller : CallerInv(d) /\ failed \subseteq failed' => CallerInv(d)'
           /\ \A u \in Task, s \in Sink, d \in Caller :
                 <<u, s>> # <<t, at[c].sink>> =>
                    /\ Working(d, u, s)' <=> Working(d, u, s)
                    /\ Working(d, u, s) => at'[d] = at[d]
                    /\ Coming(d, u, s) => Coming(d, u, s)'
           /\ \A u \in Task, s \in Sink, d \in Caller :
                 u = t /\ s = at[c].sink =>
                    /\ Working(c, u, s)
                    /\ Working(d, u, s)' => d # c /\ Working(d, u, s)
<1>1. RouterTypeOK /\ CallerInv(c)
  BY DEF RouterInv
<1>2. at[c].sink \in Sink
  BY <1>1 DEF CallerInv
<1>3. /\ at' \in [Caller -> CallerState]
      /\ \A d \in Caller : d # c => at'[d] = at[d]
      /\ at'[c].pc = "deliver"
      /\ at'[c].task = at[c].task
      /\ at'[c].sink = at[c].sink + 1
  BY <1>1, NextSinkMoves DEF RouterTypeOK
<1>4. ASSUME NEW u \in Task, NEW s \in Sink, NEW d \in Caller, <<u, s>> # <<t, at[c].sink>>
      PROVE  /\ Working(d, u, s)' <=> Working(d, u, s)
             /\ Working(d, u, s) => at'[d] = at[d]
  BY <1>3, <1>4 DEF Working, Has
<1>5. ASSUME NEW u \in Task, NEW s \in Sink, NEW d \in Caller, <<u, s>> # <<t, at[c].sink>>,
             Coming(d, u, s)
      PROVE  Coming(d, u, s)'
  <2>1. CASE d # c
    BY <1>3, <1>5, <2>1 DEF Coming, Has
  <2>2. CASE d = c
    <3>1. u = t /\ at[c].sink # s /\ at[c].sink <= s
      BY <1>2, <1>5, <2>2 DEF Coming, Has, Sink
    <3> QED
      BY <1>2, <1>3, <2>2, <3>1 DEF Coming, Has, Sink
  <2> QED
    BY <2>1, <2>2
<1>6. ASSUME NEW d \in Caller, CallerInv(d), failed \subseteq failed' PROVE CallerInv(d)'
  <2>1. CASE d # c
    BY <1>3, <1>6, <2>1 DEF CallerInv, Has
  <2>2. CASE d = c
    BY <1>2, <1>3, <2>2 DEF CallerInv, Sink
  <2> QED
    BY <2>1, <2>2
<1>7. ASSUME NEW u \in Task, NEW s \in Sink, NEW d \in Caller, u = t, s = at[c].sink
      PROVE  /\ Working(c, u, s)
             /\ Working(d, u, s)' => d # c /\ Working(d, u, s)
  BY <1>3, <1>7 DEF Working, Has
<1> QED
  BY <1>2, <1>3, <1>4, <1>5, <1>6, <1>7

LEMMA NotifyOkStep ==
    ASSUME RouterInv, NEW c \in Caller, NEW t \in Task, NotifyOk(c, t)
    PROVE  RouterInv'
<1> DEFINE k == at[c].sink
<1>1. /\ RouterTypeOK
      /\ \A d \in Caller : CallerInv(d)
      /\ \A u \in Task, s \in Sink : PairInv(u, s)
  BY DEF RouterInv
<1>2. /\ Has(c, t) /\ at[c].pc = "notify" /\ NextSink(c)
      /\ notified' = [notified EXCEPT ![<<t, k>>] = @ + 1]
      /\ UNCHANGED <<claims, routes, finished, todo, up, progressed, shared, failed,
                     refused, missed, cut>>
  BY DEF NotifyOk, faultVars
<1>3. /\ k \in Sink
      /\ at' \in [Caller -> CallerState]
      /\ at'[c].task = at[c].task /\ at'[c].pc = "deliver"
      /\ \A d \in Caller : d # c => at'[d] = at[d]
  BY <1>2, LeavesPair
<1>4. <<t, k>> \in Pair
  BY <1>3 DEF Pair
<1>5. RouterTypeOK'
  BY <1>1, <1>2, <1>3, <1>4 DEF RouterTypeOK
<1>6. \A d \in Caller : CallerInv(d)'
  BY <1>1, <1>2, LeavesPair
<1>7. ASSUME NEW u \in Task, NEW s \in Sink PROVE PairInv(u, s)'
  <2>1. <<u, s>> \in Pair /\ notified[<<u, s>>] \in Nat
    BY <1>1, <1>7 DEF Pair, RouterTypeOK
  <2>2. CASE u = t /\ s = k
    <3>1. notified'[<<u, s>>] = notified[<<u, s>>] + 1
      BY <1>1, <1>2, <2>1, <2>2 DEF RouterTypeOK
    <3>2. /\ Working(c, u, s)
          /\ \A d \in Caller : Working(d, u, s)' => d # c /\ Working(d, u, s)
      BY <1>2, <2>2, LeavesPair
    <3>3. LockInv(u, s)'
      BY <1>1, <1>2, <2>1, <3>1, <3>2 DEF PairInv, LockInv
    <3> QED
      BY <2>1, <3>1, <3>3 DEF PairInv, ZombieInv, ReachInv
  <2>3. CASE <<u, s>> # <<t, k>>
    <3>1. notified'[<<u, s>>] = notified[<<u, s>>]
      BY <1>1, <1>2, <2>1, <2>3 DEF RouterTypeOK
    <3>2. \A d \in Caller : /\ Working(d, u, s)' <=> Working(d, u, s)
                            /\ Working(d, u, s) => at'[d] = at[d]
                            /\ Coming(d, u, s) => Coming(d, u, s)'
      BY <1>2, <2>3, LeavesPair
    <3> QED
      BY <1>1, <1>2, <3>1, <3>2, OtherPair
  <2> QED
    BY <2>2, <2>3
<1> QED
  BY <1>2, <1>3, <1>5, <1>6, <1>7, ServeKeeps DEF RouterInv

LEMMA NotifyFailsStep ==
    ASSUME RouterInv, NEW c \in Caller, NEW t \in Task, NotifyFails(c, t)
    PROVE  RouterInv'
<1> DEFINE k == at[c].sink
<1>1. /\ RouterTypeOK
      /\ \A d \in Caller : CallerInv(d)
      /\ \A u \in Task, s \in Sink : PairInv(u, s)
  BY DEF RouterInv
<1>2. /\ Has(c, t) /\ at[c].pc = "notify"
      /\ failed' = failed \cup {<<t, k>>}
      /\ UNCHANGED <<claims, routes, finished, todo, up, notified, progressed, refused,
                     shared, missed, cut>>
      /\ k \in Sink
  BY <1>1 DEF NotifyFails, CallerInv
<1>3. ASSUME at[c].claimed, at' = [at EXCEPT ![c].pc = "undo"] PROVE RouterInv'
  <2>1. /\ at' \in [Caller -> CallerState]
        /\ \A d \in Caller : d # c => at'[d] = at[d]
    BY <1>1, <1>3 DEF RouterTypeOK, CallerState
  <2>2. /\ at'[c].pc = "undo"
        /\ at'[c].task = at[c].task
        /\ at'[c].sink = k
        /\ at'[c].claimed = at[c].claimed
    BY <1>1, <1>3 DEF RouterTypeOK, CallerState
  <2>3. RouterTypeOK'
    BY <1>1, <1>2, <2>1 DEF RouterTypeOK
  <2>4. ASSUME NEW d \in Caller PROVE CallerInv(d)'
    BY <1>1, <1>2, <2>1, <2>2 DEF CallerInv, Has
  <2>5. ASSUME NEW u \in Task, NEW s \in Sink PROVE PairInv(u, s)'
    <3>1. CASE u = t /\ s = k
      <4>1. \A d \in Caller : /\ Working(d, u, s)' <=> Working(d, u, s)
                              /\ at'[d].claimed = at[d].claimed
        BY <1>2, <2>1, <2>2 DEF Working, Has
      <4>2. <<u, s>> \in failed'
        BY <1>2, <3>1
      <4>3. LockInv(u, s)'
        BY <1>1, <1>2, <4>1 DEF PairInv, LockInv
      <4>4. ZombieInv(u, s)'
        BY <1>1, <1>2, <4>1, <4>2 DEF PairInv, ZombieInv
      <4>5. ReachInv(u, s)'
        BY <4>2 DEF ReachInv
      <4> QED
        BY <4>3, <4>4, <4>5 DEF PairInv
    <3>2. CASE <<u, s>> # <<t, k>>
      <4>1. ASSUME NEW d \in Caller
            PROVE  /\ Working(d, u, s)' <=> Working(d, u, s)
                   /\ Working(d, u, s) => at'[d] = at[d]
        BY <1>2, <2>1, <2>2, <3>2 DEF Working, Has
      <4>2. ASSUME NEW d \in Caller, Coming(d, u, s) PROVE Coming(d, u, s)'
        <5>1. CASE d # c
          BY <2>1, <4>2, <5>1 DEF Coming, Has
        <5>2. CASE d = c
          <6>1. u = t /\ k # s /\ k <= s
            BY <1>2, <3>2, <4>2, <5>2 DEF Coming, Has
          <6> QED
            BY <1>2, <2>2, <4>2, <5>2, <6>1 DEF Coming, Has, Sink
        <5> QED
          BY <5>1, <5>2
      <4> QED
        BY <1>1, <1>2, <4>1, <4>2, OtherPair
    <3> QED
      BY <3>1, <3>2
  <2> QED
    BY <1>2, <2>1, <2>2, <2>3, <2>4, <2>5, ServeKeeps DEF RouterInv
<1>4. ASSUME ~at[c].claimed, NextSink(c) PROVE RouterInv'
  <2>1. /\ at' \in [Caller -> CallerState]
        /\ at'[c].task = at[c].task /\ at'[c].pc = "deliver"
        /\ \A d \in Caller : d # c => at'[d] = at[d]
    BY <1>2, <1>4, LeavesPair
  <2>2. RouterTypeOK'
    BY <1>1, <1>2, <2>1 DEF RouterTypeOK
  <2>3. \A d \in Caller : CallerInv(d)'
    BY <1>1, <1>2, <1>4, LeavesPair
  <2>4. ASSUME NEW u \in Task, NEW s \in Sink PROVE PairInv(u, s)'
    <3>1. CASE u = t /\ s = k
      <4>1. Working(c, u, s)
        BY <1>2, <1>4, <3>1, LeavesPair
      <4>2. <<u, s>> \in refused' /\ <<u, s>> \in failed'
        BY <1>1, <1>2, <1>4, <3>1, <4>1 DEF PairInv, LockInv
      <4> QED
        BY <4>2 DEF PairInv, LockInv, ZombieInv, ReachInv
    <3>2. CASE <<u, s>> # <<t, k>>
      <4>1. \A d \in Caller : /\ Working(d, u, s)' <=> Working(d, u, s)
                              /\ Working(d, u, s) => at'[d] = at[d]
                              /\ Coming(d, u, s) => Coming(d, u, s)'
        BY <1>2, <1>4, <3>2, LeavesPair
      <4> QED
        BY <1>1, <1>2, <4>1, OtherPair
    <3> QED
      BY <3>1, <3>2
  <2> QED
    BY <1>2, <2>1, <2>2, <2>3, <2>4, ServeKeeps DEF RouterInv
<1> QED
  BY <1>3, <1>4 DEF NotifyFails

LEMMA UndoStep ==
    ASSUME RouterInv, NEW c \in Caller, NEW t \in Task, Undo(c, t)
    PROVE  RouterInv'
<1> DEFINE k == at[c].sink
<1>1. /\ RouterTypeOK
      /\ \A d \in Caller : CallerInv(d)
      /\ \A u \in Task, s \in Sink : PairInv(u, s)
  BY DEF RouterInv
<1>2. /\ Has(c, t) /\ at[c].pc = "undo" /\ NextSink(c)
      /\ UNCHANGED <<routes, finished, todo, up, notified, progressed, shared, failed, missed, cut>>
      /\ \/ claims' = claims \ {<<t, k>>} /\ refused' = refused
         \/ claims' = claims /\ refused' = refused \cup {<<t, k>>}
  BY DEF Undo, Refuse, sinkVars, faultVars
<1>3. /\ k \in Sink
      /\ at' \in [Caller -> CallerState]
      /\ at'[c].task = at[c].task /\ at'[c].pc = "deliver"
      /\ \A d \in Caller : d # c => at'[d] = at[d]
  BY <1>2, LeavesPair
<1>4. RouterTypeOK'
  BY <1>1, <1>2, <1>3 DEF RouterTypeOK
<1>5. \A d \in Caller : CallerInv(d)'
  BY <1>1, <1>2, LeavesPair
<1>6. ASSUME NEW u \in Task, NEW s \in Sink PROVE PairInv(u, s)'
  <2>1. CASE u = t /\ s = k
    <3>1. <<u, s>> \in failed'
      BY <1>1, <1>2, <2>1 DEF CallerInv
    <3>2. /\ Working(c, u, s)
          /\ \A d \in Caller : Working(d, u, s)' => d # c /\ Working(d, u, s)
      BY <1>2, <2>1, LeavesPair
    <3>3. CASE claims' = claims \ {<<t, k>>} /\ refused' = refused
      <4>1. LockInv(u, s)'
        BY <1>1, <1>2, <3>2, <3>3 DEF PairInv, LockInv
      <4> QED
        BY <2>1, <3>1, <3>3, <4>1 DEF PairInv, ZombieInv, ReachInv
    <3>4. CASE claims' = claims /\ refused' = refused \cup {<<t, k>>}
      BY <2>1, <3>1, <3>4 DEF PairInv, LockInv, ZombieInv, ReachInv
    <3> QED
      BY <1>2, <3>3, <3>4
  <2>2. CASE <<u, s>> # <<t, k>>
    <3>1. \A d \in Caller : /\ Working(d, u, s)' <=> Working(d, u, s)
                            /\ Working(d, u, s) => at'[d] = at[d]
                            /\ Coming(d, u, s) => Coming(d, u, s)'
      BY <1>2, <2>2, LeavesPair
    <3> QED
      BY <1>1, <1>2, <2>2, <3>1, OtherPair
  <2> QED
    BY <2>1, <2>2
<1> QED
  BY <1>2, <1>3, <1>4, <1>5, <1>6, ServeKeeps DEF RouterInv

-----------------------------------------------------------------------------
(***************************************************************************)
(* The steps outside the loop over the sinks.                              *)
(***************************************************************************)
\* A caller that works on no pair, before and after, changes no pair.
LEMMA OutsideLoop ==
    ASSUME RouterInv, NEW c \in Caller,
           \A d \in Caller : d # c => at'[d] = at[d],
           at[c].pc \notin {"notify", "undo"}, at'[c].pc \notin {"notify", "undo"},
           UNCHANGED <<claims, notified, failed, refused, cut>>,
           NEW u \in Task, NEW s \in Sink,
           u \in missed => u \in missed',
           u \in finished' => u \in finished \/ u \in missed' \/ Coming(c, u, s)',
           u \in todo => u \in todo' \/ u \in missed' \/ Coming(c, u, s)',
           Coming(c, u, s) => Coming(c, u, s)'
    PROVE  PairInv(u, s)'
<1>1. PairInv(u, s)
  BY DEF RouterInv
<1>2. /\ \A d \in Caller : Working(d, u, s)' <=> Working(d, u, s)
      /\ \A d \in Caller : Working(d, u, s) => at'[d] = at[d]
  BY DEF Working, Has
<1>3. \A d \in Caller : Coming(d, u, s) => Coming(d, u, s)'
  BY DEF Coming, Has
<1>4. LockInv(u, s)'
  BY <1>1, <1>2 DEF PairInv, LockInv
<1>5. ZombieInv(u, s)'
  BY <1>1, <1>2 DEF PairInv, ZombieInv
<1>6. ReachInv(u, s)'
  BY <1>1, <1>3 DEF PairInv, ReachInv
<1> QED
  BY <1>4, <1>5, <1>6 DEF PairInv

\* The end of deliver, also for a task that could not be marked or whose receipt
\* could not be read: the route of the task is cleared, and the caller is free.
LEMMA ReleaseStep ==
    ASSUME RouterInv, NEW c \in Caller, NEW t \in Task, Has(c, t),
           \/ at[c].pc = "deliver" /\ at[c].sink \notin Sink
           \/ at[c].pc = "run",
           routes' = [routes EXCEPT ![t] = NoRoute],
           at' = [at EXCEPT ![c] = Idle],
           finished' \in SUBSET Task, finished \subseteq finished',
           finished' \subseteq finished \cup missed', missed \subseteq missed',
           UNCHANGED <<claims, todo, up, notified, progressed, shared, failed, refused, cut>>
    PROVE  RouterInv'
<1>1. /\ RouterTypeOK /\ StartInv /\ ProgressStaysOnRoute
      /\ \A d \in Caller : CallerInv(d)
      /\ \A u \in Task : RouteInv(u)
  BY DEF RouterInv
<1>2. /\ at' \in [Caller -> CallerState]
      /\ \A d \in Caller : d # c => at'[d] = at[d]
      /\ at'[c].pc = "idle" /\ at'[c].task = {}
      /\ routes' \in [Task -> Route]
      /\ \A u \in Task : u # t => routes'[u] = routes[u]
  BY <1>1, IdleState DEF RouterTypeOK, Route
<1>3. UNCHANGED <<notified, progressed, shared, failed, refused, cut>>
  OBVIOUS
<1>4. RouterTypeOK'
  BY <1>1, <1>2, <1>3 DEF RouterTypeOK
<1>5. StartInv'
  BY <1>1, <1>2 DEF StartInv, Caller
<1>6. ASSUME NEW d \in Caller PROVE CallerInv(d)'
  BY <1>1, <1>2, <1>3 DEF CallerInv, Has
<1>7. ASSUME NEW u \in Task, NEW s \in Sink PROVE PairInv(u, s)'
  <2>1. ~Coming(c, u, s)
    <3>1. CASE at[c].pc = "run"
      BY <3>1 DEF Coming
    <3>2. CASE at[c].pc = "deliver" /\ at[c].sink \notin Sink
      <4>1. at[c].sink >= 1 /\ at[c].sink \in Nat
        BY <1>1, <3>2 DEF CallerInv, RouterTypeOK, CallerState
      <4>2. ~(at[c].sink <= s)
        BY <1>7, <3>2, <4>1, RouterAssumption DEF Sink
      <4> QED
        BY <3>2, <4>2 DEF Coming
    <3> QED
      BY <3>1, <3>2
  <2> QED
    BY <1>2, <1>3, <2>1, OutsideLoop
<1>8. ASSUME NEW u \in Task PROVE RouteInv(u)'
  <2>1. \A d \in Caller : Has(d, u)' => d # c /\ Has(d, u) /\ at'[d] = at[d]
    BY <1>2 DEF Has
  <2>2. CASE u # t
    BY <1>1, <1>2, <1>3, <2>1, <2>2 DEF RouteInv
  <2>3. CASE u = t
    BY <1>1, <1>3, <2>1, <2>3 DEF RouteInv
  <2> QED
    BY <2>2, <2>3
<1>9. ProgressStaysOnRoute'
  BY <1>1, <1>3 DEF ProgressStaysOnRoute
<1> QED
  BY <1>4, <1>5, <1>6, <1>7, <1>8, <1>9 DEF RouterInv

LEMMA TakeStep ==
    ASSUME RouterInv, NEW c \in Runner, NEW t \in Task, Take(c, t)
    PROVE  RouterInv'
<1>1. /\ RouterTypeOK /\ StartInv /\ ProgressStaysOnRoute
      /\ \A d \in Caller : CallerInv(d)
      /\ \A u \in Task : RouteInv(u)
      /\ c \in Caller
  BY DEF RouterInv, Caller
<1>2. /\ up /\ at[c].pc = "idle"
      /\ routes' = [routes EXCEPT ![t] = PayloadRoute[t]]
      /\ at' = [at EXCEPT ![c] = [Idle EXCEPT !.pc = "run", !.task = {t}]]
      /\ shared \subseteq shared'
      /\ t \notin shared' => Free(t)
      /\ UNCHANGED <<claims, finished, todo, up, notified, progressed, failed, refused, missed, cut>>
  BY DEF Take, faultVars
<1>3. /\ [Idle EXCEPT !.pc = "run", !.task = {t}] \in CallerState
      /\ [Idle EXCEPT !.pc = "run", !.task = {t}].pc = "run"
      /\ [Idle EXCEPT !.pc = "run", !.task = {t}].task = {t}
  BY DEF Idle, CallerState
<1>4. /\ at' \in [Caller -> CallerState]
      /\ \A d \in Caller : d # c => at'[d] = at[d]
      /\ at'[c].pc = "run" /\ at'[c].task = {t}
  BY <1>1, <1>2, <1>3 DEF RouterTypeOK
<1>5. /\ routes' \in [Task -> Route]
      /\ routes'[t] = PayloadRoute[t]
      /\ \A u \in Task : u # t => routes'[u] = routes[u]
  BY <1>1, <1>2 DEF RouterTypeOK, Route
<1>6. RouterTypeOK'
  BY <1>1, <1>2, <1>4, <1>5 DEF RouterTypeOK
<1>7. StartInv'
  BY <1>1, <1>2 DEF StartInv
<1>8. ASSUME NEW d \in Caller PROVE CallerInv(d)'
  BY <1>1, <1>2, <1>4 DEF CallerInv, Has
<1>9. ASSUME NEW u \in Task, NEW s \in Sink PROVE PairInv(u, s)'
  <2>1. ~Coming(c, u, s)
    BY <1>2 DEF Coming
  <2> QED
    BY <1>1, <1>2, <1>4, <2>1, OutsideLoop
<1>10. ASSUME NEW u \in Task PROVE RouteInv(u)'
  <2>1. \A d \in Caller : d # c => (Has(d, u)' <=> Has(d, u)) /\ at'[d] = at[d]
    BY <1>4 DEF Has
  <2>2. CASE u # t
    <3>1. ~Has(c, u)'
      BY <1>4, <2>2 DEF Has
    <3> QED
      BY <1>1, <1>2, <1>5, <2>1, <2>2, <3>1 DEF RouteInv
  <2>3. CASE u = t
    BY <1>2, <1>5, <2>1, <2>3 DEF RouteInv, Free
  <2> QED
    BY <2>2, <2>3
<1>11. ProgressStaysOnRoute'
  BY <1>1, <1>2 DEF ProgressStaysOnRoute
<1> QED
  BY <1>6, <1>7, <1>8, <1>9, <1>10, <1>11 DEF RouterInv

LEMMA OnProgressStep ==
    ASSUME RouterInv, NEW c \in Runner, NEW t \in Task, OnProgress(c, t)
    PROVE  RouterInv'
<1>1. /\ Has(c, t) /\ at[c].pc = "run" /\ c \in Caller
      /\ progressed' = progressed \cup {p \in Pair : p[1] = t /\ ShouldDeliver(p[2], routes[t])}
      /\ UNCHANGED <<claims, routes, at, finished, todo, up, notified, shared, failed,
                     refused, missed, cut>>
  BY DEF OnProgress, faultVars, Caller
<1>2. RouterTypeOK' /\ StartInv' /\ (\A d \in Caller : CallerInv(d)')
  BY <1>1 DEF RouterInv, RouterTypeOK, StartInv, CallerInv, Has
<1>3. ASSUME NEW u \in Task, NEW s \in Sink PROVE PairInv(u, s)'
  BY <1>1, <1>3 DEF RouterInv, PairInv, LockInv, ZombieInv, ReachInv, Working, Coming, Has
<1>4. ASSUME NEW u \in Task PROVE RouteInv(u)'
  BY <1>1, <1>4 DEF RouterInv, RouteInv, Has
<1>5. ProgressStaysOnRoute'
  <2>1. t \in shared \/ routes[t] = PayloadRoute[t]
    BY <1>1 DEF RouterInv, RouteInv
  <2>2. ProgressStaysOnRoute
    BY DEF RouterInv
  <2> QED
    BY <1>1, <2>1, <2>2 DEF ProgressStaysOnRoute
<1> QED
  BY <1>2, <1>3, <1>4, <1>5 DEF RouterInv

LEMMA FinishStep ==
    ASSUME RouterInv, NEW c \in Runner, NEW t \in Task, Finish(c, t)
    PROVE  RouterInv'
<1>1. /\ RouterTypeOK
      /\ \A d \in Caller : CallerInv(d)
      /\ c \in Caller
  BY DEF RouterInv, Caller
<1>2. /\ Has(c, t) /\ at[c].pc = "run"
      /\ finished' = finished \cup {t}
      /\ at' = [at EXCEPT ![c].pc = "deliver", ![c].sink = 1]
      /\ UNCHANGED <<claims, routes, todo, up, notified, progressed, shared, failed,
                     refused, missed, cut>>
  BY DEF Finish, sinkVars, faultVars
<1>3. /\ at' \in [Caller -> CallerState]
      /\ \A d \in Caller : d # c => at'[d] = at[d]
  BY <1>1, <1>2 DEF RouterTypeOK, CallerState
<1>4. /\ at'[c].pc = "deliver" /\ at'[c].sink = 1
      /\ at'[c].task = at[c].task
  BY <1>1, <1>2 DEF RouterTypeOK, CallerState
<1>5. RouterTypeOK'
  BY <1>1, <1>2, <1>3 DEF RouterTypeOK
<1>6. ASSUME NEW d \in Caller PROVE CallerInv(d)'
  BY <1>1, <1>2, <1>3, <1>4 DEF CallerInv, Has
<1>7. ASSUME NEW u \in Task, NEW s \in Sink PROVE PairInv(u, s)'
  <2>1. ~Coming(c, u, s)
    BY <1>2 DEF Coming
  <2>2. u = t => Coming(c, u, s)'
    <3>1. at'[c].task = {t}
      BY <1>2, <1>4 DEF Has
    <3>2. 1 <= s
      BY <1>7, RouterAssumption DEF Sink
    <3> QED
      BY <1>4, <3>1, <3>2 DEF Coming, Has
  <2> QED
    BY <1>1, <1>2, <1>3, <1>4, <2>1, <2>2, OutsideLoop
<1> QED
  BY <1>1, <1>2, <1>3, <1>4, <1>5, <1>6, <1>7, ServeKeeps DEF RouterInv

LEMMA DeliverExistingStep ==
    ASSUME RouterInv, NEW t \in Task, DeliverExisting(t)
    PROVE  RouterInv'
<1>1. /\ RouterTypeOK /\ StartInv /\ ProgressStaysOnRoute
      /\ \A d \in Caller : CallerInv(d)
      /\ \A u \in Task : RouteInv(u)
      /\ Main \in Caller
  BY DEF RouterInv, Caller
<1>2. /\ at[Main].pc = "idle" /\ t \in todo
      /\ todo' = todo \ {t}
      /\ at' = [at EXCEPT ![Main] = [Idle EXCEPT !.pc = "deliver", !.task = {t}, !.sink = 1]]
      /\ UNCHANGED <<claims, routes, finished, up, notified, progressed, shared, failed,
                     refused, missed, cut>>
  BY DEF DeliverExisting, sinkVars, faultVars
<1>3. /\ [Idle EXCEPT !.pc = "deliver", !.task = {t}, !.sink = 1] \in CallerState
      /\ [Idle EXCEPT !.pc = "deliver", !.task = {t}, !.sink = 1].pc = "deliver"
      /\ [Idle EXCEPT !.pc = "deliver", !.task = {t}, !.sink = 1].task = {t}
      /\ [Idle EXCEPT !.pc = "deliver", !.task = {t}, !.sink = 1].sink = 1
  BY DEF Idle, CallerState
<1>4. /\ at' \in [Caller -> CallerState]
      /\ \A d \in Caller : d # Main => at'[d] = at[d]
      /\ at'[Main].pc = "deliver" /\ at'[Main].task = {t} /\ at'[Main].sink = 1
  BY <1>1, <1>2, <1>3 DEF RouterTypeOK
<1>5. RouterTypeOK'
  BY <1>1, <1>2, <1>4 DEF RouterTypeOK
<1>6. /\ ~up
      /\ \A c \in Runner : at[c].task = {} /\ at'[c] = at[c]
  BY <1>1, <1>2, <1>4, RouterAssumption DEF StartInv, Caller
<1>7. StartInv'
  BY <1>2, <1>6 DEF StartInv
<1>8. ASSUME NEW d \in Caller PROVE CallerInv(d)'
  BY <1>1, <1>2, <1>4 DEF CallerInv, Has
<1>9. ASSUME NEW u \in Task, NEW s \in Sink PROVE PairInv(u, s)'
  <2>1. ~Coming(Main, u, s)
    BY <1>2 DEF Coming
  <2>2. u = t => Coming(Main, u, s)'
    BY <1>4, <1>9 DEF Coming, Has, Sink
  <2> QED
    BY <1>1, <1>2, <1>4, <2>1, <2>2, OutsideLoop
<1>10. ASSUME NEW u \in Task PROVE RouteInv(u)'
  <2>1. \A d \in Caller : Has(d, u)' => d = Main
    BY <1>6 DEF Has, Caller
  <2> QED
    BY <1>4, <2>1 DEF RouteInv
<1>11. ProgressStaysOnRoute'
  BY <1>1, <1>2 DEF ProgressStaysOnRoute
<1> QED
  BY <1>5, <1>7, <1>8, <1>9, <1>10, <1>11 DEF RouterInv

\* Before the workers start, a failing read of the queue drops receipts and may
\* clear a route; nobody has a task.
LEMMA UnreadStep ==
    ASSUME RouterInv, at[Main].pc = "idle", todo # {},
           todo' \subseteq todo, todo \subseteq todo' \cup missed', missed \subseteq missed',
           routes' \in [Task -> Route],
           UNCHANGED <<claims, at, finished, up, notified, progressed, shared, failed,
                       refused, cut>>
    PROVE  RouterInv'
<1>1. /\ RouterTypeOK /\ StartInv /\ ProgressStaysOnRoute
      /\ \A d \in Caller : CallerInv(d)
      /\ \A u \in Task : RouteInv(u)
      /\ \A u \in Task, s \in Sink : PairInv(u, s)
  BY DEF RouterInv
<1>2. RouterTypeOK'
  BY <1>1 DEF RouterTypeOK
<1>3. /\ StartInv'
      /\ \A d \in Caller : CallerInv(d)'
      /\ ProgressStaysOnRoute'
  BY <1>1 DEF StartInv, CallerInv, Has, ProgressStaysOnRoute
<1>4. ASSUME NEW u \in Task, NEW s \in Sink PROVE PairInv(u, s)'
  <2>1. /\ PairInv(u, s)
        /\ \A d \in Caller : /\ Working(d, u, s)' <=> Working(d, u, s)
                             /\ Coming(d, u, s)' <=> Coming(d, u, s)
    BY <1>1, <1>4 DEF Working, Coming, Has
  <2>2. LockInv(u, s)' /\ ZombieInv(u, s)'
    BY <2>1 DEF PairInv, LockInv, ZombieInv
  <2>3. ReachInv(u, s)'
    BY <2>1 DEF PairInv, ReachInv
  <2> QED
    BY <2>2, <2>3 DEF PairInv
<1>5. ASSUME NEW u \in Task PROVE RouteInv(u)'
  <2>1. \A c \in Caller : ~(Has(c, u) /\ at[c].pc = "run")
    BY <1>1 DEF StartInv, Has, Caller
  <2>2. at' = at /\ shared' = shared
    OBVIOUS
  <2> QED
    BY <1>1, <2>1, <2>2 DEF RouteInv, Has
<1> QED
  BY <1>2, <1>3, <1>4, <1>5 DEF RouterInv

LEMMA StartWorkersStep ==
    ASSUME RouterInv, StartWorkers
    PROVE  RouterInv'
<1>1. /\ todo = {} /\ up' = TRUE
      /\ UNCHANGED <<claims, routes, at, finished, todo, notified, progressed, shared,
                     failed, refused, missed, cut>>
  BY DEF StartWorkers, sinkVars, faultVars
<1>2. RouterTypeOK' /\ StartInv' /\ (\A d \in Caller : CallerInv(d)')
  BY <1>1 DEF RouterInv, RouterTypeOK, StartInv, CallerInv, Has
<1>3. ASSUME NEW u \in Task, NEW s \in Sink PROVE PairInv(u, s)'
  <2>1. PairInv(u, s)
    BY DEF RouterInv
  <2>2. \A c \in Caller : (Working(c, u, s)' <=> Working(c, u, s))
                         /\ (Coming(c, u, s)' <=> Coming(c, u, s))
    BY <1>1 DEF Working, Coming, Has
  <2>3. LockInv(u, s)'
    BY <1>1, <2>1, <2>2 DEF PairInv, LockInv
  <2>4. ZombieInv(u, s)'
    BY <1>1, <2>1, <2>2 DEF PairInv, ZombieInv
  <2>5. ReachInv(u, s)'
    BY <1>1, <2>1, <2>2 DEF PairInv, ReachInv
  <2> QED
    BY <2>3, <2>4, <2>5 DEF PairInv
<1>4. (\A u \in Task : RouteInv(u)') /\ ProgressStaysOnRoute'
  BY <1>1 DEF RouterInv, RouteInv, Has, ProgressStaysOnRoute
<1> QED
  BY <1>2, <1>3, <1>4 DEF RouterInv

\* A crash cuts exactly the claims that are being worked on, and the restart
\* delivers every receipt again.
LEMMA CrashStep ==
    ASSUME RouterInv, Crash
    PROVE  RouterInv'
<1>1. RouterTypeOK /\ ProgressStaysOnRoute
  BY DEF RouterInv
<1>2. /\ cut' = cut \cup InFlight
      /\ at' = [c \in Caller |-> Idle]
      /\ routes' = [t \in Task |-> NoRoute]
      /\ up' = FALSE /\ todo' = finished /\ missed' = {}
      /\ UNCHANGED <<claims, finished, notified, progressed, failed, refused, shared>>
  BY DEF Crash
<1>3. \A c \in Caller : at'[c].pc = "idle" /\ at'[c].task = {}
  BY <1>2, IdleState
<1>4. RouterTypeOK'
  BY <1>1, <1>2, IdleState DEF RouterTypeOK, Route
<1>5. StartInv' /\ \A c \in Caller : CallerInv(c)'
  BY <1>2, <1>3 DEF StartInv, CallerInv, Caller
<1>6. ASSUME NEW u \in Task, NEW s \in Sink PROVE PairInv(u, s)'
  <2>1. PairInv(u, s)
    BY DEF RouterInv
  <2>2. ASSUME NEW c \in Caller, Working(c, u, s) PROVE <<u, s>> \in cut'
    <3>1. <<u, s>> \in Pair
      BY DEF Pair
    <3> QED
      BY <1>2, <2>2, <3>1 DEF InFlight, Working
  <2>3. \A c \in Caller : ~Working(c, u, s)'
    BY <1>3 DEF Working
  <2>4. LockInv(u, s)'
    BY <1>2, <2>1, <2>3 DEF PairInv, LockInv
  <2>5. ZombieInv(u, s)'
    BY <1>2, <2>1, <2>2 DEF PairInv, ZombieInv
  <2>6. ReachInv(u, s)'
    BY <1>2 DEF ReachInv
  <2> QED
    BY <2>4, <2>5, <2>6 DEF PairInv
<1>7. \A u \in Task : RouteInv(u)'
  BY <1>3 DEF RouteInv, Has
<1>8. ProgressStaysOnRoute'
  BY <1>1, <1>2 DEF ProgressStaysOnRoute
<1> QED
  BY <1>4, <1>5, <1>6, <1>7, <1>8 DEF RouterInv

-----------------------------------------------------------------------------
LEMMA FinishedTasks == RouterInv => finished \in SUBSET Task
BY DEF RouterInv, RouterTypeOK

LEMMA RouterStep == RouterInv /\ [Next]_vars => RouterInv'
<1> SUFFICES ASSUME RouterInv, [Next]_vars PROVE RouterInv'
  OBVIOUS
<1>1. ASSUME NEW c \in Caller, NEW t \in Task, Serve(c, t) PROVE RouterInv'
  <2>1. CASE Return(c, t)
    BY <2>1, FinishedTasks, ReleaseStep DEF Return, sinkVars, faultVars
  <2> QED
    BY <1>1, <2>1, SkipStep, InsertStep, NotifyOkStep, NotifyFailsStep, UndoStep DEF Serve
<1>2. ASSUME NEW c \in Runner, NEW t \in Task,
             Take(c, t) \/ OnProgress(c, t) \/ Finish(c, t) \/ FinishUnread(c, t)
             \/ DeliverNothing(c, t)
      PROVE  RouterInv'
  <2>1. c \in Caller
    BY DEF Caller
  <2>2. CASE DeliverNothing(c, t)
    BY <2>1, <2>2, FinishedTasks, ReleaseStep DEF DeliverNothing, sinkVars, faultVars
  <2>3. CASE FinishUnread(c, t)
    BY <2>1, <2>3, FinishedTasks, ReleaseStep DEF FinishUnread, ReadFails
  <2> QED
    BY <1>2, <2>2, <2>3, TakeStep, OnProgressStep, FinishStep
<1>3. CASE UNCHANGED vars
  <2>1. UNCHANGED <<claims, routes, at, finished, todo, up, notified, progressed, shared,
                    failed, refused, missed, cut>>
    BY <1>3 DEF vars
  <2>2. RouterTypeOK' /\ StartInv' /\ (\A d \in Caller : CallerInv(d)')
    BY <2>1 DEF RouterInv, RouterTypeOK, StartInv, CallerInv, Has
  <2>3. ASSUME NEW u \in Task, NEW s \in Sink PROVE PairInv(u, s)'
    <3>1. /\ PairInv(u, s)
          /\ \A d \in Caller : /\ Working(d, u, s)' <=> Working(d, u, s)
                               /\ Coming(d, u, s)' <=> Coming(d, u, s)
      BY <2>1, <2>3 DEF RouterInv, Working, Coming, Has
    <3>2. at' = at /\ notified' = notified /\ claims' = claims /\ refused' = refused
          /\ failed' = failed /\ missed' = missed /\ cut' = cut /\ finished' = finished /\ todo' = todo
      BY <2>1
    <3> QED
      BY <3>1, <3>2, OtherPair
  <2>4. (\A u \in Task : RouteInv(u)') /\ ProgressStaysOnRoute'
    BY <2>1 DEF RouterInv, RouteInv, Has, ProgressStaysOnRoute
  <2> QED
    BY <2>2, <2>3, <2>4 DEF RouterInv
<1>4. CASE ListFails
  <2>1. routes' \in [Task -> Route]
    BY <1>4 DEF ListFails, RouterInv, RouterTypeOK
  <2> QED
    BY <1>4, <2>1, UnreadStep DEF ListFails, ReadFails
<1>5. ASSUME NEW t \in Task, ExistingUnread(t) PROVE RouterInv'
  <2>1. routes' \in [Task -> Route]
    BY <1>5 DEF ExistingUnread, RouterInv, RouterTypeOK, Route
  <2> QED
    BY <1>5, <2>1, UnreadStep DEF ExistingUnread, ReadFails
<1> QED
  BY <1>1, <1>2, <1>3, <1>4, <1>5, DeliverExistingStep, StartWorkersStep, CrashStep DEF Next

LEMMA RouterInductive == Spec => []RouterInv
BY RouterInitially, RouterStep, PTL DEF Spec

-----------------------------------------------------------------------------
\* However often the workers and the restarts deliver a task, no sink takes its
\* completion twice, unless the table refused a statement about the pair.
THEOREM NotifiedOnce == Spec => []AtMostOnce
<1>1. RouterInv => AtMostOnce
  BY DEF RouterInv, PairInv, LockInv, AtMostOnce, Pair
<1> QED
  BY <1>1, RouterInductive, PTL

\* A claim that nobody works on and that was never notified comes from a crash
\* or from a refused DELETE.
THEOREM ZombiesAreCut == Spec => []ZombieOnlyByCrash
<1>1. RouterInv => ZombieOnlyByCrash
  <2> SUFFICES ASSUME RouterInv, NEW p \in claims, notified[p] = 0
               PROVE  p \in cut \cup refused \cup InFlight
    BY DEF ZombieOnlyByCrash
  <2>1. PICK t \in Task, s \in Sink : p = <<t, s>>
    BY DEF RouterInv, RouterTypeOK, Pair
  <2> QED
    BY <2>1 DEF RouterInv, PairInv, ZombieInv, Working, InFlight, Pair
<1> QED
  BY <1>1, RouterInductive, PTL

\* A finished task that no caller has reached every eligible sink but those that
\* failed or that a crash cut, unless a failing read of the queue kept its
\* receipt from the router since the last start.
THEOREM EverySinkServed == Spec => []Served
<1>1. RouterInv => Served
  <2> SUFFICES ASSUME RouterInv, up, NEW t \in finished \ missed, NEW s \in Sink, Free(t),
                      ShouldDeliver(s, PayloadRoute[t]), <<t, s>> \notin failed \cup cut
               PROVE  notified[<<t, s>>] > 0
    BY DEF Served
  <2>1. t \in Task /\ todo = {}
    BY DEF RouterInv, RouterTypeOK, StartInv
  <2>2. ReachInv(t, s)
    BY <2>1 DEF RouterInv, PairInv
  <2> QED
    BY <2>1, <2>2 DEF ReachInv, Coming, Free
<1> QED
  BY <1>1, RouterInductive, PTL

\* The progress of a task that one worker had at a time stays on its route.
THEOREM ProgressOnRoute == Spec => []ProgressStaysOnRoute
BY RouterInductive, PTL DEF RouterInv
=============================================================================
