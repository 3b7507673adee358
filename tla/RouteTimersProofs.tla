-------------------------- MODULE RouteTimersProofs --------------------------
(***************************************************************************)
(* Proofs about RouteTimers, for every set of timers and every length of   *)
(* them.  Until a restart leaves route_timers_at stale no deadline is      *)
(* missed, and that follows from PassInv: a pass is queued in time for     *)
(* every deadline.  After one the tick still bounds how late a timer is.   *)
(***************************************************************************)
EXTENDS RouteTimers, TLAPS

\* What route_timers_schedule() works on: a queue and a time ...
QueueType(q) ==
  /\ q = [queued |-> q.queued, at |-> q.at]
  /\ q.queued \in [Span -> Nat] /\ q.at \in Span

\* ... and, where no restart has come between, the time of a queued pass.
QueueOK(q) == QueueType(q) /\ (q.at # 0 => q.queued[q.at] > 0)

\* q has a pass for no later than w.
Serves(q, w) == \E p \in Span : p <= w /\ q.queued[p] > 0

\* Scheduling keeps the types, whatever route_timers_at was.
LEMMA ScheduleType ==
  ASSUME NEW q, QueueType(q), NEW when \in Span
  PROVE  QueueType(Schedule(q, when))
<1> DEFINE r == [queued |-> [q.queued EXCEPT ![when] = @ + 1], at |-> when]
<1>1. QueueType(r)
  BY DEF QueueType
<1>2. Schedule(q, when) \in {q, r}
  BY DEF Schedule
<1> QED
  BY <1>1, <1>2

\* So do all the calls one walk over the table makes.
LEMMA WalkedType ==
  ASSUME NEW q, QueueType(q), NEW again \in BOOLEAN, NEW fire \in BOOLEAN,
         NEW r \in Walked(q, again, fire)
  PROVE  QueueType(r)
<1>1. 0 \in Span /\ Longest \in Span
  BY TimersAssumption DEF Span
<1>2. QueueType(Schedule(q, Longest)) /\ QueueType(Schedule(q, 0))
  BY <1>1, ScheduleType
<1>3. /\ QueueType(Schedule(Schedule(q, Longest), 0))
      /\ QueueType(Schedule(Schedule(q, 0), Longest))
  BY <1>1, <1>2, ScheduleType
<1> QED
  BY <1>2, <1>3 DEF Walked

\* Scheduling keeps the queue well formed, has a pass for the time it was asked
\* for, and takes none away.
LEMMA ScheduleLemma ==
  ASSUME NEW q, QueueOK(q), NEW when \in Span
  PROVE  /\ QueueOK(Schedule(q, when))
         /\ Serves(Schedule(q, when), when)
         /\ \A w \in Int : Serves(q, w) => Serves(Schedule(q, when), w)
<1> USE TimersAssumption DEF Span
<1>1. CASE q.at # 0 /\ q.at <= when
  BY <1>1 DEF Schedule, QueueOK, QueueType, Serves
<1>2. CASE ~(q.at # 0 /\ q.at <= when)
  <2> DEFINE r == [queued |-> [q.queued EXCEPT ![when] = @ + 1], at |-> when]
  <2>1. Schedule(q, when) = r
    BY <1>2 DEF Schedule
  <2>2. r.queued \in [Span -> Nat] /\ r.queued[when] > 0
    BY DEF QueueOK, QueueType
  <2>3. \A p \in Span : q.queued[p] > 0 => r.queued[p] > 0
    BY DEF QueueOK, QueueType
  <2>4. QueueOK(r)
    BY <2>2 DEF QueueOK, QueueType
  <2>5. Serves(r, when)
    BY <2>2 DEF Serves
  <2>6. \A w \in Int : Serves(q, w) => Serves(r, w)
    BY <2>3 DEF Serves
  <2> QED
    BY <2>1, <2>4, <2>5, <2>6
<1> QED
  BY <1>1, <1>2

\* The same of all the calls one walk over the table makes.
LEMMA WalkedLemma ==
  ASSUME NEW q, QueueOK(q), NEW again \in BOOLEAN, NEW fire \in BOOLEAN,
         NEW r \in Walked(q, again, fire)
  PROVE  /\ QueueOK(r)
         /\ again => Serves(r, Longest)
         /\ fire => Serves(r, 0)
         /\ \A w \in Int : Serves(q, w) => Serves(r, w)
<1> DEFINE a == Schedule(q, Longest)
           f == Schedule(q, 0)
           af == Schedule(a, 0)
           fa == Schedule(f, Longest)
<1>0. 0 \in Span /\ Longest \in Span /\ Span \subseteq Int
  BY TimersAssumption DEF Span
<1>1. /\ QueueOK(a) /\ Serves(a, Longest)
      /\ \A w \in Int : Serves(q, w) => Serves(a, w)
  BY <1>0, ScheduleLemma
<1>2. /\ QueueOK(f) /\ Serves(f, 0)
      /\ \A w \in Int : Serves(q, w) => Serves(f, w)
  BY <1>0, ScheduleLemma
<1>3. /\ QueueOK(af) /\ Serves(af, 0)
      /\ \A w \in Int : Serves(a, w) => Serves(af, w)
  BY <1>0, <1>1, ScheduleLemma
<1>4. /\ QueueOK(fa) /\ Serves(fa, Longest)
      /\ \A w \in Int : Serves(f, w) => Serves(fa, w)
  BY <1>0, <1>2, ScheduleLemma
<1>5. \/ ~again /\ ~fire /\ r = q
      \/ again /\ ~fire /\ r = a
      \/ ~again /\ fire /\ r = f
      \/ again /\ fire /\ r \in {af, fa}
  BY DEF Walked
<1> QED
  BY <1>0, <1>1, <1>2, <1>3, <1>4, <1>5

\* And of the pass that the walk of route_timers_run() ends with: it is in time
\* for every deadline the walk found.
LEMMA ScheduleNextLemma ==
  ASSUME NEW q, QueueOK(q), NEW next \in SUBSET Span,
         NEW r \in ScheduleNext(q, next)
  PROVE  /\ QueueOK(r)
         /\ \A w \in next : Serves(r, w)
         /\ \A w \in Int : Serves(q, w) => Serves(r, w)
<1>0. Span \subseteq Int
  BY TimersAssumption DEF Span
<1>1. CASE next = {}
  BY <1>1 DEF ScheduleNext
<1>2. CASE next # {}
  <2>1. PICK n \in Earliest(next) : r = Schedule(q, n)
    BY <1>2 DEF ScheduleNext
  <2>2. n \in Span /\ \A m \in next : n <= m
    BY DEF Earliest
  <2>3. /\ QueueOK(r) /\ Serves(r, n)
        /\ \A w \in Int : Serves(q, w) => Serves(r, w)
    BY <2>1, <2>2, ScheduleLemma
  <2>4. \A w \in next : Serves(r, w)
    BY <1>0, <2>2, <2>3 DEF Serves, Span
  <2> QED
    BY <2>3, <2>4
<1> QED
  BY <1>1, <1>2

-----------------------------------------------------------------------------
\* The walk keeps the types of what it writes.
LEMMA WalkType ==
  ASSUME TypeOK, NEW winners, NEW fire, NEW unserved,
         Walk(winners, fire, unserved)
  PROVE  /\ running' \subseteq Timers /\ prompt' \subseteq Joins
         /\ left' \in [Timers -> Int] /\ \A t \in Timers : left'[t] <= Longest
BY TimersAssumption DEF TypeOK, Walk, Timers

\* A walk leaves no timer overdue.
LEMMA WalkServes ==
  ASSUME TypeOK, NEW winners, NEW fire, NEW unserved,
         Walk(winners, fire, unserved)
  PROVE  \A t \in running' : left'[t] >= 0
<1> SUFFICES ASSUME NEW t \in running' PROVE left'[t] >= 0
  OBVIOUS
<1>1. t \in Timers /\ t \in running /\ left[t] \in Int
  BY DEF Walk, TypeOK
<1>2. CASE t \in unserved
  BY <1>1, <1>2 DEF Walk
<1>3. CASE t \notin unserved /\ t \in winners \cup (Due \cap Joins)
  BY <1>1, <1>3, TimersAssumption DEF Walk
<1>4. CASE t \notin unserved /\ t \notin winners \cup (Due \cap Joins)
  <2>1. t \notin Due
    BY <1>1, <1>4 DEF Walk, Timers
  <2>2. left'[t] = left[t]
    BY <1>1, <1>4 DEF Walk
  <2> QED
    BY <1>1, <2>1, <2>2 DEF Due
<1> QED
  BY <1>2, <1>3, <1>4

\* What the walk of a pass asks for is a time the queue can hold.
LEMMA NextPassesType ==
  ASSUME TypeOK, NEW winners, NEW fire, NEW unserved,
         Walk(winners, fire, unserved)
  PROVE  NextPasses(running' \ unserved, left') \in SUBSET Span
<1>1. \A t \in running' : left'[t] \in Int /\ left'[t] >= 0 /\ left'[t] <= Longest
  BY WalkType, WalkServes
<1>2. \A t \in running' : left'[t] \in Span
  BY <1>1, TimersAssumption DEF Span
<1> QED
  BY <1>2 DEF NextPasses

\* The queue a pass begins its walk with is well formed.
LEMMA PassBegins ==
  ASSUME TypeOK, NEW p \in Span, queued[p] > 0
  PROVE  QueueOK([queued |-> [queued EXCEPT ![p] = @ - 1], at |-> 0])
BY TimersAssumption DEF TypeOK, QueueOK, QueueType, Span

\* The first state is well typed.
LEMMA TypeInit == Init => TypeOK
<1> SUFFICES ASSUME Init PROVE TypeOK
  OBVIOUS
<1>1. stale \in BOOLEAN
  BY Zenon DEF Init
<1>2. /\ left \in [Timers -> Int] /\ \A t \in Timers : left[t] <= Longest
      /\ queued \in [Span -> Nat] /\ at \in Span /\ tick \in 0..TIMER_INTERVAL
  BY TimersAssumption DEF Init, Span
<1>3. running \subseteq Timers /\ prompt \subseteq Joins
  BY Zenon DEF Init
<1> QED
  BY <1>1, <1>2, <1>3, Zenon DEF TypeOK

\* Every variable keeps its type, whether or not the daemon is restarted.
THEOREM TypeCorrect == Spec => []TypeOK
<1>1. Init => TypeOK
  BY TypeInit
<1>2. TypeOK /\ [Next]_vars => TypeOK'
  <2> SUFFICES ASSUME TypeOK, [Next]_vars PROVE TypeOK'
    OBVIOUS
  <2>0. QueueType(Queue)
    BY DEF TypeOK, QueueType, Queue
  <2>1. ASSUME NEW p \in Span, RouteTimersRun(p) PROVE TypeOK'
    <3> DEFINE q0 == [queued |-> [queued EXCEPT ![p] = @ - 1], at |-> 0]
    <3>1. PICK winners \in SUBSET Asserts, fire \in BOOLEAN, unserved \in SUBSET Joins :
            /\ Walk(winners, fire, unserved)
            /\ \E q \in Walked(q0, winners # {}, fire) :
                 \E r \in ScheduleNext(q, NextPasses(running' \ unserved, left')) :
                   queued' = r.queued /\ at' = r.at
      BY <2>1, Zenon DEF RouteTimersRun
    <3>2. PICK q \in Walked(q0, winners # {}, fire) :
            \E r \in ScheduleNext(q, NextPasses(running' \ unserved, left')) :
              queued' = r.queued /\ at' = r.at
      BY <3>1
    <3>3. PICK r \in ScheduleNext(q, NextPasses(running' \ unserved, left')) :
              queued' = r.queued /\ at' = r.at
      BY <3>2
    <3>4. QueueOK(q)
      <4>1. QueueOK(q0)
        BY <2>1, PassBegins DEF RouteTimersRun
      <4> QED
        BY <4>1, WalkedLemma, Zenon
    <3>5. QueueOK(r)
      BY <3>1, <3>4, NextPassesType, ScheduleNextLemma
    <3> QED
      BY <2>1, <3>1, <3>3, <3>5, WalkType
      DEF TypeOK, QueueOK, QueueType, RouteTimersRun
  <2>2. ASSUME AgeRoutes PROVE TypeOK'
    <3>1. PICK winners \in SUBSET Asserts, fire \in BOOLEAN, unserved \in SUBSET Joins :
            /\ Walk(winners, fire, unserved)
            /\ \E q \in Walked(Queue, winners # {}, fire) :
                 queued' = q.queued /\ at' = q.at
      BY <2>2 DEF AgeRoutes
    <3>2. PICK q \in Walked(Queue, winners # {}, fire) : queued' = q.queued /\ at' = q.at
      BY <3>1
    <3>3. QueueType(q)
      BY <2>0, WalkedType, Zenon
    <3> QED
      BY <2>2, <3>1, <3>2, <3>3, WalkType, TimersAssumption
      DEF TypeOK, QueueType, AgeRoutes
  <2>3. ASSUME NEW t \in Deadlines, NEW delay \in Span, SetDeadline(t, delay)
        PROVE  TypeOK'
    <3>1. QueueType(Schedule(Queue, delay))
      BY <2>0, ScheduleType
    <3>2. /\ running' \subseteq Timers /\ left' \in [Timers -> Int]
          /\ \A u \in Timers : left'[u] <= Longest
      BY <2>3, TimersAssumption DEF TypeOK, SetDeadline, Deadlines, Timers, Span
    <3>3. queued' \in [Span -> Nat] /\ at' \in Span
      BY <2>3, <3>1 DEF SetDeadline, QueueType
    <3>4. prompt' \subseteq Joins /\ tick' \in 0..TIMER_INTERVAL /\ stale' \in BOOLEAN
      BY <2>3, Zenon DEF TypeOK, SetDeadline
    <3> QED
      BY <3>2, <3>3, <3>4, Zenon DEF TypeOK
  <2>4. ASSUME NEW t \in Joins, NEW delay \in Span, JpTimerSet(t, delay)
        PROVE  TypeOK'
    <3>1. QueueType(Schedule(Queue, delay))
      BY <2>0, ScheduleType
    <3>2. /\ running' \subseteq Timers /\ left' \in [Timers -> Int]
          /\ \A u \in Timers : left'[u] <= Longest
      BY <2>4, TimersAssumption DEF TypeOK, JpTimerSet, Timers, Span
    <3>3. queued' \in [Span -> Nat] /\ at' \in Span
      BY <2>4, <3>1 DEF TypeOK, JpTimerSet, QueueType
    <3>4. prompt' \subseteq Joins
      BY <2>4 DEF TypeOK, JpTimerSet
    <3>5. tick' \in 0..TIMER_INTERVAL /\ stale' \in BOOLEAN
      BY <2>4, Zenon DEF TypeOK, JpTimerSet
    <3> QED
      BY <3>2, <3>3, <3>4, <3>5, Zenon DEF TypeOK
  <2>5. ASSUME NEW t \in Timers, Cancel(t) PROVE TypeOK'
    BY <2>5, TimersAssumption DEF TypeOK, Cancel
  <2>6. ASSUME Restart PROVE TypeOK'
    BY <2>6, TimersAssumption DEF TypeOK, Restart
  <2>7. ASSUME Elapse PROVE TypeOK'
    BY <2>7, TimersAssumption DEF TypeOK, Elapse, Span
  <2>8. CASE UNCHANGED vars
    BY <2>8 DEF vars, TypeOK
  <2> QED
    BY <2>1, <2>2, <2>3, <2>4, <2>5, <2>6, <2>7, <2>8 DEF Next
<1> QED
  BY <1>1, <1>2, PTL DEF Spec

\* The timers of Prompt that a walk leaves running ran before it, or it started
\* them with a call of its own: none is forgotten.
LEMMA WalkPrompt ==
  ASSUME TypeOK, NEW winners, NEW fire, NEW unserved,
         Walk(winners, fire, unserved), NEW t \in Prompt'
  PROVE  \/ t \in unserved /\ fire /\ left'[t] = 0
         \/ t \in winners /\ winners # {} /\ left'[t] = Longest
         \/ t \in Prompt /\ t \notin Due /\ left'[t] = left[t]
<1>1. t \in running /\ t \in running' /\ t \in Timers
  BY DEF Prompt, Walk, TypeOK
<1>2. CASE t \in unserved
  BY <1>1, <1>2 DEF Walk
<1>3. CASE t \in winners /\ t \notin unserved
  BY <1>1, <1>3 DEF Walk
<1>4. CASE t \notin winners /\ t \notin unserved
  <2>1. t \notin Due
    <3>1. CASE t \in Deadlines
      BY <1>1, <1>4, <3>1 DEF Walk
    <3>2. CASE t \notin Deadlines
      BY <1>4, <3>2 DEF Walk, Prompt
    <3> QED
      BY <3>1, <3>2
  <2>2. left'[t] = left[t]
    BY <1>1, <1>4, <2>1 DEF Walk
  <2>3. t \in Prompt
    BY <1>1, <1>4 DEF Prompt, Walk
  <2> QED
    BY <2>1, <2>2, <2>3
<1> QED
  BY <1>2, <1>3, <1>4

\* InTime in the words of the lemmas.
LEMMA InTimeQueue ==
  ASSUME TypeOK
  PROVE  /\ AtIsQueued <=> QueueOK(Queue)
         /\ Covered <=> \A t \in Prompt : Serves(Queue, left[t])
BY DEF TypeOK, AtIsQueued, Covered, QueueOK, QueueType, Queue, Serves

\* The same of the state after a step.
LEMMA InTimeQueuePrime ==
  ASSUME TypeOK', QueueOK(Queue'), \A t \in Prompt' : Serves(Queue', left'[t]),
         PromptSoon'
  PROVE  InTime'
BY DEF InTime, TypeOK, AtIsQueued, Covered, QueueOK, QueueType, Queue, Serves

\* A Join Timer that had a pass of its own before the walk, or gets one by it,
\* is due within a tick after it.
LEMMA WalkPromptSoon ==
  ASSUME TypeOK, PromptSoon, NEW winners, NEW fire, NEW unserved,
         Walk(winners, fire, unserved)
  PROVE  PromptSoon'
<1> SUFFICES ASSUME NEW t \in running' \cap prompt' PROVE left'[t] < TIMER_INTERVAL
  BY DEF PromptSoon
<1>1. t \in running /\ t \in Joins /\ t \notin winners
  BY TimersAssumption DEF Walk, TypeOK
<1>2. CASE t \in unserved
  BY <1>1, <1>2, TimersAssumption DEF Walk, Timers
<1>3. CASE t \notin unserved
  <2>1. t \in prompt /\ t \notin Due
    BY <1>3 DEF Walk
  <2> QED
    BY <1>1, <1>3, <2>1 DEF Walk, Timers, PromptSoon
<1> QED
  BY <1>2, <1>3

\* Until a SIGHUP comes between a pass and its time, a pass is queued in time for
\* every deadline, by whatever interleaving of handlers, passes and ticks timers
\* start and stop.
THEOREM PassInvariant == Spec => []PassInv
<1>1. Init => PassInv
  <2> SUFFICES ASSUME Init PROVE PassInv
    OBVIOUS
  <2>1. at = 0 /\ running = {}
    BY Zenon DEF Init
  <2>2. AtIsQueued /\ Covered /\ PromptSoon
    BY <2>1 DEF AtIsQueued, Covered, Prompt, PromptSoon
  <2> QED
    BY <2>2, TypeInit, Zenon DEF PassInv, InTime
<1>2. TypeOK' /\ ~stale' /\ InTime /\ [Next]_vars => InTime'
  <2> SUFFICES ASSUME TypeOK', ~stale', InTime, [Next]_vars PROVE InTime'
    OBVIOUS
  <2>0. /\ TypeOK /\ PromptSoon /\ QueueOK(Queue)
        /\ \A t \in Prompt : Serves(Queue, left[t])
        /\ \A t \in Timers : left[t] \in Int
    BY InTimeQueue DEF InTime, TypeOK
  <2>a. Span \subseteq Int /\ 0 \in Span /\ Longest \in Span
    BY TimersAssumption DEF Span
  <2>1. ASSUME NEW p \in Span, RouteTimersRun(p) PROVE InTime'
    <3> DEFINE q0 == [queued |-> [queued EXCEPT ![p] = @ - 1], at |-> 0]
    <3>1. PICK winners \in SUBSET Asserts, fire \in BOOLEAN, unserved \in SUBSET Joins :
            /\ Walk(winners, fire, unserved)
            /\ \E q \in Walked(q0, winners # {}, fire) :
                 \E r \in ScheduleNext(q, NextPasses(running' \ unserved, left')) :
                   queued' = r.queued /\ at' = r.at
      BY <2>1, Zenon DEF RouteTimersRun
    <3>2. PICK q \in Walked(q0, winners # {}, fire) :
            \E r \in ScheduleNext(q, NextPasses(running' \ unserved, left')) :
              queued' = r.queued /\ at' = r.at
      BY <3>1
    <3>3. PICK r \in ScheduleNext(q, NextPasses(running' \ unserved, left')) :
              queued' = r.queued /\ at' = r.at
      BY <3>2
    <3>4. QueueOK(q) /\ (fire => Serves(q, 0))
      <4>1. QueueOK(q0)
        BY <2>0, <2>1, PassBegins DEF RouteTimersRun
      <4> QED
        BY <4>1, WalkedLemma, Zenon
    <3>5. /\ QueueOK(r)
          /\ \A w \in NextPasses(running' \ unserved, left') : Serves(r, w)
          /\ \A w \in Int : Serves(q, w) => Serves(r, w)
      BY <2>0, <3>1, <3>4, NextPassesType, ScheduleNextLemma
    <3>6. Queue' = r
      BY <3>3, <3>5 DEF Queue, QueueOK, QueueType
    <3>7. ASSUME NEW t \in Prompt' PROVE Serves(r, left'[t])
      <4>1. CASE t \in unserved
        <5>1. fire /\ left'[t] = 0
          BY <3>1, <4>1 DEF Walk, Timers
        <5> QED
          BY <2>a, <3>4, <3>5, <5>1
      <4>2. CASE t \in running' \ unserved /\ t \in Deadlines
        BY <3>5, <4>2 DEF NextPasses
      <4>3. CASE t \in Prompt /\ t \notin unserved /\ left'[t] = left[t] /\ t \notin Deadlines
        <5>1. left[t] < TIMER_INTERVAL
          BY <2>0, <4>3 DEF Prompt, PromptSoon
        <5>2. t \in running' \ unserved
          BY <4>3 DEF Prompt
        <5> QED
          BY <3>5, <4>3, <5>1, <5>2 DEF NextPasses
      <4>4. t \in winners => t \in Deadlines
        BY DEF Deadlines
      <4> QED
        <5>1. t \in running'
          BY DEF Prompt
        <5>2. \/ t \in unserved /\ fire /\ left'[t] = 0
              \/ t \in winners /\ winners # {} /\ left'[t] = Longest
              \/ t \in Prompt /\ t \notin Due /\ left'[t] = left[t]
          BY <2>0, <3>1, WalkPrompt
        <5> QED
          BY <4>1, <4>2, <4>3, <4>4, <5>1, <5>2
    <3> QED
      BY <2>0, <3>1, <3>5, <3>6, <3>7, WalkPromptSoon, InTimeQueuePrime
  <2>2. ASSUME AgeRoutes PROVE InTime'
    <3>1. PICK winners \in SUBSET Asserts, fire \in BOOLEAN, unserved \in SUBSET Joins :
            /\ Walk(winners, fire, unserved)
            /\ \E q \in Walked(Queue, winners # {}, fire) :
                 queued' = q.queued /\ at' = q.at
      BY <2>2 DEF AgeRoutes
    <3>2. PICK q \in Walked(Queue, winners # {}, fire) : queued' = q.queued /\ at' = q.at
      BY <3>1
    <3>3. /\ QueueOK(q)
          /\ winners # {} => Serves(q, Longest)
          /\ fire => Serves(q, 0)
          /\ \A w \in Int : Serves(Queue, w) => Serves(q, w)
      BY <2>0, WalkedLemma, Zenon
    <3>4. Queue' = q
      BY <3>2, <3>3 DEF Queue, QueueOK, QueueType
    <3>5. ASSUME NEW t \in Prompt' PROVE Serves(q, left'[t])
      <4>1. t \in Prompt => Serves(q, left[t])
        BY <2>0, <3>3 DEF Prompt, TypeOK
      <4> QED
        BY <2>0, <3>1, <3>3, <4>1, WalkPrompt
    <3> QED
      BY <2>0, <3>1, <3>3, <3>4, <3>5, WalkPromptSoon, InTimeQueuePrime
  <2>3. ASSUME NEW t \in Deadlines, NEW delay \in Span, SetDeadline(t, delay)
        PROVE  InTime'
    <3>1. /\ QueueOK(Schedule(Queue, delay))
          /\ Serves(Schedule(Queue, delay), delay)
          /\ \A w \in Int : Serves(Queue, w) => Serves(Schedule(Queue, delay), w)
      BY <2>0, ScheduleLemma
    <3>2. Queue' = Schedule(Queue, delay)
      BY <2>3, <3>1 DEF SetDeadline, Queue, QueueOK, QueueType
    <3>3. ASSUME NEW u \in Prompt' PROVE Serves(Queue', left'[u])
      <4>1. CASE u = t
        BY <2>0, <2>3, <3>1, <3>2, <4>1 DEF SetDeadline, TypeOK, Timers
      <4>2. CASE u # t
        BY <2>0, <2>3, <3>1, <3>2, <4>2 DEF SetDeadline, TypeOK, Prompt
      <4> QED
        BY <4>1, <4>2
    <3>4. PromptSoon'
      BY <2>0, <2>3, TimersAssumption DEF SetDeadline, PromptSoon, TypeOK, Deadlines
    <3> QED
      BY <3>1, <3>2, <3>3, <3>4, InTimeQueuePrime
  <2>4. ASSUME NEW t \in Joins, NEW delay \in Span, JpTimerSet(t, delay)
        PROVE  InTime'
    <3>0. t \in Timers /\ t \notin Deadlines
      BY TimersAssumption DEF Timers, Deadlines
    <3>1. /\ QueueOK(Schedule(Queue, delay))
          /\ Serves(Schedule(Queue, delay), delay)
          /\ \A w \in Int : Serves(Queue, w) => Serves(Schedule(Queue, delay), w)
      BY <2>0, ScheduleLemma
    <3>2. CASE delay < TIMER_INTERVAL
      <4>1. Queue' = Schedule(Queue, delay)
        BY <2>4, <3>1, <3>2 DEF JpTimerSet, Queue, QueueOK, QueueType
      <4>2. ASSUME NEW u \in Prompt' PROVE Serves(Queue', left'[u])
        <5>1. CASE u = t
          BY <2>0, <2>4, <3>0, <3>1, <4>1, <5>1 DEF JpTimerSet, TypeOK
        <5>2. CASE u # t
          BY <2>0, <2>4, <3>1, <3>2, <4>1, <5>2 DEF JpTimerSet, TypeOK, Prompt
        <5> QED
          BY <5>1, <5>2
      <4>3. PromptSoon'
        BY <2>0, <2>4, <3>0, <3>2 DEF JpTimerSet, PromptSoon, TypeOK
      <4> QED
        BY <3>1, <4>1, <4>2, <4>3, InTimeQueuePrime
    <3>3. CASE ~(delay < TIMER_INTERVAL)
      <4>1. Queue' = Queue
        BY <2>4, <3>3 DEF JpTimerSet, Queue
      <4>2. ASSUME NEW u \in Prompt' PROVE Serves(Queue', left'[u])
        <5>1. u # t
          BY <2>4, <3>0, <3>3 DEF JpTimerSet, Prompt
        <5> QED
          BY <2>0, <2>4, <3>3, <4>1, <5>1 DEF JpTimerSet, TypeOK, Prompt
      <4>3. PromptSoon'
        BY <2>0, <2>4, <3>0, <3>3 DEF JpTimerSet, PromptSoon, TypeOK
      <4> QED
        BY <2>0, <4>1, <4>2, <4>3, InTimeQueuePrime
    <3> QED
      BY <3>2, <3>3
  <2>5. ASSUME NEW t \in Timers, Cancel(t) PROVE InTime'
    <3>1. Queue' = Queue
      BY <2>5 DEF Cancel, Queue
    <3>2. ASSUME NEW u \in Prompt' PROVE Serves(Queue', left'[u])
      BY <2>0, <2>5, <3>1 DEF Cancel, TypeOK, Prompt
    <3>3. PromptSoon'
      BY <2>0, <2>5 DEF Cancel, PromptSoon, TypeOK
    <3> QED
      BY <2>0, <3>1, <3>2, <3>3, InTimeQueuePrime
  <2>6. ASSUME Restart PROVE InTime'
    <3>1. at' = 0 /\ Prompt' = {} /\ PromptSoon'
      BY <2>6, Zenon DEF Restart, Prompt, PromptSoon
    <3> QED
      BY <3>1 DEF InTime, AtIsQueued, Covered
  <2>7. ASSUME Elapse PROVE InTime'
    <3>1. AtIsQueued'
      BY <2>0, <2>7, TimersAssumption
      DEF Elapse, TypeOK, AtIsQueued, QueueOK, Queue, Span
    <3>2. ASSUME NEW t \in Prompt'
          PROVE  \E p \in Span : p <= left'[t] /\ queued'[p] > 0
      <4>1. t \in Prompt /\ left'[t] = left[t] - 1 /\ left[t] \in Int
        BY <2>0, <2>7 DEF Elapse, TypeOK, Prompt
      <4>2. PICK p \in Span : p <= left[t] /\ queued[p] > 0
        BY <4>1 DEF InTime, Covered
      <4>3. p # 0
        BY <2>7, <4>2 DEF Elapse
      <4>4. p - 1 \in Span /\ queued'[p - 1] = queued[p]
        BY <2>7, <4>3, TimersAssumption DEF Elapse, Span
      <4> QED
        BY <4>1, <4>2, <4>4 DEF Span
    <3>3. PromptSoon'
      BY <2>0, <2>7, TimersAssumption DEF Elapse, PromptSoon, TypeOK
    <3> QED
      BY <3>1, <3>2, <3>3 DEF InTime, Covered
  <2>8. CASE UNCHANGED vars
    BY <2>8 DEF vars, InTime, TypeOK, AtIsQueued, Covered, Prompt, PromptSoon
  <2> QED
    BY <2>1, <2>2, <2>3, <2>4, <2>5, <2>6, <2>7, <2>8 DEF Next
<1>3. TypeOK /\ TypeOK' /\ stale /\ [Next]_vars => stale'
  BY Zenon DEF Next, vars, TypeOK, RouteTimersRun, AgeRoutes, SetDeadline, JpTimerSet, Cancel,
         Restart, Elapse
<1>4. TypeOK' /\ PassInv /\ [Next]_vars => PassInv'
  BY <1>2, <1>3 DEF PassInv
<1> QED
  BY <1>1, <1>4, TypeCorrect, PTL DEF Spec

\* None of the deadlines that route.c gives a pass of their own is missed, until
\* a SIGHUP comes between a pass and its time.
THEOREM DeadlinesAreMet == Spec => []NoDeadlineMissed
<1>1. PassInv => NoDeadlineMissed
  BY TimersAssumption DEF PassInv, InTime, Covered, NoDeadlineMissed, TypeOK, Prompt, Span
<1> QED
  BY <1>1, PassInvariant, PTL

\* Restarts or not, no timer is overdue by more than the time since the tick:
\* age_routes() acts on whatever the passes missed.
THEOREM TicksCatchUp == Spec => []NeverATickLate
<1>1. Init => NeverATickLate
  BY DEF Init, NeverATickLate
<1>2. TypeOK /\ TypeOK' /\ NeverATickLate /\ [Next]_vars => NeverATickLate'
  <2> SUFFICES ASSUME TypeOK, TypeOK', NeverATickLate, [Next]_vars
               PROVE  NeverATickLate'
    OBVIOUS
  <2>0. tick \in Int /\ tick <= TIMER_INTERVAL /\ tick' \in Int /\ tick' <= TIMER_INTERVAL
    BY TimersAssumption DEF TypeOK
  <2>1. ASSUME NEW winners, NEW fire, NEW unserved, Walk(winners, fire, unserved)
        PROVE  NeverATickLate'
    <3>1. \A t \in running' : left'[t] >= 0 /\ left'[t] \in Int
      BY <2>1, WalkServes DEF TypeOK
    <3> QED
      BY <2>0, <3>1, TimersAssumption DEF NeverATickLate
  <2>2. ASSUME NEW p \in Span, RouteTimersRun(p) PROVE NeverATickLate'
    BY <2>1, <2>2 DEF RouteTimersRun
  <2>3. ASSUME AgeRoutes PROVE NeverATickLate'
    BY <2>1, <2>3 DEF AgeRoutes
  <2>4. ASSUME NEW t \in Timers, NEW delay \in Span, tick' = tick,
               running' = running \cup {t}, left' = [left EXCEPT ![t] = delay]
        PROVE  NeverATickLate'
    BY <2>0, <2>4, TimersAssumption DEF NeverATickLate, TypeOK, Span
  <2>5. ASSUME NEW t \in Deadlines, NEW delay \in Span, SetDeadline(t, delay)
        PROVE  NeverATickLate'
    BY <2>4, <2>5, Zenon DEF SetDeadline, Timers
  <2>6. ASSUME NEW t \in Joins, NEW delay \in Span, JpTimerSet(t, delay)
        PROVE  NeverATickLate'
    BY <2>4, <2>6, Zenon DEF JpTimerSet, Timers
  <2>7. ASSUME NEW t \in Timers, Cancel(t) PROVE NeverATickLate'
    BY <2>7 DEF Cancel, NeverATickLate, TypeOK
  <2>8. ASSUME Restart PROVE NeverATickLate'
    BY <2>8 DEF Restart, NeverATickLate
  <2>9. ASSUME Elapse PROVE NeverATickLate'
    BY <2>0, <2>9, TimersAssumption DEF Elapse, NeverATickLate, TypeOK
  <2>10. CASE UNCHANGED vars
    BY <2>10 DEF vars, NeverATickLate
  <2> QED
    BY <2>2, <2>3, <2>5, <2>6, <2>7, <2>8, <2>9, <2>10 DEF Next
<1> QED
  BY <1>1, <1>2, TypeCorrect, PTL DEF Spec
=============================================================================
