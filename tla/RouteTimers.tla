----------------------------- MODULE RouteTimers -----------------------------
(***************************************************************************)
(* The routing entry timers that cannot wait for the tick (src/route.c):   *)
(* Join Timers, Prune-Pending, Override and Assert Timers are deadlines on *)
(* the monotonic clock, route_timers_schedule() queues a pass over the     *)
(* routing table for them, route_timers_run() is that pass, and            *)
(* age_routes() acts on what came due by each tick.                        *)
(*                                                                         *)
(* All times are kept relative to now, so that the clock is no variable.   *)
(* The callout queue is the one of EventLoop: a callout may run early, by  *)
(* Early at most, and never late.                                          *)
(***************************************************************************)
EXTENDS Integers, FiniteSets, FiniteSetsExt

CONSTANTS Joins,          \* the Join Timers, one for each routing entry
          Oneshots,       \* Prune-Pending, Override and lost Assert Timers
          Asserts,        \* Assert Timers that a winner may set again
          TIMER_INTERVAL, \* the period of the tick
          Longest,        \* Assert_Time, Join period: the longest timer
          Early,          \* how much too early a callout may run
          MaxPasses       \* bound on the passes the environment asks for

ASSUME TimersAssumption ==
  /\ TIMER_INTERVAL \in Nat \ {0} /\ Longest \in Nat /\ Early \in Nat
  /\ TIMER_INTERVAL <= Longest
  /\ MaxPasses \in Nat
  /\ Joins \cap (Oneshots \cup Asserts) = {}

Deadlines == Oneshots \cup Asserts
Timers    == Joins \cup Deadlines
Span      == 0..Longest

VARIABLES running, \* the timers that run
          left,    \* by timer, what is left of it, below 0 when overdue
          prompt,  \* ghost: the Join Timers last set for less than a tick
          queued,  \* by the time left to it, how many passes are queued
          at,      \* route_timers_at, 0 for none and for one not in the future
          tick,    \* what is left to the next tick
          stale    \* ghost: a SIGHUP came while route_timers_at was in the future

vars == <<running, left, prompt, queued, at, tick, stale>>

Passes(q) == MapThenSumSet(LAMBDA p : q[p], Span)

\* The callout queue has room for what one more event asks for.
Room == Passes(queued) < MaxPasses

Init ==
  /\ running = {} /\ left = [t \in Timers |-> 0] /\ prompt = {}
  /\ queued = [p \in Span |-> 0] /\ at = 0
  /\ tick = TIMER_INTERVAL /\ stale = FALSE

-----------------------------------------------------------------------------
\* What route_timers_schedule() reads and writes.
Queue == [queued |-> queued, at |-> at]

\* Mutant: any pass in the future will do.
ScheduleAny(q, when) ==
  IF q.at # 0 THEN q
  ELSE [queued |-> [q.queued EXCEPT ![when] = @ + 1], at |-> when]

\* route_timers_schedule(): a pass already scheduled for no later will do.
Schedule(q, when) ==
  IF q.at # 0 /\ q.at <= when THEN q
  ELSE [queued |-> [q.queued EXCEPT ![when] = @ + 1], at |-> when]

\* The calls a walk over the table makes as it acts on the timers that came
\* due, in either order: a winner sets its Assert Timer again, and a change of
\* an outgoing interface list fires a Join Timer.
Walked(q, again, fired) ==
  CASE ~again /\ ~fired -> {q}
    [] again /\ ~fired  -> {Schedule(q, Longest)}
    [] ~again /\ fired  -> {Schedule(q, 0)}
    [] OTHER            -> {Schedule(Schedule(q, Longest), 0),
                            Schedule(Schedule(q, 0), Longest)}

Due == {t \in running : left[t] <= 0}

\* The walk itself: Join Timers that came due are set for the period again,
\* the others stop but for the winners' Assert Timers.  The Join Timers in
\* unserved are fired behind the walk's back, others before it came by.
Walk(winners, fire, unserved) ==
  /\ winners \subseteq Due \cap Asserts
  /\ unserved \subseteq running \cap Joins
  /\ unserved # {} => fire
  /\ fire => running \cap Joins # {}
  /\ winners # {} \/ fire => Due # {} /\ Room
  /\ running' = running \ ((Due \cap Deadlines) \ winners)
  /\ left' = [t \in Timers |-> IF t \in unserved THEN 0
                               ELSE IF t \in winners \cup (Due \cap Joins)
                               THEN Longest ELSE left[t]]
  /\ prompt' = (prompt \ Due) \cup unserved

\* What a pass looks for as it walks: the deadlines still running, and the
\* Join Timers that the next tick would be late for.
NextPasses(r, l) ==
  {l[t] : t \in {d \in r : d \in Deadlines \/ l[d] < TIMER_INTERVAL}}

Earliest(next) == {n \in next : \A m \in next : n <= m}

\* Mutant: the pass asks for its successor only if it found nothing due.
ScheduleNextIdle(q, next) ==
  IF next = {} \/ Due # {} THEN {q} ELSE {Schedule(q, n) : n \in Earliest(next)}

\* The pass ends by scheduling the next one, for the earliest of them.
ScheduleNext(q, next) ==
  IF next = {} THEN {q} ELSE {Schedule(q, n) : n \in Earliest(next)}

\* route_timers_run(), called for the pass that has p left to go: forget the
\* time of the pass scheduled last, walk, schedule the next.
RouteTimersRun(p) ==
  /\ queued[p] > 0 /\ p <= Early
  /\ \E winners \in SUBSET Asserts, fire \in BOOLEAN, unserved \in SUBSET Joins :
       /\ Walk(winners, fire, unserved)
       /\ \E q \in Walked([queued |-> [queued EXCEPT ![p] = @ - 1], at |-> 0],
                          winners # {}, fire) :
            \E r \in ScheduleNext(q, NextPasses(running' \ unserved, left')) :
              queued' = r.queued /\ at' = r.at
  /\ UNCHANGED <<tick, stale>>

\* Mutant: the tick leaves the Join Timers to the passes.
AgeRoutesDeadlines ==
  /\ tick = 0
  /\ tick' = TIMER_INTERVAL
  /\ running' = running \ (Due \cap Deadlines)
  /\ UNCHANGED <<left, prompt, queued, at, stale>>

\* timer() calls age_routes(), which acts on the same timers and schedules no
\* pass for the ones it leaves running.
AgeRoutes ==
  /\ tick = 0
  /\ tick' = TIMER_INTERVAL
  /\ \E winners \in SUBSET Asserts, fire \in BOOLEAN, unserved \in SUBSET Joins :
       /\ Walk(winners, fire, unserved)
       /\ \E q \in Walked(Queue, winners # {}, fire) :
            queued' = q.queued /\ at' = q.at
  /\ UNCHANGED stale

-----------------------------------------------------------------------------
\* A handler starts a Prune-Pending, Override or Assert Timer, or sets it again;
\* an Assert Timer always for Assert_Time.
SetDeadline(t, delay) ==
  /\ Room
  /\ t \in Asserts => delay = Longest
  /\ running' = running \cup {t}
  /\ left' = [left EXCEPT ![t] = delay]
  /\ queued' = Schedule(Queue, delay).queued
  /\ at' = Schedule(Queue, delay).at
  /\ UNCHANGED <<prompt, tick, stale>>

\* Mutant: the time left to the next tick is added to the delay.
JpTimerSetLate(t, delay) ==
  /\ Room
  /\ running' = running \cup {t}
  /\ left' = [left EXCEPT ![t] = delay + tick]
  /\ prompt' = prompt \ {t}
  /\ UNCHANGED <<queued, at, tick, stale>>

\* jp_timer_set() and jp_timer_fire(), the latter with no delay: only a timer
\* due before the next tick gets a pass.
JpTimerSet(t, delay) ==
  /\ Room
  /\ running' = running \cup {t}
  /\ left' = [left EXCEPT ![t] = delay]
  /\ IF delay < TIMER_INTERVAL
     THEN /\ queued' = Schedule(Queue, delay).queued
          /\ at' = Schedule(Queue, delay).at
          /\ prompt' = prompt \cup {t}
     ELSE /\ prompt' = prompt \ {t}
          /\ UNCHANGED <<queued, at>>
  /\ UNCHANGED <<tick, stale>>

\* A timer is cancelled, or goes with its routing entry; its pass stays.
Cancel(t) ==
  /\ t \in running
  /\ running' = running \ {t}
  /\ prompt' = prompt \ {t}
  /\ left' = [left EXCEPT ![t] = 0]
  /\ UNCHANGED <<queued, at, tick, stale>>

\* restart(): timer_exit() drops every callout and init_pim_mrt() every
\* routing entry; route_timers_at is static in route.c and keeps its value.
Restart ==
  /\ running' = {} /\ prompt' = {} /\ left' = [t \in Timers |-> 0]
  /\ queued' = [p \in Span |-> 0]
  /\ tick' = TIMER_INTERVAL
  /\ stale' = (stale \/ at # 0)
  /\ UNCHANGED at

\* Time passes.  A callout that is due runs first.
Elapse ==
  /\ tick > 0 /\ queued[0] = 0
  /\ tick' = tick - 1
  /\ left' = [t \in Timers |-> IF t \in running THEN left[t] - 1 ELSE left[t]]
  /\ queued' = [p \in Span |-> IF p = Longest THEN 0 ELSE queued[p + 1]]
  /\ at' = IF at = 0 THEN 0 ELSE at - 1
  /\ UNCHANGED <<running, prompt, stale>>

Next ==
  \/ \E p \in Span : RouteTimersRun(p)
  \/ AgeRoutes
  \/ \E t \in Deadlines, delay \in Span : SetDeadline(t, delay)
  \/ \E t \in Joins, delay \in Span : JpTimerSet(t, delay)
  \/ \E t \in Timers : Cancel(t)
  \/ Restart
  \/ Elapse

Spec == Init /\ [][Next]_vars

-----------------------------------------------------------------------------
\* Every variable holds a value of its type.
TypeOK ==
  /\ running \subseteq Timers /\ prompt \subseteq Joins
  /\ left \in [Timers -> Int] /\ \A t \in Timers : left[t] <= Longest
  /\ queued \in [Span -> Nat]
  /\ at \in Span /\ tick \in 0..TIMER_INTERVAL /\ stale \in BOOLEAN

\* The timers a pass of their own was asked for.
Prompt == running \cap (Deadlines \cup prompt)

\* "A deadline the tick would be late for gets a pass of its own" (route.c):
\* no Prune-Pending, Override or Assert Timer, and no Join Timer set for less
\* than a tick, is still running when its time is over.  This is so until a
\* SIGHUP drops the pass route_timers_at goes on speaking of.
NoDeadlineMissed == stale \/ \A t \in Prompt : left[t] >= 0

\* Whatever becomes of the passes, the tick acts on what they missed: no timer
\* is overdue by more than the time since the last tick.
NeverATickLate == \A t \in running : left[t] >= tick - TIMER_INTERVAL

\* The pass route_timers_at speaks of is queued, ...
AtIsQueued == at # 0 => queued[at] > 0

\* ... and a pass is queued for no later than every deadline: when it runs, it
\* acts on the deadline or schedules the next pass in time for it.
Covered == \A t \in Prompt : \E p \in Span : p <= left[t] /\ queued[p] > 0

\* A Join Timer that got a pass of its own is due within a tick, so that every
\* pass until then finds it.
PromptSoon == \A t \in running \cap prompt : left[t] < TIMER_INTERVAL

InTime == TypeOK /\ AtIsQueued /\ Covered /\ PromptSoon

\* The inductive invariant: until a SIGHUP comes at the wrong time, the passes
\* are in time for every deadline (route_timers_schedule() and its callers).
PassInv == TypeOK /\ (stale \/ InTime)
=============================================================================
