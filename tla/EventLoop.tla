------------------------------ MODULE EventLoop ------------------------------
(***************************************************************************)
(* The main loop of src/main.c around the callout queue of src/timer.c:    *)
(* timeout() ages the queue by what the monotonic clock says went by since *)
(* it was last called and runs the callouts that came due, select() sleeps *)
(* no longer than to the next callout, and the handlers of the input that  *)
(* ended the sleep arm and clear callouts before timeout() is called again.*)
(***************************************************************************)
EXTENDS Timer

CONSTANTS TIMER_INTERVAL, \* period of the tick, timer() in main.c
          Delays,         \* what a packet handler arms a callout with
          Rearms,         \* what a callout arms its successor with
          Handles,        \* callout handles, bounds the length of the queue
          Lag             \* bound on the time callbacks and handlers take
                          \* in one round of the loop

ASSUME LoopAssumption ==
  /\ TIMER_INTERVAL \in Nat \ {0}
  /\ Delays \subseteq Nat /\ Rearms \subseteq Nat
  /\ Lag \in Nat

VARIABLES Q,       \* the delta list of callouts
          since,   \* timer_now() - lasttime
          elapsed, \* what timer_age_queue() has left to take off the queue
          wait,    \* what is left of select()'s timeout, -1 none
          phase,   \* where in the loop the program is
          busy,    \* time spent outside select() in this round
          left     \* ghost: by handle, what is left of the delay asked for

vars == <<Q, since, elapsed, wait, phase, busy, left>>

Node(id, func) == [id |-> id, func |-> func, time |-> 0]

\* next_id(): a counter of 2^31 values, so a handle no callout has, the one
\* now running included.
FreshId == CHOOSE id \in Handles : id \notin HandlesOf(Q)

\* The last free handle is kept for what a callout arms as it runs.
HasRoom == Cardinality(Handles \ HandlesOf(Q)) > 1

\* Queue q with a callout to func armed on it, and its delay on record.
Arm(q, delay, func) ==
  /\ Q' = TimerSetMs(q, delay, Node(FreshId, func))
  /\ left' = [left EXCEPT ![FreshId] = delay]

-----------------------------------------------------------------------------
Init ==
  /\ LET id == CHOOSE h \in Handles : TRUE
     IN  /\ Q = TimerSetMs(<<>>, TIMER_INTERVAL, Node(id, "timer"))
         /\ left = [h \in Handles |-> IF h = id THEN TIMER_INTERVAL ELSE 0]
  /\ since = 0 /\ elapsed = 0 /\ wait = 0 /\ busy = 0
  /\ phase = "timeout"

\* Mutant: the tick is armed on the queue as it is.
RestartKeepsQueue ==
  /\ phase = "timeout"
  /\ Arm(Q, TIMER_INTERVAL, "timer")
  /\ UNCHANGED <<since, elapsed, wait, phase, busy>>

\* check_signals() finds a SIGHUP: restart() drops the queue with timer_exit()
\* and begins it anew with the tick.  lasttime is left as it was.
Restart ==
  /\ phase = "timeout"
  /\ Arm(<<>>, TIMER_INTERVAL, "timer")
  /\ UNCHANGED <<since, elapsed, wait, phase, busy>>

\* Mutant: a part of what went by is counted again the next time.
TimeoutCountsAgain ==
  /\ phase = "timeout"
  /\ phase' = "ageing"
  /\ elapsed' = since /\ since' = IF since > 0 THEN 1 ELSE 0
  /\ wait' = 0 /\ busy' = 0
  /\ UNCHANGED <<Q, left>>

\* timeout(), up to its call of timer_age_queue()
Timeout ==
  /\ phase = "timeout"
  /\ phase' = "ageing"
  /\ elapsed' = since /\ since' = 0
  /\ wait' = 0 /\ busy' = 0
  /\ UNCHANGED <<Q, left>>

\* Mutant: a callout stays on the queue when it has been called.
CallbackStays(func, q) ==
  /\ Q' = TimerSetMs(q, TIMER_INTERVAL, Head(Q))
  /\ left' = [left EXCEPT ![Head(Q).id] = TIMER_INTERVAL]

\* The callbacks.  timer() arms itself again for the next tick; a one-shot,
\* the pass of route_timers_run() say, may arm another.
Callback(func, q) ==
  CASE func = "timer"   -> Arm(q, TIMER_INTERVAL, "timer")
    [] func = "oneshot" ->
         \/ Q' = q /\ UNCHANGED left
         \/ \E d \in Rearms : Arm(q, d, "oneshot")

\* Mutant: what the callout took of the elapsed time is not taken off it.
ExpireKeepsElapsed ==
  /\ phase = "ageing"
  /\ Q # <<>> /\ Head(Q).time <= elapsed
  /\ Callback(Head(Q).func, Tail(Q))
  /\ UNCHANGED <<since, elapsed, wait, phase, busy>>

\* timer_age_queue(), one round of its loop: the head has expired, it is taken
\* off the queue, and then called.
Expire ==
  /\ phase = "ageing"
  /\ Q # <<>> /\ Head(Q).time <= elapsed
  /\ elapsed' = elapsed - Head(Q).time
  /\ Callback(Head(Q).func, Tail(Q))
  /\ UNCHANGED <<since, wait, phase, busy>>

\* Mutant: what is left of the elapsed time is not taken off the head.
AgedForgets ==
  /\ phase = "ageing"
  /\ Q = <<>> \/ Head(Q).time > elapsed
  /\ wait' = TimerNextDelay(Q)
  /\ elapsed' = 0 /\ phase' = "select"
  /\ UNCHANGED <<Q, since, busy, left>>

\* timer_age_queue() meets a callout not yet due, and timeout() returns what
\* select() may sleep.
Aged ==
  /\ phase = "ageing"
  /\ Q = <<>> \/ Head(Q).time > elapsed
  /\ Q' = IF Q = <<>> THEN Q ELSE [Q EXCEPT ![1].time = @ - elapsed]
  /\ wait' = TimerNextDelay(Q')
  /\ elapsed' = 0 /\ phase' = "select"
  /\ UNCHANGED <<since, busy, left>>

\* One unit of time passes in select(), or in a callback or handler.
ClockTicks ==
  /\ since' = since + 1
  /\ left' = [id \in Handles |->
                IF id \in HandlesOf(Q) THEN left[id] - 1 ELSE 0]
  /\ UNCHANGED <<Q, elapsed, phase>>

Sleep ==
  /\ phase = "select" /\ wait # 0
  /\ wait' = IF wait < 0 THEN wait ELSE wait - 1
  /\ ClockTicks /\ UNCHANGED busy

Work ==
  /\ phase # "select" /\ busy < Lag
  /\ busy' = busy + 1
  /\ ClockTicks /\ UNCHANGED wait

\* select() returns: for input at any time, and when its timeout is over.
Wake ==
  /\ phase = "select"
  /\ phase' = "input"
  /\ UNCHANGED <<Q, since, elapsed, wait, busy, left>>

\* The handler of a socket arms a callout, or clears one it holds.
Handler ==
  /\ phase = "input"
  /\ \/ /\ HasRoom
        /\ \E d \in Delays : Arm(Q, d, "oneshot")
     \/ \E i \in DOMAIN Q :
          /\ Q[i].func = "oneshot"
          /\ Q' = TimerClear(Q, Q[i].id)
          /\ UNCHANGED left
  /\ UNCHANGED <<since, elapsed, wait, phase, busy>>

Loop ==
  /\ phase = "input"
  /\ phase' = "timeout"
  /\ UNCHANGED <<Q, since, elapsed, wait, busy, left>>

Next == \/ Restart \/ Timeout \/ Expire \/ Aged \/ Sleep \/ Work
        \/ Wake \/ Handler \/ Loop

\* The program does not stop, and time passes however busy it is.
Fairness ==
  /\ WF_vars(Timeout) /\ WF_vars(Expire) /\ WF_vars(Aged) /\ WF_vars(Loop)
  /\ WF_vars(phase = "select" /\ wait = 0 /\ Wake)
  /\ SF_vars(Sleep \/ Work)

Spec == Init /\ [][Next]_vars /\ Fairness

-----------------------------------------------------------------------------
\* Every variable holds a value of its type, and no delta is negative.
TypeOK ==
  /\ Q \in Seq([id : Handles, func : {"timer", "oneshot"}, time : Nat])
  /\ since \in Nat /\ elapsed \in Nat /\ wait \in Nat \cup {-1}
  /\ phase \in {"timeout", "ageing", "select", "input"}
  /\ busy \in 0..Lag
  /\ left \in [Handles -> Int]

\* The periodic work of the daemon never dies out: whatever is armed, cleared
\* or dropped, exactly one tick is queued, so that select() never sleeps
\* without a timeout and the tick is never run twice in a period.
OneTick == Len(SelectSeq(Q, LAMBDA node : node.func = "timer")) = 1

\* The queue is never behind the clock by more than the callbacks and handlers
\* of two rounds of the loop took: nothing that clears, inserts or ages makes
\* a callout late, select() sleeps past none.
NeverLate == \A id \in HandlesOf(Q) : left[id] >= -(2 * Lag)

\* A callout is armed relative to the last call of timeout(), so that it runs
\* early by what select() slept before its handler was called.  That is the
\* most it runs early: a tick's period, and the work of one round of the loop.
EarlyByASleepAtMost ==
  [][Expire => left[Head(Q).id] <= TIMER_INTERVAL + Lag]_vars

\* Every callout runs, or is cleared or dropped with the queue.
EveryCalloutRuns ==
  \A id \in Handles : id \in HandlesOf(Q) ~> id \notin HandlesOf(Q)

\* Ageing comes to an end, so that the daemon reads its sockets again.
InputIsServed == phase = "ageing" ~> phase = "select"

\* The delta list is an agenda that keeps every callout's own time: arming
\* goes behind what is due no later, clearing moves no other callout, and
\* ageing runs them in order.
Agenda == INSTANCE Callouts WITH
  Ids <- Handles,
  Spans <- 0..Max(Delays \cup Rearms \cup {TIMER_INTERVAL + 2 * Lag}),
  agenda <- [i \in DOMAIN Q |-> [id |-> Q[i].id, due |-> Due(Q, i)]]

ImplementsAgenda == Agenda!Spec
=============================================================================
