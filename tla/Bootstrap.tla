----------------------------- MODULE Bootstrap -----------------------------
(***************************************************************************)
(* The bootstrap mechanism across several routers: the election of the BSR *)
(* by Candidate-BSRs, the flooding of its Bootstraps hop by hop, and the   *)
(* Candidate-RP whose advertisements fill them (rp.c, pim_proto.c).  What  *)
(* a router does with the ranges and RPs of a Bootstrap is the subject of  *)
(* RpSet: here the RP set is one RP's entry, of which only the holdtime    *)
(* left to it is kept, and every Bootstrap is one message.                 *)
(*                                                                         *)
(* Time is counted in ticks of timer(), 5 seconds.  In each round every    *)
(* router ticks once, in any order, and messages arrive within the round.  *)
(* Neighbors know one another and the DR of a link is the higher address,  *)
(* see Neighbors.                                                          *)
(***************************************************************************)
EXTENDS Integers, FiniteSets

CONSTANTS
    Routers,       \* addresses, below 128.0.0.0
    Candidates,    \* the routers with a bsr-candidate line
    Adjacent,      \* by router, the routers it shares a link with
    Toward,        \* by router and destination, its RPF neighbor
    Scenarios,     \* [prio, crp]: bsr-candidate priorities by router, and the
                   \* router with an rp-candidate line
    Period,        \* my_bsr_adv_period and my_cand_rp_adv_period
    Delays,        \* what the Candidate-RP may choose for its first advertisement
    Budgets        \* [losses, faults]: bounds on messages lost, and on routers
                   \* and addresses that go; what has gone may come back once

ASSUME BootstrapConstants ==
    /\ Routers \subseteq 1..(2^30) /\ Candidates \subseteq Routers
    /\ Adjacent \in [Routers -> SUBSET Routers]
    /\ Period \in Nat \ {0, 1, 2}
    /\ Delays \subseteq 0..(Period - 1)
    /\ \A x \in Scenarios : x.crp \in Routers /\ x.prio \in [Routers -> 0..255]

Nobody == 0                    \* INADDR_ANY_N
TimeoutShort == Period + 2     \* mutant: no Bootstrap may be missed
Timeout == 2 * Period + 2      \* my_bsr_timeout, in ticks
Hold == (5 * Period) \div 2    \* my_cand_rp_holdtime
MinPeriod == 2                 \* PIM_MIN_BOOTSTRAP_PERIOD

VARIABLES
    scenario,
    up,            \* the routers that run
    cand,          \* those with cand_bsr_flag
    bsr,           \* curr_bsr_address
    timer,         \* pim_bootstrap_timer
    adv,           \* pim_cand_rp_adv_timer of the Candidate-RP
    rp,            \* what is left of the Candidate-RP's holdtime, 0 for no entry
    owed,          \* bootstrap_owed: pairs of a DR and its new neighbor
    net,           \* messages on their way
    ticked,        \* routers that have ticked this round
    losses, faults,
    phase          \* history: "unsettled", "steady" or "failover"

env == <<scenario, losses, faults>>
vars == <<env, up, cand, bsr, timer, adv, rp, owed, net, ticked, phase>>

----------------------------------------------------------------------------
(* Preference and delay.                                                    *)

Prio(b) == IF b = Nobody THEN 0 ELSE scenario.prio[b]

\* curr_bsr_priority and curr_bsr_address are above the other's.
Above(b, c) == Prio(b) > Prio(c) \/ (Prio(b) = Prio(c) /\ b > c)

\* The position of the highest bit set, 0 also where none is.
Log2(n) == IF n = 0 THEN 0 ELSE CHOOSE k \in 0..30 : 2^k <= n /\ n < 2^(k + 1)

Ticks(seconds) == (seconds + 4) \div 5

(* bootstrap_initial_delay() of r while b is the BSR.  The difference of    *)
(* the addresses is unsigned: below zero it has its highest bit set.        *)
InitialDelay(r, b) ==
    LET best == IF Prio(b) > Prio(r) THEN Prio(b) ELSE Prio(r)
        log  == IF b < r THEN 31 ELSE Log2(b - r)
    IN  Ticks(5 + 2 * Log2(1 + best - Prio(r)) + IF best = Prio(r) THEN log \div 16 ELSE 2)

----------------------------------------------------------------------------
(* Messages and one router's state.                                         *)

Bsm(q, r, b, hold, unicast) ==
    [type |-> "bootstrap", from |-> q, to |-> r, bsr |-> b, rp |-> hold, unicast |-> unicast]
Adv(b) == [type |-> "adv", to |-> b]

\* create_pim_bootstrap_message(): a Bootstrap of b carries the holdtime an RP
\* advertised, whatever is left of it.
Multicast(q, except, b, left) ==
    {Bsm(q, r, b, IF left > 0 THEN Hold ELSE 0, FALSE) : r \in Adjacent[q] \ {except}}

One(r) == [bsr |-> bsr[r], timer |-> timer[r], adv |-> adv[r], rp |-> rp[r], out |-> {}]

Become(r, x, others) ==
    /\ bsr' = [bsr EXCEPT ![r] = x.bsr]
    /\ timer' = [timer EXCEPT ![r] = x.timer]
    /\ adv' = [adv EXCEPT ![r] = x.adv]
    /\ rp' = [rp EXCEPT ![r] = x.rp]
    /\ net' = others \cup {m \in x.out : m.to \in up}

Elected(r, x) == r \in cand /\ x.bsr = r

\* add_rp_grp_entry() of an advertisement, by the BSR: a new entry brings the
\* next Bootstrap forward, update_bootstrap_timer().
AddAdvertised(x) ==
    [x EXCEPT !.rp = Hold,
              !.timer = IF x.rp = 0 /\ @ > MinPeriod THEN MinPeriod ELSE @]

\* send_pim_cand_rp_adv()
Advertise(r, x) ==
    CASE x.bsr = Nobody -> x
      [] x.bsr # Nobody /\ Elected(r, x) -> AddAdvertised(x)
      [] OTHER -> [x EXCEPT !.out = @ \cup {Adv(x.bsr)}]

\* The Cand-RP-Adv timer in age_misc().
AgeAdv(r, x) ==
    IF scenario.crp # r THEN x
    ELSE IF x.adv > 1 THEN [x EXCEPT !.adv = @ - 1]
    ELSE [Advertise(r, x) EXCEPT !.adv = Period]

\* Mutant: a router that is no candidate keeps a BSR that timed out.
AgeBootstrapKept(r, x) ==
    CASE x.timer > 1 -> [x EXCEPT !.timer = @ - 1]
      [] x.timer <= 1 /\ r \notin cand -> [x EXCEPT !.timer = Timeout]
      [] x.timer <= 1 /\ Elected(r, x) ->
             [x EXCEPT !.timer = Period, !.out = @ \cup Multicast(r, r, r, x.rp)]
      [] OTHER -> [x EXCEPT !.bsr = r, !.timer = InitialDelay(r, x.bsr)]

\* The Bootstrap Timer in age_misc().
AgeBootstrap(r, x) ==
    CASE x.timer > 1 -> [x EXCEPT !.timer = @ - 1]
      [] x.timer <= 1 /\ r \notin cand -> [x EXCEPT !.bsr = Nobody, !.timer = Timeout]
      [] x.timer <= 1 /\ Elected(r, x) ->
             [x EXCEPT !.timer = Period, !.out = @ \cup Multicast(r, r, r, x.rp)]
      [] OTHER -> [x EXCEPT !.bsr = r, !.timer = InitialDelay(r, x.bsr)]

\* age_misc()
AgeMisc(r, x) ==
    AgeBootstrap(r, AgeAdv(r, [x EXCEPT !.rp = IF @ > 0 THEN @ - 1 ELSE 0]))

\* receive_pim_bootstrap() acts on the message.
Accepts(r, m) ==
    /\ m.bsr # r /\ ~Above(bsr[r], m.bsr)
    /\ IF m.unicast THEN rp[r] = 0 ELSE m.from = Toward[r][m.bsr]

\* Mutant: the Candidate-RP waits for its timer when the BSR changes.
FollowedInPassing(r, m) ==
    [bsr   |-> m.bsr,
     timer |-> Timeout,
     adv   |-> adv[r],
     rp    |-> IF m.rp > 0 THEN m.rp ELSE rp[r],
     out   |-> IF m.unicast THEN {} ELSE Multicast(r, m.from, m.bsr, m.rp)]

\* ... and what it does.
Followed(r, m) ==
    [bsr   |-> m.bsr,
     timer |-> Timeout,
     adv   |-> IF scenario.crp = r /\ m.bsr # bsr[r] THEN 0 ELSE adv[r],
     rp    |-> IF m.rp > 0 THEN m.rp ELSE rp[r],
     out   |-> IF m.unicast THEN {} ELSE Multicast(r, m.from, m.bsr, m.rp)]

----------------------------------------------------------------------------
(* What the properties are about.                                           *)

\* The best candidate there is, and all know it and the RP.
Best == CHOOSE b \in (cand \cap up) \cup {Nobody} :
            \A c \in (cand \cap up) \ {b} : c # Nobody => Above(b, c)

\* No router is cut off from another by one that is down.
Whole == \A r, s \in up : r # s => Toward[r][s] \in up

Known == \A r \in up : rp[r] > 0
Agreed == \A r \in up : bsr[r] = Best
Settled == Whole /\ Agreed /\ Known

\* The BSR has had an advertisement within the last period, and the others
\* its last Bootstrap with the RP in it.
Fresh ==
    /\ scenario.crp \in up /\ Best # Nobody
    /\ Hold - rp[Best] <= Period
    /\ \A r \in up \ {Best} :
           /\ Hold - rp[r] <= Timeout - timer[r]
           /\ Timeout - timer[r] <= Period - timer[Best] + 1

----------------------------------------------------------------------------
(* The actions.                                                             *)

\* init_rp_and_bsr()
Start(r, delay) == [bsr |-> IF r \in Candidates THEN r ELSE Nobody,
                    timer |-> IF r \in Candidates THEN InitialDelay(r, r) ELSE Timeout,
                    adv |-> IF scenario.crp = r THEN delay ELSE 0, rp |-> 0, out |-> {}]

Init ==
    /\ scenario \in Scenarios
    /\ up = Routers /\ cand = Candidates
    /\ \E delay \in Delays :
           /\ bsr = [r \in Routers |-> Start(r, delay).bsr]
           /\ timer = [r \in Routers |-> Start(r, delay).timer]
           /\ adv = [r \in Routers |-> Start(r, delay).adv]
    /\ rp = [r \in Routers |-> 0]
    /\ owed = {} /\ net = {} /\ ticked = {} /\ losses = 0 /\ faults = 0
    /\ phase = "unsettled"

\* timer() at one router.
Tick(r) ==
    /\ r \in up \ ticked
    /\ Become(r, AgeMisc(r, One(r)), net)
    /\ ticked' = ticked \cup {r}
    /\ UNCHANGED <<env, up, cand, owed, phase>>

Round ==
    /\ ticked = up /\ net = {} /\ owed = {}
    /\ ticked' = {}
    /\ phase' = IF Settled /\ Fresh THEN "steady" ELSE phase
    /\ UNCHANGED <<env, up, cand, bsr, timer, adv, rp, owed, net>>

\* receive_pim_bootstrap()
ReceiveBootstrap(m) ==
    /\ m.type = "bootstrap"
    /\ LET r == m.to
       IN  Become(r, IF Accepts(r, m) THEN Followed(r, m) ELSE One(r), net \ {m})
    /\ UNCHANGED <<env, up, cand, owed, ticked, phase>>

\* receive_pim_cand_rp_adv()
ReceiveAdv(m) ==
    /\ m.type = "adv"
    /\ LET r == m.to
       IN  Become(r, IF Elected(r, One(r)) THEN AddAdvertised(One(r)) ELSE One(r), net \ {m})
    /\ UNCHANGED <<env, up, cand, owed, ticked, phase>>

\* triggered_hello_send(): the DR hands a new neighbor its RP set.
Greet(q, r) ==
    /\ <<q, r>> \in owed
    /\ owed' = owed \ {<<q, r>>}
    /\ net' = net \cup (IF bsr[q] = Nobody THEN {}
                        ELSE {Bsm(q, r, bsr[q], IF rp[q] > 0 THEN Hold ELSE 0, TRUE)})
    /\ UNCHANGED <<env, up, cand, bsr, timer, adv, rp, ticked, phase>>

Within(l, f) == \E b \in Budgets : l <= b.losses /\ f <= b.faults

Lose(m) ==
    /\ Within(losses + 1, faults) /\ losses' = losses + 1
    /\ net' = net \ {m}
    /\ phase' = IF phase = "steady" /\ losses = 0 THEN phase ELSE "unsettled"
    /\ UNCHANGED <<scenario, faults, up, cand, bsr, timer, adv, rp, owed, ticked>>

Fault == Within(losses, faults + 1) /\ faults' = faults + 1 /\ UNCHANGED <<scenario, losses>>

\* A router dies, and what is on its way to it is lost.
Stop(r) ==
    /\ Fault /\ r \in up
    /\ up' = up \ {r}
    /\ net' = {m \in net : m.to # r}
    /\ owed' = {o \in owed : r \notin {o[1], o[2]}}
    /\ ticked' = ticked \ {r}
    /\ phase' = IF phase = "steady" /\ losses = 0 /\ r = Best THEN "failover" ELSE "unsettled"
    /\ UNCHANGED <<cand, bsr, timer, adv, rp>>

\* It starts, again; each side is a new neighbor to the other.
Restart(r) ==
    /\ IF r \in up THEN Fault ELSE UNCHANGED env
    /\ up' = up \cup {r}
    /\ cand' = IF r \in Candidates THEN cand \cup {r} ELSE cand
    /\ \E delay \in Delays :
           LET x == Start(r, delay)
           IN  /\ bsr' = [bsr EXCEPT ![r] = x.bsr]
               /\ timer' = [timer EXCEPT ![r] = x.timer]
               /\ adv' = [adv EXCEPT ![r] = x.adv]
               /\ rp' = [rp EXCEPT ![r] = 0]
    /\ net' = {m \in net : m.to # r}
    /\ owed' = owed \cup {o \in {<<q, r>> : q \in Adjacent[r] \cap up}
                                \cup {<<r, q>> : q \in Adjacent[r] \cap up} : o[1] > o[2]}
    /\ ticked' = ticked \cup {r}
    /\ phase' = "unsettled"

\* cand_bsr_address_set() for an address that is gone, cand_bsr_stop()
Gone(r) ==
    /\ Fault /\ r \in up \cap cand
    /\ cand' = cand \ {r}
    /\ LET x == One(r)
       IN  Become(r, IF x.bsr = r THEN [x EXCEPT !.bsr = Nobody, !.timer = Timeout] ELSE x, net)
    /\ phase' = "unsettled"
    /\ UNCHANGED <<up, owed, ticked>>

\* ... and for one that came back: cand_bsr_start() where nobody better is BSR.
Came(r) ==
    /\ r \in (up \cap Candidates) \ cand
    /\ cand' = cand \cup {r}
    /\ LET x == One(r)
       IN  Become(r, IF Above(x.bsr, r) THEN x
                     ELSE [x EXCEPT !.bsr = r, !.timer = InitialDelay(r, r)], net)
    /\ phase' = "unsettled"
    /\ UNCHANGED <<env, up, owed, ticked>>

Deliver == \E m \in net : ReceiveBootstrap(m) \/ ReceiveAdv(m)
Clock == Round \/ \E r \in Routers : Tick(r)
Greetings == \E o \in owed : Greet(o[1], o[2])

Next ==
    \/ Deliver \/ Clock \/ Greetings
    \/ \E m \in net : Lose(m)
    \/ \E r \in Routers : Stop(r) \/ Restart(r) \/ Gone(r) \/ Came(r)

Spec == Init /\ [][Next]_vars

\* Messages that are not lost arrive, and the clocks go on.
Fairness ==
    /\ []<>(net = {}) \/ []<><<Deliver>>_vars
    /\ []<>(owed = {}) \/ []<><<Greetings>>_vars
    /\ []<><<Clock>>_vars

FairSpec == Spec /\ Fairness

----------------------------------------------------------------------------
(* Properties.                                                              *)

\* Every variable has its type, and no timer exceeds what sets it.
TypeOK ==
    /\ up \subseteq Routers /\ cand \subseteq Candidates /\ ticked \subseteq up
    /\ bsr \in [Routers -> Candidates \cup {Nobody}]
    /\ timer \in [Routers -> 1..Timeout] /\ adv \in [Routers -> 0..Period]
    /\ rp \in [Routers -> 0..Hold]
    /\ owed \subseteq Routers \X Routers
    /\ \A m \in net : m.to \in up
    /\ Within(losses, faults)

(* Once all routers follow the best candidate they go on to, whatever the   *)
(* order of timers and messages and though a message is lost: the Bootstrap *)
(* Timer outlasts one (pim_proto.c:5161, rp.c:1474-1499).                   *)
SteadyBsr == phase = "steady" => Agreed

(* Once all routers know the RP they go on to, though a message is lost,    *)
(* and when the BSR dies: the RP set outlives the election of the next, and *)
(* the Candidate-RP advertises itself to it in time (rp.c:1477-1479,        *)
(* pim_proto.c:5114-5120).                                                  *)
RpOutlivesBsr == phase # "unsettled" /\ Best \notin {scenario.crp, Nobody} => Known

(* When faults cease every router ends up with the best candidate that is   *)
(* left as the BSR, and with its RP set.                                    *)
Settles == <>[](Whole /\ Best # Nobody /\ scenario.crp \in up => Settled)
=============================================================================
