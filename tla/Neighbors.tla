------------------------------ MODULE Neighbors ------------------------------
(***************************************************************************)
(* Hello, neighbor liveness and DR election on one LAN: receive_pim_hello, *)
(* delete_pim_nbr, dr_election and the triggered Hello (src/pim_proto.c),  *)
(* start_vif, stop_vif and age_vifs (src/vif.c), and the goodbye Hellos    *)
(* of cleanup and restart (src/main.c).                                    *)
(*                                                                         *)
(* Time goes in rounds: in each, every router that is up ages its          *)
(* interface once, at a moment of its own, and what was sent in the round  *)
(* arrives.  A router's address is the number that names it.               *)
(***************************************************************************)
EXTENDS Naturals, Sequences, FiniteSets, FiniteSetsExt, SequencesExt, Functions

CONSTANTS Routers,   \* the routers, by address
          Legacy,    \* those that do not know the DR Priority option: not pimd, but
                     \* what its election is to reckon with
          Prios,     \* the DR priorities a configuration gives
          Running,   \* routers up, with a priority of their own, when the behaviour
                     \* begins: each has just had a Hello of the others
          Period,    \* Hello_Period, in rounds
          Hold,      \* the HoldTime of a Hello
          MaxStarts, \* bound on starts of an interface, all routers together
          MaxLosses, \* bound on the messages some router misses
          MaxJps,    \* bound on the Join/Prunes sent
          MaxQueue   \* interfaces come and go, and Join/Prunes are sent, while no
                     \* more messages than this are on their way

ASSUME NeighborsAssumption ==
  /\ Routers \subseteq Nat /\ IsFiniteSet(Routers) /\ Legacy \subseteq Routers
  /\ Prios \subseteq Nat /\ DOMAIN Running \subseteq Routers
  /\ Range(Running) \subseteq Prios
  /\ Period \in Nat \ {0} /\ Hold \in Nat /\ Hold > Period
  /\ MaxStarts \in Nat /\ MaxLosses \in Nat /\ MaxJps \in Nat /\ MaxQueue \in Nat

VARIABLES vif,     \* by router, the interface to the LAN
          nbrs,    \* by router, uv_pim_neighbors: a function of the address
          wire,    \* the messages sent and not yet received
          ticked,  \* the routers that have aged the interface in this round
          heard,   \* ghost: by router, the neighbors up that it has had a Hello from
          refused, \* ghost: a message was refused though its sender knew the receiver
          starts, losses, jps

vars == <<vif, nbrs, wire, ticked, heard, refused, starts, losses, jps>>

\* uv_genid, uv_dr_prio, uv_hello_timer, uv_hello_trigger; dr is the router itself
\* where it has VIFF_DR, and uv_pim_neighbor_dr where not.
Down(r) == [up |-> FALSE, genid |-> 0, prio |-> 0, ht |-> 0, trig |-> FALSE, dr |-> r]

-----------------------------------------------------------------------------
\* Some router of the link gives no priority.
ByAddress(r, ns) == (DOMAIN ns \cup {r}) \cap Legacy # {}

\* Mutant: a tie of priorities goes to the router itself.
DrElectionTie(r, prio, ns) ==
  LET best == Max({ns[n].prio : n \in DOMAIN ns})
  IN  CASE DOMAIN ns = {} -> r
        [] DOMAIN ns # {} /\ ByAddress(r, ns) -> Max(DOMAIN ns \cup {r})
        [] OTHER -> IF best <= prio THEN r
                    ELSE Max({n \in DOMAIN ns : ns[n].prio = best})

\* dr_election(): by priority if every neighbor gives one, the list being in
\* decreasing order of addresses and a priority of 0 outranking none.
DrElection(r, prio, ns) ==
  LET best == Max({ns[n].prio : n \in DOMAIN ns})
      best_nbr == IF best = 0 \/ ByAddress(r, ns)
                  THEN Max(DOMAIN ns)
                  ELSE Max({n \in DOMAIN ns : ns[n].prio = best})
      tiebreak == IF r > best_nbr THEN r ELSE best_nbr
  IN  CASE DOMAIN ns = {} -> r
        [] DOMAIN ns # {} /\ (ByAddress(r, ns) \/ best = prio) -> tiebreak
        [] OTHER -> IF best < prio THEN r ELSE best_nbr

Init ==
  /\ nbrs = [r \in Routers |->
               IF r \notin DOMAIN Running THEN <<>>
               ELSE [n \in DOMAIN Running \ {r} |->
                       [timer |-> Hold, genid |-> 0, prio |-> Running[n], owed |-> FALSE]]]
  /\ vif = [r \in Routers |->
              IF r \notin DOMAIN Running THEN Down(r)
              ELSE [up |-> TRUE, genid |-> 0, prio |-> Running[r], ht |-> Period,
                    trig |-> FALSE, dr |-> DrElection(r, Running[r], nbrs[r])]]
  /\ wire = <<>> /\ ticked = {}
  /\ heard = [r \in Routers |-> DOMAIN nbrs[r]] /\ refused = FALSE
  /\ starts = 0 /\ losses = 0 /\ jps = 0

\* restart_dr_election()
Elect(r, v, ns) == [v EXCEPT !.dr = DrElection(r, v.prio, ns)]

Hello(r, hold) == [type |-> "Hello", from |-> r, hold |-> hold,
                   genid |-> vif[r].genid, prio |-> vif[r].prio]

\* A message to one router, with the Generation ID the sender knows it by.
To(type, r, n) == [type |-> type, from |-> r, to |-> n, genid |-> nbrs[r][n].genid]

\* triggered_hello_send(): the Hello, then the Bootstraps the DR owes.
Triggered(r) ==
  <<Hello(r, Hold)>> \o
  (IF vif[r].dr = r
   THEN SetToSeq({To("Bsm", r, n) : n \in {x \in DOMAIN nbrs[r] : nbrs[r][x].owed}})
   ELSE <<>>)

Paid(ns) == [n \in DOMAIN ns |-> [ns[n] EXCEPT !.owed = FALSE]]

-----------------------------------------------------------------------------
Room == Len(wire) <= MaxQueue

\* The priorities a router may be given; 0 stands for none.
Configured(r) == IF r \in Legacy THEN {0} ELSE Prios

\* start_vif(), at startup, after a restart and when an interface comes up.
Started(r, prio) ==
  /\ Room /\ starts < MaxStarts /\ starts' = starts + 1
  /\ vif' = [vif EXCEPT ![r] = [up |-> TRUE, genid |-> starts + 1, prio |-> prio,
                                ht |-> 1, trig |-> FALSE, dr |-> r]]
  /\ nbrs' = [nbrs EXCEPT ![r] = <<>>]
  /\ heard' = [n \in Routers |-> IF n = r THEN {} ELSE heard[n] \ {r}]
  /\ ticked' \in {ticked, ticked \cup {r}}
  /\ UNCHANGED <<refused, losses, jps>>

Start(r, prio) == ~vif[r].up /\ Started(r, prio) /\ UNCHANGED wire

\* restart(), on SIGHUP: a goodbye, and the interface comes back with what the
\* configuration says now.
Restart(r, prio) ==
  /\ vif[r].up /\ Started(r, prio) /\ wire' = Append(wire, Hello(r, 0))

\* cleanup() says goodbye; a crash, and stop_vif() of an interface that went
\* down, do not.
Stop(r) ==
  /\ Room /\ vif[r].up
  /\ vif' = [vif EXCEPT ![r] = [Down(r) EXCEPT !.genid = vif[r].genid]]
  /\ nbrs' = [nbrs EXCEPT ![r] = <<>>]
  /\ wire' \in {wire, Append(wire, Hello(r, 0))}
  /\ heard' = [n \in Routers |-> IF n = r THEN {} ELSE heard[n] \ {r}]
  /\ ticked' = ticked \ {r}
  /\ UNCHANGED <<refused, starts, losses, jps>>

\* age_vifs(): neighbors time out, each with delete_pim_nbr() and its election;
\* then the periodic Hello.
Tick(r) ==
  LET aged == [n \in DOMAIN nbrs[r] |->
                 [nbrs[r][n] EXCEPT !.timer = IF @ = 0 THEN 0 ELSE @ - 1]]
      gone == {n \in DOMAIN aged : aged[n].timer = 0}
      ns   == Restrict(aged, DOMAIN aged \ gone)
      v    == IF gone = {} THEN vif[r] ELSE Elect(r, vif[r], ns)
      sends == v.ht <= 1
  IN  /\ vif[r].up /\ r \notin ticked /\ ticked' = ticked \cup {r}
      /\ nbrs' = [nbrs EXCEPT ![r] = ns]
      /\ vif' = [vif EXCEPT ![r] = [v EXCEPT !.ht = IF sends THEN Period ELSE @ - 1]]
      /\ wire' = IF sends THEN Append(wire, Hello(r, Hold)) ELSE wire
      /\ UNCHANGED <<heard, refused, starts, losses, jps>>

\* triggered_hello_timeout(); a callback whose token is old does nothing.
Trigger(r) ==
  /\ vif[r].up /\ vif[r].trig
  /\ vif' = [vif EXCEPT ![r] = [@ EXCEPT !.trig = FALSE, !.ht = Period]]
  /\ nbrs' = [nbrs EXCEPT ![r] = Paid(@)]
  /\ wire' = wire \o Triggered(r)
  /\ UNCHANGED <<ticked, heard, refused, starts, losses, jps>>

\* Mutant: a Join/Prune does not wait for the triggered Hello.
SendJpAtOnce(r, n) ==
  /\ vif[r].up /\ n \in DOMAIN nbrs[r]
  /\ Room /\ jps < MaxJps /\ jps' = jps + 1
  /\ wire' = Append(wire, To("Jp", r, n))
  /\ UNCHANGED <<vif, nbrs, ticked, heard, refused, starts, losses>>

\* jp_message_send(), with hello_before_send().  An Assert goes the same way.
SendJp(r, n) ==
  /\ vif[r].up /\ n \in DOMAIN nbrs[r]
  /\ Room /\ jps < MaxJps /\ jps' = jps + 1
  /\ IF vif[r].trig
     THEN /\ vif' = [vif EXCEPT ![r] = [@ EXCEPT !.trig = FALSE, !.ht = Period]]
          /\ nbrs' = [nbrs EXCEPT ![r] = Paid(@)]
          /\ wire' = wire \o Triggered(r) \o <<To("Jp", r, n)>>
     ELSE wire' = Append(wire, To("Jp", r, n)) /\ UNCHANGED <<vif, nbrs>>
  /\ UNCHANGED <<ticked, heard, refused, starts, losses>>

-----------------------------------------------------------------------------
\* cache_nbr_settings()
Cached(msg, owed) == [timer |-> msg.hold, genid |-> msg.genid, prio |-> msg.prio,
                      owed |-> owed]

\* Mutant: a Hello from a neighbor already known does not restart its timer.
HelloSeenStale(r, v, ns, msg) ==
  LET n == msg.from
      known == n \in DOMAIN ns
      with(owed) == [x \in DOMAIN ns \cup {n} |-> IF x = n THEN Cached(msg, owed) ELSE ns[x]]
      owing == with(TRUE)
  IN  IF known /\ msg.hold = 0
      THEN [v |-> Elect(r, v, Restrict(ns, DOMAIN ns \ {n})),
            ns |-> Restrict(ns, DOMAIN ns \ {n})]
      ELSE IF known /\ ns[n].genid = msg.genid THEN [v |-> v, ns |-> ns]
      ELSE [v |-> Elect(r, [v EXCEPT !.trig = TRUE], owing), ns |-> owing]

\* Mutant: a neighbor that says goodbye is deleted without an election.
HelloSeenQuiet(r, v, ns, msg) ==
  LET n == msg.from
      known == n \in DOMAIN ns
      with(owed) == [x \in DOMAIN ns \cup {n} |-> IF x = n THEN Cached(msg, owed) ELSE ns[x]]
      owing == with(TRUE)
  IN  IF known /\ msg.hold = 0
      THEN [v |-> v, ns |-> Restrict(ns, DOMAIN ns \ {n})]
      ELSE IF known /\ ns[n].genid = msg.genid
      THEN [v |-> v, ns |-> with(ns[n].owed)]
      ELSE [v |-> Elect(r, [v EXCEPT !.trig = TRUE], owing), ns |-> owing]

\* receive_pim_hello(), with delete_pim_nbr() and trigger_hello().  A goodbye from a
\* router not known makes a neighbor of it, until the next age_vifs().
HelloSeen(r, v, ns, msg) ==
  LET n == msg.from
      known == n \in DOMAIN ns
      with(owed) == [x \in DOMAIN ns \cup {n} |-> IF x = n THEN Cached(msg, owed) ELSE ns[x]]
      same  == known /\ ns[n].genid = msg.genid
      owing == with(TRUE)
  IN  CASE known /\ msg.hold = 0 ->
             [v |-> Elect(r, v, Restrict(ns, DOMAIN ns \ {n})),
              ns |-> Restrict(ns, DOMAIN ns \ {n})]
        [] same /\ msg.hold # 0 /\ ns[n].prio = msg.prio ->
             [v |-> v, ns |-> with(ns[n].owed)]
        [] same /\ msg.hold # 0 /\ ns[n].prio # msg.prio ->
             [v |-> Elect(r, v, with(ns[n].owed)), ns |-> with(ns[n].owed)]
        [] OTHER ->
             [v |-> Elect(r, [v EXCEPT !.trig = TRUE], owing), ns |-> owing]

\* A Hello reaches every router that is up but for those in lost.
ReceiveHello(msg, lost) ==
  LET got == {r \in Routers \ lost : r # msg.from /\ vif[r].up}
      seen == [r \in got |-> HelloSeen(r, vif[r], nbrs[r], msg)]
      live == vif[msg.from].up /\ vif[msg.from].genid = msg.genid /\ msg.hold > 0
  IN  /\ vif' = [r \in Routers |-> IF r \in got THEN seen[r].v ELSE vif[r]]
      /\ nbrs' = [r \in Routers |-> IF r \in got THEN seen[r].ns ELSE nbrs[r]]
      /\ heard' = [r \in Routers |-> IF r \in got /\ live THEN heard[r] \cup {msg.from}
                                     ELSE heard[r]]
      /\ UNCHANGED refused

\* receive_pim_join_prune(), receive_pim_assert() and the unicast branch of
\* receive_pim_bootstrap() refuse a message from a router that is no neighbor.
ReceiveOther(msg, lost) ==
  /\ refused' = (refused \/ /\ msg.to \notin lost /\ vif[msg.to].up
                            /\ vif[msg.to].genid = msg.genid
                            /\ msg.from \notin DOMAIN nbrs[msg.to])
  /\ UNCHANGED <<vif, nbrs, heard>>

Receive ==
  /\ wire # <<>> /\ wire' = Tail(wire)
  /\ LET msg == Head(wire)
     IN  \E lost \in {{}} \cup {{r} : r \in Routers \ {msg.from}} :
           /\ lost = {} \/ losses < MaxLosses
           /\ losses' = IF lost = {} THEN losses ELSE losses + 1
           /\ IF msg.type = "Hello" THEN ReceiveHello(msg, lost)
              ELSE ReceiveOther(msg, lost)
  /\ UNCHANGED <<ticked, starts, jps>>

\* The round is over: every interface was aged, every message has arrived and every
\* triggered Hello, due within Triggered_Hello_Delay, has gone.
RoundOver == /\ \A r \in Routers : vif[r].up => (r \in ticked /\ ~vif[r].trig)
             /\ wire = <<>> /\ ticked # {}

Round == RoundOver /\ ticked' = {}
         /\ UNCHANGED <<vif, nbrs, wire, heard, refused, starts, losses, jps>>

TickDue == \E r \in Routers : vif[r].up /\ r \notin ticked
TrigDue == \E r \in Routers : vif[r].up /\ vif[r].trig
Ticks    == \E r \in Routers : Tick(r)
Triggers == \E r \in Routers : Trigger(r)

Next ==
  \/ Receive \/ Round \/ Ticks \/ Triggers
  \/ \E r \in Routers : Stop(r) \/ \E p \in Configured(r) : Start(r, p) \/ Restart(r, p)
  \/ \E r, n \in Routers : SendJp(r, n)

Spec == Init /\ [][Next]_vars

\* The daemons that are up go on running, and the rounds with them.
Fairness ==
  /\ []<>(wire = <<>>) \/ []<><<Receive>>_vars
  /\ []<>~TickDue \/ []<><<Ticks>>_vars
  /\ []<>~TrigDue \/ []<><<Triggers>>_vars
  /\ []<>~RoundOver \/ []<><<Round>>_vars

FairSpec == Spec /\ Fairness

-----------------------------------------------------------------------------
\* Timers stay within what they are set to, nobody is its own neighbor, and an
\* interface that is down has none.
TypeOK ==
  /\ \A r \in Routers :
       /\ vif[r] \in [up : BOOLEAN, genid : 0..MaxStarts, prio : Prios \cup {0},
                      ht : 0..Period, trig : BOOLEAN, dr : Routers]
       /\ DOMAIN nbrs[r] \subseteq Routers \ {r}
       /\ \A n \in DOMAIN nbrs[r] :
            nbrs[r][n] \in [timer : 0..Hold, genid : 0..MaxStarts, prio : Prios \cup {0},
                            owed : BOOLEAN]
       /\ ~vif[r].up => nbrs[r] = <<>>
  /\ ticked \subseteq Routers /\ refused \in BOOLEAN
  /\ starts \in 0..MaxStarts /\ losses \in 0..MaxLosses /\ jps \in 0..MaxJps

\* The DR of a router is at all times the best of itself and the neighbors it has
\* now: whatever changed the list, or a priority in it, an election followed.
DrIsElected ==
  \A r \in {x \in Routers : vif[x].up} :
    LET ns == nbrs[r]
        prio(x) == IF x = r THEN vif[r].prio ELSE ns[x].prio
        all == DOMAIN ns \cup {r}
        better(x, y) == IF all \cap Legacy = {} /\ prio(x) # prio(y)
                        THEN prio(x) > prio(y) ELSE x > y
    IN  vif[r].dr \in all /\ \A x \in all \ {vif[r].dr} : better(vif[r].dr, x)

\* A neighbor that goes on sending Hellos is not timed out for the Hellos that were
\* lost, as many as the HoldTime, three periods and a half, leaves room for.
HeardIsKept ==
  (losses + 1) * Period + 1 < Hold =>
    \A r \in Routers : heard[r] \subseteq DOMAIN nbrs[r]

\* A router that knows a neighbor is known to it by the time its first Join/Prune,
\* Assert or Bootstrap gets there, as the Hello that is owed goes first.
NothingRefused == losses = 0 => ~refused

\* When interfaces no longer come and go, all the routers left know each other and
\* no router that has gone, and one of them is the DR for all.
OneDr ==
  <>[](LET ups == {r \in Routers : vif[r].up}
       IN  /\ \A r \in ups : DOMAIN nbrs[r] = ups \ {r}
           /\ Cardinality({vif[r].dr : r \in ups}) <= 1
           /\ \A r \in ups : vif[r].dr \in ups)
=============================================================================
