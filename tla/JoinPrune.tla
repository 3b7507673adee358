------------------------------ MODULE JoinPrune ------------------------------
(***************************************************************************)
(* Join/Prune on a LAN (src/pim_proto.c, src/route.c) for one group G and  *)
(* one source S of it: the routers in Downs take the shared tree of G from *)
(* the router Up, and each may go over to the source tree of S, which      *)
(* reaches it over another link; from then on it prunes S off the shared   *)
(* tree.  Up keeps one downstream machine for the group and one for S.     *)
(*                                                                         *)
(* Messages are multicast: a router that wants what another prunes         *)
(* overrides the Prune, and one that hears its own Join holds it back.     *)
(***************************************************************************)
EXTENDS PimJp, Integers, Sequences, FiniteSets, Functions

CONSTANTS Downs,      \* the downstream routers
          Up,         \* the upstream router
          Full,       \* routers of Downs at their rpt-prune-limit: they may have
                      \* no entry for S to override a Prune of it with
          Prop,       \* Propagation_Delay of the LAN
          Override,   \* Override_Interval of the LAN
          Period,     \* t_periodic
          Suppress,   \* the values of t_suppressed
          Hold,       \* HoldTime
          MaxChanges, \* bound on the changes of what routers want
          MaxLosses   \* bound on messages lost by a router, and restarts of Up

All == Downs \cup {Up}

ASSUME JoinPruneAssumption ==
  /\ Up \notin Downs /\ Full \subseteq Downs
  /\ Prop \in Nat /\ Override \in Nat \ {0} /\ Period \in Nat \ {0}
  /\ Suppress \subseteq Nat \ {0} /\ \A t \in Suppress : t < Hold
  /\ MaxChanges \in Nat /\ MaxLosses \in Nat

VARIABLES down,    \* by downstream router, its entries and timers
          up,      \* the machines of Up
          wire,    \* the messages sent and not yet received
          served,  \* ghost: routers in Downs that want the group and had it
          fed,     \* ghost: those that want S off the shared tree and had it
          gap,     \* ghost: for how long one in served has been without
          changes, losses

vars == <<down, up, wire, served, fed, gap, changes, losses>>

None == -1

\* want: the (*,G) has outgoing interfaces; spt: S comes over its own tree;
\* jt: the (*,G)'s Join Timer; due: the (S,G)'s was fired; sent: MRTF_PRUNE_SENT;
\* pruned: MRTF_RPT_PRUNED; ot: the Override Timer, rpt_override.  A Join Timer that
\* goes on running after the Prune, to no effect, is None.
Idle  == [want |-> FALSE, spt |-> FALSE, jt |-> None, due |-> FALSE,
          sent |-> FALSE, pruned |-> FALSE, ot |-> None]
Fresh == [wc |-> "NI", et |-> 0, ppt |-> 0, rpt |-> "NI", rptEt |-> 0, rptPpt |-> 0]

Init ==
  /\ down = [d \in Downs |-> Idle] /\ up = Fresh /\ wire = <<>>
  /\ served = {} /\ fed = {} /\ gap = 0 /\ changes = 0 /\ losses = 0

Sooner(t, u) == IF t = None \/ u < t THEN u ELSE t

\* jp_override_timeout()
Overrides == 0..(Override - 1)

\* prune_pending_delay(): a neighbor that is alone is overridden by nobody.
PrunePending == IF Cardinality(Downs) <= 1 THEN 0 ELSE Prop + Override

Sent(from, els) == IF els = {} THEN wire
                   ELSE Append(wire, [from |-> from, els |-> els, age |-> 0])

-----------------------------------------------------------------------------
\* prune_desired_rpt()
PruneDesired(s) == s.want /\ s.spt

\* Mutant: the Join(*,G) goes without the Prune(S,G,rpt)s that belong to it.
MessageBare(s) ==
  LET joins == s.jt = 0 /\ s.want
  IN  {e \in {"JoinWc", "PruneWc", "PruneRpt", "JoinRpt"} :
         CASE e = "JoinWc"   -> joins
           [] e = "PruneWc"  -> s.jt = 0 /\ ~s.want /\ ~s.sent
           [] e = "PruneRpt" -> PruneDesired(s) /\ s.due /\ ~s.pruned
           [] e = "JoinRpt"  -> s.want /\ ~s.spt /\ (s.pruned \/ s.ot = 0)}

\* What a pass over the timers sends, in one message: jp_timer_expire_wc(), then
\* jp_timer_expire_sg() and rpt_timers_expire() for S.  A Prune(S,G,rpt) goes alone
\* once and then with every Join(*,G).
Message(s) ==
  LET joins == s.jt = 0 /\ s.want
  IN  {e \in {"JoinWc", "PruneWc", "PruneRpt", "JoinRpt"} :
         CASE e = "JoinWc"   -> joins
           [] e = "PruneWc"  -> s.jt = 0 /\ ~s.want /\ ~s.sent
           [] e = "PruneRpt" -> PruneDesired(s) /\ (joins \/ (s.due /\ ~s.pruned))
           [] e = "JoinRpt"  -> s.want /\ ~s.spt /\ (s.pruned \/ s.ot = 0)}

PassDue(d) ==
  \/ down[d].jt = 0 \/ down[d].ot = 0 \/ down[d].due
  \/ down[d].pruned /\ ~PruneDesired(down[d])

\* route_timers_run() at a downstream router
Pass(d) ==
  LET s == down[d]
      m == Message(s)
  IN  /\ PassDue(d)
      /\ down' = [down EXCEPT ![d] =
                    [s EXCEPT !.jt = IF @ # 0 THEN @ ELSE IF s.want THEN Period ELSE None,
                              !.sent = (@ \/ "PruneWc" \in m) /\ "JoinWc" \notin m,
                              !.due = FALSE,
                              !.pruned = PruneDesired(s) /\ (@ \/ "PruneRpt" \in m),
                              !.ot = IF ~s.want \/ s.spt \/ "JoinRpt" \in m
                                     THEN None ELSE @]]
      /\ wire' = Sent(d, m)
      /\ UNCHANGED <<up, served, fed, gap, changes, losses>>

-----------------------------------------------------------------------------
\* jp_suppress(): hold the Join back, but not past the HoldTime overheard.
JpSuppress(jt, t) == IF jt < t THEN t ELSE jt

\* Mutant: a Prune of S is not overridden by a router that has an entry for it.
SeeIdle(d, s, els) ==
  {[s EXCEPT !.jt = IF "JoinWc" \in els /\ s.want THEN JpSuppress(@, t)
                    ELSE IF "PruneWc" \in els /\ s.want THEN Sooner(@, o) ELSE @]
     : t \in Suppress, o \in Overrides}

\* receive_pim_join_prune() of a message to Up at a router that overhears it, with
\* rpt_see_prune(), and refresh_upstream_joins() when Up's Generation ID is new.
See(d, s, els) ==
  {[s EXCEPT
      !.jt = LET t1 == IF "JoinWc" \in els /\ s.want THEN JpSuppress(@, t) ELSE @
                 hurry == \/ "PruneWc" \in els /\ s.want
                          \/ "Hello" \in els /\ t1 # None
                          \/ "PruneRpt" \in els /\ s.want /\ ~s.spt /\ ~entry
             IN  IF hurry THEN Sooner(t1, o) ELSE t1,
      !.ot = LET t1 == IF "JoinRpt" \in els THEN None ELSE @
             IN  IF "PruneRpt" \in els /\ s.want /\ ~s.spt /\ entry
                 THEN Sooner(t1, o) ELSE t1]
     : t \in Suppress, o \in Overrides,
       entry \in IF d \in Full /\ s.ot = None THEN BOOLEAN ELSE {TRUE}}

\* jp_ds_apply() and rpt_ds_apply()
JpDsApply(u, act) ==
  [u EXCEPT !.wc = act.state, !.et = EtAfter(act.et, @, Hold),
            !.ppt = IF act.ppt = "START" THEN PrunePending
                    ELSE IF act.state = "PP" THEN @ ELSE 0]

RptDsApply(u, act) ==
  [u EXCEPT !.rpt = act.state, !.rptEt = EtAfter(act.et, @, Hold),
            !.rptPpt = IF act.ppt = "START" THEN PrunePending
                       ELSE IF act.state \in {"PP", "PPT"} THEN @ ELSE 0]

WcEvent(u, event) == JpDsApply(u, JpDsDecide(u.wc, event, PrunePending = 0))
RptEvent(u, event) == RptDsApply(u, RptDsDecide(u.rpt, event, PrunePending = 0))

\* Mutant: the end of the group set's prunes is not acted on.
UpReceiveEndless(u, els) ==
  LET u1 == IF "JoinWc" \in els THEN RptEvent(u, "JOIN_WC") ELSE u
      u2 == IF "PruneRpt" \in els THEN RptEvent(u1, "PRUNE_RPT") ELSE u1
      u3 == IF "PruneWc" \in els THEN WcEvent(u2, "PRUNE") ELSE u2
      u4 == IF "JoinWc" \in els THEN WcEvent(u3, "JOIN") ELSE u3
  IN  IF "JoinRpt" \in els THEN RptEvent(u4, "JOIN_RPT") ELSE u4

\* receive_pim_join_prune() of a message to Up: a Join(*,G) in it first makes the
\* prunes of S provisional, then come the Prunes, the end of the prunes and the Joins.
UpReceive(u, els) ==
  LET u1 == IF "JoinWc" \in els THEN RptEvent(u, "JOIN_WC") ELSE u
      u2 == IF "PruneRpt" \in els THEN RptEvent(u1, "PRUNE_RPT") ELSE u1
      u3 == IF "PruneWc" \in els THEN WcEvent(u2, "PRUNE") ELSE u2
      u4 == IF "JoinWc" \in els THEN WcEvent(RptEvent(u3, "EOM"), "JOIN") ELSE u3
  IN  IF "JoinRpt" \in els THEN RptEvent(u4, "JOIN_RPT") ELSE u4

\* The message that is first on the wire reaches the others, but for those in lost.
Receive ==
  /\ wire # <<>> /\ wire' = Tail(wire)
  /\ LET msg == Head(wire)
         others == All \ {msg.from}
     IN  \E lost \in SUBSET others :
           /\ lost = {} \/ losses < MaxLosses
           /\ losses' = IF lost = {} THEN losses ELSE losses + 1
           /\ up' = IF Up \in others \ lost THEN UpReceive(up, msg.els) ELSE up
           /\ LET after == [d \in Downs |-> IF d \in others \ lost
                                           THEN See(d, down[d], msg.els) ELSE {down[d]}]
              IN  \E new \in [Downs -> UNION Range(after)] :
                    (\A d \in Downs : new[d] \in after[d]) /\ down' = new
  /\ UNCHANGED <<served, fed, gap, changes>>

-----------------------------------------------------------------------------
\* The timers of Up: expire_prune_pending_timers(), with the PruneEcho of a
\* group, expire_rpt_timers(), and the Expiry Timer age_routes() keeps.
WcPptDue == up.wc = "PP" /\ up.ppt = 0
WcEtDue  == up.wc # "NI" /\ up.et = 0
RptDue   == (up.rpt = "PP" /\ up.rptPpt = 0) \/ (up.rpt = "P" /\ up.rptEt = 0)
UpDue    == WcPptDue \/ WcEtDue \/ RptDue

UpPass ==
  /\ UpDue
  /\ LET act == JpDsDecide(up.wc, IF WcPptDue THEN "PPT" ELSE "ET",
                           PrunePending = 0)
     IN  IF WcPptDue \/ WcEtDue
         THEN /\ up' = JpDsApply(up, act)
              /\ wire' = Sent(Up, IF act.echo THEN {"PruneWc"} ELSE {})
         ELSE /\ up' = RptEvent(up, IF up.rpt = "PP" THEN "PPT" ELSE "ET")
              /\ UNCHANGED wire
  /\ UNCHANGED <<down, served, fed, gap, changes, losses>>

\* Nothing is due and no message has been on its way for the propagation delay:
\* time passes.
Quiet == /\ ~UpDue /\ \A d \in Downs : ~PassDue(d)
         /\ \A i \in DOMAIN wire : wire[i].age < Prop

Busy == up # Fresh \/ wire # <<>> \/ \E d \in Downs : down[d].jt # None

Less(t) == IF t > 0 THEN t - 1 ELSE t

\* Up forwards what the router wants, no Prune of it is pending and the router
\* has none of its own on its way, of a time when it did not want it.
OnItsWay(d, e) == \E i \in DOMAIN wire : wire[i].from = d /\ e \in wire[i].els
HasGroup(d) == down[d].want /\ up.wc = "J" /\ ~OnItsWay(d, "PruneWc")
HasSource(d) == /\ HasGroup(d) /\ ~down[d].spt /\ up.rpt = "NI"
                /\ ~OnItsWay(d, "PruneRpt")

Elapse ==
  /\ Quiet
  /\ down' = [d \in Downs |-> [down[d] EXCEPT !.jt = Less(@), !.ot = Less(@)]]
  /\ up' = [up EXCEPT !.et = Less(@), !.ppt = Less(@), !.rptEt = Less(@), !.rptPpt = Less(@)]
  /\ wire' = [i \in DOMAIN wire |-> [wire[i] EXCEPT !.age = @ + 1]]
  /\ served' = served \cup {d \in Downs : HasGroup(d)}
  /\ fed' = fed \cup {d \in Downs : HasSource(d)}
  /\ gap' = IF up.wc = "NI" /\ served # {} THEN gap + 1 ELSE 0
  /\ UNCHANGED <<changes, losses>>

-----------------------------------------------------------------------------
Change(d, s) ==
  /\ changes < MaxChanges /\ changes' = changes + 1
  /\ down' = [down EXCEPT ![d] = s]
  /\ UNCHANGED <<up, wire, gap, losses>>

\* change_interfaces() of the (*,G): its outgoing interfaces become empty, or no
\* longer are, which fires the Join Timer.
Want(d) ==
  /\ ~down[d].want /\ Change(d, [down[d] EXCEPT !.want = TRUE, !.jt = 0])
  /\ UNCHANGED <<served, fed>>

Unwant(d) ==
  /\ down[d].want
  /\ Change(d, [down[d] EXCEPT !.want = FALSE, !.spt = FALSE, !.jt = 0, !.due = FALSE])
  /\ served' = served \ {d} /\ fed' = fed \ {d}

\* check_sptbit() sets SPTbit(S,G), change_interfaces() clears it; both fire the
\* (S,G)'s Join Timer.
SwitchSpt(d) ==
  /\ down[d].want /\ ~down[d].spt
  /\ Change(d, [down[d] EXCEPT !.spt = TRUE, !.due = TRUE])
  /\ fed' = fed \ {d} /\ UNCHANGED served

LeaveSpt(d) ==
  /\ down[d].spt
  /\ Change(d, [down[d] EXCEPT !.spt = FALSE, !.due = TRUE])
  /\ UNCHANGED <<served, fed>>

\* Up restarts, and its Hello has a new Generation ID.
Reboot ==
  /\ losses < MaxLosses /\ losses' = losses + 1
  /\ up # Fresh /\ up' = Fresh /\ wire' = Sent(Up, {"Hello"})
  /\ UNCHANGED <<down, served, fed, gap, changes>>

Passes == \E d \in Downs : Pass(d)

Next ==
  \/ Receive \/ Passes \/ UpPass \/ Elapse \/ Reboot
  \/ \E d \in Downs : Want(d) \/ Unwant(d) \/ SwitchSpt(d) \/ LeaveSpt(d)

Spec == Init /\ [][Next]_vars

\* The daemons go on running, and time with them.
Fairness ==
  /\ []<>(wire = <<>>) \/ []<><<Receive>>_vars
  /\ []<>(\A d \in Downs : ~PassDue(d)) \/ []<><<Passes>>_vars
  /\ []<>~UpDue \/ []<><<UpPass>>_vars
  /\ []<>~(Quiet /\ Busy) \/ []<><<Elapse>>_vars

FairSpec == Spec /\ Fairness

-----------------------------------------------------------------------------
\* Every timer is within what it is set to, every message of a known kind.
TypeOK ==
  /\ down \in [Downs -> [want : BOOLEAN, spt : BOOLEAN, jt : None..Hold, due : BOOLEAN,
                         sent : BOOLEAN, pruned : BOOLEAN, ot : None..Override]]
  /\ up \in [wc : DsStates, et : 0..Hold, ppt : 0..PrunePending,
             rpt : {"NI", "P", "PP"}, rptEt : 0..Hold, rptPpt : 0..PrunePending]
  /\ \A i \in DOMAIN wire :
       wire[i].els \subseteq {"JoinWc", "PruneWc", "JoinRpt", "PruneRpt", "Hello"}
  /\ served \subseteq Downs /\ fed \subseteq Downs
  /\ changes \in 0..MaxChanges /\ losses \in 0..MaxLosses

\* A router that has the group and wants it keeps it, unless messages are lost:
\* whatever others prune is overridden before the Prune-Pending Timer is over, and
\* no Join is held back for so long that Up's state expires.
WantedIsForwarded == losses = 0 => (served # {} => up.wc # "NI")

\* The same of S off the shared tree: a neighbor that goes to the source tree does
\* not take S from a router that did not, nor does the compound Join/Prune it sends.
\* A router at its rpt-prune-limit is not promised as much: the Join(*,G) it overrides
\* with is held back by the one the pruning neighbor sends.
WantedSourceIsForwarded == losses = 0 => (fed \ Full # {} => up.rpt # "P")

\* One message that a router misses, or a restart of Up, costs the LAN no more
\* than a round of override and the PruneEcho or Hello that starts it.
ShortGap == losses <= 1 => gap < 2 * Prop + Override

\* In the end Up does as it is asked, however many messages were lost and minds
\* changed: it forwards the group if and only if a router wants it, and S if and only
\* if one of these wants S off the shared tree.
EndsAsAsked ==
  <>[](/\ (up.wc # "NI") = (\E d \in Downs : down[d].want)
       /\ up.wc # "NI" =>
            (up.rpt # "P") = (\E d \in Downs : down[d].want /\ ~down[d].spt))
=============================================================================
