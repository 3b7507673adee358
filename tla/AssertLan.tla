------------------------------ MODULE AssertLan ------------------------------
(***************************************************************************)
(* The Assert elections of src/pim_proto.c on one LAN, for one source S of *)
(* one group G.  The LAN is an outgoing interface of every router in       *)
(* Routers, each holding the entry of the shared tree, "wc", and at times  *)
(* that of the source tree, "sg"; the routers in Downs take the group from *)
(* the LAN.  Assert messages and the Hello of a router that came back are  *)
(* delivered in order between each pair of routers, and may be lost.       *)
(*                                                                         *)
(* Of the interfaces of an entry only the LAN is kept; Busy are the        *)
(* routers with another one to forward the group to.                       *)
(***************************************************************************)
EXTENDS PimAssert, Sequences, FiniteSets

CONSTANTS Routers,    \* the addresses of the routers that forward to the LAN
          Downs,      \* those of the routers that take the group from it
          Busy,       \* routers in Routers with other interfaces to forward to
          OneIif,     \* routers that reach S and the RP over one interface
          RpRank,     \* by router, the rank of its route to the RP, bit and all
          SrcRank,    \* by router, the rank of its route to S
          AssertTime, \* PIM_ASSERT_TIMEOUT
          ResendTime, \* PIM_ASSERT_WINNER_TIMEOUT
          DR,         \* the one of them that is Designated Router
          Mrib,       \* by router in Downs and tree, its neighbor towards the root
          MaxQueue,   \* bound on the messages unread where data or a change adds some
          Budgets     \* [at, changes, losses]: bounds on the changes of membership and
                      \* of trees, at the routers in at, and on the messages lost and
                      \* routers restarted

All == Routers \cup Downs

ASSUME LanAssumption ==
  /\ All \subseteq Nat \ {0} /\ Routers \cap Downs = {}
  /\ Busy \cup OneIif \subseteq Routers /\ DR \in Routers
  /\ Mrib \in [Downs -> [{"wc", "sg"} -> Routers]]
  /\ RpRank \in [All -> RPT_BIT..(INFINITE - 1)]
  /\ SrcRank \in [All -> 0..(RPT_BIT - 1)]
  /\ 0 < ResendTime /\ ResendTime < AssertTime
  /\ Budgets \subseteq [at : SUBSET All, changes : Nat, losses : Nat]

VARIABLES rt,      \* by router, its (*,G) and (S,G) entries
          chan,    \* by sender and receiver, the messages on their way
          told,    \* the routers whose kernel reported S's data on the LAN lately
          budget,  \* the one of Budgets that bounds the behaviour
          changes, losses

vars == <<rt, chan, told, budget, changes, losses>>

Machines == {"wc", "sg"}
NoInfo == [winner |-> 0, is_winner |-> FALSE, rank |-> 0, left |-> 0]

\* A router's entries.  leaf: the LAN has members of G, and this is the DR;
\* joined: the entries Joins were received for; copied: the (S,G)'s copy of the
\* (*,G)'s members and Joins; cache: the kernel's entry for S is the (S,G)'s.
Fresh(r) == [leaf |-> FALSE, joined |-> {}, sg |-> FALSE, copied |-> FALSE,
             spt |-> FALSE, kat |-> FALSE, cache |-> FALSE, asserted |-> {}, oifs |-> {},
             as |-> [m \in Machines |-> NoInfo],
             upstream |-> IF r \in Downs THEN Mrib[r] ELSE [m \in Machines |-> 0]]

Member(s) == s.leaf \/ "wc" \in s.joined

\* What a handler works on: its router's entries, and what it sends meanwhile.
Work(s) == [s |-> s, out |-> <<>>]

-----------------------------------------------------------------------------
LostOn(s, m) == s.as[m].winner # 0 /\ ~s.as[m].is_winner
WinnerIsMe(s, m) == s.as[m].winner # 0 /\ s.as[m].is_winner

\* my_assert_metric() of the entry of machine m
MyRank(r, s, m) == IF m = "sg" /\ s.sg /\ s.spt THEN SrcRank[r] ELSE RpRank[r]

\* lost_assert() of the (S,G): would the winner beat us from the source tree?
LostAssert(r, s) ==
  /\ r \notin Downs
  /\ LostOn(s, "sg")
  /\ CompareMetrics(s.as["sg"].rank, s.as["sg"].winner, SrcRank[r], r)

\* lost_assert_rpt() of either entry
LostAssertRpt(r, s, m) ==
  /\ r \notin Downs
  /\ IF m = "sg" /\ s.spt THEN LostAssert(r, s) ELSE LostOn(s, m)

\* calc_oifs(): is the LAN in the outgoing interfaces of the entry?
CalcOifs(r, s, m) ==
  IF m = "wc" THEN Member(s) /\ ~("wc" \in s.asserted /\ LostAssertRpt(r, s, "wc"))
  ELSE /\ (Member(s) /\ "wc" \notin s.asserted) \/ s.copied \/ "sg" \in s.joined
       /\ ~("sg" \in s.asserted /\ LostAssertRpt(r, s, "sg"))

\* Mutant: the (S,G)'s loss does not count while S comes over the shared tree.
CalcRptOifsUnasserted(r, s) ==
  IF s.sg THEN Member(s) /\ "wc" \notin s.asserted ELSE "wc" \in s.oifs

\* calc_rpt_oifs() by way of wc_mfc_oifs(): is the LAN among the interfaces the
\* (*,G)'s kernel entry forwards S to?
CalcRptOifs(r, s) ==
  IF s.sg THEN Member(s) /\ "wc" \notin s.asserted /\ ~LostOn(s, "sg")
  ELSE "wc" \in s.oifs

\* join_desired() of the (S,G)
JoinDesired(r, s) ==
  \/ "sg" \in s.joined /\ ~("sg" \in s.asserted /\ LostAssert(r, s))
  \/ s.kat /\ (CalcOifs(r, s, "sg") \/ r \in Busy)

\* Does the kernel forward S to the LAN?  Its entry is the (S,G)'s once S came over
\* the source tree, or from the start where the two trees arrive on one interface.
HasCache(r, s) == s.sg /\ (s.cache \/ r \in OneIif)

Forwards(r) ==
  /\ r \in Routers
  /\ IF HasCache(r, rt[r]) THEN "sg" \in rt[r].oifs /\ (rt[r].spt \/ r \in OneIif)
     ELSE CalcRptOifs(r, rt[r])

-----------------------------------------------------------------------------
\* What assert_send() multicasts, a rank, and what the others send
Assert(rank) == [type |-> "Assert", rank |-> rank]

\* send_pim_assert(): whoever sends an Assert claims the interface.
SendAssert(r, x, m) ==
  LET rank == MyRank(r, x.s, m)
  IN  [s   |-> [x.s EXCEPT !.as[m] = [winner |-> r, is_winner |-> TRUE,
                                      rank |-> rank, left |-> ResendTime]],
       out |-> Append(x.out, Assert(rank))]

\* Mutant: the winner goes without a word.
CancelWonSilently(x, m) ==
  IF ~WinnerIsMe(x.s, m) THEN x ELSE [x EXCEPT !.s.as[m] = NoInfo]

\* send_pim_assert_cancel(), where this router won
CancelWon(x, m) ==
  IF ~WinnerIsMe(x.s, m) THEN x
  ELSE [s   |-> [x.s EXCEPT !.as[m] = NoInfo],
        out |-> Append(x.out, Assert(INFINITE))]

\* change_interfaces() of the (S,G)
ChangeSg(r, x) ==
  LET new  == CalcOifs(r, x.s, "sg")
      tree == IF new \/ r \in Busy THEN x.s.spt /\ JoinDesired(r, x.s) ELSE x.s.spt
  IN  CASE ~x.s.sg \/ r \in Downs -> x
        [] x.s.sg /\ r \notin Downs /\ new = ("sg" \in x.s.oifs) ->
             [x EXCEPT !.s.spt = tree]
        [] OTHER ->
             IF new THEN [x EXCEPT !.s.spt = tree, !.s.oifs = @ \cup {"sg"}]
             ELSE CancelWon([x EXCEPT !.s.spt = tree /\ r \in Busy,
                                      !.s.cache = @ /\ r \in Busy,
                                      !.s.oifs = @ \ {"sg"}], "sg")

\* change_interfaces() of the (*,G), which goes on to the (S,G)
ChangeWc(r, x) ==
  LET new == CalcOifs(r, x.s, "wc")
  IN  IF r \in Downs \/ new = ("wc" \in x.s.oifs) THEN x
      ELSE ChangeSg(r, IF new THEN [x EXCEPT !.s.oifs = @ \cup {"wc"}]
                       ELSE CancelWon([x EXCEPT !.s.oifs = @ \ {"wc"}], "wc"))

ChangeInterfaces(r, x, m) == IF m = "wc" THEN ChangeWc(r, x) ELSE ChangeSg(r, x)

\* assert_clear(): a Loser state ends; RPF' is the routing table's again.
AssertClear(r, x, m) ==
  IF WinnerIsMe(x.s, m) THEN x
  ELSE [x EXCEPT !.s.asserted = @ \ {m}, !.s.as[m] = NoInfo,
                 !.s.upstream = IF r \in Downs THEN [@ EXCEPT ![m] = Mrib[r][m]] ELSE @]

\* assert_clear() and, where it gave an interface back, change_interfaces()
Resume(r, x, m) ==
  IF m \in x.s.asserted /\ ~WinnerIsMe(x.s, m)
  THEN ChangeInterfaces(r, AssertClear(r, x, m), m)
  ELSE AssertClear(r, x, m)

\* assert_lost()
AssertLost(x, m, src, rank) ==
  [x EXCEPT !.s.as[m] = [winner |-> src, is_winner |-> FALSE,
                         rank |-> rank, left |-> AssertTime]]

\* find_route() makes the (S,G) and VOIF_COPY() fills it from the (*,G)
CreateSg(x) ==
  IF x.s.sg THEN x
  ELSE [x EXCEPT !.s.sg = TRUE, !.s.copied = Member(x.s),
                 !.s.asserted = IF "wc" \in @ THEN @ \cup {"sg"} ELSE @,
                 !.s.oifs = IF "wc" \in @ THEN @ \cup {"sg"} ELSE @]

-----------------------------------------------------------------------------
\* assert_machine(): the view it decides on ...
View(r, s, m, src, rank) ==
  LET own == m = "wc" \/ s.sg
      e   == IF own THEN m ELSE "wc"
  IN  [wc |-> m = "wc", has_state |-> own, has_upstream |-> own,
       tracking |-> \/ r \in Downs \/ e \in s.joined \cup s.asserted
                    \/ (IF e = "wc" THEN Member(s)
                        ELSE s.copied \/ HasCache(r, s)),
       where |-> IF r \notin Downs /\ (e \in s.oifs \/ LostOn(s, e)) THEN "DOWNSTREAM"
                 ELSE IF own /\ r \in Downs THEN "UPSTREAM" ELSE "ELSEWHERE",
       winner    |-> IF own THEN s.as[m].winner ELSE 0,
       is_winner |-> own /\ s.as[m].is_winner,
       win       |-> IF own THEN s.as[m].rank ELSE 0,
       spt |-> e = "sg" /\ s.spt,
       my |-> MyRank(r, s, e), my_addr |-> r, src |-> src, rank |-> rank]

\* Mutant: the winner on the incoming interface is held, the upstream kept.
AssertActStays(r, x, m, src, rank, act) ==
  LET own == m = "wc" \/ x.s.sg
  IN  CASE act = "NONE"   -> x
        [] act = "SEND"   -> SendAssert(r, x, IF own THEN m ELSE "wc")
        [] act = "CLEAR"  -> Resume(r, x, m)
        [] act = "LOSE"   ->
             LET y == IF own THEN x ELSE CreateSg(x)
             IN  ChangeInterfaces(r, AssertLost([y EXCEPT !.s.asserted = @ \cup {m}],
                                                m, src, rank), m)
        [] OTHER -> AssertLost(x, m, src, rank)

\* ... and the actions it carries out
AssertAct(r, x, m, src, rank, act) ==
  LET own == m = "wc" \/ x.s.sg
  IN  CASE act = "NONE"   -> x
        [] act = "SEND"   -> SendAssert(r, x, IF own THEN m ELSE "wc")
        [] act = "STORE"  -> AssertLost(x, m, src, rank)
        [] act = "CLEAR"  -> Resume(r, x, m)
        [] act = "LOSE"   ->
             LET y == IF own THEN x ELSE CreateSg(x)
             IN  ChangeInterfaces(r, AssertLost([y EXCEPT !.s.asserted = @ \cup {m}],
                                                m, src, rank), m)
        [] act = "FOLLOW" -> [AssertLost(x, m, src, rank) EXCEPT !.s.upstream[m] = src]

\* receive_pim_assert(): the (S,G) machine first, then the (*,G) machine where
\* the message is still its own.
ReceiveAssert(r, x, src, rank) ==
  LET held == x.s.sg /\ x.s.as["sg"].winner # 0
      sg   == AssertDecide(View(r, x.s, "sg", src, rank))
      y    == AssertAct(r, x, "sg", src, rank, sg)
      wc   == AssertDecide(View(r, y.s, "wc", src, rank))
  IN  IF AssertWcMayRun(held, AssertRc(sg, rank))
      THEN AssertAct(r, y, "wc", src, rank, wc) ELSE y

\* receive_pim_hello() of a new Generation ID: assert_neighbor_gone() walks the
\* (*,G) and then the (S,G).
ReceiveHello(r, x, src) ==
  LET Forget(y, m) == IF y.s.as[m].winner = src THEN Resume(r, y, m) ELSE y
  IN  Forget(Forget(x, "wc"), "sg")

\* receive_pim_join_prune(), the Joins: the Join(*,G) pushes every (S,G) again.
ReceiveJoin(r, x, m) ==
  LET y == IF m = "sg" THEN CreateSg(x) ELSE x
      z == AssertClear(r, [y EXCEPT !.s.joined = @ \cup {m}], m)
  IN  IF m = "wc" THEN ChangeSg(r, ChangeWc(r, z)) ELSE ChangeSg(r, z)

-----------------------------------------------------------------------------
Init ==
  /\ budget \in Budgets
  /\ rt = [r \in All |-> Fresh(r)]
  /\ chan = [f \in All |-> [g \in All |-> <<>>]]
  /\ told = {} /\ changes = 0 /\ losses = 0

Settled == \A q, r \in All : chan[q][r] = <<>>
Room == \A q, r \in All : Len(chan[q][r]) < MaxQueue

\* What the handler did at r: its entries, and its messages to all the others
Do(r, x, c) ==
  /\ rt' = [rt EXCEPT ![r] = x.s]
  /\ chan' = [c EXCEPT ![r] = [g \in All |-> IF g = r THEN <<>> ELSE c[r][g] \o x.out]]

Within(c, l) == c <= budget.changes /\ l <= budget.losses

\* A change of membership or of tree
Change(r, x) == /\ Room /\ r \in budget.at
                /\ Within(changes + 1, losses) /\ changes' = changes + 1
                /\ Do(r, x, chan) /\ UNCHANGED <<told, losses>>

\* A packet of S another router forwarded to the LAN reaches r: assert_on_data().
\* The kernel reports it once in MFC_ASSERT_THRESH, in which messages arrive.
DataMachine(s) == IF s.sg /\ s.spt THEN "sg" ELSE "wc"

DataSeen(r) == /\ Room /\ (Settled \/ r \notin told)
               /\ \E q \in Routers \ {r} : Forwards(q)
               /\ DataMachine(rt[r]) \in rt[r].oifs

Data(r) ==
  /\ DataSeen(r)
  /\ told' = (IF Settled THEN {} ELSE told) \cup {r}
  /\ Do(r, SendAssert(r, Work(rt[r]), DataMachine(rt[r])), chan)
  /\ UNCHANGED <<changes, losses>>

\* A message arrives.
Receive(q, r) ==
  /\ chan[q][r] # <<>>
  /\ LET msg == Head(chan[q][r])
         x   == Work(rt[r])
     IN  Do(r, CASE msg.type = "Assert" -> ReceiveAssert(r, x, q, msg.rank)
                 [] msg.type = "Hello"  -> ReceiveHello(r, x, q)
                 [] msg.type = "Join"   -> ReceiveJoin(r, x, msg.tree),
            [chan EXCEPT ![q][r] = Tail(@)])
  /\ UNCHANGED <<told, changes, losses>>

Lose(q, r) ==
  /\ Within(changes, losses + 1) /\ losses' = losses + 1
  /\ chan[q][r] # <<>> /\ chan' = [chan EXCEPT ![q][r] = Tail(@)]
  /\ UNCHANGED <<rt, told, changes>>

\* age_asserts(): the Assert Timer of a machine is up.
TimerUp(r, m) == rt[r].as[m].winner # 0 /\ rt[r].as[m].left = 0

Expire(r, m) ==
  /\ TimerUp(r, m)
  /\ LET x == Work(rt[r])
     IN  Do(r, IF WinnerIsMe(x.s, m) THEN SendAssert(r, x, m) ELSE Resume(r, x, m), chan)
  /\ UNCHANGED <<told, changes, losses>>

\* age_asserts() on the tick: this router's metric is better than the winner's.
MetricBetter(r, m) ==
  /\ r \notin Downs /\ LostOn(rt[r], m)
  /\ CompareMetrics(MyRank(r, rt[r], m), r, rt[r].as[m].rank, rt[r].as[m].winner)

Better(r, m) ==
  /\ MetricBetter(r, m)
  /\ Do(r, Resume(r, Work(rt[r]), m), chan)
  /\ UNCHANGED <<told, changes, losses>>

\* A downstream router's Join Timer is up, for either tree.
JoinDue(d, m) ==
  /\ d \in Downs /\ (m = "wc" \/ rt[d].sg)
  /\ m \notin rt[rt[d].upstream[m]].joined

SendJoin(d, m) ==
  LET up == rt[d].upstream[m]
  IN  /\ JoinDue(d, m) /\ chan[d][up] = <<>>
      /\ chan' = [chan EXCEPT ![d][up] = <<[type |-> "Join", tree |-> m]>>]
      /\ UNCHANGED <<rt, told, changes, losses>>

\* Time passes, a third of Assert_Time: messages take none of it, and a tick and
\* the Join Timers come up within it.
Elapse ==
  /\ Settled
  /\ \E r \in All, m \in Machines : rt[r].as[m].winner # 0
  /\ \A r \in All, m \in Machines :
       ~TimerUp(r, m) /\ ~MetricBetter(r, m) /\ ~JoinDue(r, m)
  /\ rt' = [r \in All |-> [rt[r] EXCEPT !.as = [m \in Machines |->
              IF @[m].winner = 0 THEN @[m] ELSE [@[m] EXCEPT !.left = @ - 1]]]]
  /\ UNCHANGED <<chan, told, changes, losses>>

-----------------------------------------------------------------------------
\* add_leaf() at the DR: members of the (*,G), merged into the (S,G)
LeafJoins ==
  LET s == [rt[DR] EXCEPT !.leaf = TRUE, !.copied = @ \/ rt[DR].sg]
  IN  ~rt[DR].leaf /\ Change(DR, ChangeSg(DR, ChangeWc(DR, Work(s))))

\* delete_leaf(), which takes the members out of both
LeafLeaves ==
  LET s == [rt[DR] EXCEPT !.leaf = FALSE, !.copied = FALSE]
  IN  rt[DR].leaf /\ Change(DR, ChangeSg(DR, ChangeWc(DR, Work(s))))

\* The Join state of an interface nobody refreshes times out.
Unrefreshed(r, m) ==
  /\ m \in rt[r].joined /\ Settled
  /\ \A d \in Downs : rt[d].upstream[m] # r \/ (m = "sg" /\ ~rt[d].sg)

JoinExpires(r, m) ==
  /\ Unrefreshed(r, m)
  /\ Do(r, ChangeInterfaces(r, Work([rt[r] EXCEPT !.joined = @ \ {m}]), m), chan)
  /\ UNCHANGED <<told, changes, losses>>

\* switch_shortest_path() at the DR, and a downstream router's
SwitchSpt(r) ==
  /\ r \in Downs \/ (r = DR /\ rt[r].leaf)
  /\ ~rt[r].sg \/ ~rt[r].kat
  /\ Change(r, [CreateSg(Work(rt[r])) EXCEPT !.s.kat = TRUE])

\* S's packets arrive over the source tree: update_sptbit(), and the kernel's
\* entry moves.
SptReady(r) == rt[r].sg /\ ~(rt[r].spt /\ rt[r].cache) /\ JoinDesired(r, rt[r])

SptData(r) ==
  /\ SptReady(r)
  /\ Do(r, Work([rt[r] EXCEPT !.spt = TRUE, !.cache = TRUE]), chan)
  /\ UNCHANGED <<told, changes, losses>>

\* check_keepalive(): the kernel counted packets of S.
DataCounted(r) ==
  /\ HasCache(r, rt[r]) /\ (rt[r].spt \/ r \in OneIif) /\ ~rt[r].kat
  /\ JoinDesired(r, rt[r]) /\ (CalcOifs(r, rt[r], "sg") \/ r \in Busy)

KeepAlive(r) ==
  /\ DataCounted(r)
  /\ Do(r, Work([rt[r] EXCEPT !.kat = TRUE]), chan)
  /\ UNCHANGED <<told, changes, losses>>

\* delete_mrtentry() of the (S,G), after the AssertCancel it owes
WithoutSg(r) ==
  [CancelWon(Work(rt[r]), "sg") EXCEPT
     !.s.sg = FALSE, !.s.copied = FALSE, !.s.spt = FALSE, !.s.kat = FALSE,
     !.s.cache = FALSE, !.s.asserted = @ \ {"sg"}, !.s.oifs = @ \ {"sg"},
     !.s.as["sg"] = NoInfo, !.s.upstream["sg"] = Fresh(r).upstream["sg"]]

\* The (S,G)'s entry timer runs out where no data restarts it, ...
Unused(r) == rt[r].sg /\ "sg" \notin rt[r].joined /\ ~JoinDesired(r, rt[r])

AgeOut(r) ==
  /\ Unused(r) /\ Do(r, WithoutSg(r), chan)
  /\ UNCHANGED <<told, changes, losses>>

\* ... and anywhere when S pauses.
Pause(r) == rt[r].sg /\ "sg" \notin rt[r].joined /\ Change(r, WithoutSg(r))

\* A router restarts: its Hello has a new Generation ID.
Reboot(r) ==
  /\ Within(changes, losses + 1) /\ losses' = losses + 1
  /\ r \in Routers /\ rt[r] # Fresh(r)
  /\ Do(r, [s |-> Fresh(r), out |-> <<[type |-> "Hello"]>>], chan)
  /\ UNCHANGED <<told, changes>>

Deliver == \E q, r \in All : Receive(q, r)
Timers  == \E r \in All, m \in Machines :
             Expire(r, m) \/ Better(r, m) \/ SendJoin(r, m)
Traffic == \E r \in Routers : Data(r)
OnTree  == \E r \in Routers : SptData(r) \/ KeepAlive(r)
OffTree == \E r \in Routers : AgeOut(r) \/ \E m \in Machines : JoinExpires(r, m)

Step ==
  \/ Deliver \/ Timers \/ Elapse \/ Traffic \/ OnTree \/ OffTree
  \/ LeafJoins \/ LeafLeaves
  \/ \E r \in All : SwitchSpt(r) \/ Pause(r)
  \/ \E r \in Routers : Reboot(r)
  \/ \E q, r \in All : Lose(q, r)

Next == Step /\ UNCHANGED budget

Spec == Init /\ [][Next]_vars

Pending == \E r \in All, m \in Machines : JoinDue(r, m) \/ rt[r].as[m].winner # 0

\* Messages are delivered, but for those the budget lets be lost; timers run; S keeps sending,
\* over the trees that were joined.  The fairness of each is written out: what is
\* said of states is when the action can happen.
Fairness ==
  /\ []<>Settled \/ []<><<Deliver>>_vars
  /\ []<>~Pending \/ []<><<Timers \/ Elapse>>_vars
  /\ \A r \in Routers : <>[]~DataSeen(r) \/ []<><<Data(r)>>_vars
  /\ []<>(\A r \in Routers : ~SptReady(r) /\ ~DataCounted(r)) \/ []<><<OnTree>>_vars
  /\ []<>(\A r \in Routers : ~Unused(r) /\ \A m \in Machines : ~Unrefreshed(r, m))
     \/ []<><<OffTree>>_vars

FairSpec == Spec /\ Fairness

-----------------------------------------------------------------------------
Entries ==
  [leaf : BOOLEAN, joined : SUBSET Machines, sg : BOOLEAN, copied : BOOLEAN,
   spt : BOOLEAN, kat : BOOLEAN, cache : BOOLEAN, asserted : SUBSET Machines, oifs : SUBSET Machines,
   as : [Machines -> [winner : All \cup {0}, is_winner : BOOLEAN, rank : Ranks,
                      left : 0..AssertTime]],
   upstream : [Machines -> Routers \cup {0}]]

\* Every entry, message and budget has its type; a timer never exceeds Assert_Time.
TypeOK ==
  /\ rt \in [All -> Entries]
  /\ \A q, r \in All : \A i \in DOMAIN chan[q][r] :
       \/ chan[q][r][i] \in [type : {"Assert"}, rank : Ranks]
       \/ chan[q][r][i] \in [type : {"Hello"}]
       \/ chan[q][r][i] \in [type : {"Join"}, tree : Machines]
  /\ told \subseteq Routers /\ budget \in Budgets /\ Within(changes, losses)

\* At rest, and unless messages were lost, a router an (S,G) Assert keeps off the
\* LAN lost it to a router that still holds Winner state for S: the AssertCancel,
\* the resends and the deletion of entries leave no (S,G) Loser behind.
SgLosersTrustAWinner ==
  Settled /\ losses = 0 =>
    \A r \in Routers :
      LostOn(rt[r], "sg") => WinnerIsMe(rt[rt[r].as["sg"].winner], "sg")

Duplicates == \E q, r \in Routers : q # r /\ Forwards(q) /\ Forwards(r)

\* Two routers that both forward S to the LAN settle which of them stops, over
\* whatever mixture of trees, Winner and Loser states and timers they got there.
DuplicatesEnd == Duplicates ~> ~Duplicates

\* While the LAN wants the group some router forwards S to it, in the end: an
\* election never ends with everybody having lost.
NoBlackHole ==
  <>[](rt[DR].leaf \/ Downs # {} => \E r \in Routers : Forwards(r))

\* A downstream router on the LAN ends up joining through the winner of the Assert
\* it follows, for each tree (assert_rpf_prime(), ASSERT_ACT_FOLLOW).
JoinsReachTheWinner ==
  <>[](\A d \in Downs, m \in Machines :
         LostOn(rt[d], m) => /\ rt[d].upstream[m] = rt[d].as[m].winner
                             /\ m \in rt[rt[d].upstream[m]].joined)
=============================================================================
