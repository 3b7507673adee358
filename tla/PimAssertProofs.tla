--------------------------- MODULE PimAssertProofs ---------------------------
(***************************************************************************)
(* What holds of the Assert decisions for all metrics and addresses: the   *)
(* election of one forwarder among the routers of a LAN rests on it.       *)
(***************************************************************************)
EXTENDS PimAssert, TLAPS

\* compare_metrics() never finds two metrics better than one another.
LEMMA BetterIsAsymmetric ==
  ASSUME NEW r \in Nat, NEW a \in Nat, NEW s \in Nat, NEW b \in Nat,
         CompareMetrics(r, a, s, b)
  PROVE  ~CompareMetrics(s, b, r, a)
BY DEF CompareMetrics

\* Of two routers, whose addresses differ, one always has the better metric.
LEMMA BetterIsTotal ==
  ASSUME NEW r \in Nat, NEW a \in Nat, NEW s \in Nat, NEW b \in Nat, a # b
  PROVE  CompareMetrics(r, a, s, b) \/ CompareMetrics(s, b, r, a)
BY DEF CompareMetrics

\* A metric better than a better one is better: the routers of a LAN have a
\* best one, and no Assert beats the best in a circle.
LEMMA BetterIsTransitive ==
  ASSUME NEW r \in Nat, NEW a \in Nat, NEW s \in Nat, NEW b \in Nat,
         NEW t \in Nat, NEW c \in Nat,
         CompareMetrics(r, a, s, b), CompareMetrics(s, b, t, c)
  PROVE  CompareMetrics(r, a, t, c)
BY DEF CompareMetrics

-----------------------------------------------------------------------------
Views == [wc : BOOLEAN, where : {"DOWNSTREAM", "UPSTREAM", "ELSEWHERE"},
          tracking : BOOLEAN, has_state : BOOLEAN, has_upstream : BOOLEAN,
          spt : BOOLEAN, is_winner : BOOLEAN, winner : Nat, win : Nat,
          my : Nat, my_addr : Nat, src : Nat, rank : Nat]

\* Two routers that forward onto the same LAN by the same tree read each
\* other's Asserts: the metric either holds for itself is in the Assert the
\* other reads.
Facing(v, w) ==
  /\ v.wc = w.wc /\ v.tracking /\ w.tracking
  /\ v.where = "DOWNSTREAM" /\ w.where = "DOWNSTREAM"
  /\ v.src = w.my_addr /\ v.rank = w.my /\ w.src = v.my_addr /\ w.rank = v.my
  /\ v.my_addr # w.my_addr
  /\ ~NotMine(v) /\ ~NotMine(w)

\* assert_decide(): two routers that are not losers and read each other's
\* Asserts of the same tree come to opposite decisions, one to send its own
\* and one to give way.  They never both stop forwarding, nor both go on.
THEOREM OneForwarder ==
  ASSUME NEW v \in Views, NEW w \in Views, Facing(v, w), ~IAmLoser(v), ~IAmLoser(w)
  PROVE  \/ AssertDecide(v) = "SEND" /\ AssertDecide(w) = "LOSE"
         \/ AssertDecide(v) = "LOSE" /\ AssertDecide(w) = "SEND"
<1>1. MineIsBetter(v) <=> ~MineIsBetter(w)
  BY BetterIsAsymmetric, BetterIsTotal DEF Views, Facing, MineIsBetter
<1>2. ASSUME NEW u \in {v, w}
      PROVE  AssertDecide(u) = IF MineIsBetter(u) THEN "SEND" ELSE "LOSE"
  <2>1. AssertDecide(u) = OtherDownstream(u)
    BY <1>2 DEF Facing, AssertDecide
  <2>2. /\ ~(u.wc /\ ~HasRptBit(u.rank))
        /\ ~(~u.wc /\ HasRptBit(u.rank) /\ ~u.spt /\ ~IAmWinner(u))
    BY <1>2 DEF Facing, NotMine, Views, HasRptBit
  <2> QED
    BY <1>2, <2>1, <2>2 DEF OtherDownstream, Facing
<1> QED
  BY <1>1, <1>2

\* assert_decide(), the loser's side: a Loser whose winner it does not beat
\* never comes, by another router's Assert or by its winner's own, to trust
\* a router that it beats.
THEOREM LoserYieldsToBetter ==
  ASSUME NEW v \in Views, IAmLoser(v), v.has_state, v.where = "DOWNSTREAM",
         v.winner # v.my_addr,
         ~CompareMetrics(v.my, v.my_addr, v.win, v.winner),
         AssertDecide(v) = "STORE"
  PROVE  ~MineIsBetter(v)
<1>1. LoserDownstream(v) = "STORE"
  BY DEF AssertDecide, Views
<1>2. CASE v.src = v.winner
  BY <1>1, <1>2 DEF LoserDownstream
<1>3. CASE v.src # v.winner
  <2>1. ~WinnerStands(v)
    BY <1>1, <1>3 DEF LoserDownstream
  <2>2. CompareMetrics(v.rank, v.src, v.win, v.winner)
    BY <1>3, <2>1, BetterIsTotal DEF WinnerStands, Views
  <2>3. CompareMetrics(v.win, v.winner, v.my, v.my_addr)
    BY BetterIsTotal DEF Views
  <2>4. CompareMetrics(v.rank, v.src, v.my, v.my_addr)
    BY <2>2, <2>3, BetterIsTransitive DEF Views
  <2> QED
    BY <2>4, BetterIsAsymmetric DEF MineIsBetter, Views
<1> QED
  BY <1>2, <1>3
=============================================================================
