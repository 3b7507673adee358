------------------------------ MODULE PimAssert ------------------------------
(***************************************************************************)
(* The Assert decisions that read no state (src/pim_assert.c).             *)
(*                                                                         *)
(* A preference and a metric are compared one after the other, the RPT bit *)
(* being the top bit of the preference: together they are one rank, a      *)
(* number of which a lower one is better.  Ranks from RPT_BIT up carry the *)
(* bit.  Addresses are numbers, 0 standing for none.                       *)
(***************************************************************************)
EXTENDS Naturals

RPT_BIT  == 8
INFINITE == RPT_BIT + 7
Ranks    == 0..INFINITE

HasRptBit(rank) == rank >= RPT_BIT

\* Mutant: the addresses do not break a tie.
CompareMetricsTied(rank, addr, otherRank, otherAddr) == rank < otherRank

\* compare_metrics(): does the first metric beat the second?
CompareMetrics(rank, addr, otherRank, otherAddr) ==
  \/ rank < otherRank
  \/ rank = otherRank /\ addr > otherAddr

-----------------------------------------------------------------------------
\* struct assert_view: wc, where, tracking, has_state, has_upstream, spt, then
\* the state held (winner, is_winner, win), the local metric (my, my_addr) and
\* the message (src, rank).
IAmWinner(v) == v.winner # 0 /\ v.is_winner
IAmLoser(v)  == v.winner # 0 /\ ~v.is_winner

MineIsBetter(v)  == CompareMetrics(v.my, v.my_addr, v.rank, v.src)
Preferred(v)     == CompareMetrics(v.rank, v.src, v.win, v.winner)
WinnerStands(v)  == CompareMetrics(v.win, v.winner, v.rank, v.src)
\* Asserts with the RPT bit are the (*,G) machine's, the others the (S,G)'s.
NotMine(v)       == v.wc # HasRptBit(v.rank)

LoserDownstream(v) ==
  IF v.src = v.winner
  THEN CASE MineIsBetter(v) -> "CLEAR"
         [] ~MineIsBetter(v) /\ Preferred(v) /\ (~v.wc \/ HasRptBit(v.rank)) -> "STORE"
         [] OTHER -> IF NotMine(v) THEN "NONE" ELSE "STORE"
  ELSE IF (v.wc /\ ~HasRptBit(v.rank)) \/ WinnerStands(v) THEN "NONE" ELSE "STORE"

OtherDownstream(v) ==
  CASE \/ v.wc /\ ~HasRptBit(v.rank)
       \/ ~v.wc /\ HasRptBit(v.rank) /\ ~v.spt /\ ~IAmWinner(v) -> "NONE"
    [] OTHER -> IF MineIsBetter(v) THEN "SEND"
                ELSE IF NotMine(v) THEN "NONE" ELSE "LOSE"

OnUpstream(v) ==
  CASE IAmLoser(v) /\ v.src = v.winner /\ v.rank = INFINITE -> "CLEAR"
    [] ~(IAmLoser(v) /\ v.src = v.winner /\ v.rank = INFINITE)
       /\ (NotMine(v) \/ ~v.has_upstream \/ ~v.has_state) -> "NONE"
    [] OTHER ->
         IF v.winner # 0
         THEN IF v.src = v.winner THEN "STORE"
              ELSE IF WinnerStands(v) THEN "NONE" ELSE "FOLLOW"
         ELSE IF v.rank = INFINITE THEN "NONE" ELSE "FOLLOW"

\* assert_decide(): one Assert, received on one interface, through one of the
\* two machines.
AssertDecide(v) ==
  CASE ~v.tracking \/ v.where = "ELSEWHERE" -> "NONE"
    [] v.tracking /\ v.where = "DOWNSTREAM" ->
         IF v.has_state /\ IAmLoser(v) THEN LoserDownstream(v) ELSE OtherDownstream(v)
    [] v.tracking /\ v.where = "UPSTREAM" -> OnUpstream(v)

\* assert_rc(): what the decision was, for the order of the two machines.
AssertRc(act, rank) ==
  CASE act = "NONE" -> "NOTHING"
    [] act = "CLEAR" /\ rank = INFINITE -> "CANCELLED"
    [] OTHER -> "MOVED"

\* assert_wc_may_run(): may the (*,G) machine have an Assert the (S,G) machine
\* has had?
AssertWcMayRun(sgHeld, sgRc) ==
  sgRc = "CANCELLED" \/ (sgRc = "NOTHING" /\ ~sgHeld)
=============================================================================
