----------------------------- MODULE MCAssertLan -----------------------------
(***************************************************************************)
(* Instances of AssertLan: routers 1 and 2 forward to the LAN, 3 takes the *)
(* group from it.                                                          *)
(***************************************************************************)
EXTENDS AssertLan

\* 1 has the better route to the source; their routes to the RP are equal, and the
\* higher address, 2's, decides.
MCRpRank  == [r \in All |-> RPT_BIT + 1]
MCSrcRank == [r \in All |-> IF r = 1 THEN 1 ELSE 2]

\* 3's routes lead over 1.
MCMrib == [d \in Downs |-> [m \in {"wc", "sg"} |-> 1]]

\* Two changes anywhere on a LAN that loses nothing, one with two losses or restarts,
\* and three at the DR: members come, it goes over to S's tree, and S pauses.
MCBudgets == {[at |-> All, changes |-> 2, losses |-> 0],
              [at |-> All, changes |-> 1, losses |-> 2],
              [at |-> {DR}, changes |-> 3, losses |-> 0]}
=============================================================================
