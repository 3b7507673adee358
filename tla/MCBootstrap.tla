---------------------------- MODULE MCBootstrap ----------------------------
(***************************************************************************)
(* Two Candidate-BSRs, 1 and 3, and a router between them.                 *)
(***************************************************************************)
EXTENDS Bootstrap

MCAdjacent == <<{2}, {1, 3}, {2}>>
MCToward == <<<<0, 2, 2>>, <<1, 0, 3>>, <<2, 2, 0>>>>

\* 3 is the better one by its priority, or by its address, or 1 is by its
\* priority; the Candidate-RP is 2, 1 or 3.
MCScenarios == {[prio |-> <<0, 0, 1>>, crp |-> 2], [prio |-> <<1, 0, 1>>, crp |-> 1],
                [prio |-> <<8, 0, 1>>, crp |-> 3]}

\* A message is lost, or a router or its address goes.
MCBudgets == {[losses |-> 1, faults |-> 0], [losses |-> 0, faults |-> 1]}
=============================================================================
