----------------------------- MODULE MCNeighbors -----------------------------
(***************************************************************************)
(* Instance of Neighbors: two routers that are neighbors, and one to come. *)
(***************************************************************************)
EXTENDS Neighbors, TLC

\* Router 2 is the DR by its address.
MCRunning == 1 :> 1 @@ 2 :> 1
=============================================================================
