----------------------------- MODULE MCRegister -----------------------------
(***************************************************************************)
(* Register with a DR and two RPs, for TLC: one RP, a set of the two, and  *)
(* a set the DR is a member of; with the threshold of RP "a" zero, or      *)
(* infinite.                                                               *)
(***************************************************************************)
EXTENDS Register

MCScenarios == [members : {{}, {"a", "b"}, {"dr", "b"}}, zero : BOOLEAN]
=============================================================================
