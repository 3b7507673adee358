-------------------------------- MODULE PimJp --------------------------------
(***************************************************************************)
(* The downstream Join/Prune machines of an interface (src/pim_jp.c): a    *)
(* state and an event in, an action out.  The machine of the shared tree   *)
(* and that of the source tree are one table; the third is that of a       *)
(* source pruned off the shared tree, "rpt".                               *)
(***************************************************************************)
EXTENDS Naturals

DsStates  == {"NI", "J", "PP"}

\* jp_act(): the next state, what becomes of the Expiry Timer and of the
\* Prune-Pending Timer, and whether a PruneEcho goes.
Act(state, et, ppt, echo) == [state |-> state, et |-> et, ppt |-> ppt, echo |-> echo]
Stay(state) == Act(state, "KEEP", "KEEP", FALSE)

\* Mutant: a Join leaves the Prune-Pending Timer running.
JpDsDecidePending(state, event, ppt_zero) ==
  CASE event = "JOIN" /\ state = "NI"  -> Act("J", "SET", "KEEP", FALSE)
    [] event = "JOIN" /\ state # "NI"  -> Act(state, "MAX", "KEEP", FALSE)
    [] event = "PRUNE" /\ state = "J"  -> Act("PP", "KEEP", "START", FALSE)
    [] event = "PPT" /\ state = "PP"   -> Act("NI", "CANCEL", "KEEP", TRUE)
    [] event = "ET" /\ state # "NI"    -> Act("NI", "KEEP", "KEEP", FALSE)
    [] OTHER -> Stay(state)

\* Mutant: the Prune-Pending Timer ends without a PruneEcho.
JpDsDecideSilent(state, event, ppt_zero) ==
  CASE event = "JOIN" /\ state = "NI"  -> Act("J", "SET", "KEEP", FALSE)
    [] event = "JOIN" /\ state = "PP"  -> Act("J", "MAX", "CANCEL", FALSE)
    [] event = "JOIN" /\ state = "J"   -> Act("J", "MAX", "KEEP", FALSE)
    [] event = "PRUNE" /\ state = "J"  -> Act("PP", "KEEP", "START", FALSE)
    [] event = "PPT" /\ state = "PP"   -> Act("NI", "CANCEL", "KEEP", FALSE)
    [] event = "ET" /\ state # "NI"    -> Act("NI", "KEEP", "KEEP", FALSE)
    [] OTHER -> Stay(state)

\* jp_ds_decide()
JpDsDecide(state, event, ppt_zero) ==
  CASE event = "JOIN" /\ state = "NI"  -> Act("J", "SET", "KEEP", FALSE)
    [] event = "JOIN" /\ state = "PP"  -> Act("J", "MAX", "CANCEL", FALSE)
    [] event = "JOIN" /\ state = "J"   -> Act("J", "MAX", "KEEP", FALSE)
    [] event = "PRUNE" /\ state = "J"  -> IF ppt_zero
                                          THEN Act("NI", "CANCEL", "KEEP", FALSE)
                                          ELSE Act("PP", "KEEP", "START", FALSE)
    [] event = "PPT" /\ state = "PP"   -> Act("NI", "CANCEL", "KEEP", TRUE)
    [] event = "ET" /\ state = "PP"    -> Act("NI", "KEEP", "CANCEL", FALSE)
    [] event = "ET" /\ state = "J"     -> Act("NI", "KEEP", "KEEP", FALSE)
    [] OTHER -> Stay(state)

\* rpt_ds_decide(): PT and PPT last while one message is read, between its
\* Join(*,G) and a Prune(S,G,rpt) in it, or its end, EOM.
RptDsDecide(state, event, ppt_zero) ==
  CASE event = "JOIN_WC" /\ state = "P"   -> Act("PT", "KEEP", "KEEP", FALSE)
    [] event = "JOIN_WC" /\ state = "PP"  -> Act("PPT", "KEEP", "KEEP", FALSE)
    [] event = "JOIN_RPT" /\ state \in {"P", "PP"} ->
         Act("NI", "CANCEL", "CANCEL", FALSE)
    [] event = "PRUNE_RPT" /\ state = "NI" -> IF ppt_zero
                                              THEN Act("P", "SET", "KEEP", FALSE)
                                              ELSE Act("PP", "SET", "START", FALSE)
    [] event = "PRUNE_RPT" /\ state \in {"P", "PT"} -> Act("P", "MAX", "KEEP", FALSE)
    [] event = "PRUNE_RPT" /\ state = "PPT" -> Act("PP", "MAX", "KEEP", FALSE)
    [] event = "EOM" /\ state = "PT"      -> Act("NI", "CANCEL", "KEEP", FALSE)
    [] event = "EOM" /\ state = "PPT"     -> Act("NI", "CANCEL", "CANCEL", FALSE)
    [] event = "PPT" /\ state = "PP"      -> Act("P", "KEEP", "KEEP", FALSE)
    [] event = "ET" /\ state = "P"        -> Act("NI", "KEEP", "KEEP", FALSE)
    [] OTHER -> Stay(state)

\* jp_et_after() and rpt_et_after(): the Expiry Timer an action leaves.  A
\* HoldTime that never ends is not modelled.
EtAfter(et, cur, holdtime) ==
  CASE et = "SET" \/ (et = "MAX" /\ cur < holdtime) -> holdtime
    [] et = "CANCEL" -> 0
    [] OTHER -> cur
=============================================================================
