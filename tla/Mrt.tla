-------------------------------- MODULE Mrt --------------------------------
(***************************************************************************)
(* One group and one source in the multicast routing table of a router     *)
(* (mrt.c, route.c): the entry of the shared tree `wc', the entry of the   *)
(* source `sg', and the kernel's forwarding entry `mfc', as operators on   *)
(* the record <<sg, wc, mfc>> called a table.  Several routers use them.   *)
(*                                                                         *)
(* Asserts and the machines of the source on the shared tree are subjects  *)
(* of AssertLan and JoinPrune: no interface is in asserted_oifs or in      *)
(* rpt_pruned_oifs here, and no source entry has its iif toward the RP.    *)
(***************************************************************************)
EXTENDS Integers, FiniteSets

CONSTANTS
    Reg,             \* PIMREG_VIF
    Src,             \* RPF_interface(S)
    Vifs,            \* every interface
    DataTimeout      \* PIM_DATA_TIMEOUT, in ticks

ASSUME MrtInterfaces == Reg # Src

(* `kc' is MRTF_KERNEL_CACHE, `base' and `sbase' that data_pktcnt and      *)
(* spt_pktcnt hold a count, `et' entry_timer and `rs' rs_timer.            *)
NoEntry == [on |-> FALSE, iif |-> Src, joined |-> {}, sgj |-> {}, leaves |-> {},
            pruned |-> {}, oifs |-> {}, spt |-> FALSE, kat |-> FALSE, kc |-> FALSE,
            base |-> FALSE, sbase |-> FALSE, et |-> 0, rs |-> 0]

NoMfc == [on |-> FALSE, iif |-> Src, oifs |-> {}]
EmptyTable == [sg |-> NoEntry, wc |-> NoEntry, mfc |-> NoMfc]

\* calc_oifs(): of the entry of the shared tree, and of a source entry e of t.
WcOifs(wc) == (wc.joined \ wc.pruned) \cup wc.leaves
SgOifs(t, e) == ((WcOifs(t.wc) \cup e.joined) \ e.pruned) \cup e.leaves

\* join_desired(): immediate_olist, or a Keepalive Timer and inherited_olist.
JoinDesired(t, e, direct) ==
    \/ e.sgj \ e.pruned # {}
    \/ e.leaves \ (t.wc.leaves \cup e.pruned) # {}
    \/ (e.kat \/ direct) /\ SgOifs(t, e) # {}

\* update_sptbit() for a packet on Src.  At the routers modelled the RP is
\* reached through another interface than Src, alternative (2) of the code.
UpdateSptbit(t, direct) ==
    IF t.sg.on /\ JoinDesired(t, t.sg, direct) THEN [t EXCEPT !.sg.spt = TRUE] ELSE t

\* k_chg_mfc(): the iif leaves the list handed in, and the entry is installed.
KChgMfc(t, iif, oifs) == [t EXCEPT !.mfc = [on |-> TRUE, iif |-> iif, oifs |-> oifs \ {iif}]]

\* k_chg_mfc() with the oifs of an entry of the table, which lose the iif too.
InstallSg(t) == [KChgMfc(t, t.sg.iif, t.sg.oifs) EXCEPT !.sg.oifs = @ \ {t.sg.iif}]
InstallWc(t) == KChgMfc(t, t.wc.iif, IF t.sg.on THEN WcOifs(t.wc) ELSE t.wc.oifs)

\* delete_mrtentry_all_kernel_cache()
DropSgCache(t) == IF t.sg.kc THEN [t EXCEPT !.sg.kc = FALSE, !.mfc = NoMfc] ELSE t
DropWcCache(t) == IF t.wc.kc THEN [t EXCEPT !.wc.kc = FALSE, !.mfc = NoMfc] ELSE t

\* An add_kernel_cache() that forgets to take the entry away from the shared tree.
CacheSgTwice(t) == [t EXCEPT !.sg.kc = TRUE]

\* add_kernel_cache(..., MFC_MOVE_FORCE) and move_kernel_cache() for the source
\* entry; for the shared tree's entry nothing is moved.
CacheSg(t) == [t EXCEPT !.sg.kc = TRUE, !.wc.kc = FALSE]
CacheWc(t) == [t EXCEPT !.wc.kc = TRUE]

(***************************************************************************)
(* change_interfaces() of the source entry, e being the entry with the     *)
(* fields the caller hands in.  SPTbit is cleared when JoinDesired(S,G)    *)
(* has gone; an empty list takes the kernel's entry with it; a source that *)
(* is forwarded through the shared tree's kernel entry has that refreshed. *)
(***************************************************************************)
ChangeSg(t, e, direct, force) ==
    LET oifs == SgOifs(t, e)
        spt  == e.spt /\ (oifs = {} \/ JoinDesired(t, e, direct))
        same == oifs = t.sg.oifs /\ e.iif = t.sg.iif /\ ~force
        new  == [t EXCEPT !.sg = [e EXCEPT !.oifs = oifs, !.spt = spt /\ oifs # {}]]
    IN  CASE same                          -> [t EXCEPT !.sg = [e EXCEPT !.spt = spt]]
          [] ~same /\ oifs = {}            -> IF t.sg.kc \/ ~t.wc.kc THEN DropSgCache(new)
                                                                     ELSE InstallWc(new)
          [] ~same /\ oifs # {} /\ t.sg.kc -> KChgMfc(new, e.iif, oifs)
          [] OTHER                         -> IF t.wc.kc THEN InstallWc(new) ELSE new

\* change_interfaces() of the shared tree's entry, and of its source entry.
ChangeWc(t, wc, direct) ==
    LET oifs == WcOifs(wc)
        new  == [t EXCEPT !.wc = [wc EXCEPT !.oifs = oifs]]
        pushed == CASE oifs = {} -> DropWcCache(new)
                    [] oifs # {} /\ wc.kc -> InstallWc(new)
                    [] OTHER -> new
    IN  IF oifs = t.wc.oifs THEN [t EXCEPT !.wc = wc]
        ELSE IF t.sg.on THEN ChangeSg(pushed, t.sg, direct, FALSE) ELSE pushed

(***************************************************************************)
(* find_route(..., MRTF_SG, CREATE) for a group whose RP, if any, is       *)
(* known: a new entry starts from a copy of the shared tree's, VOIF_COPY,  *)
(* whose kernel entry it leaves alone, the two iifs being different.       *)
(***************************************************************************)
FindSg(t) ==
    IF t.sg.on THEN t
    ELSE [t EXCEPT !.sg = [NoEntry EXCEPT !.on = TRUE, !.joined = t.wc.joined,
                             !.leaves = t.wc.leaves, !.pruned = t.wc.pruned,
                             !.oifs = t.wc.oifs]]

\* find_route(..., MRTF_WC, CREATE) at a router whose RP is reached through iif.
FindWc(t, iif) == IF t.wc.on THEN t
                  ELSE [t EXCEPT !.wc = [NoEntry EXCEPT !.on = TRUE, !.iif = iif]]

\* delete_mrtentry() of either entry.
DeleteSg(t) == [DropSgCache(t) EXCEPT !.sg = NoEntry]
DeleteWc(t) == [DropWcCache(t) EXCEPT !.wc = NoEntry]

\* add_leaf() and delete_leaf() of an any-source membership on interface v.
AddLeaf(t0, v, iif, direct) ==
    LET t == FindWc(t0, iif)
        u == ChangeWc(t, [t.wc EXCEPT !.leaves = @ \cup {v}], direct)
    IN  IF v \in t.wc.leaves THEN t
        ELSE IF u.sg.on THEN ChangeSg(u, [u.sg EXCEPT !.leaves = @ \cup {v}], direct, FALSE)
                        ELSE u
DeleteLeaf(t, v, direct) ==
    LET u == ChangeWc(t, [t.wc EXCEPT !.leaves = @ \ {v}], direct)
    IN  IF v \notin t.wc.leaves THEN t
        ELSE IF u.sg.on THEN ChangeSg(u, [u.sg EXCEPT !.leaves = @ \ {v}], direct, FALSE)
                        ELSE u

\* switch_shortest_path(): CheckSwitchToSpt(S,G) starts the Keepalive Timer.
SwitchShortestPath(t) ==
    LET u == FindSg(t) IN [u EXCEPT !.sg.et = DataTimeout, !.sg.kat = TRUE]

(***************************************************************************)
(* process_cache_miss() once the entry is found (or made, for a source the *)
(* router is the DR of, by the caller): the packet came in on iif.         *)
(***************************************************************************)
Missed(t, iif, direct) ==
    LET fresh == [t EXCEPT !.sg.et = DataTimeout]
    IN  CASE t.sg.on /\ iif = Src ->
               IF t.sg.oifs = {} THEN fresh
               ELSE InstallSg(CacheSg(UpdateSptbit(fresh, direct)))
          [] t.sg.on /\ iif # Src ->
               IF ~t.sg.spt /\ t.wc.on /\ t.wc.iif = iif THEN InstallWc(CacheWc(t)) ELSE t
          [] ~t.sg.on /\ t.wc.on /\ t.wc.iif = iif ->
               IF t.wc.oifs = {} THEN t ELSE InstallWc(CacheWc(t))
          [] OTHER -> t

\* process_wrong_iif(): data from S on RPF_interface(S) moves the kernel's entry
\* to the source tree; a packet on the register interface is ignored.
WrongIif(t, iif, direct) ==
    LET u == UpdateSptbit(t, direct)
    IN  IF iif # Src \/ ~t.sg.on THEN t
        ELSE IF u.sg.spt THEN InstallSg(CacheSg(u)) ELSE u

\* The kernel has no entry, one with another parent, or one that forwards.
Miss(t) == ~t.mfc.on
Wrong(t, iif) == t.mfc.on /\ t.mfc.iif # iif
Forwards(t, iif) == IF t.mfc.on /\ t.mfc.iif = iif THEN t.mfc.oifs ELSE {}

\* A packet on iif at a router that is not the DR of its source: the table after
\* it.  A packet the kernel queued on a miss is forwarded by the entry it gets.
Arrives(t, iif) == CASE Miss(t)       -> Missed(t, iif, FALSE)
                     [] Wrong(t, iif) -> WrongIif(t, iif, FALSE)
                     [] OTHER         -> t

(***************************************************************************)
(* check_data_from_source(): the kernel counted packets of the source      *)
(* entry's kernel entry since the last pass.                               *)
(***************************************************************************)
CheckKeepalive(t, direct) ==
    IF direct \/ (JoinDesired(t, t.sg, FALSE) /\ SgOifs(t, t.sg) # {})
    THEN [t EXCEPT !.sg.et = DataTimeout, !.sg.kat = TRUE] ELSE t
CheckSptbit(t, direct) ==
    IF t.sg.spt \/ ~JoinDesired(t, t.sg, direct) THEN t
    ELSE [(IF t.sg.sbase THEN UpdateSptbit(t, direct) ELSE t) EXCEPT !.sg.sbase = TRUE]
CheckData(t, moved, direct) ==
    IF ~t.sg.on \/ ~t.sg.kc \/ ~moved THEN t
    ELSE LET u == IF t.sg.base THEN CheckKeepalive(t, direct) ELSE t
         IN  CheckSptbit([u EXCEPT !.sg.base = TRUE], direct)

\* check_spt_threshold() with a threshold of zero, for either entry.
SptThreshold(t, e, moved) ==
    IF e.on /\ e.kc /\ moved /\ (e.leaves \cap e.oifs # {} \/ e.iif = Reg)
    THEN SwitchShortestPath(t) ELSE t

\* age_route_sg() from the Keepalive Timer on: what has run out is deleted,
\* unless a Join(S,G) wants it or its leaves are its own.
AgeSg(t) ==
    LET et == IF t.sg.et > 0 THEN t.sg.et - 1 ELSE 0
        gone == t.sg.leaves = {} \/ t.wc.leaves \cap t.sg.leaves # {}
    IN  CASE ~t.sg.on -> t
          [] t.sg.on /\ et > 0 -> [t EXCEPT !.sg.et = et]
          [] t.sg.on /\ et = 0 /\ t.sg.sgj # {} -> [t EXCEPT !.sg.et = DataTimeout]
          [] OTHER -> IF gone THEN DeleteSg(t) ELSE [t EXCEPT !.sg.et = 0]

\* age_routes_pass(): the shared tree's entry, which goes when it has no leaves.
AgeWc(t) == IF t.wc.on /\ t.wc.leaves = {} THEN DeleteWc(t) ELSE t

\* A table whose fields are of their types, Ticks being the suppression timer's.
Entry(Ticks) ==
    [on : BOOLEAN, iif : {Src, Reg}, joined : SUBSET Vifs, sgj : SUBSET Vifs,
     leaves : SUBSET Vifs, pruned : SUBSET Vifs, oifs : SUBSET Vifs, spt : BOOLEAN,
     kat : BOOLEAN, kc : BOOLEAN, base : BOOLEAN, sbase : BOOLEAN,
     et : 0..DataTimeout, rs : Ticks]
=============================================================================
