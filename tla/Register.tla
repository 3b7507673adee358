------------------------------ MODULE Register ------------------------------
(***************************************************************************)
(* A source, its designated router Dr, and the routers Rps that are, or    *)
(* may be, the RP of the group: Registers, Null-Registers, Register-Stops  *)
(* and their suppression (pim_proto.c, route.c), copies among the members  *)
(* of an Anycast-RP set, the switch to the source tree that ends it all,   *)
(* and the receivers on an interface Out of each RP.                       *)
(*                                                                         *)
(* Dr reaches each RP over a link of its own, the interface named after    *)
(* the RP.  Registers and Register-Stops are unicast, and may be lost or   *)
(* overtake one another; all of it takes less than a tick.  Join(S,G) and  *)
(* native packets cross the link in one step, JoinPrune being about them.  *)
(***************************************************************************)
EXTENDS Mrt

CONSTANTS
    Dr, Rps,           \* the routers; Dr may be a member of a set itself
    Out,               \* the interface with local members
    Any,               \* the Anycast-RP address
    Scenarios,         \* [members, zero]: the set, {} for none, and whether
                       \* the SPT threshold of the RPs is zero, or infinity
    MaxTtl,            \* MAXTTL
    RsMin, RsMax,      \* the random range of the Register-Suppression timer
    Probe,             \* PIM_REGISTER_PROBE_TIME
    MaxLosses,         \* bound: Registers and Register-Stops lost
    MaxChanges,        \* bound: changes of receivers, routes, RPs and DRs
    MaxGap             \* bound: what the counters of ticks saturate at

ASSUME RegisterTimes == /\ {MaxTtl, RsMin, RsMax, Probe, DataTimeout} \subseteq Nat \ {0}
                        /\ Probe < RsMin /\ RsMin <= RsMax /\ RsMax < DataTimeout
ASSUME RegisterRouters == Dr \notin Rps

VARIABLES
    scenario,      \* the member of Scenarios, never changes
    rt,            \* router |-> its table
    net,           \* unicast messages in flight
    near,          \* the member the Anycast-RP address leads to
    covered,       \* Dr knows an RP for the group
    dr,            \* VIFF_DR of Dr on the source's link
    recv,          \* the routers with local members on Out
    sending,       \* the source is active
    sent,          \* it has sent a packet this tick
    moved,         \* routers whose kernel forwarded the source this tick
    got,           \* routers that forwarded a packet to Out this tick
    gap,           \* history: ticks members on Out have gone without packets since
                   \* the last change around them
    losses, changes

vars == <<scenario, rt, net, near, covered, dr, recv, sending, sent, moved, got,
          gap, losses, changes>>

Routers == {Dr} \cup Rps
Members == scenario.members

\* The address the group's RP has: that of the set, or of the only RP.
RpAddress == IF Members = {} THEN CHOOSE r \in Rps : TRUE ELSE Any
IAmRp(r, a) == a = r \/ (a = Any /\ r \in Members)         \* i_am_rp()
Peers(r) == IF r \in Members THEN Members \ {r} ELSE {}    \* anycast_rp_peers()
IsRp(r) == IAmRp(r, RpAddress)
Lead(a) == IF a = Any THEN near ELSE a

Message == [t : {"data", "null"}, from : Routers, to : Routers \cup {Any}, at : Routers,
            ttl : 1..MaxTtl]
           \cup [t : {"stop"}, from : Routers \cup {Any}, at : Routers]

TypeOK ==
    /\ scenario \in Scenarios
    /\ rt \in [Routers -> [sg : Entry(0..RsMax), wc : Entry({0}),
                           mfc : [on : BOOLEAN, iif : {Src, Reg}, oifs : SUBSET Vifs]]]
    /\ net \subseteq Message
    /\ near \in Rps \cup {Dr}
    /\ covered \in BOOLEAN /\ dr \in BOOLEAN /\ sending \in BOOLEAN /\ sent \in BOOLEAN
    /\ recv \subseteq Routers /\ moved \subseteq Routers /\ got \subseteq Routers
    /\ gap \in [Routers -> 0..MaxGap]
    /\ losses \in 0..MaxLosses /\ changes \in 0..MaxChanges

Init ==
    /\ scenario \in Scenarios
    /\ rt = [r \in Routers |-> EmptyTable]
    /\ net = {}
    /\ near \in IF Members = {} THEN {RpAddress} ELSE Members
    /\ covered = TRUE /\ dr = TRUE /\ sending = TRUE /\ sent = FALSE
    /\ recv = {} /\ moved = {} /\ got = {}
    /\ gap = [r \in Routers |-> 0]
    /\ losses = 0 /\ changes = 0

-----------------------------------------------------------------------------
(* The DR's side.                                                          *)

\* register_to_set(): one Register per other member, from Dr's own address.
RegisterToSet(kind) ==
    {[t |-> kind, from |-> Dr, to |-> m, at |-> m, ttl |-> MaxTtl] : m \in Peers(Dr)}

\* What send_pim_register() and send_pim_null_register() put on the wire.
Registers(kind) ==
    IF ~covered THEN {}
    ELSE IF IsRp(Dr) THEN RegisterToSet(kind)
    ELSE {[t |-> kind, from |-> Dr, to |-> RpAddress, at |-> Lead(RpAddress), ttl |-> MaxTtl]}

\* process_cache_miss() for a source the router is the DR of: the register
\* interface is joined where a Register could follow.
LocalMiss(t) ==
    LET u == FindSg(t)
        registers == covered /\ (~IsRp(Dr) \/ Peers(Dr) # {})
    IN  ChangeSg(u, [u.sg EXCEPT !.joined = IF registers THEN @ \cup {Reg} ELSE @],
                 TRUE, FALSE)

\* send_pim_register() after the upcall: the entry is fresh, and the packet goes
\* out unless the suppression timer runs.
SendRegister(t) == IF dr /\ covered THEN [FindSg(t) EXCEPT !.sg.et = DataTimeout] ELSE t
Encapsulated(t) == IF dr /\ t.sg.rs = 0 THEN Registers("data") ELSE {}

(***************************************************************************)
(* A packet of the source: the kernel of Dr forwards it, or hands it up;   *)
(* what leaves over a link arrives at the RP there.                        *)
(***************************************************************************)
Packet ==
    LET t == rt[Dr]
        u == CASE Miss(t)       -> Missed(IF dr THEN LocalMiss(t) ELSE t, Src, TRUE)
               [] Wrong(t, Src) -> WrongIif(t, Src, TRUE)
               [] OTHER         -> t
        out == Forwards(u, Src)
        fed == out \cap Rps
        new == [r \in Routers |-> CASE r = Dr    -> IF Reg \in out THEN SendRegister(u) ELSE u
                                    [] r \in fed -> Arrives(rt[r], Src)
                                    [] OTHER     -> rt[r]]
    IN  /\ sending
        /\ sent' = TRUE
        /\ rt' = new
        /\ net' = IF Reg \in out THEN net \cup Encapsulated(u) ELSE net
        /\ moved' = moved \cup {r \in fed : Forwards(new[r], Src) # {}}
                          \cup (IF out = {} THEN {} ELSE {Dr})
        /\ got' = got \cup {r \in fed : Out \in Forwards(new[r], Src)}
                      \cup (IF Out \in out THEN {Dr} ELSE {})
        /\ UNCHANGED <<scenario, near, covered, dr, recv, sending, gap,
                       losses, changes>>

\* suppress_register()
Suppressed(t, rs) ==
    ChangeSg(t, [t.sg EXCEPT !.rs = rs, !.pruned = @ \cup {Reg}], TRUE, FALSE)

\* receive_pim_register_stop(): from the RP of the group, or from another member
\* of the set this router registers to.
ReceiveStop(m) ==
    LET r == m.at
        t == rt[r]
        knows == IF r = Dr THEN covered ELSE TRUE
        rp    == knows /\ m.from = RpAddress
        set   == knows /\ Reg \in t.sg.joined /\ IsRp(r) /\ m.from \in Members \ {r}
    IN  /\ m.t = "stop"
        /\ net' = net \ {m}
        /\ IF t.sg.on /\ (rp \/ set)
             THEN \E rs \in RsMin..RsMax : rt' = [rt EXCEPT ![r] = Suppressed(t, rs)]
             ELSE UNCHANGED rt
        /\ UNCHANGED <<scenario, near, covered, dr, recv, sending, sent, moved, got, gap,
                       losses, changes>>

-----------------------------------------------------------------------------
(* The RP's side.                                                          *)

\* register_rp_address() says a Register is a copy from another member.
IsCopy(r, m) == m.to # RpAddress /\ m.from \in Members /\ m.to \in Members /\ IsRp(r)

\* The address the Register stands for.
StandsFor(r, m) == IF IsCopy(r, m) THEN RpAddress ELSE m.to

\* A copy_register_to_set() that sends copies on.
CopiesAgain(r, m, whole) ==
    IF IsRp(r) /\ Members # {} /\ m.ttl > 1
    THEN {[t |-> m.t, from |-> r, to |-> p, at |-> p, ttl |-> m.ttl - 1] : p \in Peers(r)}
    ELSE {}

\* copy_register_to_set() and the test before it: to every other member, with one
\* TTL less, and without the packet past the data budget.
Copies(r, m, whole) ==
    IF ~IsCopy(r, m) /\ m.to = RpAddress /\ IAmRp(r, m.to) /\ Members # {}
       /\ m.from \notin Members /\ m.ttl > 1
    THEN {[t |-> IF whole THEN m.t ELSE "null", from |-> r, to |-> p, at |-> p,
           ttl |-> m.ttl - 1] : p \in Peers(r)}
    ELSE {}

\* register_sg_entry() and register_sg_state()
RegisterSgEntry(t) == IF t.sg.on THEN t
                      ELSE LET u == FindSg(t) IN ChangeSg(u, u.sg, FALSE, FALSE)
RegisterSgState(t) ==
    [RegisterSgEntry(t) EXCEPT !.sg.et = DataTimeout, !.sg.kat = @ \/ scenario.zero]

(***************************************************************************)
(* receive_pim_register() after the copies: the table it leaves, and       *)
(* whether it answers with a Register-Stop.                                *)
(***************************************************************************)
Answer(r, m, t) ==
    LET copy  == IsCopy(r, m)
        rp    == IAmRp(r, m.to) /\ StandsFor(r, m) = RpAddress
        fresh == [t EXCEPT !.sg.et = DataTimeout]
        switched == IF copy /\ SgOifs(fresh, fresh.sg) # {} THEN SwitchShortestPath(fresh)
                                                            ELSE fresh
    IN  CASE ~rp -> [table |-> t, stop |-> TRUE]
          [] rp /\ ~t.wc.on -> [table |-> RegisterSgState(t), stop |-> scenario.zero]
          [] rp /\ t.wc.on /\ t.sg.on /\ t.sg.spt -> [table |-> fresh, stop |-> TRUE]
          [] rp /\ t.wc.on /\ t.sg.on /\ ~t.sg.spt ->
               IF m.t = "data" /\ SgOifs(fresh, fresh.sg) = {}
               THEN [table |-> IF scenario.zero THEN SwitchShortestPath(fresh) ELSE fresh,
                     stop |-> TRUE]
               ELSE [table |-> switched, stop |-> FALSE]
          [] rp /\ t.wc.on /\ ~t.sg.on /\ WcOifs(t.wc) = {} ->
               [table |-> RegisterSgState(t), stop |-> scenario.zero]
          [] OTHER ->
               LET k == IF m.t = "data" THEN InstallWc(CacheWc(t)) ELSE t
               IN  [table |-> IF copy THEN SwitchShortestPath(RegisterSgEntry(k)) ELSE k,
                    stop |-> FALSE]

\* receive_pim_register(): the kernel has decapsulated the packet onto Reg first.
ReceiveRegister(m) ==
    LET r == m.at
        t == IF m.t = "data" THEN Arrives(rt[r], Reg) ELSE rt[r]
        a == Answer(r, m, t)
        out == IF m.t = "data" THEN Forwards(t, Reg) ELSE {}
    IN  /\ m.t \in {"data", "null"}
        /\ \E whole \in BOOLEAN :
              net' = (net \ {m}) \cup Copies(r, m, whole)
                     \cup (IF a.stop THEN {[t |-> "stop", from |-> m.to, at |-> m.from]} ELSE {})
        /\ rt' = [rt EXCEPT ![r] = a.table]
        /\ moved' = IF out # {} THEN moved \cup {r} ELSE moved
        /\ got' = IF Out \in out THEN got \cup {r} ELSE got
        /\ UNCHANGED <<scenario, near, covered, dr, recv, sending, sent, gap,
                       losses, changes>>

Lose(m) ==
    /\ losses < MaxLosses
    /\ losses' = losses + 1
    /\ net' = net \ {m}
    /\ UNCHANGED <<scenario, rt, near, covered, dr, recv, sending, sent, moved, got, gap,
                   changes>>

\* jp_timer_expire_sg(): the Join(S,G) or Prune(S,G) an RP owes Dr, and what Dr
\* makes of it.
Wants(r) == rt[r].sg.on /\ JoinDesired(rt[r], rt[r].sg, FALSE)
JoinPruneSg(r) ==
    LET t == IF Wants(r) THEN FindSg(rt[Dr]) ELSE rt[Dr]
        e == IF Wants(r)
             THEN [t.sg EXCEPT !.joined = @ \cup {r}, !.sgj = @ \cup {r},
                               !.et = IF @ = 0 THEN DataTimeout ELSE @]
             ELSE [t.sg EXCEPT !.joined = @ \ {r}, !.sgj = @ \ {r}]
    IN  /\ r # Dr
        /\ Wants(r) # (r \in rt[Dr].sg.sgj)
        /\ rt' = [rt EXCEPT ![Dr] = ChangeSg(t, e, TRUE, FALSE)]
        /\ UNCHANGED <<scenario, net, near, covered, dr, recv, sending, sent, moved, got, gap,
                       losses, changes>>

-----------------------------------------------------------------------------
(* The tick.                                                               *)

\* An expiry that forgets the interface it pruned.
AgeSuppressionKeepsPrune(t) == IF t.sg.rs = 0 THEN t ELSE [t EXCEPT !.sg.rs = @ - 1]

\* age_route_sg(), the Register-Suppression timer.
AgeSuppression(t) ==
    CASE t.sg.rs = 0 -> t
      [] t.sg.rs = 1 -> ChangeSg(t, [t.sg EXCEPT !.rs = 0, !.pruned = @ \ {Reg}], TRUE, FALSE)
      [] OTHER       -> [t EXCEPT !.sg.rs = @ - 1]
Probed(t) == t.sg.rs > 1 /\ t.sg.rs - 1 <= Probe

\* age_routes_pass() at router r: the shared tree's entry, then the source's.
Aged(r, t) ==
    LET m == r \in moved
        direct == r = Dr
        w == AgeWc(IF scenario.zero THEN SptThreshold(t, t.wc, m) ELSE t)
        s == IF scenario.zero THEN SptThreshold(w, w.sg, m) ELSE w
    IN  AgeSg(AgeSuppression(CheckData(s, m, direct)))

\* Dr owes the RP the source's packets, and it is only the next packet it waits for.
Due == sending /\ dr /\ covered /\ (~IsRp(Dr) \/ Peers(Dr) # {})
Registering == Due /\ (Reg \in rt[Dr].sg.joined \/ ~rt[Dr].mfc.on)

Count(n) == IF n < MaxGap THEN n + 1 ELSE n

\* Less than a tick passes from a message to its answer, and the source sends in
\* every tick.
Tick ==
    /\ net = {}
    /\ sending => sent
    /\ \A r \in Rps : Wants(r) = (r \in rt[Dr].sg.sgj)
    /\ rt' = [r \in Routers |-> Aged(r, rt[r])]
    /\ net' = IF Probed(rt[Dr]) THEN Registers("null") ELSE {}
    /\ gap' = [r \in Routers |->
                 IF r \in got \/ r \notin recv \/ ~IsRp(r) \/ ~Registering THEN 0
                 ELSE Count(gap[r])]
    /\ sent' = FALSE /\ moved' = {} /\ got' = {}
    /\ UNCHANGED <<scenario, near, covered, dr, recv, sending, losses, changes>>

-----------------------------------------------------------------------------
(* What changes around them.                                               *)

Change == /\ changes < MaxChanges
          /\ changes' = changes + 1
          /\ gap' = [r \in Routers |-> 0]

\* A host joins or leaves on Out of an RP: add_leaf() and delete_leaf().
Join(r) ==
    /\ Change /\ IsRp(r) /\ r \notin recv /\ (r = Dr => covered)
    /\ recv' = recv \cup {r}
    /\ rt' = [rt EXCEPT ![r] = AddLeaf(@, Out, Reg, r = Dr)]
    /\ UNCHANGED <<scenario, net, near, covered, dr, sending, sent, moved, got,
                   losses>>
Leave(r) ==
    /\ Change /\ r \in recv
    /\ recv' = recv \ {r}
    /\ rt' = [rt EXCEPT ![r] = DeleteLeaf(@, Out, r = Dr)]
    /\ UNCHANGED <<scenario, net, near, covered, dr, sending, sent, moved, got,
                   losses>>

\* Unicast routing prefers another member for the Anycast-RP address.
Reroute ==
    /\ Change
    /\ \E m \in Members \ {near} : near' = m
    /\ UNCHANGED <<scenario, rt, net, covered, dr, recv, sending, sent, moved, got,
                   losses>>

\* remap_grpentry() finds no RP: grp_keep_without_rp() keeps the source entry and
\* takes the register interface and its suppression out.
LoseRp ==
    LET t == DeleteWc(rt[Dr])
    IN  /\ Change /\ covered
        /\ covered' = FALSE
        /\ rt' = [rt EXCEPT ![Dr] =
                    IF ~t.sg.on THEN t
                    ELSE ChangeSg(t, [t.sg EXCEPT !.joined = @ \ {Reg}, !.pruned = @ \ {Reg},
                                                  !.rs = 0], TRUE, TRUE)]
        /\ UNCHANGED <<scenario, net, near, dr, recv, sending, sent, moved, got,
                       losses>>

\* add_rp_grp_entry_from(): the group gains an RP, and igmp_resync_leaves().
GainRp ==
    /\ ~covered
    /\ covered' = TRUE
    /\ rt' = [rt EXCEPT ![Dr] = IF Dr \in recv THEN AddLeaf(@, Out, Reg, TRUE) ELSE @]
    /\ UNCHANGED <<scenario, net, near, dr, recv, sending, sent, moved, got, gap,
                   losses, changes>>

\* The election is lost: receive_pim_hello() takes the register interface out of
\* the entries of the link's sources, delete_pim_nbr() does not.
LoseDr ==
    LET t == rt[Dr]
    IN  /\ Change /\ dr
        /\ dr' = FALSE
        /\ \/ t.sg.on /\ rt' = [rt EXCEPT ![Dr] =
                 ChangeSg(t, [t.sg EXCEPT !.joined = @ \ {Reg}], TRUE, FALSE)]
           \/ UNCHANGED rt
        /\ UNCHANGED <<scenario, net, near, covered, recv, sending, sent, moved, got,
                       losses>>
GainDr ==
    /\ ~dr
    /\ dr' = TRUE
    /\ UNCHANGED <<scenario, rt, net, near, covered, recv, sending, sent, moved, got, gap,
                   losses, changes>>

\* The source falls silent, and speaks again.
Stop == /\ Change /\ sending
        /\ sending' = FALSE
        /\ UNCHANGED <<scenario, rt, net, near, covered, dr, recv, sent, moved, got,
                       losses>>
Resume == /\ ~sending
          /\ sending' = TRUE
          /\ UNCHANGED <<scenario, rt, net, near, covered, dr, recv, sent, moved, got, gap,
                         losses, changes>>

Next ==
    \/ Packet
    \/ \E m \in net : ReceiveRegister(m) \/ ReceiveStop(m) \/ Lose(m)
    \/ \E r \in Rps : JoinPruneSg(r)
    \/ Tick
    \/ \E r \in Routers : Join(r) \/ Leave(r)
    \/ Reroute \/ LoseRp \/ GainRp \/ LoseDr \/ GainDr \/ Stop \/ Resume

Spec == Init /\ [][Next]_vars

-----------------------------------------------------------------------------
(* Correctness.                                                            *)

\* The kernel's entry and the table agree whatever Registers, Joins, cache misses
\* and deletions did: it is there exactly when one of the two entries, and no more
\* than one, believes to own it, and forwards what that one's list says, without
\* the interface packets come from (add_kernel_cache(), k_chg_mfc()).
KernelMirrors ==
    \A r \in Routers :
        LET t == rt[r]
        IN  /\ ~(t.sg.kc /\ t.wc.kc)
            /\ t.mfc.on = (t.sg.kc \/ t.wc.kc)
            /\ t.sg.kc => t.mfc = [on |-> TRUE, iif |-> Src, oifs |-> t.sg.oifs \ {Src}]
            /\ t.wc.kc => t.mfc = [on |-> TRUE, iif |-> Reg, oifs |-> WcOifs(t.wc) \ {Reg}]

\* A member of an Anycast-RP set does not pass on what another member passed to it
\* (copy_register_to_set()): no Register has been copied twice.
CopiedOnce == \A m \in net : m.t = "stop" \/ m.ttl >= MaxTtl - 1

\* Receivers at an RP are not cut off by Register-Stops, the suppression and its
\* probe (suppress_register(), age_route_sg()) or the switch of trees: while the DR
\* registers the source they wait for two ticks, and the time from the start of a
\* suppression to its probe longer for each Register or Register-Stop lost.
ReceiverGap == \A r \in Routers : gap[r] <= 2 + losses * (RsMax - Probe)
=============================================================================
