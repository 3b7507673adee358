-------------------------------- MODULE Igmp --------------------------------
(***************************************************************************)
(* The group memberships of one interface (igmp_proto.c): the reports and  *)
(* leaves of hosts, the queries of other routers, the callouts that end    *)
(* what is no longer reported, and the leaves handed to the routing table. *)
(*                                                                         *)
(* A group is an object of the list uv_groups; for a group in the SSM      *)
(* range it holds a list of sources.  A callout holds a pointer to the     *)
(* object, not its address: `live' turns FALSE when the object is freed    *)
(* with the callout still pending.  `slot' names the al_timerid field that *)
(* holds the callout's id: the group's, a source's, or none any more.      *)
(*                                                                         *)
(* An IGMPv3 message is a list of records and a record a list of sources;  *)
(* the code acts on them one after the other, and so does the model, with  *)
(* one step per call of accept_group_report() and accept_leave_message().  *)
(***************************************************************************)
EXTENDS Integers, FiniteSets

CONSTANTS
    Asm, Ssm,           \* the groups outside and inside the SSM range
    Accepted,           \* the groups igmp-accept-groups lets through
    Sources,            \* source addresses a host may name
    MaxSources,         \* IGMP_MAX_SOURCES
    Me,                 \* uv_lcl_addr
    Routers,            \* the addresses queries come from; 0 is a proxy's
    V2Mode,             \* VIFF_IGMPV2 of the interface
    Gmi,                \* igmp_group_membership_timeout()
    Lmqi, LeaveTime,    \* last member query interval, and times (count + 1)
    AskTime,            \* count times the response time of a heard query
    QuerierTimeout,     \* igmp_querier_timeout
    MaxMsgs             \* bound: messages from the link

ASSUME IgmpTimes == /\ {Gmi, Lmqi, LeaveTime, AskTime, QuerierTimeout} \subseteq Nat \ {0}
                    /\ Lmqi < LeaveTime /\ LeaveTime < Gmi
ASSUME IgmpNames == {"group", "none"} \cap Sources = {}
ASSUME IgmpGroups == Asm \cap Ssm = {}

VARIABLES
    up,          \* the interface is in service
    groups,      \* uv_groups: group |-> [pv, sources, query]
    callouts,    \* what is pending with the callout queue
    leaves,      \* (source or Any, group) this interface is a leaf of
    routable,    \* what find_route() can build an entry for
    resync,      \* igmp_resync_leaves() has been asked for
    querier,     \* uv_querier: 0 when NULL, then VIFF_QUERIER is set
    quiet,       \* uv_querier->al_timer
    msgs,        \* messages so far
    undefined,   \* a callout ran on a freed object
    promise      \* history: how long a report is still good for

vars == <<up, groups, callouts, leaves, routable, resync, querier, quiet, msgs,
          undefined, promise>>

Any == "any"                 \* INADDR_ANY_N, and the dst = 0 of TO_IN({})
AllRouters == "routers"      \* the destination of an IGMPv2 Leave
Groups == Asm \cup Ssm
Memberships == (Asm \X {Any}) \cup (Ssm \X Sources)

Callout == [fn : {"DelVif"}, g : Groups, live : BOOLEAN,
            slot : {"group", "none"} \cup Sources,
            source : Sources \cup {Any, AllRouters}, left : 0..Gmi]
           \cup [fn : {"switch_version", "SendQuery"}, g : Groups, live : BOOLEAN,
                 left : 0..Gmi]

GroupRecord == [pv : 1..3, sources : SUBSET Sources,
                query : {"no", "sent", "heard"}]    \* al_query 0, an id, -1

TypeOK ==
    /\ up \in BOOLEAN
    /\ DOMAIN groups \subseteq Accepted
    /\ \A g \in DOMAIN groups : groups[g] \in GroupRecord
    /\ callouts \subseteq Callout
    /\ leaves \subseteq Memberships
    /\ routable \subseteq Memberships
    /\ resync \in BOOLEAN
    /\ querier \in {0} \cup Routers
    /\ quiet \in 0..QuerierTimeout
    /\ msgs \in 0..MaxMsgs
    /\ undefined \in BOOLEAN
    /\ promise \in [Memberships -> 0..Gmi]

Init ==
    /\ up = TRUE
    /\ groups = <<>>
    /\ callouts = {}
    /\ leaves = {}
    /\ routable \in {{}, Memberships}
    /\ resync = FALSE
    /\ querier = 0
    /\ quiet = 0
    /\ msgs = 0
    /\ undefined = FALSE
    /\ promise = [m \in Memberships |-> 0]

-----------------------------------------------------------------------------
(* The callouts: SetTimer(), SetVerTimer(), SetQueryTimer(), DeleteTimer()  *)

SetTimer(g, slot, source, delay) ==
    [fn |-> "DelVif", g |-> g, live |-> TRUE, slot |-> slot, source |-> source,
     left |-> delay]

SetVerTimer(g) ==
    [fn |-> "switch_version", g |-> g, live |-> TRUE, left |-> Gmi]

SetQueryTimer(g) ==
    [fn |-> "SendQuery", g |-> g, live |-> TRUE, left |-> Lmqi]

\* The pending callout whose id the field `slot' of g holds.
Armed(g, slot) ==
    {c \in callouts : c.fn = "DelVif" /\ c.live /\ c.g = g /\ c.slot = slot}

Pending(fn, g) == {c \in callouts : c.fn = fn /\ c.live /\ c.g = g}

arm_one_timer_per_group(g, source) ==
    [clear |-> Armed(g, "group"), set |-> SetTimer(g, "group", source, Gmi)]

\* arm_membership_timer(): the source's timer in the SSM range, otherwise
\* the group's.
arm_membership_timer(g, source) ==
    LET slot == IF g \in Ssm THEN source ELSE "group"
    IN  [clear |-> Armed(g, slot), set |-> SetTimer(g, slot, source, Gmi)]

-----------------------------------------------------------------------------
(* Reports                                                                  *)

Key(g, source) == IF g \in Ssm THEN <<g, source>> ELSE <<g, Any>>

\* A v1 or v2 report for an SSM group, which names no source, and a group
\* the interface refuses are dropped.
Taken(g, ver) == g \in Accepted /\ (ver < 3 => g \in Asm)

NewGroup(ver) == [pv |-> ver, sources |-> {}, query |-> "no"]

accept_group_report(g, source, ver) ==
    LET known   == g \in DOMAIN groups
        old     == IF known THEN groups[g] ELSE NewGroup(ver)
        pv      == IF ver < old.pv THEN ver ELSE old.pv
        full    == /\ g \in Ssm /\ known /\ source \notin old.sources
                   /\ Cardinality(old.sources) >= MaxSources
        sources == IF g \in Ssm /\ ~full THEN old.sources \cup {source} ELSE old.sources
        now     == [pv |-> pv, sources |-> sources, query |-> "no"]
        back    == pv < 3 /\ (ver < 3 \/ ~known)
        arm     == arm_membership_timer(g, source)
        cleared == Pending("SendQuery", g)
                     \cup (IF back THEN Pending("switch_version", g) ELSE {})
    IN  /\ Taken(g, ver)
        /\ groups' = [h \in DOMAIN groups \cup {g} |-> IF h = g THEN now ELSE groups[h]]
        /\ callouts' = IF full THEN callouts \ cleared
                       ELSE (callouts \ (cleared \cup arm.clear)) \cup {arm.set}
                              \cup (IF back THEN {SetVerTimer(g)} ELSE {})
        /\ leaves' = leaves \cup (IF full THEN {} ELSE {Key(g, source)} \cap routable)
        /\ promise' = IF ~full /\ (g \in Ssm \/ ver = 1)
                      THEN [promise EXCEPT ![Key(g, source)] = Gmi] ELSE promise

Report ==
    \E g \in Groups, ver \in 1..3 :
        /\ \E source \in (IF g \in Ssm THEN Sources ELSE {Any}) :
              accept_group_report(g, source, ver)
        /\ UNCHANGED <<up, routable, resync, querier, quiet, undefined>>

-----------------------------------------------------------------------------
(* Leaves: an IGMPv2 Leave (dst is the all-routers group), TO_IN({}) (dst   *)
(* is 0) and a blocked source.  With dst = 0 the first source of the list   *)
(* goes, whichever that is; the list is not ordered here.                   *)

V1Forgotten(g) == FALSE

V1Present(g) == groups[g].pv = 1

accept_leave_message(g, dst) ==
    LET r    == groups[g]
        hit  == IF dst = Any THEN r.sources ELSE {dst} \cap r.sources
        last(s) == (r.sources \ s) = {}
    IN  /\ g \in DOMAIN groups
        /\ ~V1Present(g)
        /\ r.query = "no"
        /\ \E gone \in (IF g \in Ssm /\ hit # {} THEN {{s} : s \in hit} ELSE {{}}) :
             LET freed == UNION {Armed(g, s) : s \in gone}
                 more  == gone # {} /\ ~last(gone)
             IN  /\ groups' = [groups EXCEPT
                        ![g].sources = @ \ gone,
                        ![g].query = IF more THEN @ ELSE "sent"]
                 /\ callouts' = IF more THEN callouts \ freed
                       ELSE (callouts \ (freed \cup Armed(g, "group")))
                              \cup {SetQueryTimer(g), SetTimer(g, "group", dst, LeaveTime)}
                 /\ promise' = [m \in Memberships |->
                        IF m[1] = g /\ m[2] \in gone THEN 0 ELSE promise[m]]

Leave ==
    /\ \E g \in Groups : \E dst \in {Any, AllRouters} \cup Sources :
          accept_leave_message(g, dst)
    /\ UNCHANGED <<up, leaves, routable, resync, querier, quiet, undefined>>

-----------------------------------------------------------------------------
(* Queries of other routers                                                 *)

\* The querier after a query of version ver from src: the lowest address
\* wins, a proxy never does, and a version above the interface's is ignored
\* once another router is the querier.
Ignored(src, ver) ==
    \/ querier # 0 /\ ver > (IF V2Mode THEN 2 ELSE 3)
    \/ src # querier /\ src = 0

Elected(src) ==
    IF src < (IF querier = 0 THEN Me ELSE querier) THEN src ELSE querier

\* A group-specific query puts the group in the last-member state.
LastMemberTimerLost(g) == {}

LastMemberTimer(g) == {SetTimer(g, "group", Any, AskTime)}

accept_membership_query(src, ver, g) ==
    /\ ~Ignored(src, ver)
    /\ querier' = Elected(src)
    /\ quiet' = IF src = querier' THEN 0 ELSE quiet
    /\ IF g \in DOMAIN groups /\ groups[g].query = "no"
       THEN /\ callouts' = (callouts \ Armed(g, "group"))
                             \cup LastMemberTimer(g)
            /\ groups' = [groups EXCEPT ![g].query = "heard"]
            /\ promise' = [m \in Memberships |->
                   IF m = <<g, Any>> THEN 0 ELSE promise[m]]
       ELSE UNCHANGED <<callouts, groups, promise>>

General == "general"         \* group = 0

Query ==
    /\ \E src \in Routers, ver \in 2..3, g \in Groups \cup {General} :
          accept_membership_query(src, ver, g)
    /\ UNCHANGED <<up, leaves, routable, resync, undefined>>

-----------------------------------------------------------------------------
(* The callouts run                                                         *)

\* DelVif() on a live group.  A source is freed without its own callout
\* being looked at, and a group without its own: the code takes the one that
\* runs to be the one.
Unlinked(g, source) == groups[g].sources \ {source}

DelVif(c) ==
    LET g    == c.g
        left == IF g \in Ssm THEN Unlinked(g, c.source) ELSE {}
        own  == IF g \in Ssm /\ c.source \in groups[g].sources
                THEN Armed(g, c.source) \ {c} ELSE {}
        orphans == {[o EXCEPT !.slot = "none"] : o \in own}
        rest == ((callouts \ {c}) \ own) \cup orphans
        dead == Pending("switch_version", g) \cup Pending("SendQuery", g)
    IN  /\ leaves' = leaves \ {Key(g, c.source)}
        /\ IF left # {}
           THEN /\ groups' = [groups EXCEPT ![g].sources = left]
                /\ callouts' = rest
           ELSE /\ groups' = [h \in DOMAIN groups \ {g} |-> groups[h]]
                /\ callouts' = {IF o.g = g THEN [o EXCEPT !.live = FALSE] ELSE o :
                                  o \in rest \ dead}

\* One version per timeout.
switch_version(c) ==
    LET pv == IF groups[c.g].pv < 3 THEN groups[c.g].pv + 1 ELSE 3
    IN  /\ groups' = [groups EXCEPT ![c.g].pv = pv]
        /\ callouts' = (callouts \ {c}) \cup (IF pv < 3 THEN {SetVerTimer(c.g)} ELSE {})
        /\ UNCHANGED leaves

SendQuery(c) ==
    /\ groups' = [groups EXCEPT ![c.g].query = "no"]
    /\ callouts' = callouts \ {c}
    /\ UNCHANGED leaves

Fire ==
    \E c \in callouts :
        /\ c.left = 0
        /\ IF c.live
           THEN /\ \/ c.fn = "DelVif" /\ DelVif(c)
                   \/ c.fn = "switch_version" /\ switch_version(c)
                   \/ c.fn = "SendQuery" /\ SendQuery(c)
                /\ UNCHANGED undefined
           ELSE /\ undefined' = TRUE
                /\ UNCHANGED <<groups, callouts, leaves>>
        /\ UNCHANGED <<up, routable, resync, querier, quiet, msgs, promise>>

\* resync_leaves(): every membership is offered to add_leaf() again.
OfferedAnySource == (DOMAIN groups \cap Asm) \X {Any}

Offered ==
    OfferedAnySource
      \cup UNION {{g} \X groups[g].sources : g \in DOMAIN groups \cap Ssm}

resync_leaves ==
    /\ resync
    /\ resync' = FALSE
    /\ leaves' = IF up THEN leaves \cup (Offered \cap routable) ELSE leaves
    /\ UNCHANGED <<up, groups, callouts, routable, querier, quiet, msgs, undefined, promise>>

-----------------------------------------------------------------------------
(* The interface and the rest of the daemon                                 *)

\* An RP for the group, or the neighbour towards the source, is learnt:
\* add_rp_grp_entry() and receive_pim_hello() ask for a resync.
BecomesRoutable ==
    /\ \E g \in Groups :
          /\ routable' = routable \cup {m \in Memberships : m[1] = g}
          /\ routable' # routable
    /\ resync' = TRUE
    /\ UNCHANGED <<up, groups, callouts, leaves, querier, quiet, msgs, undefined, promise>>

\* stop_vif(): every group and source goes with the callouts they hold.
Held(g) == {c \in callouts : c.live /\ c.g = g /\ (c.fn = "DelVif" => c.slot # "none")}

stop_vif ==
    /\ up
    /\ up' = FALSE
    /\ groups' = <<>>
    /\ callouts' = {[c EXCEPT !.live = FALSE] :
                       c \in callouts \ UNION {Held(g) : g \in DOMAIN groups}}
    /\ leaves' = {}
    /\ querier' = 0
    /\ quiet' = 0
    /\ promise' = [m \in Memberships |-> 0]
    /\ UNCHANGED <<routable, resync, undefined>>

start_vif ==
    /\ ~up
    /\ up' = TRUE
    /\ UNCHANGED <<groups, callouts, leaves, routable, resync, querier, quiet, msgs,
                   undefined, promise>>

\* The querier has not been heard for too long, age_vifs().
QuerierGone == querier # 0 /\ quiet + 1 > QuerierTimeout

Tick ==
    /\ ~resync
    /\ \A c \in callouts : c.left > 0
    /\ callouts' = {[c EXCEPT !.left = @ - 1] : c \in callouts}
    /\ promise' = [m \in Memberships |-> IF promise[m] = 0 THEN 0 ELSE promise[m] - 1]
    /\ querier' = IF QuerierGone THEN 0 ELSE querier
    /\ quiet' = IF querier = 0 \/ QuerierGone THEN 0 ELSE quiet + 1
    /\ UNCHANGED <<up, groups, leaves, routable, resync, msgs, undefined>>

FromTheLink ==
    /\ msgs < MaxMsgs
    /\ msgs' = msgs + 1
    /\ \/ up /\ (Report \/ Leave \/ Query)
       \/ stop_vif

\* What runs on a freed object may do anything; nothing is claimed then.
Undefined == undefined /\ UNCHANGED vars

Next ==
    \/ ~undefined /\ (FromTheLink \/ Fire \/ resync_leaves \/ BecomesRoutable
                        \/ start_vif \/ Tick)
    \/ Undefined

\* Time passes and due callouts run: timeout() is called on every turn of
\* the loop.  Nothing is assumed of hosts and other routers.
Running == resync \/ \E c \in callouts : c.left = 0
Waiting == ~Running /\ (callouts # {} \/ querier # 0)

Fairness ==
    /\ []<>(undefined \/ ~Running) \/ []<><<Fire \/ resync_leaves>>_vars
    /\ []<>(undefined \/ ~Waiting) \/ []<><<Tick>>_vars

Spec == Init /\ [][Next]_vars
FairSpec == Spec /\ Fairness

-----------------------------------------------------------------------------
(* Properties                                                               *)

\* Every membership has a callout that will end it: each source its own,
\* each any-source group and each group without a source the group's, and a
\* group in an older version's mode the one that takes it back.
NothingImmortal ==
    \A g \in DOMAIN groups :
        /\ \A s \in groups[g].sources : Armed(g, s) # {}
        /\ groups[g].sources = {} => Armed(g, "group") # {}
        /\ groups[g].pv < 3 => Pending("switch_version", g) # {}
        /\ groups[g].query = "sent" <=> Pending("SendQuery", g) # {}

\* A membership the routing table can build an entry for is a leaf of it as
\* soon as a pending resync has run, and an any-source leaf has a membership.
Members ==
    {m \in Memberships : /\ m[1] \in DOMAIN groups
                         /\ m[1] \in Ssm => m[2] \in groups[m[1]].sources}

LeavesAreMemberships ==
    /\ ~resync => (Members \cap routable) \subseteq leaves
    /\ {m \in leaves : m[1] \in Asm} \subseteq Members

\* A leave never ends a group that an IGMPv1 host has reported within the
\* membership timeout, that host having no leave of its own.
V1MemberIsKept ==
    \A g \in Asm : promise[<<g, Any>>] > 0 => g \in DOMAIN groups

\* A source is held until it is blocked or times out.
HeldUntilBlockedOrTimedOut ==
    \A g \in Ssm, s \in Sources :
        promise[<<g, s>>] > 0 => g \in DOMAIN groups /\ s \in groups[g].sources

\* When hosts and routers fall silent every group ends, with its any-source
\* leaf, and this router is the querier again.
SilenceEmptiesTheList ==
    <>[](undefined \/ (groups = <<>> /\ querier = 0 /\ leaves \cap (Asm \X {Any}) = {}))

=============================================================================
