------------------------------- MODULE RpSet -------------------------------
(***************************************************************************)
(* The RP set of one router (rp.c, the group sets of pim_proto.c's         *)
(* receive_pim_bootstrap(), the listening half of autorp.c) and the groups *)
(* that are mapped to its RPs.  Three sources fill one list: pimd.conf,    *)
(* Bootstraps, which may come in fragments, and Auto-RP mappings, which    *)
(* may also deny a range.  Each takes back only what it said itself, and   *)
(* the groups that exist are moved one by one as the list changes.         *)
(*                                                                         *)
(* A fragment tag is only ever compared with the current one: a range or   *)
(* an entry is `stamped' or `fresh' when its tag is the current tag, and   *)
(* nothing is when a Bootstrap with another tag arrives.  A range is in    *)
(* the list exactly while it has an entry.  Who is the BSR is the subject  *)
(* of Bootstrap; every BSR uses one hash mask, and no range has 255 RPs.   *)
(***************************************************************************)
EXTENDS Integers, FiniteSets, Sequences, SequencesExt, FiniteSetsExt

CONSTANTS
    Groups,          \* multicast groups
    Ranges,          \* group prefixes
    RangeOf,         \* their [addr, len, groups], the groups inside them
    Rps,             \* addresses of RPs, numbers
    Hash,            \* RP_HASH_VALUE(): of a group and an RP
    Configs,         \* what pimd.conf may say: [lines, limit], the rp-address
                     \* lines [range, rp] and rp-set-limit
    Plans,           \* Bootstraps the BSR may send: sequences of fragments
    Mappings,        \* Auto-RP mappings heard: [range, rp, negative, hold]
    BsrHold,         \* holdtime in a Bootstrap, in ticks
    None             \* no RP

Static == "static"
Bsr == "bsr"
Auto == "autorp"

Forever == 99        \* PIM_HELLO_HOLDTIME_FOREVER
StaticPrio == 1      \* of add_static_rp() and autorp_apply()

Keys == [range : Ranges, rp : Rps, prio : 0..1]

ASSUME RpSetConstants ==
    /\ IsFiniteSet(Groups) /\ IsFiniteSet(Ranges)
    /\ Rps \subseteq Nat /\ BsrHold \in 1..(Forever - 1)
    /\ \A m \in Mappings : m.hold \in 0..(Forever - 1)
    /\ None \notin Keys
    /\ \A p \in Ranges : RangeOf[p].groups \subseteq Groups

VARIABLES
    config,          \* pimd.conf
    set,             \* grp_mask_list and cand_rp_list: a set of entries
    stamped,         \* ranges whose fragment_tag is the current one
    seg,             \* segmented_grp_mask_list
    maps,            \* autorp_maps
    grp,             \* each group's source tree, shared tree and active_rp_grp
    members,         \* groups with local members, uv_groups
    resync,          \* the callout of igmp_resync_leaves() is pending
    plan, left,      \* the Bootstrap being received, its fragments to come
    said,            \* what each source said last, and for how long it holds
    refused,         \* groups that were denied when last looked at
    lost             \* groups denied when their members last asked for a tree

core == <<set, stamped, maps, grp, resync, refused, lost>>
vars == <<config, core, seg, members, plan, left, said>>

----------------------------------------------------------------------------
(* The group-to-RP mapping.                                                *)

Key(e) == [range |-> e.range, rp |-> e.rp, prio |-> e.prio]

Inside(p) == RangeOf[p].groups

Covering(s, g) == {e \in s : g \in Inside(e.range)}

Longest(E) == {e \in E : \A f \in E : RangeOf[f.range].len <= RangeOf[e.range].len}

BestPrio(E) == {e \in E : \A f \in E : e.prio <= f.prio}

\* The RP a group is hashed to among entries of one range and priority.
Hashed(g, E) == CHOOSE e \in E : \A f \in E \ {e} :
                    \/ Hash[g][f.rp] < Hash[g][e.rp]
                    \/ Hash[g][f.rp] = Hash[g][e.rp] /\ f.rp < e.rp

\* rp_grp_match() up to the test of a deny.
Best(s, g) == LET E == BestPrio(Longest(Covering(s, g)))
              IN  IF E = {} THEN None ELSE Key(Hashed(g, E))

\* autorp_denied()
Denied(m, g) == \E d \in Longest({d \in m : g \in Inside(d.range)}) : d.negative

StaticKeys(s) == {Key(e) : e \in {e \in s : Static \in e.origin}}

\* Is the match of a group withheld by a deny?  pimd.conf's own RP never is.
Withheld(t, g) == LET k == Best(t.set, g)
                  IN  k # None /\ k \notin StaticKeys(t.set) /\ Denied(t.maps, g)

RpGrpMatch(t, g) == IF Withheld(t, g) THEN None ELSE Best(t.set, g)

----------------------------------------------------------------------------
(* Operators on a table, the record of the variables in `core'.            *)

NoGroup == [sg |-> FALSE, wc |-> FALSE, rp |-> None]

Exists(x) == x.sg \/ x.wc

Looked(t, G) == (t.refused \ G) \cup {g \in G : Withheld(t, g)}

(* remap_grpentry() of every group in G: a group that has no RP left keeps *)
(* its source trees and loses its shared tree, grp_keep_without_rp().      *)
Remap(t, G) ==
    LET Remapped(g) == LET k == RpGrpMatch(t, g)
                       IN  CASE k # None              -> [t.grp[g] EXCEPT !.rp = k]
                             [] k = None /\ t.grp[g].sg -> [NoGroup EXCEPT !.sg = TRUE]
                             [] OTHER                 -> NoGroup
        new == [g \in Groups |-> IF g \in G THEN Remapped(g) ELSE t.grp[g]]
    IN  [t EXCEPT !.grp = new, !.refused = Looked(t, G),
                  !.lost = @ \cup {g \in G : t.grp[g].wc /\ ~new[g].wc /\ Withheld(t, g)}]

\* find_route(..., CREATE) of a group: one without RP is looked up again, and
\* the shared tree is refused where no RP is found.
FindRoute(t, g, tree) ==
    LET k == IF t.grp[g].rp # None THEN t.grp[g].rp ELSE RpGrpMatch(t, g)
        looked == IF t.grp[g].rp # None THEN t ELSE [t EXCEPT !.refused = Looked(t, {g})]
        found  == [looked EXCEPT !.grp[g] = [[@ EXCEPT !.rp = k] EXCEPT ![tree] = TRUE]]
    IN  CASE tree = "sg" -> found
          [] tree = "wc" /\ k # None -> [found EXCEPT !.lost = @ \ {g}]
          [] tree = "wc" /\ k = None -> [looked EXCEPT !.lost = IF Withheld(t, g) THEN @ \cup {g} ELSE @ \ {g}]

MappedTo(t, K) == {g \in Groups : t.grp[g].rp \in K}

OfRange(s, p) == {e \in s : e.range = p}

(* delete_rp_grp_entry() of every entry in E, delete_grp_mask_entry() where *)
(* it was the last of its range.                                            *)
DeleteEntries(t, E) ==
    LET left_ == t.set \ E
        u     == [t EXCEPT !.set = left_, !.stamped = {p \in @ : OfRange(left_, p) # {}}]
    IN  Remap(u, MappedTo(t, {Key(e) : e \in E}))

\* A source takes back what it said of the entries in E.
Withdraw(t, E, source) ==
    LET gone == {e \in E : e.origin = {source}}
        kept == {e \in E : source \in e.origin /\ e.origin # {source}}
        less == {IF source = Bsr THEN [e EXCEPT !.origin = @ \ {Bsr}, !.hold = 0, !.fresh = FALSE]
                                 ELSE [e EXCEPT !.origin = @ \ {Auto}, !.ahold = 0] : e \in kept}
    IN  DeleteEntries([t EXCEPT !.set = (@ \ kept) \cup less], gone)

\* delete_grp_mask(): a range withdrawn by the BSR keeps what others say.
DeleteGrpMask(t, p) == Withdraw(t, OfRange(t.set, p), Bsr)

\* The entry a source would make by itself.
NewEntry(k, hold, source) ==
    [range |-> k.range, rp |-> k.rp, prio |-> k.prio, origin |-> {source},
     hold |-> IF source = Bsr THEN hold ELSE 0,
     ahold |-> IF source = Auto THEN hold ELSE 0, fresh |-> source = Bsr]

\* add_rp_grp_entry_from() for an entry e that is in the list already.
Joined(e, hold, source) ==
    CASE source = Static \/ Static \in e.origin -> NewEntry(Key(e), 0, Static)
      [] source = Bsr  -> [e EXCEPT !.origin = @ \cup {Bsr}, !.hold = hold, !.fresh = TRUE]
      [] source = Auto -> [e EXCEPT !.origin = @ \cup {Auto}, !.ahold = hold]

\* Mutant: only groups of the range itself move.
AffectedInRange(t, k, old) ==
    IF \A e \in old : k.prio <= e.prio THEN MappedTo(t, {Key(e) : e \in BestPrio(old)}) ELSE {}

(* The groups add_rp_grp_entry_from() looks at again when it has linked a   *)
(* new entry k, old being the range's entries before.  A first RP takes     *)
(* groups from shorter ranges, remap_covered_groups(), and those without an *)
(* RP; one of the best priority takes groups from RPs of its own range.     *)
Affected(t, k, old) ==
    LET shorter == {Key(e) : e \in {e \in t.set : /\ RangeOf[e.range].len < RangeOf[k.range].len
                                                  /\ Inside(k.range) \subseteq Inside(e.range)}}
        first   == MappedTo(t, shorter) \cup {g \in Groups : t.grp[g].sg /\ t.grp[g].rp = None}
        best    == BestPrio(old)
    IN  (IF old = {} THEN first \cap Inside(k.range) ELSE {})
        \cup (IF \A e \in old : k.prio <= e.prio THEN MappedTo(t, {Key(e) : e \in best}) ELSE {})

\* add_grp_mask() does not refuse the range.
Room(s, p) == OfRange(s, p) # {} \/ Cardinality({e.range : e \in s}) < config.limit

\* Mutant: nobody looks at the members that were there before the RP.
AddRpGrpEntryQuietly(t, k, hold, source) ==
    LET old  == OfRange(t.set, k.range)
        same == {e \in old : Key(e) = k}
        mark == [t EXCEPT !.stamped = IF source = Bsr THEN @ \cup {k.range} ELSE @]
        new  == [mark EXCEPT !.set = @ \cup {NewEntry(k, hold, source)}]
    IN  CASE same # {} -> [mark EXCEPT !.set = (@ \ same) \cup {Joined(e, hold, source) : e \in same}]
          [] same = {} /\ Room(t.set, k.range) -> Remap(new, Affected(t, k, old))
          [] OTHER -> t

\* add_rp_grp_entry_from()
AddRpGrpEntry(t, k, hold, source) ==
    LET old  == OfRange(t.set, k.range)
        same == {e \in old : Key(e) = k}
        mark == [t EXCEPT !.stamped = IF source = Bsr THEN @ \cup {k.range} ELSE @]
        new  == [mark EXCEPT !.set = @ \cup {NewEntry(k, hold, source)},
                             !.resync = @ \/ old = {}]
    IN  CASE same # {} -> [mark EXCEPT !.set = (@ \ same) \cup {Joined(e, hold, source) : e \in same}]
          [] same = {} /\ Room(t.set, k.range) -> Remap(new, Affected(t, k, old))
          [] OTHER -> t

AddAll(t, K, hold, source) ==
    FoldSet(LAMBDA k, u : AddRpGrpEntry(u, k, hold, source), t, K)

----------------------------------------------------------------------------
(* The group sets of a Bootstrap, [range, count, rps]: count is the number *)
(* of RPs the range has in the whole message, rps those of this fragment.  *)

KeysOf(x) == {[range |-> x.range, rp |-> r.rp, prio |-> r.prio] : r \in x.rps}

Position(sg, p) == {i \in DOMAIN sg : sg[i].range = p}

(* add_grp_mask() in the list of incomplete ranges: only a range of the     *)
(* same address and a shorter mask comes after the new one.                 *)
SavePartial(sg, x) ==
    LET here  == Position(sg, x.range)
        after == {i \in DOMAIN sg : /\ RangeOf[sg[i].range].addr = RangeOf[x.range].addr
                                    /\ RangeOf[sg[i].range].len < RangeOf[x.range].len}
        new   == [range |-> x.range, keys |-> KeysOf(x)]
    IN  CASE here # {} -> [sg EXCEPT ![Min(here)].keys = @ \cup KeysOf(x)]
          [] here = {} /\ after # {} -> InsertAt(sg, Min(after), new)
          [] OTHER -> Append(sg, new)

\* What was saved of the range if the fragment x makes it complete, as far as
\* the code can tell: the first range of the list that is not above x's is x's,
\* and the numbers add up.
Completed(sg, x) ==
    LET notAbove == {i \in DOMAIN sg : RangeOf[sg[i].range].addr <= RangeOf[x.range].addr}
    IN  {i \in notAbove : /\ i = Min(notAbove)
                          /\ sg[i].range = x.range
                          /\ Cardinality(sg[i].keys) + Cardinality(x.rps) = x.count}

\* One group set of a Bootstrap on b, which is [t, seg].
GroupSet(b, x) ==
    LET done == Completed(b.seg, x)
    IN  CASE x.count = 0 -> [b EXCEPT !.t = DeleteGrpMask(@, x.range)]
          [] x.count > 0 /\ x.count = Cardinality(x.rps) ->
                 [b EXCEPT !.t = AddAll(@, KeysOf(x), BsrHold, Bsr)]
          [] x.count > Cardinality(x.rps) /\ done # {} ->
                 [t   |-> AddAll(b.t, KeysOf(x) \cup b.seg[Min(done)].keys, BsrHold, Bsr),
                  seg |-> RemoveAt(b.seg, Min(done))]
          [] OTHER -> [b EXCEPT !.seg = SavePartial(@, x)]

\* Mutant: what the other sources say is collected as well.
CollectAll(t) == DeleteEntries(t, {e \in t.set : e.range \in t.stamped /\ ~e.fresh})

\* The garbage collection at the end of receive_pim_bootstrap(): RPs that the
\* BSR no longer names in a range it has just named are no longer its own.
Collect(t) == Withdraw(t, {e \in t.set : e.range \in t.stamped /\ Bsr \in e.origin /\ ~e.fresh}, Bsr)

\* The tag of the message differs from the current one.
NewTag(t) == [t EXCEPT !.stamped = {}, !.set = {[e EXCEPT !.fresh = FALSE] : e \in @}]

----------------------------------------------------------------------------
(* What the sources said.  A Bootstrap says which RPs a range has once all  *)
(* of its fragments that name the range are here.                           *)

Table == [set |-> set, stamped |-> stamped, maps |-> maps, grp |-> grp,
          resync |-> resync, refused |-> refused, lost |-> lost]

Become(t) ==
    /\ set' = t.set /\ stamped' = t.stamped /\ maps' = t.maps
    /\ grp' = t.grp /\ resync' = t.resync /\ refused' = t.refused /\ lost' = t.lost

NamedIn(f) == {f[i].range : i \in DOMAIN f}

Content(m) == UNION {UNION {KeysOf(m[i][j]) : j \in DOMAIN m[i]} : i \in DOMAIN m}

\* The ranges of fragment i of message m that no fragment in rest names.
Told(m, i, rest) == NamedIn(m[i]) \ UNION {NamedIn(m[j]) : j \in rest}

Says(m, ranges) == [said EXCEPT !.bsr = [k \in Keys |->
                       CASE k.range \notin ranges -> @[k]
                         [] k.range \in ranges /\ k \in Content(m) -> BsrHold
                         [] OTHER -> 0]]

----------------------------------------------------------------------------
(* The actions.                                                             *)

Empty == [set |-> {}, stamped |-> {}, maps |-> {}, grp |-> [g \in Groups |-> NoGroup],
          resync |-> FALSE, refused |-> {}, lost |-> {}]

\* add_static_rp()
WithStatics(lines) ==
    AddAll(Empty, {[range |-> l.range, rp |-> l.rp, prio |-> StaticPrio] : l \in lines}, 0, Static)

Silence == [bsr |-> [k \in Keys |-> 0], auto |-> [k \in Keys |-> 0]]

Init ==
    /\ config \in Configs
    /\ LET t == WithStatics(config.lines)
       IN  /\ set = t.set /\ stamped = t.stamped /\ maps = t.maps
           /\ grp = t.grp /\ resync = t.resync /\ refused = t.refused /\ lost = t.lost
    /\ seg = <<>> /\ members = {} /\ plan = <<>> /\ left = {} /\ said = Silence

\* restart(): the table, the mappings and the memberships go, pimd.conf's RPs
\* are put in again.
Restart ==
    /\ Become(WithStatics(config.lines))
    /\ seg' = <<>> /\ members' = {} /\ plan' = <<>> /\ left' = {} /\ said' = Silence
    /\ UNCHANGED config

\* receive_pim_bootstrap() of fragment i of message m, once it is accepted.
Receive(m, i, t, sg, rest) ==
    LET b == FoldLeft(GroupSet, [t |-> t, seg |-> sg], m[i])
    IN  /\ Become(Collect(b.t))
        /\ seg' = b.seg
        /\ plan' = m /\ left' = rest
        /\ said' = Says(m, Told(m, i, rest))
        /\ UNCHANGED <<config, members>>

\* The first fragment of a Bootstrap to arrive, which has a new tag: the
\* fragments saved under the old one are thrown away.
Bootstrap ==
    \E m \in Plans : \E i \in DOMAIN m : Receive(m, i, NewTag(Table), <<>>, DOMAIN m \ {i})

\* Another fragment of it.
Fragment == \E i \in left : Receive(plan, i, Table, seg, left \ {i})

Unheard == UNCHANGED <<config, seg, plan, left>>

\* autorp_learn() of one prefix of a mapping message: a deny only goes into the
\* mirror, a mapping into the RP set as well, autorp_apply().
AutoRp ==
    \E m \in Mappings :
        LET k     == [range |-> m.range, rp |-> m.rp, prio |-> StaticPrio]
            hold  == IF m.hold = 0 THEN Forever ELSE m.hold
            heard == [range |-> m.range, rp |-> IF m.negative THEN 0 ELSE m.rp,
                      negative |-> m.negative, hold |-> hold]
            older == {d \in maps : d.range = heard.range /\ d.rp = heard.rp}
            t     == [Table EXCEPT !.maps = (@ \ older) \cup {heard}]
        IN  /\ Become(IF m.negative THEN t ELSE AddRpGrpEntry(t, k, hold, Auto))
            /\ said' = IF m.negative THEN said ELSE [said EXCEPT !.auto[k] = hold]
            /\ UNCHANGED members /\ Unheard

Older(h) == IF h \in {0, Forever} THEN h ELSE h - 1

\* The part of age_misc() that ages the RP set: each source's word runs out by
\* itself, and the entry goes with the last.
AgeSet(t) ==
    LET AgedEntry(e) == [e EXCEPT !.hold = Older(@), !.ahold = Older(@)]
        aged == [t EXCEPT !.set = {AgedEntry(e) : e \in @}]
        bsr  == Withdraw(aged, {e \in aged.set : Bsr \in e.origin /\ e.hold = 0}, Bsr)
    IN  Withdraw(bsr, {e \in bsr.set : Auto \in e.origin /\ e.ahold = 0}, Auto)

\* age_autorp_list() of the mirror.
AgeMaps(t) == [t EXCEPT !.maps = {[m EXCEPT !.hold = Older(@)] : m \in {m \in @ : m.hold # 1}}]

\* age_misc() and age_autorp() in timer().  A callout without delay runs first.
Tick ==
    /\ ~resync
    /\ Become(AgeMaps(AgeSet(Table)))
    /\ said' = [source \in DOMAIN said |-> [k \in Keys |-> Older(said[source][k])]]
    /\ UNCHANGED members /\ Unheard

\* A report of local members, add_leaf(); their leave, which leaves the shared
\* tree to age_routes().
Report(g) ==
    /\ members' = members \cup {g}
    /\ Become(FindRoute(Table, g, "wc"))
    /\ UNCHANGED said /\ Unheard

Leave(g) ==
    /\ g \in members
    /\ members' = members \ {g}
    /\ UNCHANGED <<core, said>> /\ Unheard

\* A downstream Join of either tree, or data of a source.
Join(g, tree) ==
    /\ ~grp[g][tree]
    /\ Become(FindRoute(Table, g, tree))
    /\ UNCHANGED <<members, said>> /\ Unheard

\* A tree nobody wants runs out, and the group with its last.
Expire(g, tree) ==
    /\ grp[g][tree]
    /\ tree = "wc" => g \notin members
    /\ LET x == [grp[g] EXCEPT ![tree] = FALSE]
       IN  grp' = [grp EXCEPT ![g] = IF Exists(x) THEN x ELSE NoGroup]
    /\ UNCHANGED <<set, stamped, maps, resync, refused, lost, members, said>> /\ Unheard

\* resync_leaves()
Resync ==
    /\ resync
    /\ Become(FoldSet(LAMBDA g, t : FindRoute(t, g, "wc"), [Table EXCEPT !.resync = FALSE], members))
    /\ UNCHANGED <<members, said>> /\ Unheard

Next ==
    \/ Restart \/ Bootstrap \/ Fragment \/ AutoRp \/ Tick \/ Resync
    \/ \E g \in Groups : Report(g) \/ Leave(g)
    \/ \E g \in Groups, tree \in {"sg", "wc"} : Join(g, tree) \/ Expire(g, tree)

Spec == Init /\ [][Next]_vars

----------------------------------------------------------------------------
(* Properties.                                                              *)

\* The lists are well formed: no entry twice, none without a source, a range
\* is stamped only while it has an entry, a group without an RP has no shared
\* tree, and only existing groups are mapped (rp.c, mrt.c).
TypeOK ==
    /\ \A e, f \in set : Key(e) = Key(f) => e = f
    /\ \A e \in set : /\ Key(e) \in Keys
                      /\ e.origin \in (SUBSET {Bsr, Auto} \cup {{Static}}) \ {{}}
    /\ \A p \in stamped : OfRange(set, p) # {}
    /\ \A g \in Groups : (grp[g].wc => grp[g].rp # None) /\ (Exists(grp[g]) \/ grp[g] = NoGroup)
    /\ members \subseteq Groups /\ refused \cup lost \subseteq Groups
    /\ left \subseteq DOMAIN plan

(* Every group that exists is mapped to the RP the algorithm of RFC 7761    *)
(* sec. 4.7.1 gives for the RP set as it is now, whichever of a range, an   *)
(* RP or a source's word came or went since (rp.c, remap_grpentry() and its *)
(* callers).  One has no RP only where no range covers it or where an       *)
(* Auto-RP deny withheld the RP when the group was last looked at.          *)
MappingIsCurrent ==
    \A g \in Groups : Exists(grp[g]) =>
        \/ grp[g].rp = Best(set, g)
        \/ grp[g].rp = None /\ g \in refused

(* A group with local members has its shared tree whenever an RP serves it, *)
(* also where the members were there before the RP was (igmp_proto.c,       *)
(* resync_leaves()), a deny aside.                                          *)
MembersHaveTree ==
    ~resync => \A g \in members : grp[g].wc \/ Best(set, g) = None \/ g \in lost

(* An entry is in the RP set only as long as some source says so: an        *)
(* rp-address line, the BSR by the last Bootstrap that named the range in   *)
(* full, or Auto-RP, each until its own holdtime is over (rp.c:551-618,     *)
(* pim_proto.c:5171-5312).  What they say is there, up to rp-set-limit, and *)
(* an rp-address line always.                                               *)
HeldWhileSaid ==
    \A k \in Keys :
        LET held       == \E e \in set : Key(e) = k
            configured == k.prio = StaticPrio /\ [range |-> k.range, rp |-> k.rp] \in config.lines
            learned    == said.bsr[k] > 0 \/ said.auto[k] > 0
        IN  /\ held => configured \/ learned
            /\ configured \/ (learned /\ config.limit >= Cardinality(Ranges)) => held

(* "An RP configured here with rp-address always wins over an Auto-RP       *)
(* mapping for the same groups" (man/pimd.conf.5:131-133).                  *)
StaticWins ==
    \A g \in Groups :
        (\E l \in config.lines : g \in Inside(l.range)) => \E k \in StaticKeys(set) : grp[g].rp \in {None, k}
=============================================================================
