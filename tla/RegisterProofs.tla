--------------------------- MODULE RegisterProofs ---------------------------
(***************************************************************************)
(* Proofs about Register and the routing table of Mrt, for any number of   *)
(* RPs, any Anycast-RP sets, timers and bounds: Registers are copied once, *)
(* and the kernel's forwarding entries are the table's.                    *)
(***************************************************************************)
EXTENDS Register, TLAPS

-----------------------------------------------------------------------------
(* Copies.                                                                 *)

\* The inductive invariant: a Register with the TTL it was sent with, or one of a
\* member with one less.
Counted(m) == \/ m.t = "stop"
              \/ m.ttl = MaxTtl
              \/ m.ttl = MaxTtl - 1 /\ m.from \in Members

\* What the DR sends has the full TTL.
LEMMA RegistersCounted ==
  ASSUME NEW kind, NEW m \in Registers(kind)
  PROVE  Counted(m)
BY DEF Registers, RegisterToSet, Counted

\* What a member copies came from no member, and so had the full TTL.
LEMMA CopiesCounted ==
  ASSUME NEW m, m.t # "stop", Counted(m), NEW r, NEW whole, NEW c \in Copies(r, m, whole)
  PROVE  Counted(c)
<1>1. m.from \notin Members
  BY DEF Copies
<1>2. m.ttl = MaxTtl
  BY <1>1 DEF Counted
<1>3. r \in Members
  BY DEF Copies, Peers
<1> QED
  BY <1>2, <1>3 DEF Copies, Counted

\* A member of an Anycast-RP set of any size does not copy what was copied to it:
\* copy_register_to_set() is behind the test that the Register's sender is no
\* member, and a Register never loses more than one of its TTL.
THEOREM CopiesEnd == Spec => []CopiedOnce
<1> DEFINE Inv == \A m \in net : Counted(m)
<1>1. Init => Inv
  BY DEF Init
<1>2. Inv /\ [Next]_vars => Inv'
  <2> SUFFICES ASSUME Inv, [Next]_vars PROVE Inv'
    OBVIOUS
  <2>0. scenario' = scenario
    BY Zenon DEF Next, vars, Packet, ReceiveRegister, ReceiveStop, Lose, JoinPruneSg, Tick, Join,
           Leave, Reroute, LoseRp, GainRp, LoseDr, GainDr, Stop, Resume
  <2>1. \A m : Counted(m)' <=> Counted(m)
    BY <2>0 DEF Counted, Members
  <2>2. ASSUME NEW m \in net' PROVE Counted(m)
    <3>1. CASE Packet
      BY <3>1, RegistersCounted, Zenon DEF Packet, Encapsulated
    <3>2. CASE Tick
      BY <3>2, RegistersCounted DEF Tick
    <3>3. ASSUME NEW x \in net, ReceiveRegister(x) PROVE Counted(m)
      <4>1. x.t # "stop" /\ Counted(x)
        BY <3>3 DEF ReceiveRegister
      <4>2. PICK whole \in BOOLEAN :
               m \in net \/ m \in Copies(x.at, x, whole) \/ m.t = "stop"
        BY <3>3 DEF ReceiveRegister
      <4> QED
        BY <4>1, <4>2, CopiesCounted DEF Counted
    <3>4. ASSUME NEW x \in net, ReceiveStop(x) \/ Lose(x) PROVE Counted(m)
      BY <3>4 DEF ReceiveStop, Lose
    <3>5. CASE net' = net
      BY <3>5
    <3> QED
      BY <3>1, <3>2, <3>3, <3>4, <3>5, Zenon
      DEF Next, vars, JoinPruneSg, Join, Leave, Reroute, LoseRp, GainRp, LoseDr, GainDr,
          Stop, Resume
  <2> QED
    BY <2>1, <2>2
<1>3. Inv => CopiedOnce
  BY RegisterTimes DEF Counted, CopiedOnce
<1> QED
  BY <1>1, <1>2, <1>3, PTL DEF Spec

-----------------------------------------------------------------------------
(* The kernel's entry.                                                     *)

\* The inductive invariant of a table: what KernelMirrors says of it, and that
\* entries which own the kernel's entry exist, have their iifs, and that the shared
\* tree's list is up to date.
Fields == {"on", "iif", "joined", "sgj", "leaves", "pruned", "oifs", "spt", "kat", "kc",
           "base", "sbase", "et", "rs"}
Shape(t) == /\ DOMAIN t = {"sg", "wc", "mfc"}
            /\ DOMAIN t.sg = Fields /\ DOMAIN t.wc = Fields
            /\ t.sg.kc \in BOOLEAN /\ t.wc.kc \in BOOLEAN
            /\ t.sg.on \in BOOLEAN /\ t.wc.on \in BOOLEAN
Owned(t) == /\ t.sg.kc => t.sg.on
            /\ t.wc.kc => t.wc.on
            /\ ~(t.sg.kc /\ t.wc.kc)
Listed(t) == /\ t.sg.iif = Src
             /\ t.wc.on => t.wc.iif = Reg
             /\ t.wc.oifs = WcOifs(t.wc)
Mirrored(t) == /\ t.sg.kc => t.mfc = [on |-> TRUE, iif |-> Src, oifs |-> t.sg.oifs \ {Src}]
               /\ t.wc.kc => t.mfc = [on |-> TRUE, iif |-> Reg, oifs |-> t.wc.oifs \ {Reg}]
               /\ ~t.sg.kc /\ ~t.wc.kc => t.mfc = NoMfc
Kept(t) == Shape(t) /\ Owned(t) /\ Listed(t) /\ Mirrored(t)

\* What a caller of change_interfaces() leaves alone in the entry it hands in.
Handed(e, x) == /\ DOMAIN e = Fields
                /\ e.kc = x.kc /\ e.oifs = x.oifs /\ e.iif = x.iif /\ e.on = x.on

\* A table is kept if its parts are.
Parts(u, sg, wc, mfc) == /\ DOMAIN u = {"sg", "wc", "mfc"}
                         /\ u.sg = sg /\ u.wc = wc /\ u.mfc = mfc

\* k_chg_mfc() changes the kernel's entry only.
LEMMA KChgMfcParts ==
  ASSUME NEW t, DOMAIN t = {"sg", "wc", "mfc"}, NEW iif, NEW oifs
  PROVE  Parts(KChgMfc(t, iif, oifs), t.sg, t.wc,
               [on |-> TRUE, iif |-> iif, oifs |-> oifs \ {iif}])
BY DEF KChgMfc, Parts

\* Installing the shared tree's entry, which owns the kernel's, keeps a table.
LEMMA InstallWcKeeps ==
  ASSUME NEW t, Shape(t), Owned(t), Listed(t), t.wc.kc
  PROVE  Kept(InstallWc(t)) /\ Parts(InstallWc(t), t.sg, t.wc, InstallWc(t).mfc)
<1> DEFINE u == InstallWc(t)
<1>1. u = KChgMfc(t, Reg, t.wc.oifs)
  BY DEF InstallWc, Listed, Owned
<1>2. Parts(u, t.sg, t.wc, [on |-> TRUE, iif |-> Reg, oifs |-> t.wc.oifs \ {Reg}])
  BY <1>1, KChgMfcParts DEF Shape
<1> HIDE DEF u
<1> QED
  BY <1>2, Zenon DEF Parts, Kept, Shape, Owned, Listed, Mirrored, u

\* delete_mrtentry_all_kernel_cache() of the source entry keeps a table.
LEMMA DropSgCacheKeeps ==
  ASSUME NEW t, Shape(t), Owned(t), Listed(t), ~t.sg.kc => Mirrored(t)
  PROVE  /\ Kept(DropSgCache(t))
         /\ DropSgCache(t).sg.kc = FALSE /\ DropSgCache(t).wc = t.wc
         /\ DropSgCache(t).sg.on = t.sg.on
<1>1. CASE ~t.sg.kc
  BY <1>1 DEF DropSgCache, Kept, Shape
<1>2. CASE t.sg.kc
  <2> DEFINE sg == [t.sg EXCEPT !.kc = FALSE]
             u == DropSgCache(t)
  <2>1. Parts(u, sg, t.wc, NoMfc)
    BY <1>2 DEF DropSgCache, Parts, Shape
  <2>2. /\ DOMAIN sg = Fields /\ sg.kc = FALSE /\ sg.on = t.sg.on /\ sg.iif = t.sg.iif
        /\ sg.oifs = t.sg.oifs
    BY DEF Shape, Fields
  <2> HIDE DEF sg, u
  <2> QED
    BY <1>2, <2>1, <2>2, Zenon DEF Parts, Kept, Shape, Owned, Listed, Mirrored, u
<1> QED
  BY <1>1, <1>2, Zenon

\* delete_mrtentry_all_kernel_cache() of the shared tree's entry.
LEMMA DropWcCacheKeeps ==
  ASSUME NEW t, Shape(t), Owned(t), Listed(t), ~t.wc.kc => Mirrored(t)
  PROVE  /\ Kept(DropWcCache(t))
         /\ DropWcCache(t).wc.kc = FALSE /\ DropWcCache(t).sg = t.sg
<1>1. CASE ~t.wc.kc
  BY <1>1 DEF DropWcCache, Kept, Shape
<1>2. CASE t.wc.kc
  <2> DEFINE wc == [t.wc EXCEPT !.kc = FALSE]
             u == DropWcCache(t)
  <2>1. Parts(u, t.sg, wc, NoMfc)
    BY <1>2 DEF DropWcCache, Parts, Shape
  <2>2. /\ DOMAIN wc = Fields /\ wc.kc = FALSE /\ wc.on = t.wc.on /\ wc.iif = t.wc.iif
        /\ wc.oifs = t.wc.oifs /\ WcOifs(wc) = WcOifs(t.wc)
    BY DEF Shape, Fields, WcOifs
  <2> HIDE DEF wc, u
  <2> QED
    BY <1>2, <2>1, <2>2, Zenon DEF Parts, Kept, Shape, Owned, Listed, Mirrored, u
<1> QED
  BY <1>1, <1>2, Zenon

\* change_interfaces() of the source entry keeps a table, whichever way it goes.
LEMMA ChangeSgKeeps ==
  ASSUME NEW t, Kept(t), NEW e, Handed(e, t.sg), NEW direct, NEW force
  PROVE  /\ Kept(ChangeSg(t, e, direct, force))
         /\ ChangeSg(t, e, direct, force).sg.on = t.sg.on
<1> DEFINE oifs == SgOifs(t, e)
           spt  == e.spt /\ (oifs = {} \/ JoinDesired(t, e, direct))
           full == spt /\ oifs # {}
           same == oifs = t.sg.oifs /\ e.iif = t.sg.iif /\ ~force
           new  == [t EXCEPT !.sg = [e EXCEPT !.oifs = oifs, !.spt = full]]
           old  == [t EXCEPT !.sg = [e EXCEPT !.spt = spt]]
           x == ChangeSg(t, e, direct, force)
<1>1. \/ x = old
      \/ (t.sg.kc \/ ~t.wc.kc) /\ x = DropSgCache(new)
      \/ ~t.sg.kc /\ t.wc.kc /\ x = InstallWc(new)
      \/ t.sg.kc /\ x = KChgMfc(new, e.iif, oifs)
      \/ ~t.sg.kc /\ ~t.wc.kc /\ x = new
  <2>1. same \/ (~same /\ oifs = {}) \/ (~same /\ oifs # {} /\ t.sg.kc)
             \/ (~same /\ oifs # {} /\ ~t.sg.kc)
    OBVIOUS
  <2> QED
    BY <2>1, Zenon DEF ChangeSg
<1> HIDE DEF oifs, spt, full, x
<1>2. /\ Parts(new, new.sg, t.wc, t.mfc)
      /\ DOMAIN new.sg = Fields /\ new.sg.kc = t.sg.kc /\ new.sg.on = t.sg.on
      /\ new.sg.iif = Src /\ new.sg.oifs = oifs
  BY Zenon DEF Kept, Shape, Listed, Handed, Fields, Parts
<1>3. /\ Parts(old, old.sg, t.wc, t.mfc)
      /\ DOMAIN old.sg = Fields /\ old.sg.kc = t.sg.kc /\ old.sg.on = t.sg.on
      /\ old.sg.iif = Src /\ old.sg.oifs = t.sg.oifs
  BY DEF Kept, Shape, Listed, Handed, Fields, Parts
<1> HIDE DEF new, old
<1>4. Kept(old) /\ old.sg.on = t.sg.on
  BY <1>3 DEF Kept, Shape, Owned, Listed, Mirrored, Parts
<1>5. Shape(new) /\ Owned(new) /\ Listed(new) /\ (~t.sg.kc => Mirrored(new))
  BY <1>2 DEF Kept, Shape, Owned, Listed, Mirrored, Parts
<1>6. Kept(DropSgCache(new)) /\ DropSgCache(new).sg.on = t.sg.on
  BY <1>2, <1>5, DropSgCacheKeeps, Zenon
<1>7. ASSUME t.wc.kc PROVE Kept(InstallWc(new)) /\ InstallWc(new).sg.on = t.sg.on
  BY <1>2, <1>5, <1>7, InstallWcKeeps DEF Parts
<1>8. ASSUME t.sg.kc
      PROVE  Kept(KChgMfc(new, e.iif, oifs)) /\ KChgMfc(new, e.iif, oifs).sg.on = t.sg.on
  <2> DEFINE u == KChgMfc(new, e.iif, oifs)
  <2>1. Parts(u, new.sg, new.wc, [on |-> TRUE, iif |-> Src, oifs |-> oifs \ {Src}])
    <3>1. e.iif = Src
      BY DEF Kept, Listed, Handed
    <3>2. DOMAIN new = {"sg", "wc", "mfc"}
      BY <1>2 DEF Parts
    <3>3. Parts(u, new.sg, new.wc, [on |-> TRUE, iif |-> e.iif, oifs |-> oifs \ {e.iif}])
      BY <3>2, KChgMfcParts
    <3> HIDE DEF u
    <3> QED
      BY <3>1, <3>3, Zenon
  <2> HIDE DEF u
  <2> QED
    BY <1>2, <1>5, <1>8, <2>1, Zenon DEF Kept, Shape, Owned, Listed, Mirrored, Parts, u
<1> QED
  BY <1>1, <1>2, <1>4, <1>5, <1>6, <1>7, <1>8 DEF Kept, x

\* Flags and timers of the source entry are not the kernel's business.
LEMMA FlagsKeep ==
  ASSUME NEW t, Kept(t), NEW e, Handed(e, t.sg), NEW u, Parts(u, e, t.wc, t.mfc)
  PROVE  Kept(u)
BY DEF Kept, Shape, Owned, Listed, Mirrored, Handed, Parts

\* change_interfaces() of the shared tree's entry.
LEMMA ChangeWcKeeps ==
  ASSUME NEW t, Kept(t), NEW wc, Handed(wc, t.wc), NEW direct
  PROVE  Kept(ChangeWc(t, wc, direct))
<1> DEFINE oifs == WcOifs(wc)
           new  == [t EXCEPT !.wc = [wc EXCEPT !.oifs = oifs]]
           old  == [t EXCEPT !.wc = wc]
           pushed == CASE oifs = {} -> DropWcCache(new)
                       [] oifs # {} /\ wc.kc -> InstallWc(new)
                       [] OTHER -> new
<1>1. \/ pushed = DropWcCache(new)
      \/ wc.kc /\ pushed = InstallWc(new)
      \/ ~wc.kc /\ pushed = new
  <2>1. oifs = {} \/ (oifs # {} /\ wc.kc) \/ (oifs # {} /\ ~wc.kc)
    OBVIOUS
  <2> QED
    BY <2>1, Zenon
<1>2. /\ Parts(new, t.sg, new.wc, t.mfc)
      /\ DOMAIN new.wc = Fields /\ new.wc.kc = t.wc.kc /\ new.wc.on = t.wc.on
      /\ new.wc.iif = t.wc.iif /\ new.wc.oifs = oifs /\ WcOifs(new.wc) = oifs
  BY DEF Kept, Shape, Handed, Fields, Parts, WcOifs
<1>3. Parts(old, t.sg, wc, t.mfc)
  BY DEF Kept, Shape, Parts
<1>4. ChangeWc(t, wc, direct) = IF oifs = t.wc.oifs THEN old
                                ELSE IF t.sg.on THEN ChangeSg(pushed, t.sg, direct, FALSE)
                                ELSE pushed
  BY DEF ChangeWc
<1>5. oifs = t.wc.oifs => Kept(old)
  <2> HIDE DEF old
  <2> QED
    BY <1>3 DEF Kept, Shape, Owned, Listed, Mirrored, Handed, Parts
<1> HIDE DEF new, pushed, old
<1>6. Shape(new) /\ Owned(new) /\ Listed(new) /\ (~t.wc.kc => Mirrored(new))
  BY <1>2 DEF Kept, Shape, Owned, Listed, Mirrored, Parts
<1>7. Kept(DropWcCache(new)) /\ DropWcCache(new).sg = t.sg
  BY <1>2, <1>6, DropWcCacheKeeps, Zenon DEF Parts
<1>8. wc.kc => Kept(InstallWc(new)) /\ InstallWc(new).sg = t.sg
  BY <1>2, <1>6, InstallWcKeeps, Zenon DEF Parts, Handed
<1>9. Kept(pushed) /\ pushed.sg = t.sg
  BY <1>1, <1>2, <1>6, <1>7, <1>8 DEF Kept, Handed, Parts
<1>10. Kept(ChangeSg(pushed, t.sg, direct, FALSE))
  <2>1. Handed(t.sg, pushed.sg)
    BY <1>9 DEF Handed, Kept, Shape
  <2> QED
    BY <1>9, <2>1, ChangeSgKeeps, Zenon
<1> QED
  BY <1>4, <1>5, <1>9, <1>10, Zenon

\* find_route() with CREATE gives the source an entry, and none of the kernel's.
LEMMA FindSgKeeps ==
  ASSUME NEW t, Kept(t)
  PROVE  Kept(FindSg(t)) /\ FindSg(t).sg.on
<1> DEFINE e == [NoEntry EXCEPT !.on = TRUE, !.joined = t.wc.joined, !.leaves = t.wc.leaves,
                                !.pruned = t.wc.pruned, !.oifs = t.wc.oifs]
           u == [t EXCEPT !.sg = e]
<1>1. DOMAIN e = Fields /\ e.kc = FALSE /\ e.on = TRUE /\ e.iif = Src
  BY DEF NoEntry, Fields
<1>2. FindSg(t) = IF t.sg.on THEN t ELSE u
  BY DEF FindSg
<1> HIDE DEF e
<1>3. Parts(u, e, t.wc, t.mfc)
  BY DEF Parts, Kept, Shape
<1> HIDE DEF u
<1>4. ~t.sg.on => Kept(u) /\ u.sg.on
  BY <1>1, <1>3, Zenon DEF Kept, Shape, Owned, Listed, Mirrored, Parts
<1> QED
  BY <1>2, <1>4

\* The same for the shared tree.
LEMMA FindWcKeeps ==
  ASSUME NEW t, Kept(t)
  PROVE  Kept(FindWc(t, Reg)) /\ FindWc(t, Reg).wc.on
<1> DEFINE e == [NoEntry EXCEPT !.on = TRUE, !.iif = Reg]
           u == [t EXCEPT !.wc = e]
<1>1. /\ DOMAIN e = Fields /\ e.kc = FALSE /\ e.on = TRUE /\ e.iif = Reg
      /\ e.oifs = {} /\ WcOifs(e) = {}
  BY DEF NoEntry, Fields, WcOifs
<1>2. FindWc(t, Reg) = IF t.wc.on THEN t ELSE u
  BY DEF FindWc
<1> HIDE DEF e
<1>3. Parts(u, t.sg, e, t.mfc)
  BY DEF Parts, Kept, Shape
<1> HIDE DEF u
<1>4. ~t.wc.on => Kept(u) /\ u.wc.on
  BY <1>1, <1>3, Zenon DEF Kept, Shape, Owned, Listed, Mirrored, Parts
<1> QED
  BY <1>2, <1>4

\* delete_mrtentry() of either entry takes the kernel's entry with it if it owns it.
LEMMA DeleteKeeps ==
  ASSUME NEW t, Kept(t)
  PROVE  Kept(DeleteSg(t)) /\ Kept(DeleteWc(t))
<1>1. /\ DOMAIN NoEntry = Fields /\ NoEntry.kc = FALSE /\ NoEntry.on = FALSE
      /\ NoEntry.iif = Src /\ NoEntry.oifs = {} /\ WcOifs(NoEntry) = {}
  BY DEF NoEntry, Fields, WcOifs
<1>2. Kept(DeleteSg(t))
  <2> DEFINE d == DropSgCache(t)
             u == [d EXCEPT !.sg = NoEntry]
  <2>1. Kept(d) /\ d.sg.kc = FALSE
    BY DropSgCacheKeeps, Zenon DEF Kept
  <2> HIDE DEF d
  <2>2. Parts(u, NoEntry, d.wc, d.mfc)
    BY <2>1 DEF Parts, Kept, Shape
  <2> HIDE DEF u
  <2>3. Kept(u)
    BY <1>1, <2>1, <2>2, Zenon DEF Kept, Shape, Owned, Listed, Mirrored, Parts
  <2> QED
    BY <2>3 DEF DeleteSg, u, d
<1>3. Kept(DeleteWc(t))
  <2> DEFINE d == DropWcCache(t)
             u == [d EXCEPT !.wc = NoEntry]
  <2>1. Kept(d) /\ d.wc.kc = FALSE
    BY DropWcCacheKeeps, Zenon DEF Kept
  <2> HIDE DEF d
  <2>2. Parts(u, d.sg, NoEntry, d.mfc)
    BY <2>1 DEF Parts, Kept, Shape
  <2> HIDE DEF u
  <2>3. Kept(u)
    BY <1>1, <2>1, <2>2, Zenon DEF Kept, Shape, Owned, Listed, Mirrored, Parts
  <2> QED
    BY <2>3 DEF DeleteWc, u, d
<1> QED
  BY <1>2, <1>3

\* add_leaf() and delete_leaf().
LEMMA LeavesKeep ==
  ASSUME NEW t, Kept(t), NEW v, NEW direct
  PROVE  Kept(AddLeaf(t, v, Reg, direct)) /\ Kept(DeleteLeaf(t, v, direct))
<1>1. ASSUME NEW u, Kept(u), NEW s
      PROVE  /\ Handed([u.sg EXCEPT !.leaves = s], u.sg)
             /\ Handed([u.wc EXCEPT !.leaves = s], u.wc)
  BY <1>1 DEF Kept, Shape, Handed, Fields
<1>2. Kept(AddLeaf(t, v, Reg, direct))
  <2> DEFINE f == FindWc(t, Reg)
             u == ChangeWc(f, [f.wc EXCEPT !.leaves = @ \cup {v}], direct)
             x == ChangeSg(u, [u.sg EXCEPT !.leaves = @ \cup {v}], direct, FALSE)
  <2>1. Kept(f)
    BY FindWcKeeps
  <2>2. AddLeaf(t, v, Reg, direct) = IF v \in f.wc.leaves THEN f
                                     ELSE IF u.sg.on THEN x ELSE u
    BY DEF AddLeaf
  <2> HIDE DEF f
  <2>3. Kept(u)
    BY <1>1, <2>1, ChangeWcKeeps, Zenon
  <2> HIDE DEF u
  <2>4. Kept(x)
    BY <1>1, <2>3, ChangeSgKeeps, Zenon
  <2> QED
    BY <2>1, <2>2, <2>3, <2>4, Zenon
<1>3. Kept(DeleteLeaf(t, v, direct))
  <2> DEFINE u == ChangeWc(t, [t.wc EXCEPT !.leaves = @ \ {v}], direct)
             x == ChangeSg(u, [u.sg EXCEPT !.leaves = @ \ {v}], direct, FALSE)
  <2>1. DeleteLeaf(t, v, direct) = IF v \notin t.wc.leaves THEN t
                                   ELSE IF u.sg.on THEN x ELSE u
    BY DEF DeleteLeaf
  <2>2. Kept(u)
    BY <1>1, ChangeWcKeeps, Zenon
  <2> HIDE DEF u
  <2>3. Kept(x)
    BY <1>1, <2>2, ChangeSgKeeps, Zenon
  <2> QED
    BY <2>1, <2>2, <2>3, Zenon
<1> QED
  BY <1>2, <1>3

\* One flag or timer of the source entry set.
LEMMA FlagKeeps ==
  ASSUME NEW t, Kept(t), NEW x
  PROVE  /\ Kept([t EXCEPT !.sg.et = x]) /\ [t EXCEPT !.sg.et = x].sg.on = t.sg.on
         /\ Kept([t EXCEPT !.sg.kat = x])
         /\ Kept([t EXCEPT !.sg.spt = x]) /\ [t EXCEPT !.sg.spt = x].sg.on = t.sg.on
         /\ Kept([t EXCEPT !.sg.base = x])
         /\ Kept([t EXCEPT !.sg.sbase = x])
         /\ Kept([t EXCEPT !.sg.rs = x])
<1> DEFINE U(f) == [t EXCEPT !.sg = [@ EXCEPT ![f] = x]]
<1>1. ASSUME NEW f \in Fields \ {"on", "kc", "oifs", "iif"}
      PROVE  Kept(U(f)) /\ U(f).sg.on = t.sg.on
  <2> DEFINE e == [t.sg EXCEPT ![f] = x]
             u == [t EXCEPT !.sg = e]
  <2>1. Handed(e, t.sg) /\ e.on = t.sg.on
    BY <1>1 DEF Kept, Shape, Handed, Fields
  <2>2. Parts(u, e, t.wc, t.mfc)
    <3> HIDE DEF e
    <3> QED
      BY DEF Parts, Kept, Shape
  <2>3. U(f) = u
    BY DEF Kept, Shape
  <2> HIDE DEF e, u
  <2>4. Kept(u) /\ u.sg.on = t.sg.on
    BY <2>1, <2>2, FlagsKeep DEF Parts
  <2> HIDE DEF U
  <2> QED
    BY <2>3, <2>4
<1> HIDE DEF U
<1>2. /\ Kept(U("et")) /\ U("et").sg.on = t.sg.on /\ Kept(U("kat"))
      /\ Kept(U("spt")) /\ U("spt").sg.on = t.sg.on
      /\ Kept(U("base")) /\ Kept(U("sbase")) /\ Kept(U("rs"))
  BY <1>1 DEF Fields
<1>3. /\ [t EXCEPT !.sg.et = x] = U("et") /\ [t EXCEPT !.sg.kat = x] = U("kat")
      /\ [t EXCEPT !.sg.spt = x] = U("spt") /\ [t EXCEPT !.sg.base = x] = U("base")
      /\ [t EXCEPT !.sg.sbase = x] = U("sbase") /\ [t EXCEPT !.sg.rs = x] = U("rs")
  BY DEF U
<1> QED
  BY <1>2, <1>3, Zenon

\* The Keepalive Timer started, with its flag.
LEMMA KeepaliveKeeps ==
  ASSUME NEW t, Kept(t), NEW x, NEW y
  PROVE  Kept([t EXCEPT !.sg.et = x, !.sg.kat = y])
<1> DEFINE v == [t EXCEPT !.sg.et = x]
<1>1. Kept(v)
  BY FlagKeeps, Zenon
<1>2. [t EXCEPT !.sg.et = x, !.sg.kat = y] = [v EXCEPT !.sg.kat = y]
  BY DEF Kept, Shape, Fields
<1> HIDE DEF v
<1>3. Kept([v EXCEPT !.sg.kat = y])
  BY <1>1, FlagKeeps, Zenon
<1> QED
  BY <1>2, <1>3, Zenon

\* switch_shortest_path()
LEMMA SwitchKeeps ==
  ASSUME NEW t, Kept(t)
  PROVE  Kept(SwitchShortestPath(t))
BY FindSgKeeps, KeepaliveKeeps, Zenon DEF SwitchShortestPath

\* add_kernel_cache() and k_chg_mfc() move the kernel's entry to the source entry.
LEMMA SgTakes ==
  ASSUME NEW t, Kept(t), t.sg.on
  PROVE  Kept(InstallSg(CacheSg(t)))
<1> DEFINE sg == [t.sg EXCEPT !.kc = TRUE]
           wc == [t.wc EXCEPT !.kc = FALSE]
           c == CacheSg(t)
<1>1. Parts(c, sg, wc, t.mfc)
  BY DEF CacheSg, Parts, Kept, Shape
<1>2. /\ DOMAIN sg = Fields /\ sg.kc = TRUE /\ sg.on = t.sg.on /\ sg.iif = Src
      /\ DOMAIN wc = Fields /\ wc.kc = FALSE /\ wc.on = t.wc.on /\ wc.iif = t.wc.iif
      /\ wc.oifs = t.wc.oifs /\ WcOifs(wc) = WcOifs(t.wc)
  BY Zenon DEF Kept, Shape, Listed, Fields, WcOifs
<1> HIDE DEF sg, wc, c
<1> DEFINE k == KChgMfc(c, Src, sg.oifs)
           e == [sg EXCEPT !.oifs = sg.oifs \ {Src}]
           u == InstallSg(c)
<1>3. Parts(k, sg, wc, [on |-> TRUE, iif |-> Src, oifs |-> sg.oifs \ {Src}])
  BY <1>1, KChgMfcParts DEF Parts
<1>4. u = [k EXCEPT !.sg.oifs = @ \ {Src}]
  BY <1>1, <1>2 DEF InstallSg, Parts
<1> HIDE DEF k
<1>5. Parts(u, e, wc, [on |-> TRUE, iif |-> Src, oifs |-> sg.oifs \ {Src}])
  BY <1>3, <1>4 DEF Parts
<1>6. /\ DOMAIN e = Fields /\ e.kc = TRUE /\ e.on = t.sg.on /\ e.iif = Src
      /\ e.oifs = sg.oifs \ {Src}
  BY <1>2, Zenon DEF Fields
<1> HIDE DEF e, u
<1>7. Shape(u) /\ Owned(u) /\ Listed(u)
  BY <1>2, <1>5, <1>6, Zenon DEF Kept, Shape, Owned, Listed, Parts
<1>8. Mirrored(u)
  <2>1. e.oifs \ {Src} = sg.oifs \ {Src}
    BY <1>6
  <2> QED
    BY <1>2, <1>5, <1>6, <2>1, Zenon DEF Mirrored, Parts
<1> QED
  BY <1>7, <1>8 DEF Kept, u, c

\* They give it to the shared tree's entry where it is not the source entry's.
LEMMA WcTakes ==
  ASSUME NEW t, Kept(t), t.wc.on, ~t.sg.kc
  PROVE  Kept(InstallWc(CacheWc(t)))
<1> DEFINE wc == [t.wc EXCEPT !.kc = TRUE]
           c == CacheWc(t)
<1>1. Parts(c, t.sg, wc, t.mfc)
  BY DEF CacheWc, Parts, Kept, Shape
<1>2. /\ DOMAIN wc = Fields /\ wc.kc = TRUE /\ wc.on = t.wc.on /\ wc.iif = t.wc.iif
      /\ wc.oifs = t.wc.oifs /\ WcOifs(wc) = WcOifs(t.wc)
  BY Zenon DEF Kept, Shape, Fields, WcOifs
<1> HIDE DEF wc, c
<1>3. Shape(c) /\ Owned(c) /\ Listed(c) /\ c.wc.kc
  BY <1>1, <1>2, Zenon DEF Kept, Shape, Owned, Listed, Parts
<1> QED
  BY <1>3, InstallWcKeeps DEF c

\* update_sptbit()
LEMMA UpdateSptbitKeeps ==
  ASSUME NEW t, Kept(t), NEW direct
  PROVE  Kept(UpdateSptbit(t, direct)) /\ UpdateSptbit(t, direct).sg.on = t.sg.on
BY FlagKeeps, Zenon DEF UpdateSptbit

\* process_cache_miss(): an upcall for the register interface comes when the kernel
\* has no entry, so the source entry owns none.
LEMMA MissedKeeps ==
  ASSUME NEW t, Kept(t), NEW iif \in {Src, Reg}, iif = Reg => Miss(t), NEW direct
  PROVE  Kept(Missed(t, iif, direct))
<1> DEFINE fresh == [t EXCEPT !.sg.et = DataTimeout]
           up == UpdateSptbit(fresh, direct)
           x == Missed(t, iif, direct)
<1>1. Kept(fresh) /\ fresh.sg.on = t.sg.on
  BY FlagKeeps, Zenon
<1>2. \/ x = t \/ x = fresh
      \/ t.sg.on /\ x = InstallSg(CacheSg(up))
      \/ iif # Src /\ t.wc.on /\ x = InstallWc(CacheWc(t))
      \/ t.wc.on /\ t.wc.iif = iif /\ x = InstallWc(CacheWc(t))
  <2>1. (t.sg.on /\ iif = Src) \/ (t.sg.on /\ iif # Src)
        \/ (~t.sg.on /\ t.wc.on /\ t.wc.iif = iif)
        \/ (~t.sg.on /\ ~(t.wc.on /\ t.wc.iif = iif))
    OBVIOUS
  <2> QED
    BY <2>1, Zenon DEF Missed
<1> HIDE DEF fresh
<1>3. Kept(up) /\ up.sg.on = t.sg.on
  BY <1>1, UpdateSptbitKeeps
<1> HIDE DEF up
<1>4. t.wc.on /\ t.wc.iif = iif => iif = Reg
  BY DEF Kept, Listed
<1>5. iif = Reg => ~t.sg.kc
  BY DEF Miss, Kept, Mirrored
<1> HIDE DEF x
<1>6. Kept(x)
  BY <1>1, <1>2, <1>3, <1>4, <1>5, SgTakes, WcTakes
<1> QED
  BY <1>6 DEF x

\* process_wrong_iif()
LEMMA WrongIifKeeps ==
  ASSUME NEW t, Kept(t), NEW iif, NEW direct
  PROVE  Kept(WrongIif(t, iif, direct))
BY UpdateSptbitKeeps, SgTakes DEF WrongIif

\* A packet at a router that is not the DR of its source.
LEMMA ArrivesKeeps ==
  ASSUME NEW t, Kept(t), NEW iif \in {Src, Reg}
  PROVE  Kept(Arrives(t, iif))
<1>1. \/ Miss(t) /\ Arrives(t, iif) = Missed(t, iif, FALSE)
      \/ Arrives(t, iif) = WrongIif(t, iif, FALSE)
      \/ Arrives(t, iif) = t
  <2>1. ~(Miss(t) /\ Wrong(t, iif))
    BY DEF Miss, Wrong
  <2> QED
    BY <2>1, Zenon DEF Arrives
<1> QED
  BY <1>1, MissedKeeps, WrongIifKeeps, Zenon

\* check_data_from_source()
LEMMA CheckDataKeeps ==
  ASSUME NEW t, Kept(t), NEW m, NEW direct
  PROVE  Kept(CheckData(t, m, direct))
<1> DEFINE u == IF t.sg.base THEN CheckKeepalive(t, direct) ELSE t
           b == [u EXCEPT !.sg.base = TRUE]
           v == IF b.sg.sbase THEN UpdateSptbit(b, direct) ELSE b
           w == [v EXCEPT !.sg.sbase = TRUE]
<1>1. Kept(u)
  BY KeepaliveKeeps, Zenon DEF CheckKeepalive
<1>2. CheckData(t, m, direct) = IF ~t.sg.on \/ ~t.sg.kc \/ ~m THEN t ELSE CheckSptbit(b, direct)
  BY DEF CheckData
<1> HIDE DEF u
<1>3. Kept(b)
  BY <1>1, FlagKeeps, Zenon
<1> HIDE DEF b
<1>4. Kept(v)
  BY <1>3, UpdateSptbitKeeps
<1>5. CheckSptbit(b, direct) = IF b.sg.spt \/ ~JoinDesired(b, b.sg, direct) THEN b ELSE w
  BY DEF CheckSptbit
<1> HIDE DEF v
<1>6. Kept(w)
  BY <1>4, FlagKeeps, Zenon
<1> HIDE DEF w
<1> QED
  BY <1>2, <1>3, <1>5, <1>6

\* check_spt_threshold()
LEMMA ThresholdKeeps ==
  ASSUME NEW t, Kept(t), NEW e, NEW m
  PROVE  Kept(SptThreshold(t, e, m))
BY SwitchKeeps DEF SptThreshold

\* What age_route_sg() and age_routes_pass() delete.
LEMMA AgeKeeps ==
  ASSUME NEW t, Kept(t)
  PROVE  Kept(AgeSg(t)) /\ Kept(AgeWc(t))
<1>1. Kept(AgeWc(t))
  BY DeleteKeeps DEF AgeWc
<1>2. Kept(AgeSg(t))
  <2> DEFINE et == IF t.sg.et > 0 THEN t.sg.et - 1 ELSE 0
             a == [t EXCEPT !.sg.et = et]
             b == [t EXCEPT !.sg.et = DataTimeout]
             c == [t EXCEPT !.sg.et = 0]
             g == t.sg.leaves = {} \/ t.wc.leaves \cap t.sg.leaves # {}
             n == t.sg.sgj # {}
  <2>1. Kept(a) /\ Kept(b) /\ Kept(c)
    <3> HIDE DEF et
    <3> QED
      BY FlagKeeps, Zenon
  <2>2. AgeSg(t) = CASE ~t.sg.on -> t
                     [] t.sg.on /\ et > 0 -> a
                     [] t.sg.on /\ et = 0 /\ n -> b
                     [] OTHER -> IF g THEN DeleteSg(t) ELSE c
    BY Zenon DEF AgeSg
  <2>3. ~(et > 0 /\ et = 0)
    OBVIOUS
  <2> HIDE DEF et, a, b, c, g, n
  <2>4. AgeSg(t) \in {t, a, b, c, DeleteSg(t)}
    BY <2>2, <2>3, Zenon
  <2> QED
    BY <2>1, <2>4, DeleteKeeps
<1> QED
  BY <1>1, <1>2

-----------------------------------------------------------------------------
(* The operations of Register on a table.                                  *)

\* register_sg_entry() and register_sg_state()
LEMMA RegisterSgKeeps ==
  ASSUME NEW t, Kept(t)
  PROVE  Kept(RegisterSgEntry(t)) /\ Kept(RegisterSgState(t))
<1>1. Kept(RegisterSgEntry(t))
  <2> DEFINE u == FindSg(t)
  <2>1. Kept(u)
    BY FindSgKeeps
  <2>2. Handed(u.sg, u.sg)
    BY <2>1 DEF Handed, Kept, Shape
  <2>3. RegisterSgEntry(t) = IF t.sg.on THEN t ELSE ChangeSg(u, u.sg, FALSE, FALSE)
    BY DEF RegisterSgEntry
  <2> HIDE DEF u
  <2>4. Kept(ChangeSg(u, u.sg, FALSE, FALSE))
    BY <2>1, <2>2, ChangeSgKeeps, Zenon
  <2> QED
    BY <2>3, <2>4, Zenon
<1> DEFINE e == RegisterSgEntry(t)
           k == e.sg.kat \/ scenario.zero
<1>2. RegisterSgState(t) = [e EXCEPT !.sg.et = DataTimeout, !.sg.kat = k]
  BY <1>1 DEF RegisterSgState, Kept, Shape, Fields
<1> HIDE DEF e, k
<1>3. Kept([e EXCEPT !.sg.et = DataTimeout, !.sg.kat = k])
  BY <1>1, KeepaliveKeeps, Zenon DEF e
<1> QED
  BY <1>1, <1>2, <1>3, Zenon DEF e

\* receive_pim_register(), whatever it answers.
LEMMA AnswerKeeps ==
  ASSUME NEW r, NEW m, NEW t, Kept(t)
  PROVE  Kept(Answer(r, m, t).table)
<1> DEFINE copy  == IsCopy(r, m)
           rp    == IAmRp(r, m.to) /\ StandsFor(r, m) = RpAddress
           fresh == [t EXCEPT !.sg.et = DataTimeout]
           switched == IF copy /\ SgOifs(fresh, fresh.sg) # {} THEN SwitchShortestPath(fresh)
                                                               ELSE fresh
           state == RegisterSgState(t)
           zero == IF scenario.zero THEN SwitchShortestPath(fresh) ELSE fresh
           k == IF m.t = "data" THEN InstallWc(CacheWc(t)) ELSE t
           last == IF copy THEN SwitchShortestPath(RegisterSgEntry(k)) ELSE k
           x == Answer(r, m, t)
<1>1. Kept(fresh)
  BY FlagKeeps, Zenon
<1>2. Kept(SwitchShortestPath(fresh))
  <2> HIDE DEF fresh
  <2> QED
    BY <1>1, SwitchKeeps
<1>3. Kept(switched) /\ Kept(zero) /\ Kept(state)
  BY <1>1, <1>2, RegisterSgKeeps
<1>4. t.wc.on /\ ~t.sg.on => Kept(last)
  <2> SUFFICES ASSUME t.wc.on, ~t.sg.on PROVE Kept(last)
    OBVIOUS
  <2>1. ~t.sg.kc
    BY DEF Kept, Owned
  <2>2. Kept(k)
    BY <2>1, WcTakes
  <2> HIDE DEF k
  <2> QED
    BY <2>2, RegisterSgKeeps, SwitchKeeps
<1>5. \/ \E s : x = [table |-> t, stop |-> s]
      \/ \E s : x = [table |-> state, stop |-> s]
      \/ \E s : x = [table |-> fresh, stop |-> s]
      \/ \E s : x = [table |-> zero, stop |-> s]
      \/ \E s : x = [table |-> switched, stop |-> s]
      \/ t.wc.on /\ ~t.sg.on /\ \E s : x = [table |-> last, stop |-> s]
  <2> DEFINE o == m.t = "data" /\ SgOifs(fresh, fresh.sg) = {}
             p == WcOifs(t.wc) = {}
  <2>1. x = CASE ~rp -> [table |-> t, stop |-> TRUE]
              [] rp /\ ~t.wc.on -> [table |-> state, stop |-> scenario.zero]
              [] rp /\ t.wc.on /\ t.sg.on /\ t.sg.spt -> [table |-> fresh, stop |-> TRUE]
              [] rp /\ t.wc.on /\ t.sg.on /\ ~t.sg.spt ->
                   IF o THEN [table |-> zero, stop |-> TRUE]
                        ELSE [table |-> switched, stop |-> FALSE]
              [] rp /\ t.wc.on /\ ~t.sg.on /\ p -> [table |-> state, stop |-> scenario.zero]
              [] OTHER -> [table |-> last, stop |-> FALSE]
    BY Zenon DEF Answer
  <2> HIDE DEF o, p, rp, fresh, state, zero, switched, last, x
  <2> QED
    BY <2>1, Zenon
<1> HIDE DEF fresh, state, zero, switched, last, x
<1>6. x.table \in {t, state, fresh, zero, switched} \/ (t.wc.on /\ ~t.sg.on /\ x.table = last)
  <2>1. \A y, s : [table |-> y, stop |-> s].table = y
    BY Zenon
  <2> QED
    BY <1>5, <2>1, Zenon
<1>7. Kept(x.table)
  BY <1>1, <1>3, <1>4, <1>6, Zenon
<1> QED
  BY <1>7 DEF x

\* process_cache_miss() for a directly connected source.
LEMMA LocalMissKeeps ==
  ASSUME NEW t, Kept(t)
  PROVE  Kept(LocalMiss(t))
<1> DEFINE u == FindSg(t)
           j == IF covered /\ (~IsRp(Dr) \/ Peers(Dr) # {}) THEN u.sg.joined \cup {Reg}
                                                             ELSE u.sg.joined
           e == [u.sg EXCEPT !.joined = j]
<1>1. Kept(u)
  BY FindSgKeeps
<1>2. LocalMiss(t) = ChangeSg(u, e, TRUE, FALSE)
  BY DEF LocalMiss
<1> HIDE DEF u, j
<1>3. Handed(e, u.sg)
  BY <1>1 DEF Handed, Kept, Shape, Fields
<1> HIDE DEF e
<1> QED
  BY <1>1, <1>2, <1>3, ChangeSgKeeps, Zenon

\* send_pim_register()
LEMMA SendRegisterKeeps ==
  ASSUME NEW t, Kept(t)
  PROVE  Kept(SendRegister(t))
BY FindSgKeeps, FlagKeeps, Zenon DEF SendRegister

\* age_route_sg()'s Register-Suppression timer.
LEMMA AgeSuppressionKeeps ==
  ASSUME NEW t, Kept(t)
  PROVE  Kept(AgeSuppression(t))
<1> DEFINE e == [t.sg EXCEPT !.rs = 0, !.pruned = @ \ {Reg}]
           x == ChangeSg(t, e, TRUE, FALSE)
           y == [t EXCEPT !.sg.rs = t.sg.rs - 1]
<1>1. Handed(e, t.sg)
  BY DEF Handed, Kept, Shape, Fields
<1>2. AgeSuppression(t) = CASE t.sg.rs = 0 -> t
                            [] t.sg.rs = 1 -> x
                            [] OTHER -> y
  BY Zenon DEF AgeSuppression
<1>3. Kept(x)
  <2> HIDE DEF e
  <2> QED
    BY <1>1, ChangeSgKeeps, Zenon
<1>4. Kept(y)
  BY FlagKeeps, Zenon
<1> HIDE DEF x, y
<1>5. ~(t.sg.rs = 0 /\ t.sg.rs = 1)
  OBVIOUS
<1>6. AgeSuppression(t) = t \/ AgeSuppression(t) = x \/ AgeSuppression(t) = y
  BY <1>2, <1>5, Zenon
<1> QED
  BY <1>3, <1>4, <1>6

\* A pass of age_routes_pass().
LEMMA AgedKeeps ==
  ASSUME NEW r, NEW t, Kept(t)
  PROVE  Kept(Aged(r, t))
<1> DEFINE m == r \in moved
           direct == r = Dr
           w == AgeWc(IF scenario.zero THEN SptThreshold(t, t.wc, m) ELSE t)
           s == IF scenario.zero THEN SptThreshold(w, w.sg, m) ELSE w
           d == CheckData(s, m, direct)
<1>1. Aged(r, t) = AgeSg(AgeSuppression(d))
  BY DEF Aged
<1> HIDE DEF m, direct
<1>2. Kept(w)
  BY ThresholdKeeps, AgeKeeps
<1> HIDE DEF w
<1>3. Kept(s)
  BY <1>2, ThresholdKeeps
<1> HIDE DEF s
<1>4. Kept(d)
  BY <1>3, CheckDataKeeps
<1> HIDE DEF d
<1> QED
  BY <1>1, <1>4, AgeSuppressionKeeps, AgeKeeps

-----------------------------------------------------------------------------
(* The steps.                                                              *)

\* The inductive invariant of the routers' tables.
Tables == DOMAIN rt = Routers /\ \A r \in Routers : Kept(rt[r])

\* A step at one router keeps the invariant if it keeps that router's table.
LEMMA OneTable ==
  ASSUME Tables, NEW r, NEW u, r \in Routers => Kept(u), rt' = [rt EXCEPT ![r] = u]
  PROVE  Tables'
BY DEF Tables, Routers

\* The kernel of Dr forwards a packet, or hands it up, and the RPs get it.
LEMMA PacketKeeps ==
  ASSUME Tables, Packet
  PROVE  Tables'
<1> DEFINE t == rt[Dr]
           l == IF dr THEN LocalMiss(t) ELSE t
           u == CASE Miss(t)       -> Missed(l, Src, TRUE)
                  [] Wrong(t, Src) -> WrongIif(t, Src, TRUE)
                  [] OTHER         -> t
           out == Forwards(u, Src)
           fed == out \cap Rps
           a == IF Reg \in out THEN SendRegister(u) ELSE u
           N(r) == CASE r = Dr    -> a
                     [] r \in fed -> Arrives(rt[r], Src)
                     [] OTHER     -> rt[r]
<1>1. Kept(t)
  BY DEF Tables, Routers
<1>2. Kept(l)
  BY <1>1, LocalMissKeeps
<1>3. Kept(u)
  <2>1. u = Missed(l, Src, TRUE) \/ u = WrongIif(t, Src, TRUE) \/ u = t
    <3>1. ~(Miss(t) /\ Wrong(t, Src))
      BY DEF Miss, Wrong
    <3> QED
      BY <3>1, Zenon
  <2>2. Kept(Missed(l, Src, TRUE))
    BY <1>2, MissedKeeps, MrtInterfaces, Zenon
  <2>3. Kept(WrongIif(t, Src, TRUE))
    BY <1>1, WrongIifKeeps, Zenon
  <2> HIDE DEF u
  <2> QED
    BY <1>1, <2>1, <2>2, <2>3, Zenon
<1>4. rt' = [r \in Routers |-> N(r)]
  BY Zenon DEF Packet
<1> HIDE DEF t, u
<1>5. Kept(a)
  BY <1>3, SendRegisterKeeps
<1> HIDE DEF a, fed
<1>6. ASSUME NEW r \in Routers PROVE Kept(N(r))
  <2>1. N(r) = a \/ N(r) = Arrives(rt[r], Src) \/ N(r) = rt[r]
    <3>1. CASE r = Dr
      <4>1. r \notin fed
        BY <3>1, RegisterRouters DEF fed
      <4> QED
        BY <3>1, <4>1, Zenon
    <3>2. CASE r # Dr
      BY <3>2, Zenon
    <3> QED
      BY <3>1, <3>2
  <2>2. Kept(rt[r])
    BY DEF Tables
  <2> HIDE DEF N
  <2> QED
    BY <1>5, <2>1, <2>2, ArrivesKeeps
<1> HIDE DEF N
<1> QED
  BY <1>4, <1>6 DEF Tables, Routers

\* The messages a router receives.
LEMMA ReceiveKeeps ==
  ASSUME Tables, NEW m, ReceiveRegister(m) \/ ReceiveStop(m)
  PROVE  Tables'
<1> DEFINE r == m.at
<1>1. r \in Routers => Kept(rt[r])
  BY DEF Tables
<1>2. CASE ReceiveRegister(m)
  <2> DEFINE t == IF m.t = "data" THEN Arrives(rt[r], Reg) ELSE rt[r]
             a == Answer(r, m, t)
  <2>1. rt' = [rt EXCEPT ![r] = a.table]
    BY <1>2 DEF ReceiveRegister
  <2>2. r \in Routers => Kept(t)
    BY <1>1, ArrivesKeeps
  <2> HIDE DEF t
  <2>3. r \in Routers => Kept(a.table)
    BY <2>2, AnswerKeeps
  <2> HIDE DEF a, r
  <2> QED
    BY <2>1, <2>3, OneTable, Zenon
<1>3. CASE ReceiveStop(m)
  <2>1. CASE rt' = rt
    BY <2>1 DEF Tables, Routers
  <2>2. CASE rt' # rt
    <3>1. PICK rs : rt' = [rt EXCEPT ![r] = Suppressed(rt[r], rs)]
      BY <1>3, <2>2 DEF ReceiveStop
    <3> DEFINE e == [rt[r].sg EXCEPT !.rs = rs, !.pruned = @ \cup {Reg}]
    <3>2. r \in Routers => Handed(e, rt[r].sg)
      BY <1>1 DEF Handed, Kept, Shape, Fields
    <3>3. Suppressed(rt[r], rs) = ChangeSg(rt[r], e, TRUE, FALSE)
      BY DEF Suppressed
    <3> HIDE DEF e, r
    <3>4. r \in Routers => Kept(ChangeSg(rt[r], e, TRUE, FALSE))
      BY <1>1, <3>2, ChangeSgKeeps, Zenon
    <3>5. r \in Routers => Kept(Suppressed(rt[r], rs))
      BY <3>3, <3>4, Zenon
    <3> QED
      BY <3>1, <3>5, OneTable, Zenon
  <2> QED
    BY <2>1, <2>2
<1> QED
  BY <1>2, <1>3

\* A Join(S,G) or Prune(S,G) of an RP at Dr.
LEMMA JoinPruneKeeps ==
  ASSUME Tables, NEW r, JoinPruneSg(r)
  PROVE  Tables'
<1> DEFINE t == IF Wants(r) THEN FindSg(rt[Dr]) ELSE rt[Dr]
           a == [t.sg EXCEPT !.joined = @ \cup {r}, !.sgj = @ \cup {r},
                             !.et = IF @ = 0 THEN DataTimeout ELSE @]
           b == [t.sg EXCEPT !.joined = @ \ {r}, !.sgj = @ \ {r}]
           e == IF Wants(r) THEN a ELSE b
           u == ChangeSg(t, e, TRUE, FALSE)
<1>1. Kept(t)
  BY FindSgKeeps DEF Tables, Routers
<1>2. rt' = [rt EXCEPT ![Dr] = u]
  BY Zenon DEF JoinPruneSg
<1> HIDE DEF t
<1>3. Handed(a, t.sg) /\ Handed(b, t.sg)
  BY <1>1 DEF Handed, Kept, Shape, Fields
<1> HIDE DEF a, b
<1>4. Handed(e, t.sg)
  BY <1>3
<1> HIDE DEF e
<1>5. Kept(u)
  BY <1>1, <1>4, ChangeSgKeeps, Zenon
<1> HIDE DEF u
<1> QED
  BY <1>2, <1>5, OneTable, Zenon

\* Dr loses the group's RP, or the election.
LEMMA LossKeeps ==
  ASSUME Tables, LoseRp \/ LoseDr
  PROVE  Tables'
<1>1. Kept(rt[Dr])
  BY DEF Tables, Routers
<1>2. CASE LoseRp
  <2> DEFINE t == DeleteWc(rt[Dr])
             e == [t.sg EXCEPT !.joined = @ \ {Reg}, !.pruned = @ \ {Reg}, !.rs = 0]
             u == IF ~t.sg.on THEN t ELSE ChangeSg(t, e, TRUE, TRUE)
  <2>1. rt' = [rt EXCEPT ![Dr] = u]
    BY <1>2, Zenon DEF LoseRp
  <2>2. Kept(t)
    BY <1>1, DeleteKeeps
  <2> HIDE DEF t
  <2>3. Handed(e, t.sg)
    BY <2>2 DEF Handed, Kept, Shape, Fields
  <2> HIDE DEF e
  <2>4. Kept(u)
    BY <2>2, <2>3, ChangeSgKeeps, Zenon
  <2> HIDE DEF u
  <2> QED
    BY <2>1, <2>4, OneTable, Zenon
<1>3. CASE LoseDr
  <2> DEFINE t == rt[Dr]
             e == [t.sg EXCEPT !.joined = @ \ {Reg}]
             u == ChangeSg(t, e, TRUE, FALSE)
  <2>1. rt' = [rt EXCEPT ![Dr] = u] \/ rt' = rt
    BY <1>3, Zenon DEF LoseDr
  <2>2. Handed(e, t.sg)
    BY <1>1 DEF Handed, Kept, Shape, Fields
  <2>3. Kept(u)
    <3> HIDE DEF t, e
    <3> QED
      BY <1>1, <2>2, ChangeSgKeeps, Zenon DEF t
  <2> HIDE DEF u
  <2>4. CASE rt' = rt
    BY <2>4 DEF Tables, Routers
  <2> QED
    BY <2>1, <2>3, <2>4, OneTable
<1> QED
  BY <1>2, <1>3

\* Every step keeps every table.
LEMMA NextKeeps == Tables /\ [Next]_vars => Tables'
<1> SUFFICES ASSUME Tables, [Next]_vars PROVE Tables'
  OBVIOUS
<1>1. CASE Packet
  BY <1>1, PacketKeeps
<1>2. ASSUME NEW m \in net, ReceiveRegister(m) \/ ReceiveStop(m) PROVE Tables'
  BY <1>2, ReceiveKeeps
<1>3. ASSUME NEW r \in Rps, JoinPruneSg(r) PROVE Tables'
  BY <1>3, JoinPruneKeeps
<1>4. CASE Tick
  BY <1>4, AgedKeeps DEF Tick, Tables, Routers
<1>5. ASSUME NEW r \in Routers, Join(r) \/ Leave(r) PROVE Tables'
  <2> DEFINE d == r = Dr
             a == AddLeaf(rt[r], Out, Reg, d)
             b == DeleteLeaf(rt[r], Out, d)
  <2>1. rt' = [rt EXCEPT ![r] = a] \/ rt' = [rt EXCEPT ![r] = b]
    BY <1>5, Zenon DEF Join, Leave
  <2>2. Kept(a) /\ Kept(b)
    <3> HIDE DEF d
    <3> QED
      BY LeavesKeep DEF Tables
  <2> HIDE DEF a, b
  <2> QED
    BY <2>1, <2>2, OneTable
<1>6. CASE LoseRp \/ LoseDr
  BY <1>6, LossKeeps
<1>7. CASE GainRp
  <2> DEFINE a == AddLeaf(rt[Dr], Out, Reg, TRUE)
             u == IF Dr \in recv THEN a ELSE rt[Dr]
  <2>1. rt' = [rt EXCEPT ![Dr] = u]
    BY <1>7, Zenon DEF GainRp
  <2>2. Kept(rt[Dr]) /\ Kept(a)
    BY LeavesKeep, Zenon DEF Tables, Routers
  <2>3. Kept(u)
    <3> HIDE DEF a
    <3> QED
      BY <2>2
  <2> HIDE DEF u
  <2> QED
    BY <2>1, <2>3, OneTable, Zenon
<1>8. CASE rt' = rt
  BY <1>8 DEF Tables, Routers
<1> QED
  BY <1>1, <1>2, <1>3, <1>4, <1>5, <1>6, <1>7, <1>8
  DEF Next, vars, Lose, Reroute, GainDr, Stop, Resume

\* For any number of RPs, any Anycast-RP sets, and whatever order Registers,
\* Register-Stops, Joins, cache misses and deletions come in, the kernel's
\* forwarding entry is the one the table's owner of it has: process_cache_miss(),
\* change_interfaces() and delete_mrtentry() never leave one behind.
THEOREM KernelMirrorsTable == Spec => []KernelMirrors
<1>1. Init => Tables
  <2> SUFFICES ASSUME Init PROVE Tables
    OBVIOUS
  <2>1. /\ DOMAIN NoEntry = Fields /\ NoEntry.kc = FALSE /\ NoEntry.on = FALSE
        /\ NoEntry.iif = Src /\ NoEntry.oifs = {} /\ WcOifs(NoEntry) = {}
    BY DEF NoEntry, Fields, WcOifs
  <2>2. Parts(EmptyTable, NoEntry, NoEntry, NoMfc)
    BY DEF EmptyTable, Parts
  <2>3. Kept(EmptyTable)
    BY <2>1, <2>2, Zenon DEF Kept, Shape, Owned, Listed, Mirrored, Parts
  <2> QED
    BY <2>3 DEF Init, Tables
<1>2. Tables => KernelMirrors
  <2> SUFFICES ASSUME Tables, NEW r \in Routers
               PROVE  LET t == rt[r]
                      IN  /\ ~(t.sg.kc /\ t.wc.kc)
                          /\ t.mfc.on = (t.sg.kc \/ t.wc.kc)
                          /\ t.sg.kc =>
                               t.mfc = [on |-> TRUE, iif |-> Src, oifs |-> t.sg.oifs \ {Src}]
                          /\ t.wc.kc =>
                               t.mfc = [on |-> TRUE, iif |-> Reg, oifs |-> WcOifs(t.wc) \ {Reg}]
    BY DEF KernelMirrors
  <2> DEFINE t == rt[r]
  <2>1. Kept(t)
    BY DEF Tables
  <2>2. NoMfc.on = FALSE
    BY DEF NoMfc
  <2>3. /\ t.sg.kc => t.mfc = [on |-> TRUE, iif |-> Src, oifs |-> t.sg.oifs \ {Src}]
        /\ t.wc.kc => t.mfc = [on |-> TRUE, iif |-> Reg, oifs |-> WcOifs(t.wc) \ {Reg}]
        /\ ~(t.sg.kc /\ t.wc.kc)
    BY <2>1 DEF Kept, Owned, Listed, Mirrored
  <2>4. /\ t.sg.kc \/ t.wc.kc => t.mfc.on = TRUE
        /\ ~(t.sg.kc \/ t.wc.kc) => t.mfc.on = FALSE
    <3>1. ~(t.sg.kc \/ t.wc.kc) => t.mfc = NoMfc
      BY <2>1 DEF Kept, Mirrored
    <3> HIDE DEF t
    <3>2. ASSUME t.sg.kc PROVE t.mfc.on = TRUE
      <4>1. [on |-> TRUE, iif |-> Src, oifs |-> t.sg.oifs \ {Src}].on = TRUE
        BY Zenon
      <4> QED
        BY <2>3, <3>2, <4>1, Zenon
    <3>3. ASSUME t.wc.kc PROVE t.mfc.on = TRUE
      <4>1. [on |-> TRUE, iif |-> Reg, oifs |-> WcOifs(t.wc) \ {Reg}].on = TRUE
        BY Zenon
      <4> QED
        BY <2>3, <3>3, <4>1, Zenon
    <3> QED
      BY <2>2, <3>1, <3>2, <3>3, Zenon
  <2>5. t.mfc.on = (t.sg.kc \/ t.wc.kc)
    <3> HIDE DEF t
    <3>1. CASE t.sg.kc \/ t.wc.kc
      BY <2>4, <3>1, Zenon
    <3>2. CASE ~(t.sg.kc \/ t.wc.kc)
      BY <2>4, <3>2, Zenon
    <3> QED
      BY <3>1, <3>2, Zenon
  <2> QED
    BY <2>3, <2>5, Zenon
<1> QED
  BY <1>1, <1>2, NextKeeps, PTL DEF Spec
=============================================================================
