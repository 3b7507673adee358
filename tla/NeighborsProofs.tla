--------------------------- MODULE NeighborsProofs ---------------------------
(***************************************************************************)
(* Proofs about Neighbors, for any number of routers with any addresses,   *)
(* priorities, periods and bounds: the DR of an interface is the one its   *)
(* neighbor list elects, whatever Hellos, timeouts, restarts and losses    *)
(* made of the list.                                                       *)
(***************************************************************************)
EXTENDS Neighbors, FiniteSetTheorems, SequenceTheorems, TLAPS

-----------------------------------------------------------------------------
\* A finite set of numbers has a greatest, which is what Max picks.
LEMMA MaxIsGreatest ==
  ASSUME NEW S \in SUBSET Nat, IsFiniteSet(S), S # {}
  PROVE  Max(S) \in S /\ \A x \in S : Max(S) >= x
<1> DEFINE Bad == {T \in SUBSET S : T # {} /\ ~\E x \in T : \A y \in T : x >= y}
<1>1. Bad = {}
  <2>1. SUFFICES ASSUME Bad # {} PROVE FALSE
    OBVIOUS
  <2>2. IsWellFoundedOn(StrictSubsetOrdering(S), SUBSET S)
    BY FS_StrictSubsetOrderingWellFounded, FS_FiniteSubsetsOfFinite, Zenon
  <2>3. PICK T \in Bad : \A U \in Bad : ~(<<U, T>> \in StrictSubsetOrdering(S))
    <3>1. Bad \subseteq SUBSET S
      OBVIOUS
    <3> HIDE DEF Bad
    <3> QED
      BY <2>1, <2>2, <3>1, WFMin, Zenon
  <2>4. PICK x \in T : TRUE
    BY <2>3, Zenon
  <2> DEFINE U == T \ {x}
  <2>5. <<U, T>> \in StrictSubsetOrdering(S)
    BY <2>3, <2>4, Zenon DEF StrictSubsetOrdering
  <2>6. U \notin Bad
    BY <2>3, <2>5
  <2>7. CASE U = {}
    BY <2>3, <2>4, <2>7
  <2>8. CASE U # {}
    <3>1. PICK z \in U : \A y \in U : z >= y
      BY <2>6, <2>8
    <3>2. x \in Nat /\ T \subseteq Nat
      BY <2>3, <2>4
    <3>3. \E w \in {x, z} : \A y \in T : w >= y
      BY <3>1, <3>2
    <3> QED
      BY <2>3, <2>4, <3>1, <3>3
  <2> QED
    BY <2>7, <2>8
<1>2. \E x \in S : \A y \in S : x >= y
  BY <1>1
<1> QED
  BY <1>2, Zenon DEF Max

\* d is the best of r, with priority prio, and its neighbors ns.
Best(r, prio, ns, d) ==
  LET p(x) == IF x = r THEN prio ELSE ns[x].prio
      all == DOMAIN ns \cup {r}
      better(x, y) == IF all \cap Legacy = {} /\ p(x) # p(y) THEN p(x) > p(y) ELSE x > y
  IN  d \in all /\ \A x \in all \ {d} : better(d, x)

\* The neighbor list of r.
IsList(r, ns) ==
  /\ DOMAIN ns \subseteq Routers \ {r}
  /\ \A n \in DOMAIN ns : ns[n].prio \in Nat

\* dr_election() finds the best, with or without priorities.
LEMMA ElectionFindsBest ==
  ASSUME NEW r \in Routers, NEW prio \in Nat, NEW ns, IsList(r, ns)
  PROVE  Best(r, prio, ns, DrElection(r, prio, ns))
<1> DEFINE D == DOMAIN ns
           P == {ns[n].prio : n \in D}
           best == Max(P)
           B == {n \in D : ns[n].prio = best}
           best_nbr == IF best = 0 \/ ByAddress(r, ns) THEN Max(D) ELSE Max(B)
           tiebreak == IF r > best_nbr THEN r ELSE best_nbr
           d == DrElection(r, prio, ns)
<1>1. /\ r \in Nat /\ D \subseteq Nat /\ r \notin D /\ P \subseteq Nat
      /\ IsFiniteSet(D)
  BY NeighborsAssumption, FS_Subset DEF IsList
<1>2. CASE D = {}
  BY <1>1, <1>2 DEF DrElection, Best
<1>3. CASE D # {}
  <2>1. IsFiniteSet(P) /\ P # {}
    <3> DEFINE f == [n \in D |-> ns[n].prio]
    <3>1. f \in Surjection(D, P)
      BY DEF Surjection
    <3> QED
      BY <1>1, <1>3, <3>1, FS_Surjection
  <2>2. best \in P /\ \A p \in P : best >= p
    BY <1>1, <2>1, MaxIsGreatest, Zenon
  <2>3. best \in Nat /\ \A n \in D : ns[n].prio \in Nat /\ best >= ns[n].prio
    BY <1>1, <2>2 DEF IsList
  <2>4. B \in SUBSET D /\ B # {}
    BY <2>2
  <2>5. IsFiniteSet(B) /\ B \in SUBSET Nat
    BY <1>1, <2>4, FS_Subset, Zenon
  <2>6. Max(B) \in B /\ \A n \in B : Max(B) >= n
    BY <2>4, <2>5, MaxIsGreatest, Zenon
  <2>7. Max(D) \in D /\ \A n \in D : Max(D) >= n
    BY <1>1, <1>3, MaxIsGreatest
  <2>8. d = IF ByAddress(r, ns) \/ best = prio THEN tiebreak
            ELSE IF best < prio THEN r ELSE best_nbr
    BY <1>3 DEF DrElection
  <2> HIDE DEF d, best, B
  <2>9. CASE ByAddress(r, ns)
    <3>1. d \in D \cup {r} /\ \A x \in D \cup {r} : x # d => d > x
      BY <1>1, <2>7, <2>8, <2>9
    <3>2. Best(r, prio, ns, d)
      BY <2>9, <3>1 DEF Best, ByAddress
    <3> QED
      BY <3>2 DEF d
  <2>10. CASE ~ByAddress(r, ns)
    <3>1. best_nbr \in D /\ ns[best_nbr].prio = best
      BY <2>3, <2>6, <2>7, <2>10 DEF B
    <3>2. \A n \in D : ns[n].prio = best => best_nbr >= n
      BY <1>1, <2>6, <2>7, <2>10 DEF B
    <3> HIDE DEF best_nbr
    <3>3. Best(r, prio, ns, d)
      BY <1>1, <2>3, <2>8, <2>10, <3>1, <3>2 DEF Best, ByAddress
    <3> QED
      BY <3>3 DEF d
  <2> QED
    BY <2>9, <2>10 DEF d
<1> QED
  BY <1>2, <1>3

-----------------------------------------------------------------------------
Vifs == [up : BOOLEAN, genid : Nat, prio : Nat, ht : Nat, trig : BOOLEAN, dr : Routers]
Entries == [timer : Nat, genid : Nat, prio : Nat, owed : BOOLEAN]
Hellos == [type : {"Hello"}, from : Routers, hold : Nat, genid : Nat, prio : Nat]
Others == [type : {"Bsm", "Jp"}, from : Routers, to : Routers, genid : Nat]

Listed(r, ns) == /\ DOMAIN ns \subseteq Routers \ {r}
                 /\ \A n \in DOMAIN ns : ns[n] \in Entries

\* What holds of one router's interface and its neighbor list.
Good(r, v, ns) == v \in Vifs /\ Listed(r, ns) /\ (v.up => Best(r, v.prio, ns, v.dr))

\* The inductive invariant: that of every router, and that what is on its way are
\* messages with a priority in the Hellos.
IInv == /\ DOMAIN vif = Routers /\ DOMAIN nbrs = Routers /\ starts \in Nat
        /\ \A r \in Routers : Good(r, vif[r], nbrs[r])
        /\ wire \in Seq(Hellos \cup Others)

\* The invariant is stronger than the property.
LEMMA IInvElected == IInv => DrIsElected
BY Zenon DEF IInv, Good, Best, DrIsElected

\* After an election all is well, whatever the list.
LEMMA ElectGood ==
  ASSUME NEW r \in Routers, NEW v \in Vifs, NEW ns, Listed(r, ns)
  PROVE  Good(r, Elect(r, v, ns), ns)
<1> DEFINE d == DrElection(r, v.prio, ns)
<1>1. v.prio \in Nat /\ IsList(r, ns)
  BY DEF Vifs, Listed, IsList, Entries
<1>2. Best(r, v.prio, ns, d)
  BY <1>1, ElectionFindsBest
<1>3. d \in Routers
  BY <1>2 DEF Best, Listed
<1>4. Elect(r, v, ns) = [v EXCEPT !.dr = d]
  BY DEF Elect
<1> HIDE DEF d
<1>5. Elect(r, v, ns) \in Vifs /\ Elect(r, v, ns).prio = v.prio /\ Elect(r, v, ns).dr = d
  BY <1>3, <1>4 DEF Vifs
<1> QED
  BY <1>2, <1>5 DEF Good

\* The best is the best of another list with the same neighbors and priorities.
LEMMA SamePriorities ==
  ASSUME NEW r \in Routers, NEW v, NEW ns, Good(r, v, ns),
         NEW w \in Vifs, w.up = v.up, w.prio = v.prio, w.dr = v.dr,
         NEW ms, Listed(r, ms), DOMAIN ms = DOMAIN ns,
         \A n \in DOMAIN ns : ms[n].prio = ns[n].prio
  PROVE  Good(r, w, ms)
BY DEF Good, Best

\* receive_pim_hello() leaves the router with the best of its new list.
LEMMA HelloSeenGood ==
  ASSUME NEW r \in Routers, NEW v, NEW ns, Good(r, v, ns), NEW msg \in Hellos, msg.from # r
  PROVE  Good(r, HelloSeen(r, v, ns, msg).v, HelloSeen(r, v, ns, msg).ns)
<1> DEFINE n == msg.from
           with(owed) == [x \in DOMAIN ns \cup {n} |-> IF x = n THEN Cached(msg, owed) ELSE ns[x]]
           less == Restrict(ns, DOMAIN ns \ {n})
           seen == HelloSeen(r, v, ns, msg)
           vt == [v EXCEPT !.trig = TRUE]
<1>1. v \in Vifs /\ vt \in Vifs /\ Listed(r, ns) /\ n \in Routers \ {r}
  BY Zenon DEF Good, Vifs, Hellos
<1>2. Listed(r, less)
  BY <1>1 DEF Listed, Restrict
<1>3. ASSUME NEW owed \in BOOLEAN
      PROVE  Listed(r, with(owed))
  <2>1. Cached(msg, owed) \in Entries
    BY DEF Cached, Entries, Hellos
  <2> QED
    BY <1>1, <2>1 DEF Listed
<1>4. CASE n \in DOMAIN ns /\ msg.hold = 0
  <2>1. seen = [v |-> Elect(r, v, less), ns |-> less]
    BY <1>4, Zenon DEF HelloSeen
  <2> QED
    BY <1>1, <1>2, <2>1, ElectGood
<1>5. CASE n \in DOMAIN ns /\ ns[n].genid = msg.genid /\ msg.hold # 0 /\ ns[n].prio = msg.prio
  <2> DEFINE ms == with(ns[n].owed)
  <2>1. seen = [v |-> v, ns |-> ms]
    BY <1>5, Zenon DEF HelloSeen
  <2>2. Listed(r, ms)
    BY <1>1, <1>3, <1>5, Zenon DEF Listed, Entries
  <2>3. DOMAIN ms = DOMAIN ns /\ \A x \in DOMAIN ns : ms[x].prio = ns[x].prio
    BY <1>5 DEF Cached
  <2>4. Good(r, v, ms)
    BY <1>1, <2>2, <2>3, SamePriorities
  <2> QED
    BY <2>1, <2>4
<1>6. CASE n \in DOMAIN ns /\ ns[n].genid = msg.genid /\ msg.hold # 0 /\ ns[n].prio # msg.prio
  <2> DEFINE ms == with(ns[n].owed)
  <2>1. seen = [v |-> Elect(r, v, ms), ns |-> ms]
    BY <1>6, Zenon DEF HelloSeen
  <2>2. Listed(r, ms)
    BY <1>1, <1>3, <1>6, Zenon DEF Listed, Entries
  <2> QED
    BY <1>1, <2>1, <2>2, ElectGood
<1>7. CASE /\ ~(n \in DOMAIN ns /\ msg.hold = 0)
           /\ ~(n \in DOMAIN ns /\ ns[n].genid = msg.genid /\ msg.hold # 0)
  <2> DEFINE ms == with(TRUE)
  <2>1. seen = [v |-> Elect(r, vt, ms), ns |-> ms]
    BY <1>7, Zenon DEF HelloSeen
  <2>2. Listed(r, ms)
    BY <1>3, Zenon
  <2> QED
    BY <1>1, <2>1, <2>2, ElectGood
<1> QED
  BY <1>4, <1>5, <1>6, <1>7

-----------------------------------------------------------------------------
\* The messages of a triggered Hello are messages.
LEMMA TriggeredMessages ==
  ASSUME IInv, NEW r \in Routers
  PROVE  Triggered(r) \in Seq(Hellos \cup Others)
<1> DEFINE M == Hellos \cup Others
           D == {x \in DOMAIN nbrs[r] : nbrs[r][x].owed}
           B == {To("Bsm", r, n) : n \in D}
<1>1. vif[r] \in Vifs /\ Listed(r, nbrs[r])
  BY DEF IInv, Good
<1>2. Hello(r, Hold) \in M
  BY <1>1, NeighborsAssumption DEF Hello, Hellos, Vifs
<1>3. B \subseteq M
  BY <1>1 DEF To, Others, Listed, Entries
<1>4. IsFiniteSet(D)
  BY <1>1, NeighborsAssumption, FS_Subset DEF Listed
<1>5. IsFiniteSet(B)
  <2> DEFINE f == [n \in D |-> To("Bsm", r, n)]
  <2>1. f \in Surjection(D, B)
    BY DEF Surjection
  <2> HIDE DEF f, D, B
  <2> QED
    BY <1>4, <2>1, FS_Surjection
<1>6. SetToSeq(B) \in Seq(M)
  <2> HIDE DEF B
  <2>1. Cardinality(B) \in Nat /\ ExistsBijection(1..Cardinality(B), B)
    BY <1>5, FS_CardinalityType
  <2>2. \E f \in [1..Cardinality(B) -> B] : IsInjective(f)
    BY <2>1 DEF ExistsBijection, Bijection, Injection
  <2>3. SetToSeq(B) \in [1..Cardinality(B) -> B]
    BY <2>2 DEF SetToSeq
  <2> QED
    BY <1>3, <2>1, <2>3
<1>7. <<Hello(r, Hold)>> \in Seq(M) /\ <<>> \in Seq(M)
  BY <1>2
<1> HIDE DEF M, B
<1> QED
  BY <1>6, <1>7, ConcatProperties DEF Triggered, B, D, M

\* The state after a step that touches the interface and the list of r only.
LEMMA OneChanges ==
  ASSUME IInv, NEW r \in Routers, NEW v, NEW ns, Good(r, v, ns),
         vif' = [vif EXCEPT ![r] = v], nbrs' = [nbrs EXCEPT ![r] = ns],
         starts' \in Nat, wire' \in Seq(Hellos \cup Others)
  PROVE  IInv'
BY DEF IInv

\* start_vif() begins with no neighbors and the router as its own DR.
LEMMA StartedGood ==
  ASSUME IInv, NEW r \in Routers, NEW p \in Configured(r), Started(r, p),
         wire' \in Seq(Hellos \cup Others)
  PROVE  IInv'
<1> DEFINE v == [up |-> TRUE, genid |-> starts + 1, prio |-> p, ht |-> 1,
                 trig |-> FALSE, dr |-> r]
           none == <<>>
<1>1. p \in Nat
  BY NeighborsAssumption DEF Configured
<1>2. v \in Vifs /\ DOMAIN none = {}
  BY <1>1 DEF Vifs, IInv
<1>3. Good(r, v, none)
  BY <1>2 DEF Good, Listed, Best
<1>4. starts' \in Nat
  BY DEF Started, IInv
<1> HIDE DEF none
<1> QED
  BY <1>3, <1>4, OneChanges, Zenon DEF Started, none

\* A Hello is a message.
LEMMA HelloMessage ==
  ASSUME IInv, NEW r \in Routers, NEW hold \in Nat
  PROVE  Append(wire, Hello(r, hold)) \in Seq(Hellos \cup Others)
<1>1. Hello(r, hold) \in Hellos
  BY DEF IInv, Good, Vifs, Hello, Hellos
<1> QED
  BY <1>1, AppendProperties DEF IInv

\* stop_vif()
LEMMA StopGood ==
  ASSUME IInv, NEW r \in Routers, Stop(r)
  PROVE  IInv'
<1> DEFINE v == [Down(r) EXCEPT !.genid = vif[r].genid]
           none == <<>>
<1>1. v \in Vifs /\ ~v.up /\ DOMAIN none = {}
  <2>1. vif[r].genid \in Nat
    BY DEF Vifs, IInv, Good
  <2>2. Down(r) \in Vifs /\ ~Down(r).up
    BY DEF Down, Vifs
  <2>3. v \in Vifs /\ ~v.up
    BY <2>1, <2>2 DEF Vifs
  <2> QED
    BY <2>3
<1>2. Good(r, v, none)
  BY <1>1 DEF Good, Listed
<1>3. wire' \in Seq(Hellos \cup Others)
  BY HelloMessage DEF Stop, IInv
<1>4. starts' \in Nat
  BY DEF Stop, IInv
<1> HIDE DEF none, v
<1> QED
  BY <1>2, <1>3, <1>4, OneChanges, Zenon DEF Stop, none, v

\* Paying the Bootstraps owed changes no priority.
LEMMA PaidGood ==
  ASSUME IInv, NEW r \in Routers
  PROVE  Good(r, [vif[r] EXCEPT !.trig = FALSE, !.ht = Period], Paid(nbrs[r]))
<1> DEFINE w == [vif[r] EXCEPT !.trig = FALSE, !.ht = Period]
<1>1. Good(r, vif[r], nbrs[r])
  BY DEF IInv
<1>2. w \in Vifs /\ w.up = vif[r].up /\ w.prio = vif[r].prio /\ w.dr = vif[r].dr
  BY <1>1, NeighborsAssumption, Zenon DEF Good, Vifs
<1>3. /\ Listed(r, Paid(nbrs[r])) /\ DOMAIN Paid(nbrs[r]) = DOMAIN nbrs[r]
      /\ \A n \in DOMAIN nbrs[r] : Paid(nbrs[r])[n].prio = nbrs[r][n].prio
  BY <1>1, Zenon DEF Good, Listed, Paid, Entries
<1> QED
  BY <1>1, <1>2, <1>3, SamePriorities, Zenon

\* age_vifs(): a list that lost neighbors has had its election, another keeps its DR.
LEMMA TickGood ==
  ASSUME IInv, NEW r \in Routers, Tick(r)
  PROVE  IInv'
<1> DEFINE aged == [n \in DOMAIN nbrs[r] |->
                      [nbrs[r][n] EXCEPT !.timer = IF @ = 0 THEN 0 ELSE @ - 1]]
           gone == {n \in DOMAIN aged : aged[n].timer = 0}
           ns == Restrict(aged, DOMAIN aged \ gone)
           v == IF gone = {} THEN vif[r] ELSE Elect(r, vif[r], ns)
           w == [v EXCEPT !.ht = IF v.ht <= 1 THEN Period ELSE @ - 1]
<1>1. Good(r, vif[r], nbrs[r])
  BY DEF IInv
<1>2. /\ DOMAIN aged = DOMAIN nbrs[r]
      /\ \A n \in DOMAIN aged : aged[n] \in Entries /\ aged[n].prio = nbrs[r][n].prio
  BY <1>1 DEF Good, Listed, Entries
<1>3. /\ DOMAIN ns = DOMAIN nbrs[r] \ gone
      /\ \A n \in DOMAIN ns : ns[n] \in Entries /\ ns[n].prio = nbrs[r][n].prio
  BY <1>2, Zenon DEF Restrict
<1> HIDE DEF aged, ns
<1>4. Listed(r, ns)
  BY <1>1, <1>3 DEF Good, Listed
<1>5. Good(r, v, ns)
  <2>1. CASE gone = {}
    BY <1>1, <1>3, <1>4, <2>1, SamePriorities, Zenon DEF Good
  <2>2. CASE gone # {}
    BY <1>1, <1>4, <2>2, ElectGood DEF Good
  <2> QED
    BY <2>1, <2>2
<1> HIDE DEF v
<1>6. w \in Vifs /\ w.up = v.up /\ w.prio = v.prio /\ w.dr = v.dr
  BY <1>5, NeighborsAssumption DEF Good, Vifs
<1>7. Good(r, w, ns)
  BY <1>4, <1>5, <1>6, SamePriorities, Zenon
<1>8. wire' \in Seq(Hellos \cup Others)
  BY HelloMessage, NeighborsAssumption, Zenon DEF Tick, IInv
<1>9. vif' = [vif EXCEPT ![r] = w] /\ nbrs' = [nbrs EXCEPT ![r] = ns] /\ starts' \in Nat
  BY Zenon DEF Tick, IInv, w, v, ns, gone, aged
<1> HIDE DEF w
<1> QED
  BY <1>7, <1>8, <1>9, OneChanges, Zenon

\* triggered_hello_timeout()
LEMMA TriggerGood ==
  ASSUME IInv, NEW r \in Routers, Trigger(r)
  PROVE  IInv'
<1>1. wire' \in Seq(Hellos \cup Others)
  BY TriggeredMessages, ConcatProperties DEF Trigger, IInv
<1>2. Good(r, [vif[r] EXCEPT !.trig = FALSE, !.ht = Period], Paid(nbrs[r]))
  BY PaidGood, Zenon
<1>3. /\ vif' = [vif EXCEPT ![r] = [vif[r] EXCEPT !.trig = FALSE, !.ht = Period]]
      /\ nbrs' = [nbrs EXCEPT ![r] = Paid(nbrs[r])] /\ starts' \in Nat
  BY DEF Trigger, IInv
<1> QED
  BY <1>1, <1>2, <1>3, OneChanges, Zenon

\* hello_before_send() and the Join/Prune
LEMMA SendJpGood ==
  ASSUME IInv, NEW r \in Routers, NEW n \in Routers, SendJp(r, n)
  PROVE  IInv'
<1> DEFINE M == Hellos \cup Others
<1>1. To("Jp", r, n) \in M
  BY DEF SendJp, IInv, Good, Listed, To, Others, Entries
<1>2. wire \in Seq(M) /\ Triggered(r) \in Seq(M) /\ <<To("Jp", r, n)>> \in Seq(M)
  BY <1>1, TriggeredMessages DEF IInv
<1> HIDE DEF M
<1>3. CASE vif[r].trig
  <2>1. wire' \in Seq(M)
    <3>1. wire \o Triggered(r) \in Seq(M)
      BY <1>2, ConcatProperties
    <3>2. wire' = (wire \o Triggered(r)) \o <<To("Jp", r, n)>>
      BY <1>3 DEF SendJp
    <3> QED
      BY <1>2, <3>1, <3>2, ConcatProperties
  <2>2. Good(r, [vif[r] EXCEPT !.trig = FALSE, !.ht = Period], Paid(nbrs[r]))
    BY PaidGood, Zenon
  <2>3. /\ vif' = [vif EXCEPT ![r] = [vif[r] EXCEPT !.trig = FALSE, !.ht = Period]]
        /\ nbrs' = [nbrs EXCEPT ![r] = Paid(nbrs[r])] /\ starts' \in Nat
    BY <1>3 DEF SendJp, IInv
  <2> QED
    BY <2>1, <2>2, <2>3, OneChanges, Zenon DEF M
<1>4. CASE ~vif[r].trig
  <2>1. wire' \in Seq(M)
    BY <1>1, <1>2, <1>4, AppendProperties DEF SendJp
  <2> QED
    BY <1>4, <2>1 DEF SendJp, IInv, M
<1> QED
  BY <1>3, <1>4

\* A message arrives: at a router that is up and gets it a Hello is handled in full.
LEMMA ReceiveGood ==
  ASSUME IInv, Receive
  PROVE  IInv'
<1> DEFINE msg == Head(wire)
<1>1. msg \in Hellos \cup Others /\ wire' \in Seq(Hellos \cup Others) /\ starts' \in Nat
  BY HeadTailProperties DEF Receive, IInv
<1>2. PICK lost : IF msg.type = "Hello" THEN ReceiveHello(msg, lost)
                  ELSE ReceiveOther(msg, lost)
  BY DEF Receive
<1> HIDE DEF msg
<1>3. CASE msg.type = "Hello"
  <2> DEFINE got == {r \in Routers \ lost : r # msg.from /\ vif[r].up}
             seen == [r \in got |-> HelloSeen(r, vif[r], nbrs[r], msg)]
  <2>1. msg \in Hellos
    BY <1>1, <1>3 DEF Others
  <2>2. /\ vif' = [r \in Routers |-> IF r \in got THEN seen[r].v ELSE vif[r]]
        /\ nbrs' = [r \in Routers |-> IF r \in got THEN seen[r].ns ELSE nbrs[r]]
    BY <1>2, <1>3, Zenon DEF ReceiveHello
  <2>3. ASSUME NEW r \in Routers PROVE Good(r, vif'[r], nbrs'[r])
    <3>1. CASE r \in got
      BY <2>1, <2>2, <3>1, HelloSeenGood DEF IInv
    <3>2. CASE r \notin got
      BY <2>2, <3>2 DEF IInv
    <3> QED
      BY <3>1, <3>2
  <2> QED
    BY <1>1, <2>2, <2>3, Zenon DEF IInv
<1>4. CASE msg.type # "Hello"
  BY <1>1, <1>2, <1>4 DEF ReceiveOther, IInv
<1> QED
  BY <1>3, <1>4

-----------------------------------------------------------------------------
\* The routers that are up at the beginning have elected.
LEMMA InitGood == Init => IInv
<1> SUFFICES ASSUME Init PROVE IInv
  OBVIOUS
<1>1. DOMAIN vif = Routers /\ DOMAIN nbrs = Routers /\ starts \in Nat
  BY DEF Init
<1>2. wire \in Seq(Hellos \cup Others)
  BY DEF Init
<1>3. ASSUME NEW r \in Routers PROVE Good(r, vif[r], nbrs[r])
  <2>1. CASE r \notin DOMAIN Running
    <3>1. vif[r] = Down(r)
      BY <2>1, Zenon DEF Init
    <3>2. nbrs[r] = <<>>
      BY <2>1, Zenon DEF Init
    <3> QED
      BY <3>1, <3>2 DEF Good, Listed, Down, Vifs
  <2>2. CASE r \in DOMAIN Running
    <3> DEFINE v == [up |-> TRUE, genid |-> 0, prio |-> Running[r], ht |-> Period,
                     trig |-> FALSE, dr |-> r]
    <3>1. \A n \in DOMAIN Running : Running[n] \in Nat
      BY NeighborsAssumption, Zenon DEF Range
    <3>2. v \in Vifs
      BY <2>2, <3>1, NeighborsAssumption DEF Vifs
    <3>3. nbrs[r] = [n \in DOMAIN Running \ {r} |->
                       [timer |-> Hold, genid |-> 0, prio |-> Running[n], owed |-> FALSE]]
      BY <2>2 DEF Init
    <3>4. Listed(r, nbrs[r])
      BY <3>1, <3>3, NeighborsAssumption DEF Listed, Entries
    <3>5. vif[r] = Elect(r, v, nbrs[r])
      <4>1. vif[r] = [up |-> TRUE, genid |-> 0, prio |-> Running[r], ht |-> Period,
                      trig |-> FALSE, dr |-> DrElection(r, Running[r], nbrs[r])]
        BY <2>2, Zenon DEF Init
      <4>2. v.prio = Running[r]
        OBVIOUS
      <4>3. Elect(r, v, nbrs[r]) = [v EXCEPT !.dr = DrElection(r, Running[r], nbrs[r])]
        BY <4>2, Zenon DEF Elect
      <4> QED
        BY <4>1, <4>3, Zenon
    <3> QED
      BY <3>2, <3>4, <3>5, ElectGood
  <2> QED
    BY <2>1, <2>2
<1> QED
  BY <1>1, <1>2, <1>3 DEF IInv

\* Every step keeps the invariant.
LEMMA NextGood == IInv /\ [Next]_vars => IInv'
<1> SUFFICES ASSUME IInv, [Next]_vars PROVE IInv'
  OBVIOUS
<1>1. CASE Receive
  BY <1>1, ReceiveGood
<1>2. CASE Round
  BY <1>2 DEF Round, IInv
<1>3. CASE Ticks
  BY <1>3, TickGood DEF Ticks
<1>4. CASE Triggers
  BY <1>4, TriggerGood DEF Triggers
<1>5. ASSUME NEW r \in Routers, Stop(r) PROVE IInv'
  BY <1>5, StopGood
<1>6. ASSUME NEW r \in Routers, NEW p \in Configured(r), Start(r, p) PROVE IInv'
  BY <1>6, StartedGood DEF Start, IInv
<1>7. ASSUME NEW r \in Routers, NEW p \in Configured(r), Restart(r, p) PROVE IInv'
  BY <1>7, StartedGood, HelloMessage DEF Restart
<1>8. ASSUME NEW r \in Routers, NEW n \in Routers, SendJp(r, n) PROVE IInv'
  BY <1>8, SendJpGood
<1>9. CASE UNCHANGED vars
  BY <1>9 DEF vars, IInv
<1> QED
  BY <1>1, <1>2, <1>3, <1>4, <1>5, <1>6, <1>7, <1>8, <1>9 DEF Next

\* On a link of any number of routers, of any priorities and some without, a router
\* holds at all times for its DR the best of itself and the neighbors it has now:
\* every path that changes the list or a priority in it runs dr_election().
THEOREM DrAlwaysElected == Spec => []DrIsElected
<1>1. IInv => DrIsElected
  BY IInvElected
<1> QED
  BY <1>1, InitGood, NextGood, PTL DEF Spec
=============================================================================
