----------------------------- MODULE IgmpProofs -----------------------------
(***************************************************************************)
(* A proof about Igmp for any number of groups, sources, messages and any  *)
(* timer values: nothing on the membership list lives forever.             *)
(***************************************************************************)
EXTENDS Igmp, TLAPS

\* A callout of the set C waits in slot s of group g, or for fn to run on it.
Timed(C, g, s) == \E c \in C : c.fn = "DelVif" /\ c.live /\ c.g = g /\ c.slot = s
Queued(C, fn, g) == \E c \in C : c.fn = fn /\ c.live /\ c.g = g

\* What NothingImmortal says of group g and its record r.
Ended(C, g, r) ==
    /\ \A s \in r.sources : Timed(C, g, s)
    /\ r.sources = {} => Timed(C, g, "group")
    /\ r.pv < 3 => Queued(C, "switch_version", g)
    /\ r.query = "sent" <=> Queued(C, "SendQuery", g)

\* The callout of a source names that source, and a group has one query to send.
Formed(c) == /\ c.fn \in {"DelVif", "switch_version", "SendQuery"}
             /\ c.live \in BOOLEAN
             /\ {"fn", "g", "live", "left"} \subseteq DOMAIN c
             /\ c.fn = "DelVif" => {"slot", "source"} \subseteq DOMAIN c
             /\ c.fn = "DelVif" /\ c.slot \in Sources => c.source = c.slot
Single(C) == \A c, d \in C :
                c.fn = "SendQuery" /\ d.fn = "SendQuery" /\ c.live /\ d.live /\ c.g = d.g => c = d

Sound(r) == DOMAIN r = {"pv", "sources", "query"} /\ r.sources \subseteq Sources

\* The inductive invariant.
IInv == /\ \A c \in callouts : Formed(c)
        /\ Single(callouts)
        /\ \A g \in DOMAIN groups : Sound(groups[g]) /\ Ended(callouts, g, groups[g])

-----------------------------------------------------------------------------

\* A group whose live callouts stay is ended as before.
LEMMA Untouched ==
  ASSUME NEW C, NEW D, NEW g, NEW r, Ended(C, g, r),
         \A c \in C : c.live /\ c.g = g => c \in D,
         \A d \in D : d.live /\ d.g = g => d \in C
  PROVE  Ended(D, g, r)
<1>1. \A s : Timed(C, g, s) => Timed(D, g, s)
  BY DEF Timed
<1>2. \A fn : Queued(C, fn, g) <=> Queued(D, fn, g)
  BY DEF Queued
<1> QED
  BY <1>1, <1>2 DEF Ended

\* What the callouts made are like.
LEMMA Made ==
  ASSUME NEW g, NEW source, NEW delay
  PROVE  /\ Formed(SetTimer(g, "group", source, delay))
         /\ Formed(SetTimer(g, source, source, delay))
         /\ Formed(SetVerTimer(g)) /\ Formed(SetQueryTimer(g))
BY IgmpNames DEF Formed, SetTimer, SetVerTimer, SetQueryTimer

\* accept_group_report(): it ends the last-member state, starts the timer of what
\* was reported, and that of an older version's mode.
LEMMA ReportKeeps ==
  ASSUME IInv, NEW g \in Groups, NEW ver \in 1..3,
         NEW source \in (IF g \in Ssm THEN Sources ELSE {Any}),
         accept_group_report(g, source, ver)
  PROVE  IInv'
<1> DEFINE known   == g \in DOMAIN groups
           old     == IF known THEN groups[g] ELSE NewGroup(ver)
           pv      == IF ver < old.pv THEN ver ELSE old.pv
           full    == /\ g \in Ssm /\ known /\ source \notin old.sources
                      /\ Cardinality(old.sources) >= MaxSources
           sources == IF g \in Ssm /\ ~full THEN old.sources \cup {source} ELSE old.sources
           now     == [pv |-> pv, sources |-> sources, query |-> "no"]
           back    == pv < 3 /\ (ver < 3 \/ ~known)
           slot    == IF g \in Ssm THEN source ELSE "group"
           new     == SetTimer(g, slot, source, Gmi)
           back0   == IF back THEN Pending("switch_version", g) ELSE {}
           back1   == IF back THEN {SetVerTimer(g)} ELSE {}
           cleared == Pending("SendQuery", g) \cup back0
           D       == IF full THEN callouts \ cleared
                      ELSE (callouts \ (cleared \cup Armed(g, slot))) \cup {new} \cup back1
<1>1. /\ groups' = [h \in DOMAIN groups \cup {g} |-> IF h = g THEN now ELSE groups[h]]
      /\ callouts' = D
  BY Zenon DEF accept_group_report, arm_membership_timer
<1>2. /\ new.fn = "DelVif" /\ new.live = TRUE /\ new.g = g /\ new.slot = slot
      /\ Formed(new) /\ Formed(SetVerTimer(g))
      /\ SetVerTimer(g).fn = "switch_version" /\ SetVerTimer(g).live = TRUE
      /\ SetVerTimer(g).g = g
  BY Made, Zenon DEF SetTimer, SetVerTimer
<1>3. old.sources \subseteq Sources /\ (known => Ended(callouts, g, old))
  BY DEF IInv, Sound, NewGroup
<1>4. slot = "group" \/ slot \in Sources
  OBVIOUS
<1>5. ~known => old.sources = {} /\ old.pv = ver
  BY DEF NewGroup
<1>6. now.pv = pv /\ now.sources = sources /\ now.query = "no" /\ Sound(now)
  BY <1>3 DEF Sound
<1>7. back => pv < 3
  OBVIOUS
<1>8. pv < 3 /\ ~back => known /\ pv = old.pv
  BY <1>5
<1>9. full => known /\ sources = old.sources
  OBVIOUS
<1>10. ~full => sources = (IF g \in Ssm THEN old.sources \cup {source} ELSE old.sources)
  OBVIOUS
<1>11. ~(full /\ back)
  <2>1. ver < 3 => g \in Asm
    BY DEF accept_group_report, Taken
  <2> QED
    BY <2>1, IgmpGroups
<1> HIDE DEF old, pv, full, sources, now, back, new
<1>12. \A c \in D : Formed(c)
  BY <1>2 DEF IInv
<1>13. \A c \in D : c.fn = "SendQuery" => c \in callouts /\ ~(c.live /\ c.g = g)
  BY <1>2 DEF Pending
<1>14. Single(D)
  BY <1>13 DEF Single, IInv
<1>15. Ended(D, g, now)
  <2>1. ASSUME NEW s \in sources PROVE Timed(D, g, s)
    <3>1. CASE s = slot /\ ~full
      BY <1>2, <3>1 DEF Timed
    <3>2. CASE s # slot /\ ~full
      <4>1. s \in old.sources
        BY <1>10, <3>2
      <4>2. PICK c \in callouts : c.fn = "DelVif" /\ c.live /\ c.g = g /\ c.slot = s
        BY <1>3, <1>5, <4>1 DEF Ended, Timed
      <4>3. c \in D
        BY <3>2, <4>2 DEF Pending, Armed
      <4> QED
        BY <4>2, <4>3 DEF Timed
    <3>3. CASE full
      <4>1. s \in old.sources
        BY <1>9, <3>3
      <4>2. PICK c \in callouts : c.fn = "DelVif" /\ c.live /\ c.g = g /\ c.slot = s
        BY <1>3, <1>5, <4>1 DEF Ended, Timed
      <4>3. c \in D
        BY <3>3, <4>2 DEF Pending, Armed
      <4> QED
        BY <4>2, <4>3 DEF Timed
    <3> QED
      BY <3>1, <3>2, <3>3
  <2>2. ASSUME sources = {} PROVE Timed(D, g, "group")
    <3>1. CASE full
      <4>1. PICK c \in callouts : c.fn = "DelVif" /\ c.live /\ c.g = g /\ c.slot = "group"
        BY <1>3, <1>9, <2>2, <3>1 DEF Ended, Timed
      <4>2. c \in D
        BY <3>1, <4>1 DEF Pending
      <4> QED
        BY <4>1, <4>2 DEF Timed
    <3>2. CASE ~full
      <4>1. slot = "group"
        BY <1>10, <2>2, <3>2
      <4> QED
        BY <1>2, <3>2, <4>1 DEF Timed
    <3> QED
      BY <3>1, <3>2
  <2>3. ASSUME pv < 3 PROVE Queued(D, "switch_version", g)
    <3>1. CASE back /\ ~full
      BY <1>2, <3>1 DEF Queued
    <3>2. CASE ~back
      <4>1. PICK c \in callouts : c.fn = "switch_version" /\ c.live /\ c.g = g
        BY <1>3, <1>8, <2>3, <3>2 DEF Ended, Queued
      <4>2. c \in D
        BY <3>2, <4>1 DEF Pending, Armed
      <4> QED
        BY <4>1, <4>2 DEF Queued
    <3> QED
      BY <1>11, <3>1, <3>2
  <2>4. ~Queued(D, "SendQuery", g)
    BY <1>13 DEF Queued
  <2> HIDE DEF D
  <2> QED
    BY <1>6, <2>1, <2>2, <2>3, <2>4 DEF Ended
<1>16. ASSUME NEW h \in DOMAIN groups, h # g PROVE Ended(D, h, groups[h])
  <2>1. \A c : c.live /\ c.g = h => (c \in callouts <=> c \in D)
    BY <1>2, <1>16 DEF Pending, Armed
  <2> HIDE DEF D
  <2> QED
    BY <2>1, Untouched DEF IInv
<1> HIDE DEF D
<1> QED
  BY <1>1, <1>6, <1>12, <1>14, <1>15, <1>16 DEF IInv

\* accept_leave_message(): a source goes with its timer; the last one, or a leave
\* that names none, puts the group in the last-member state.
LEMMA LeaveKeeps ==
  ASSUME IInv, NEW g \in Groups, NEW dst, accept_leave_message(g, dst)
  PROVE  IInv'
<1> DEFINE r == groups[g]
<1>1. PICK gone :
        LET freed == UNION {Armed(g, s) : s \in gone}
            more  == gone # {} /\ ~((r.sources \ gone) = {})
        IN  /\ gone \subseteq r.sources
            /\ groups' = [groups EXCEPT ![g].sources = @ \ gone,
                                        ![g].query = IF more THEN @ ELSE "sent"]
            /\ callouts' = IF more THEN callouts \ freed
                 ELSE (callouts \ (freed \cup Armed(g, "group")))
                        \cup {SetQueryTimer(g), SetTimer(g, "group", dst, LeaveTime)}
  <2> DEFINE G == IF g \in Ssm /\ (IF dst = Any THEN r.sources ELSE {dst} \cap r.sources) # {}
                  THEN {{s} : s \in (IF dst = Any THEN r.sources ELSE {dst} \cap r.sources)}
                  ELSE {{}}
  <2>1. \A gone \in G : gone \subseteq r.sources
    OBVIOUS
  <2> QED
    BY <2>1, Zenon DEF accept_leave_message
<1> DEFINE freed == UNION {Armed(g, s) : s \in gone}
           more  == gone # {} /\ ~((r.sources \ gone) = {})
           q == SetQueryTimer(g)
           t == SetTimer(g, "group", dst, LeaveTime)
           now == [[r EXCEPT !.sources = @ \ gone] EXCEPT !.query = IF more THEN @ ELSE "sent"]
           D == IF more THEN callouts \ freed
                ELSE (callouts \ (freed \cup Armed(g, "group"))) \cup {q, t}
<1>2. g \in DOMAIN groups /\ r.query = "no"
  BY Zenon DEF accept_leave_message
<1>3. /\ callouts' = D
      /\ DOMAIN groups' = DOMAIN groups
      /\ groups'[g] = now
      /\ \A h \in DOMAIN groups : h # g => groups'[h] = groups[h]
  BY <1>1, <1>2, Zenon DEF IInv, Sound
<1>4. Sound(r) /\ Ended(callouts, g, r)
  BY <1>2 DEF IInv
<1>5. /\ Sound(now) /\ now.sources = r.sources \ gone /\ now.pv = r.pv
      /\ now.query = IF more THEN "no" ELSE "sent"
  BY <1>2, <1>4 DEF Sound
<1>6. /\ q.fn = "SendQuery" /\ q.live = TRUE /\ q.g = g /\ Formed(q)
      /\ t.fn = "DelVif" /\ t.live = TRUE /\ t.g = g /\ t.slot = "group" /\ Formed(t)
  BY Made, Zenon DEF SetQueryTimer, SetTimer
<1>7. \A c : c \in freed <=> /\ c \in callouts /\ c.fn = "DelVif" /\ c.live /\ c.g = g
                             /\ c.slot \in gone
  BY DEF Armed
<1> HIDE DEF freed, now, q, t
<1>8. \A c \in callouts : c.fn = "SendQuery" /\ c.live => c.g # g
  BY <1>2, <1>4 DEF Ended, Queued
<1>9. \A c \in D : Formed(c)
  BY <1>6 DEF IInv
<1>10. Single(D)
  BY <1>6, <1>8 DEF Single, IInv
<1>11. Ended(D, g, now)
  <2>1. ASSUME NEW s \in now.sources PROVE Timed(D, g, s)
    <3>1. s \in r.sources /\ s \notin gone /\ s # "group"
      BY <1>4, <1>5, IgmpNames DEF Sound
    <3>2. PICK c \in callouts : c.fn = "DelVif" /\ c.live /\ c.g = g /\ c.slot = s
      BY <1>4, <3>1 DEF Ended, Timed
    <3>3. c \in D
      BY <1>7, <3>1, <3>2 DEF Armed
    <3> QED
      BY <3>2, <3>3 DEF Timed
  <2>2. now.sources = {} => Timed(D, g, "group")
    BY <1>5, <1>6 DEF Timed
  <2>3. ASSUME now.pv < 3 PROVE Queued(D, "switch_version", g)
    <3>1. PICK c \in callouts : c.fn = "switch_version" /\ c.live /\ c.g = g
      BY <1>4, <1>5, <2>3 DEF Ended, Queued
    <3>2. c \in D
      BY <1>7, <3>1 DEF Armed
    <3> QED
      BY <3>1, <3>2 DEF Queued
  <2>4. now.query = "sent" <=> Queued(D, "SendQuery", g)
    <3>1. CASE more
      BY <1>5, <1>8, <3>1 DEF Queued
    <3>2. CASE ~more
      BY <1>5, <1>6, <3>2 DEF Queued
    <3> QED
      BY <3>1, <3>2
  <2> HIDE DEF D
  <2> QED
    BY <2>1, <2>2, <2>3, <2>4 DEF Ended
<1>12. ASSUME NEW h \in DOMAIN groups, h # g PROVE Ended(D, h, groups[h])
  <2>1. \A c : c.live /\ c.g = h => (c \in callouts <=> c \in D)
    BY <1>6, <1>7, <1>12 DEF Armed
  <2> HIDE DEF D
  <2> QED
    BY <2>1, Untouched DEF IInv
<1> HIDE DEF D
<1> QED
  BY <1>3, <1>5, <1>9, <1>10, <1>11, <1>12 DEF IInv

\* accept_membership_query(): a heard query puts the group in the last-member state.
LEMMA QueryKeeps ==
  ASSUME IInv, NEW src, NEW ver, NEW g, accept_membership_query(src, ver, g)
  PROVE  IInv'
<1>1. CASE UNCHANGED <<callouts, groups>>
  BY <1>1 DEF IInv, Single
<1>2. CASE g \in DOMAIN groups /\ groups[g].query = "no"
  <2> DEFINE r == groups[g]
             t == SetTimer(g, "group", Any, AskTime)
             now == [r EXCEPT !.query = "heard"]
             D == (callouts \ Armed(g, "group")) \cup {t}
  <2>1. /\ callouts' = D
        /\ DOMAIN groups' = DOMAIN groups
        /\ groups'[g] = now
        /\ \A h \in DOMAIN groups : h # g => groups'[h] = groups[h]
    BY <1>2 DEF accept_membership_query, LastMemberTimer
  <2>2. Sound(r) /\ Ended(callouts, g, r)
    BY <1>2 DEF IInv
  <2>3. Sound(now) /\ now.sources = r.sources /\ now.pv = r.pv /\ now.query = "heard"
    BY <2>2 DEF Sound
  <2>4. t.fn = "DelVif" /\ t.live = TRUE /\ t.g = g /\ t.slot = "group" /\ Formed(t)
    BY Made, Zenon DEF SetTimer
  <2> HIDE DEF now, t
  <2>5. \A c \in D : Formed(c)
    BY <2>4 DEF IInv
  <2>6. \A c \in D : c.fn = "SendQuery" => c \in callouts
    BY <2>4
  <2>7. Single(D)
    BY <2>6 DEF Single, IInv
  <2>8. Ended(D, g, now)
    <3>1. ASSUME NEW s \in r.sources PROVE Timed(D, g, s)
      <4>1. s # "group"
        BY <2>2, IgmpNames DEF Sound
      <4> QED
        BY <2>2, <4>1 DEF Ended, Timed, Armed
    <3>2. Timed(D, g, "group")
      BY <2>4 DEF Timed
    <3>3. r.pv < 3 => Queued(D, "switch_version", g)
      BY <2>2 DEF Ended, Queued, Armed
    <3>4. ~Queued(D, "SendQuery", g)
      BY <1>2, <2>2, <2>6 DEF Ended, Queued
    <3> HIDE DEF D
    <3> QED
      BY <2>3, <3>1, <3>2, <3>3, <3>4 DEF Ended
  <2>9. ASSUME NEW h \in DOMAIN groups, h # g PROVE Ended(D, h, groups[h])
    <3>1. \A c : c.live /\ c.g = h => (c \in callouts <=> c \in D)
      BY <2>4, <2>9 DEF Armed
    <3> HIDE DEF D
    <3> QED
      BY <3>1, Untouched DEF IInv
  <2> HIDE DEF D
  <2> QED
    BY <2>1, <2>3, <2>5, <2>7, <2>8, <2>9 DEF IInv
<1> QED
  BY <1>1, <1>2 DEF accept_membership_query

\* DelVif(): a source goes with what is left of its callout, or the group goes; the
\* callout that runs is the timer of no source but its own.
LEMMA DelVifKeeps ==
  ASSUME IInv, NEW c \in callouts, c.fn = "DelVif", c.live, DelVif(c)
  PROVE  IInv'
<1> DEFINE g    == c.g
           left == IF g \in Ssm THEN Unlinked(g, c.source) ELSE {}
           own  == IF g \in Ssm /\ c.source \in groups[g].sources
                   THEN Armed(g, c.source) \ {c} ELSE {}
           orphans == {[o EXCEPT !.slot = "none"] : o \in own}
           rest == ((callouts \ {c}) \ own) \cup orphans
           dead == Pending("switch_version", g) \cup Pending("SendQuery", g)
<1>1. \A o \in own : /\ o \in callouts /\ o.fn = "DelVif" /\ o.live /\ o.g = g
                     /\ o.slot = c.source
  BY DEF Armed
<1>2. \A p \in orphans : p.fn = "DelVif" /\ p.g = g /\ p.slot = "none" /\ Formed(p)
  <2> SUFFICES ASSUME NEW o \in own
               PROVE  LET p == [o EXCEPT !.slot = "none"]
                      IN  p.fn = "DelVif" /\ p.g = g /\ p.slot = "none" /\ Formed(p)
    BY Zenon
  <2>1. Formed(o) /\ o.fn = "DelVif" /\ o.g = g
    BY <1>1 DEF IInv
  <2> HIDE DEF own, g
  <2> QED
    BY <2>1, IgmpNames DEF Formed
<1>3. \/ /\ left # {}
         /\ groups' = [groups EXCEPT ![g].sources = left]
         /\ callouts' = rest
      \/ /\ groups' = [h \in DOMAIN groups \ {g} |-> groups[h]]
         /\ callouts' = {IF o.g = g THEN [o EXCEPT !.live = FALSE] ELSE o : o \in rest \ dead}
  BY Zenon DEF DelVif
<1>4. left # {} => g \in Ssm /\ left = groups[g].sources \ {c.source}
  BY DEF Unlinked
<1>5. \A d \in dead : d.g = g
  BY DEF Pending
<1> HIDE DEF own, orphans, left, dead
<1>6. \A o \in rest : Formed(o)
  BY <1>2 DEF IInv
<1>7. \A o : o.fn # "DelVif" => (o \in callouts <=> o \in rest)
  BY <1>1, <1>2
<1>8. \A o : o.g # g => (o \in callouts <=> o \in rest)
  BY <1>1, <1>2
<1> HIDE DEF g
<1>9. CASE /\ left # {}
           /\ groups' = [groups EXCEPT ![g].sources = left]
           /\ callouts' = rest
  <2> DEFINE r == groups[g]
             now == [r EXCEPT !.sources = left]
  <2>1. Single(rest)
    BY <1>7 DEF Single, IInv
  <2>2. ASSUME g \in DOMAIN groups PROVE Sound(now) /\ Ended(rest, g, now)
    <3>1. Sound(r) /\ Ended(callouts, g, r)
      BY <2>2 DEF IInv
    <3>2. Sound(now) /\ now.sources = left /\ now.pv = r.pv /\ now.query = r.query
      BY <1>4, <1>9, <3>1 DEF Sound
    <3>3. ASSUME NEW s \in left PROVE Timed(rest, g, s)
      <4>1. s \in r.sources /\ s # c.source /\ s \in Sources
        BY <1>4, <3>1 DEF Sound
      <4>2. PICK o \in callouts : o.fn = "DelVif" /\ o.live /\ o.g = g /\ o.slot = s
        BY <3>1, <4>1 DEF Ended, Timed
      <4>3. o # c
        BY <4>1, <4>2 DEF IInv, Formed
      <4>4. o \in rest
        BY <1>1, <4>1, <4>2, <4>3
      <4> QED
        BY <4>2, <4>4 DEF Timed
    <3>4. \A fn : fn # "DelVif" => (Queued(callouts, fn, g) <=> Queued(rest, fn, g))
      BY <1>7 DEF Queued
    <3> HIDE DEF rest
    <3> QED
      BY <1>9, <3>1, <3>2, <3>3, <3>4 DEF Ended
  <2>3. ASSUME NEW h \in DOMAIN groups, h # g PROVE Ended(rest, h, groups[h])
    <3> HIDE DEF rest
    <3> QED
      BY <1>8, <2>3, Untouched DEF IInv
  <2> HIDE DEF rest, now
  <2>4. /\ DOMAIN groups' = DOMAIN groups
        /\ \A h \in DOMAIN groups : h # g => groups'[h] = groups[h]
        /\ g \in DOMAIN groups => groups'[g] = now
    BY <1>9 DEF now
  <2> QED
    BY <1>6, <1>9, <2>1, <2>2, <2>3, <2>4 DEF IInv
<1>10. CASE /\ groups' = [h \in DOMAIN groups \ {g} |-> groups[h]]
            /\ callouts' = {IF o.g = g THEN [o EXCEPT !.live = FALSE] ELSE o :
                              o \in rest \ dead}
  <2> HIDE DEF rest
  <2>1. ASSUME NEW o \in rest
        PROVE  LET p == [o EXCEPT !.live = FALSE]
               IN  Formed(p) /\ p.live = FALSE /\ p.g = o.g
    BY <1>6, <2>1 DEF Formed
  <2>2. \A p \in callouts' : Formed(p) /\ (p.live => p \in rest /\ p.g # g)
    BY <1>6, <1>10, <2>1, Zenon
  <2>3. \A p \in rest : p.g # g => p \in callouts'
    BY <1>5, <1>10
  <2>4. Single(callouts')
    BY <1>8, <2>2 DEF Single, IInv
  <2>5. ASSUME NEW h \in DOMAIN groups, h # g PROVE Ended(callouts', h, groups[h])
    BY <1>8, <2>2, <2>3, <2>5, Untouched DEF IInv
  <2>6. DOMAIN groups' = DOMAIN groups \ {g} /\ \A h \in DOMAIN groups' : groups'[h] = groups[h]
    BY <1>10
  <2> QED
    BY <2>2, <2>4, <2>5, <2>6 DEF IInv
<1> QED
  BY <1>3, <1>9, <1>10

\* switch_version() and SendQuery() of the code: the callout that runs was the only
\* one, and the first starts the next where another version is left to go.
LEMMA CalloutKeeps ==
  ASSUME IInv, NEW c \in callouts, c.live,
         \/ c.fn = "switch_version" /\ switch_version(c)
         \/ c.fn = "SendQuery" /\ SendQuery(c)
  PROVE  IInv'
<1> DEFINE g == c.g
           r == groups[g]
           v == SetVerTimer(g)
           pv == IF r.pv < 3 THEN r.pv + 1 ELSE 3
<1>1. v.fn = "switch_version" /\ v.live = TRUE /\ v.g = g /\ Formed(v)
  BY Made DEF SetVerTimer
<1>2. \A d \in callouts' : d = v \/ (d \in callouts /\ d # c)
  BY DEF switch_version, SendQuery
<1>3. \A d \in callouts : d # c => d \in callouts'
  BY DEF switch_version, SendQuery
<1> HIDE DEF v
<1>4. \A d \in callouts' : Formed(d)
  BY <1>1, <1>2 DEF IInv
<1>5. Single(callouts')
  BY <1>1, <1>2 DEF Single, IInv
<1>6. /\ DOMAIN groups' = DOMAIN groups
      /\ \A h \in DOMAIN groups : h # g => groups'[h] = groups[h]
  BY DEF switch_version, SendQuery
<1>7. ASSUME NEW h \in DOMAIN groups, h # g PROVE Ended(callouts', h, groups[h])
  <2>1. \A d \in callouts : d.g = h => d \in callouts'
    BY <1>3, <1>7
  <2>2. \A d \in callouts' : d.g = h => d \in callouts
    BY <1>1, <1>2, <1>7
  <2> QED
    BY <2>1, <2>2, Untouched DEF IInv
<1>8. ASSUME g \in DOMAIN groups PROVE Sound(groups'[g]) /\ Ended(callouts', g, groups'[g])
  <2>1. Sound(r) /\ Ended(callouts, g, r)
    BY <1>8 DEF IInv
  <2>2. \A s : Timed(callouts, g, s) => Timed(callouts', g, s)
    BY <1>3 DEF Timed
  <2>3. CASE c.fn = "switch_version" /\ switch_version(c)
    <3> DEFINE now == [r EXCEPT !.pv = pv]
    <3>1. groups'[g] = now
      BY <1>8, <2>3 DEF switch_version
    <3>2. Sound(now) /\ now.sources = r.sources /\ now.pv = pv /\ now.query = r.query
      BY <2>1 DEF Sound
    <3>3. pv < 3 => v \in callouts'
      BY <2>3 DEF switch_version, v
    <3>4. pv < 3 => Queued(callouts', "switch_version", g)
      BY <1>1, <3>3 DEF Queued
    <3>5. Queued(callouts, "SendQuery", g) <=> Queued(callouts', "SendQuery", g)
      BY <1>1, <1>2, <1>3, <2>3 DEF Queued
    <3> HIDE DEF now, pv, g
    <3> QED
      BY <2>1, <2>2, <3>1, <3>2, <3>4, <3>5 DEF Ended
  <2>4. CASE c.fn = "SendQuery" /\ SendQuery(c)
    <3> DEFINE now == [r EXCEPT !.query = "no"]
    <3>1. groups'[g] = now /\ callouts' = callouts \ {c}
      BY <1>8, <2>4 DEF SendQuery
    <3>2. Sound(now) /\ now.sources = r.sources /\ now.pv = r.pv /\ now.query = "no"
      BY <2>1 DEF Sound
    <3>3. Queued(callouts, "switch_version", g) => Queued(callouts', "switch_version", g)
      BY <2>4, <3>1 DEF Queued
    <3>4. ~Queued(callouts', "SendQuery", g)
      BY <2>4, <3>1 DEF Queued, IInv, Single
    <3> HIDE DEF now, g
    <3> QED
      BY <2>1, <2>2, <3>1, <3>2, <3>3, <3>4 DEF Ended
  <2> QED
    BY <2>3, <2>4
<1> QED
  BY <1>4, <1>5, <1>6, <1>7, <1>8 DEF IInv

\* The clock changes nothing but the time left.
LEMMA TickKeeps ==
  ASSUME IInv, Tick
  PROVE  IInv'
<1> DEFINE T(c) == [c EXCEPT !.left = @ - 1]
<1>1. ASSUME NEW c \in callouts
      PROVE  /\ T(c).fn = c.fn /\ T(c).live = c.live /\ T(c).g = c.g /\ Formed(T(c))
             /\ c.fn = "DelVif" => T(c).slot = c.slot
  <2>1. Formed(c)
    BY DEF IInv
  <2> QED
    BY <2>1 DEF Formed
<1>2. callouts' = {T(c) : c \in callouts} /\ groups' = groups
  BY DEF Tick
<1> HIDE DEF T
<1>3. \A d \in callouts' : Formed(d)
  BY <1>1, <1>2
<1>4. Single(callouts')
  BY <1>1, <1>2 DEF Single, IInv
<1>5. \A g, s : Timed(callouts, g, s) => Timed(callouts', g, s)
  BY <1>1, <1>2 DEF Timed
<1>6. \A fn, g : Queued(callouts, fn, g) <=> Queued(callouts', fn, g)
  BY <1>1, <1>2 DEF Queued
<1> QED
  BY <1>2, <1>3, <1>4, <1>5, <1>6 DEF IInv, Ended

\* stop_vif() empties the list, and what it does not cancel is dead.
LEMMA StopKeeps ==
  ASSUME IInv, stop_vif
  PROVE  IInv'
<1>1. ASSUME NEW c \in callouts
      PROVE  LET p == [c EXCEPT !.live = FALSE] IN Formed(p) /\ p.live = FALSE
  BY DEF IInv, Formed
<1>2. \A d \in callouts' : Formed(d) /\ d.live = FALSE
  BY <1>1, Zenon DEF stop_vif
<1>3. DOMAIN groups' = {}
  BY DEF stop_vif
<1> QED
  BY <1>2, <1>3 DEF IInv, Single

\* Whatever reports, leaves, queries, timeouts and restarts come in whatever order,
\* each source and each group on the list of igmp_proto.c has a pending callout that
\* will end it, an older version's mode one that takes it back, and the last-member
\* state one query to send, as long as no callout has run on a freed object.
THEOREM EverythingEnds == Spec => []NothingImmortal
<1>1. Init => IInv
  <2> SUFFICES ASSUME Init PROVE IInv
    OBVIOUS
  <2>1. callouts = {} /\ DOMAIN groups = {}
    BY DEF Init
  <2> QED
    BY <2>1 DEF IInv, Single
<1>2. IInv /\ [Next]_vars => IInv'
  <2> SUFFICES ASSUME IInv, [Next]_vars PROVE IInv'
    OBVIOUS
  <2>1. CASE UNCHANGED <<callouts, groups>>
    BY <2>1 DEF IInv, Single
  <2>2. CASE Report
    BY <2>2, ReportKeeps DEF Report
  <2>3. CASE Leave
    BY <2>3, LeaveKeeps DEF Leave
  <2>4. CASE Query
    BY <2>4, QueryKeeps DEF Query
  <2>5. CASE stop_vif
    BY <2>5, StopKeeps
  <2>6. CASE Fire
    <3>1. PICK c \in callouts :
            \/ /\ c.live
               /\ \/ c.fn = "DelVif" /\ DelVif(c)
                  \/ c.fn = "switch_version" /\ switch_version(c)
                  \/ c.fn = "SendQuery" /\ SendQuery(c)
            \/ UNCHANGED <<callouts, groups>>
      BY <2>6, Zenon DEF Fire
    <3> QED
      BY <2>1, <3>1, DelVifKeeps, CalloutKeeps
  <2>7. CASE Tick
    BY <2>7, TickKeeps
  <2> QED
    BY <2>1, <2>2, <2>3, <2>4, <2>5, <2>6, <2>7
    DEF Next, FromTheLink, resync_leaves, BecomesRoutable, start_vif, Undefined, vars
<1>3. IInv => NothingImmortal
  <2> SUFFICES ASSUME IInv, NEW g \in DOMAIN groups
               PROVE  /\ \A s \in groups[g].sources : Armed(g, s) # {}
                      /\ groups[g].sources = {} => Armed(g, "group") # {}
                      /\ groups[g].pv < 3 => Pending("switch_version", g) # {}
                      /\ groups[g].query = "sent" <=> Pending("SendQuery", g) # {}
    BY DEF NothingImmortal
  <2>1. Ended(callouts, g, groups[g])
    BY DEF IInv
  <2>2. \A s : Timed(callouts, g, s) => Armed(g, s) # {}
    BY DEF Timed, Armed
  <2>3. \A fn : Queued(callouts, fn, g) <=> Pending(fn, g) # {}
    BY DEF Queued, Pending
  <2> QED
    BY <2>1, <2>2, <2>3 DEF Ended
<1> QED
  BY <1>1, <1>2, <1>3, PTL DEF Spec
=============================================================================
