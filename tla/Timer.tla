-------------------------------- MODULE Timer --------------------------------
(***************************************************************************)
(* The callout queue of src/timer.c as operators on its delta list: each   *)
(* node holds the milliseconds between the callout before it and itself.   *)
(***************************************************************************)
EXTENDS Integers, Sequences, SequencesExt

\* Milliseconds from the queue's clock to callout i of q.
Due(q, i) == MapThenSumSet(LAMBDA j : q[j].time, 1..i)

HandlesOf(q) == {q[i].id : i \in DOMAIN q}

-----------------------------------------------------------------------------

\* timer_set_ms(): chase down the list for the first callout due after @delay,
\* go in before it and take our share off its time.
TimerSetMs(q, delay, node) ==
  LET later == {i \in DOMAIN q : delay < Due(q, i)}
      at    == IF later = {} THEN Len(q) + 1 ELSE Min(later)
      gap   == delay - Due(q, at - 1)
      rest  == IF later = {} THEN q ELSE [q EXCEPT ![at].time = @ - gap]
  IN  InsertAt(rest, at, [node EXCEPT !.time = gap])

\* Mutant: the node after the one cleared is not given its time.
TimerClearNoBump(q, id) ==
  LET i == SelectInSeq(q, LAMBDA node : node.id = id)
  IN  IF i = 0 THEN q ELSE RemoveAt(q, i)

\* timer_clear(): unlink the node, and the next one's time gets bumped up.
\* A handle no node has, that of a callout which already ran, clears nothing.
TimerClear(q, id) ==
  LET i == SelectInSeq(q, LAMBDA node : node.id = id)
  IN  IF i = 0 THEN q
      ELSE RemoveAt(IF i = Len(q) THEN q
                    ELSE [q EXCEPT ![i + 1].time = @ + q[i].time], i)

\* timer_next_delay(): what select() may sleep, -1 for ever.
TimerNextDelay(q) == IF q = <<>> THEN -1 ELSE Head(q).time
=============================================================================
