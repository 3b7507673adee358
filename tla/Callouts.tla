------------------------------ MODULE Callouts ------------------------------
(***************************************************************************)
(* What the callout queue of src/timer.c promises its users, with no delta *)
(* list in it: an agenda of callouts, each with the milliseconds left on   *)
(* the queue's own clock, kept in the order in which they will run.  The   *)
(* delta list of EventLoop is shown to implement this module.              *)
(***************************************************************************)
EXTENDS Integers, Sequences

CONSTANTS Ids,      \* handles timer_set_ms() can return
          Spans     \* the delays anyone arms a callout with

VARIABLE agenda     \* <<[id, due], ...>>, the next one to run first

Callout == [id : Ids, due : Spans]

\* Callouts run in the order they come due, and in the order they were armed
\* when they come due together.
Insert(s, c) ==
  LET NoLater(x) == x.due <= c.due
      Later(x)   == x.due > c.due
  IN  SelectSeq(s, NoLater) \o <<c>> \o SelectSeq(s, Later)

\* The clock of the queue moves on by t.
Shift(s, t) == [i \in DOMAIN s |-> [s[i] EXCEPT !.due = @ - t]]

Init == \E c \in Callout : agenda = <<c>>

Arm == \E c \in Callout : agenda' = Insert(agenda, c)

\* Cancelling one callout neither moves nor drops another.
Cancel == \E id \in Ids :
            LET Other(x) == x.id # id IN agenda' = SelectSeq(agenda, Other)

\* The first callout runs when its time has come, and may arm another.
Run == /\ agenda # <<>>
       /\ LET rest == Shift(Tail(agenda), Head(agenda).due)
          IN  \/ agenda' = rest
              \/ \E c \in Callout : agenda' = Insert(rest, c)

\* Time passes, and no callout comes due by it.
Advance == \E t \in Spans :
             /\ agenda # <<>> => t < Head(agenda).due
             /\ agenda' = Shift(agenda, t)

\* The whole agenda is dropped and begun anew.
Restart == Init'

Next == Arm \/ Cancel \/ Run \/ Advance \/ Restart

Spec == Init /\ [][Next]_agenda
=============================================================================
