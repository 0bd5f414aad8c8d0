----------------------------- MODULE SquadSlots -----------------------------
(* What the semaphores of one dispatch promise: a task that asks for a slot *)
(* of its squad gets it at once while one is free, and waits otherwise; a   *)
(* slot that is given back goes, in the same instant, to the task of the    *)
(* squad that waits longest.  Every task asks once.                         *)
EXTENDS Naturals, Sequences, FiniteSets

CONSTANTS Task, Squad, SquadOf, Limit

VARIABLES
    asked,    \* the tasks that have asked
    held,     \* those that hold a slot
    waiting   \* squad -> those that wait, first come first
slots == <<asked, held, waiting>>

HeldOf(s) == {t \in held : SquadOf[t] = s}

Nobody == asked = {} /\ held = {} /\ waiting = [s \in Squad |-> <<>>]

Ask(t) ==
    /\ t \notin asked
    /\ asked' = asked \cup {t}
    /\ LET s == SquadOf[t] IN
       \/ /\ Cardinality(HeldOf(s)) < Limit[s]
          /\ held' = held \cup {t}
          /\ UNCHANGED waiting
       \/ /\ Cardinality(HeldOf(s)) = Limit[s]
          /\ waiting' = [waiting EXCEPT ![s] = Append(@, t)]
          /\ UNCHANGED held

GiveBack(t) ==
    /\ t \in held
    /\ LET s == SquadOf[t] IN
       \/ /\ waiting[s] = <<>>
          /\ held' = held \ {t}
          /\ UNCHANGED waiting
       \/ /\ waiting[s] # <<>>
          /\ held' = (held \ {t}) \cup {Head(waiting[s])}
          /\ waiting' = [waiting EXCEPT ![s] = Tail(@)]
    /\ UNCHANGED asked

Turn == \E t \in Task : Ask(t) \/ GiveBack(t)

FirstComeFirstServed == Nobody /\ [][Turn]_slots
=============================================================================
