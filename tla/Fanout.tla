------------------------------- MODULE Fanout -------------------------------
(***************************************************************************)
(* One call of `dispatch` in harness/src/fanout.ts: subtasks run as child  *)
(* processes, at most MAX_INFLIGHT of a squad at a time, a semaphore per   *)
(* squad holding the others back.                                          *)
(*                                                                         *)
(* `subtasks.map` reaches every acquire in one synchronous pass, one step  *)
(* here for each task, and nothing else runs before the pass is over.      *)
(* Afterwards one action is one microtask or one event of a child or of    *)
(* the caller's abort signal; Node drains its microtasks before it takes   *)
(* the next event.  The order of pending microtasks is left open.          *)
(***************************************************************************)
EXTENDS Naturals, Sequences, FiniteSets

CONSTANTS
    N,           \* number of subtasks; a task is its place in the list
    Squad,
    SquadOf,     \* task -> the squad whose slot it takes
    Limit,       \* MAX_INFLIGHT
    Unspawnable  \* tasks for which spawn() throws: the argument list is too long

Task == 1..N

ASSUME FanoutAssumption ==
    /\ N \in Nat \ {0}
    /\ SquadOf \in [Task -> Squad]
    /\ Limit \in [Squad -> Nat \ {0}]
    /\ Unspawnable \subseteq Task

VARIABLES
    reached,   \* how many tasks the synchronous pass has reached
    task,      \* where each subtask's async function is
    inFlight,  \* Semaphore.inFlight, per squad
    queue,     \* Semaphore.queue, per squad: the tasks whose resolvers it holds
    aborted,   \* signal.aborted
    call       \* dispatch's promise: "open", "resolved" or "rejected"

vars == <<reached, task, inFlight, queue, aborted, call>>

-----------------------------------------------------------------------------
(* new: not reached; queued: in Semaphore.queue; woken: its resolver was   *)
(* called, the count not yet raised; granted: acquire has returned;        *)
(* running, stopping: a child, in the second case told to end; closed,     *)
(* threw: runOne has returned or thrown; done, failed: settled.            *)
TaskState == {"new", "queued", "woken", "granted", "running", "stopping",
              "closed", "threw", "done", "failed"}
Alive == {"running", "stopping"}
Settled == {"done", "failed"}
Microtask == {"woken", "granted", "closed", "threw"}

Of(s, states) == {t \in Task : SquadOf[t] = s /\ task[t] \in states}
Passed == reached = N
Idle == Passed /\ \A t \in Task : task[t] \notin Microtask

\* Mutant of Acquire: the limit is passed by one.
AcquireOneMore ==
    /\ ~Passed
    /\ reached' = reached + 1
    /\ LET t == reached + 1 IN LET s == SquadOf[t] IN
       \/ /\ inFlight[s] <= Limit[s]
          /\ inFlight' = [inFlight EXCEPT ![s] = @ + 1]
          /\ task' = [task EXCEPT ![t] = "granted"]
          /\ UNCHANGED queue
       \/ /\ inFlight[s] > Limit[s]
          /\ queue' = [queue EXCEPT ![s] = Append(@, t)]
          /\ task' = [task EXCEPT ![t] = "queued"]
          /\ UNCHANGED inFlight
    /\ UNCHANGED <<aborted, call>>

\* Semaphore.acquire, called for one task after the other.
Acquire ==
    /\ ~Passed
    /\ reached' = reached + 1
    /\ LET t == reached + 1 IN LET s == SquadOf[t] IN
       \/ /\ inFlight[s] < Limit[s]
          /\ inFlight' = [inFlight EXCEPT ![s] = @ + 1]
          /\ task' = [task EXCEPT ![t] = "granted"]
          /\ UNCHANGED queue
       \/ /\ inFlight[s] >= Limit[s]
          /\ queue' = [queue EXCEPT ![s] = Append(@, t)]
          /\ task' = [task EXCEPT ![t] = "queued"]
          /\ UNCHANGED inFlight
    /\ UNCHANGED <<aborted, call>>

\* acquire resumes after its resolver was called, and only now takes the slot.
Resume(t) ==
    /\ Passed /\ task[t] = "woken"
    /\ inFlight' = [inFlight EXCEPT ![SquadOf[t]] = @ + 1]
    /\ task' = [task EXCEPT ![t] = "granted"]
    /\ UNCHANGED <<reached, queue, aborted, call>>

\* Mutant of Spawn: a signal that was aborted before is not looked at.
SpawnUnasked(t) ==
    /\ Passed /\ task[t] = "granted"
    /\ task' = [task EXCEPT ![t] = IF t \in Unspawnable THEN "threw" ELSE "running"]
    /\ UNCHANGED <<reached, inFlight, queue, aborted, call>>

\* runOne: the child starts, and is told to end at once when the signal was aborted
\* already; or spawn throws in the promise's executor.
Spawn(t) ==
    /\ Passed /\ task[t] = "granted"
    /\ task' = [task EXCEPT ![t] = IF t \in Unspawnable THEN "threw"
                                   ELSE IF aborted THEN "stopping" ELSE "running"]
    /\ UNCHANGED <<reached, inFlight, queue, aborted, call>>

\* The child ends, or could not be started after all ("error"): runOne resolves.
Exit(t) ==
    /\ Idle /\ task[t] \in Alive
    /\ task' = [task EXCEPT ![t] = "closed"]
    /\ UNCHANGED <<reached, inFlight, queue, aborted, call>>

\* The caller aborts: every child gets SIGTERM, and SIGKILL five seconds later.
Abort ==
    /\ Idle /\ ~aborted
    /\ aborted' = TRUE
    /\ task' = [t \in Task |-> IF task[t] = "running" THEN "stopping" ELSE task[t]]
    /\ UNCHANGED <<reached, inFlight, queue, call>>

\* Mutant of HandOver: the last waiter is woken.
HandOverLast(s, t, settled) ==
    /\ inFlight' = [inFlight EXCEPT ![s] = @ - 1]
    /\ \/ /\ queue[s] = <<>>
          /\ task' = [task EXCEPT ![t] = settled]
          /\ UNCHANGED queue
       \/ /\ queue[s] # <<>>
          /\ task' = [task EXCEPT ![t] = settled, ![queue[s][Len(queue[s])]] = "woken"]
          /\ queue' = [queue EXCEPT ![s] = SubSeq(@, 1, Len(@) - 1)]

\* Semaphore.release: the count goes down and the first waiter, if any, is woken.
HandOver(s, t, settled) ==
    /\ inFlight' = [inFlight EXCEPT ![s] = @ - 1]
    /\ \/ /\ queue[s] = <<>>
          /\ task' = [task EXCEPT ![t] = settled]
          /\ UNCHANGED queue
       \/ /\ queue[s] # <<>>
          /\ task' = [task EXCEPT ![t] = settled, ![Head(queue[s])] = "woken"]
          /\ queue' = [queue EXCEPT ![s] = Tail(@)]

\* Mutant of Release: a task that threw keeps its slot.
ReleaseUnlessThrown(t) ==
    /\ Passed /\ task[t] \in {"closed", "threw"}
    /\ IF task[t] = "closed"
       THEN /\ HandOver(SquadOf[t], t, "done")
            /\ call' = IF call = "open" /\ \A u \in Task \ {t} : task[u] = "done"
                       THEN "resolved" ELSE call
       ELSE /\ task' = [task EXCEPT ![t] = "failed"]
            /\ call' = IF call = "open" THEN "rejected" ELSE call
            /\ UNCHANGED <<inFlight, queue>>
    /\ UNCHANGED <<reached, aborted>>

\* The finally block.  Promise.all rejects with the first failure and resolves when
\* all tasks are done.
Release(t) ==
    /\ Passed
    /\ \/ /\ task[t] = "closed"
          /\ HandOver(SquadOf[t], t, "done")
          /\ call' = IF call = "open" /\ \A u \in Task \ {t} : task[u] = "done"
                     THEN "resolved" ELSE call
       \/ /\ task[t] = "threw"
          /\ HandOver(SquadOf[t], t, "failed")
          /\ call' = IF call = "open" THEN "rejected" ELSE call
    /\ UNCHANGED <<reached, aborted>>

Init ==
    /\ reached = 0
    /\ task = [t \in Task |-> "new"]
    /\ inFlight = [s \in Squad |-> 0]
    /\ queue = [s \in Squad |-> <<>>]
    /\ aborted \in BOOLEAN
    /\ call = "open"

Next ==
    \/ Acquire
    \/ \E t \in Task : Resume(t) \/ Spawn(t) \/ Release(t) \/ Exit(t)
    \/ Abort

Spec == Init /\ [][Next]_vars

\* Microtasks run, and a child that was told to end is gone after five seconds.  A
\* child that was not may run for ever: nothing times it out.
Fairness ==
    /\ WF_vars(Acquire)
    /\ \A t \in Task :
           /\ WF_vars(Resume(t)) /\ WF_vars(Spawn(t)) /\ WF_vars(Release(t))
           /\ SF_vars(task[t] = "stopping" /\ Exit(t))

FairSpec == Spec /\ Fairness

-----------------------------------------------------------------------------
(* Properties.                                                              *)

TypeOK ==
    /\ reached \in 0..N
    /\ task \in [Task -> TaskState]
    /\ inFlight \in [Squad -> Nat]
    /\ queue \in [Squad -> Seq(Task)]
    /\ aborted \in BOOLEAN
    /\ call \in {"open", "resolved", "rejected"}

\* "per-squad concurrency limits": never more children of a squad than its limit,
\* although a release lowers the count before the woken task raises it again.
WithinLimit == \A s \in Squad : Cardinality(Of(s, Alive)) <= Limit[s]

\* Whenever Node waits for an event, a squad whose tasks wait has all its slots in
\* use: no hand-over is lost, neither by a child that failed nor by a spawn that threw.
NoIdleSlot ==
    Idle => \A s \in Squad : queue[s] # <<>> => Cardinality(Of(s, Alive)) = Limit[s]

\* Semaphore.queue: no task of a squad is served before one that waits longer.
InOrder ==
    \A t, u \in Task : SquadOf[t] = SquadOf[u] /\ t < u /\ task[t] = "queued" =>
        task[u] \in {"new", "queued"}

\* The tasks that hold a slot, counted again or not yet.
Serving == {"woken", "granted", "running", "stopping", "closed", "threw"}
Semaphores == INSTANCE SquadSlots WITH
    asked <- {t \in Task : task[t] # "new"},
    held <- {t \in Task : task[t] \in Serving},
    waiting <- queue

\* The semaphores together: although a release lowers the count, wakes a waiter and
\* leaves the slot uncounted until the waiter resumes, a slot is handed from one task to
\* the next at one instant, to whoever waits longest and to nobody else, and a task that
\* finds a slot free waits for none.
SlotsInTurn == Semaphores!FirstComeFirstServed

\* The abort signal: once it is given the call is answered and every task settles, the
\* queued ones and those spawned afterwards included, whatever the children do with
\* SIGTERM and although one that cannot be spawned rejects the call early.
AbortSettles == aborted ~> call # "open" /\ \A t \in Task : task[t] \in Settled
=============================================================================
