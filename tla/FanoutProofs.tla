---------------------------- MODULE FanoutProofs ----------------------------
(* Proofs about Fanout, for any number of subtasks, squads and slots: the    *)
(* limit is kept, no slot is lost, and waiters are served in order.          *)
EXTENDS Fanout, FiniteSetTheorems, TLAPS

(***************************************************************************)
(* The strengthening.  A slot is held from the moment it is handed over,   *)
(* although inFlight counts its task only when it resumes; a queue holds   *)
(* the squad's waiting tasks in the order of the list.                     *)
(***************************************************************************)
Holding == {"granted", "running", "stopping", "closed", "threw"}
Slots(s) == Of(s, Holding \cup {"woken"})

CountInv == \A s \in Squad : inFlight[s] = Cardinality(Of(s, Holding))

SlotInv ==
    \A s \in Squad :
        /\ Cardinality(Slots(s)) <= Limit[s]
        /\ queue[s] # <<>> => Cardinality(Slots(s)) = Limit[s]

PassInv ==
    /\ \A t \in Task : task[t] = "new" <=> t > reached
    /\ ~Passed => \A t \in Task : task[t] \in {"new", "queued", "granted"}

QueueInv ==
    \A s \in Squad :
        /\ \A i \in 1..Len(queue[s]) :
               task[queue[s][i]] = "queued" /\ SquadOf[queue[s][i]] = s
        /\ \A i, j \in 1..Len(queue[s]) : i < j => queue[s][i] < queue[s][j]
        /\ \A t \in Task : task[t] = "queued" /\ SquadOf[t] = s =>
               \E i \in 1..Len(queue[s]) : queue[s][i] = t

IInv == TypeOK /\ CountInv /\ SlotInv /\ PassInv /\ QueueInv /\ InOrder

-----------------------------------------------------------------------------
(* Sets of tasks.                                                           *)

\* The tasks of a squad in some states are finitely many.
LEMMA OfFinite ==
    ASSUME NEW s, NEW states
    PROVE  /\ IsFiniteSet(Of(s, states)) /\ Cardinality(Of(s, states)) \in Nat
<1>1. IsFiniteSet(Task)
  BY FS_Interval, FanoutAssumption DEF Task
<1>2. Of(s, states) \in SUBSET Task
  BY DEF Of
<1> QED
  BY <1>1, <1>2, FS_Subset, FS_CardinalityType

\* A task that takes a place among some states adds one for its squad only.
LEMMA Gains ==
    ASSUME NEW t \in Task, NEW states, task[t] \notin states, task'[t] \in states,
           \A u \in Task \ {t} : task'[u] \in states <=> task[u] \in states,
           NEW s \in Squad
    PROVE  Cardinality(Of(s, states)') =
               IF s = SquadOf[t] THEN Cardinality(Of(s, states)) + 1
                                 ELSE Cardinality(Of(s, states))
<1>1. CASE s = SquadOf[t]
  <2>1. Of(s, states)' = Of(s, states) \cup {t} /\ t \notin Of(s, states)
    BY <1>1 DEF Of
  <2> QED
    BY <2>1, <1>1, OfFinite, FS_AddElement
<1>2. CASE s # SquadOf[t]
  <2>1. Of(s, states)' = Of(s, states)
    BY <1>2 DEF Of
  <2> QED
    BY <2>1, <1>2
<1> QED
  BY <1>1, <1>2

\* A task that leaves them takes one away.
LEMMA Loses ==
    ASSUME NEW t \in Task, NEW states, task[t] \in states, task'[t] \notin states,
           \A u \in Task \ {t} : task'[u] \in states <=> task[u] \in states,
           NEW s \in Squad
    PROVE  Cardinality(Of(s, states)') =
               IF s = SquadOf[t] THEN Cardinality(Of(s, states)) - 1
                                 ELSE Cardinality(Of(s, states))
<1>1. CASE s = SquadOf[t]
  <2>1. Of(s, states)' = Of(s, states) \ {t} /\ t \in Of(s, states)
    BY <1>1 DEF Of
  <2> QED
    BY <2>1, <1>1, OfFinite, FS_RemoveElement
<1>2. CASE s # SquadOf[t]
  <2>1. Of(s, states)' = Of(s, states)
    BY <1>2 DEF Of
  <2> QED
    BY <2>1, <1>2
<1> QED
  BY <1>1, <1>2

\* Tasks that stay on their side of some states leave their number alone.
LEMMA Stays ==
    ASSUME NEW states, \A u \in Task : task'[u] \in states <=> task[u] \in states, NEW s
    PROVE  Of(s, states)' = Of(s, states)
BY DEF Of

-----------------------------------------------------------------------------
(* The invariant.                                                           *)

LEMMA InitInv == Init => IInv
<1> SUFFICES ASSUME Init PROVE IInv
  OBVIOUS
<1>1. TypeOK /\ PassInv /\ QueueInv /\ InOrder
  BY FanoutAssumption DEF Init, TypeOK, PassInv, QueueInv, InOrder, TaskState, Passed, Task
<1>2. \A s : Of(s, Holding) = {} /\ Slots(s) = {}
  BY DEF Init, Of, Holding, Slots
<1>3. \A s : Cardinality(Of(s, Holding)) = 0 /\ Cardinality(Slots(s)) = 0
  BY <1>2, FS_EmptySet
<1>4. CountInv
  BY <1>3 DEF CountInv, Init
<1>5. SlotInv
  BY <1>3, FanoutAssumption DEF SlotInv, Init
<1> QED
  BY <1>1, <1>4, <1>5 DEF IInv

\* acquire takes a slot only when no task of the squad waits.
LEMMA AcquireInv == IInv /\ Acquire => IInv'
<1> SUFFICES ASSUME IInv, Acquire PROVE IInv'
  OBVIOUS
<1> DEFINE t == reached + 1  s == SquadOf[t]
<1>1. /\ t \in Task /\ s \in Squad /\ task[t] = "new" /\ reached' = t
      /\ reached \in Nat /\ N \in Nat
      /\ \A u \in Task : task[u] \in {"new", "queued", "granted"}
  BY FanoutAssumption DEF IInv, TypeOK, PassInv, Acquire, Passed, Task
<1>2. inFlight \in [Squad -> Nat] /\ queue \in [Squad -> Seq(Task)] /\ task \in [Task -> TaskState]
      /\ Limit \in [Squad -> Nat \ {0}]
  BY FanoutAssumption DEF IInv, TypeOK
<1>3. \A r : Slots(r) = Of(r, Holding)
  BY <1>1 DEF Slots, Of
<1>4. CASE inFlight[s] < Limit[s]
  <2>1. /\ inFlight' = [inFlight EXCEPT ![s] = @ + 1]
        /\ task' = [task EXCEPT ![t] = "granted"]
        /\ queue' = queue /\ UNCHANGED <<aborted, call>>
    BY <1>4, <1>1, <1>2 DEF Acquire
  <2>2. TypeOK'
    BY <2>1, <1>1, <1>2 DEF IInv, TypeOK, TaskState, Task
  <2>3. PassInv'
    BY <2>1, <1>1, <1>2 DEF IInv, PassInv, Passed, Task
  <2>4. task'[t] = "granted" /\ \A u \in Task \ {t} : task'[u] = task[u]
    BY <2>1, <1>1, <1>2
  <2>5. QueueInv'
    BY <2>1, <2>4, <1>1, <1>2 DEF IInv, QueueInv
  <2>6. queue[s] = <<>>
    <3>1. Cardinality(Slots(s)) = inFlight[s]
      BY <1>3, <1>1 DEF IInv, CountInv
    <3>2. inFlight[s] # Limit[s]
      BY <1>4, <1>1, <1>2
    <3> QED
      BY <3>1, <3>2, <1>1 DEF IInv, SlotInv
  <2>7. InOrder'
    <3> SUFFICES ASSUME NEW a \in Task, NEW b \in Task, SquadOf[a] = SquadOf[b], a < b,
                        task'[a] = "queued"
                 PROVE  task'[b] \in {"new", "queued"}
      BY DEF InOrder
    <3>1. a # t /\ task[a] = "queued"
      BY <2>4
    <3>2. SquadOf[a] # s
      BY <3>1, <2>6, <1>1, <1>2 DEF IInv, QueueInv
    <3> QED
      BY <3>1, <3>2, <2>4 DEF IInv, InOrder
  <2>8. \A r \in Squad : Cardinality(Of(r, Holding)') =
            IF r = s THEN Cardinality(Of(r, Holding)) + 1 ELSE Cardinality(Of(r, Holding))
    BY <2>4, <1>1, Gains DEF Holding
  <2>9. CountInv'
    BY <2>8, <2>1, <1>2, <1>1 DEF IInv, CountInv
  <2>10. \A r : Slots(r)' = Of(r, Holding)'
    BY <2>4, <1>1 DEF Slots, Of
  <2>11. SlotInv'
    BY <2>6, <2>8, <2>9, <2>10, <2>1, <1>1, <1>2, <1>3, <1>4 DEF IInv, CountInv, SlotInv
  <2> QED
    BY <2>2, <2>3, <2>5, <2>7, <2>9, <2>11 DEF IInv
<1>5. CASE inFlight[s] >= Limit[s]
  <2>1. /\ queue' = [queue EXCEPT ![s] = Append(@, t)]
        /\ task' = [task EXCEPT ![t] = "queued"]
        /\ inFlight' = inFlight /\ UNCHANGED <<aborted, call>>
    BY <1>5, <1>1, <1>2 DEF Acquire
  <2>2. TypeOK'
    BY <2>1, <1>1, <1>2 DEF IInv, TypeOK, TaskState, Task
  <2>3. PassInv'
    BY <2>1, <1>1, <1>2 DEF IInv, PassInv, Passed, Task
  <2>4. task'[t] = "queued" /\ \A u \in Task \ {t} : task'[u] = task[u]
    BY <2>1, <1>1, <1>2
  <2>5. \A u \in Task : task[u] = "queued" => u < t
    BY <1>1, <1>2 DEF IInv, PassInv, Task
  <2>6. QueueInv'
    <3> SUFFICES ASSUME NEW r \in Squad
                 PROVE  /\ \A i \in 1..Len(queue'[r]) :
                               task'[queue'[r][i]] = "queued" /\ SquadOf[queue'[r][i]] = r
                        /\ \A i, j \in 1..Len(queue'[r]) : i < j => queue'[r][i] < queue'[r][j]
                        /\ \A u \in Task : task'[u] = "queued" /\ SquadOf[u] = r =>
                               \E i \in 1..Len(queue'[r]) : queue'[r][i] = u
      BY DEF QueueInv
    <3> DEFINE q == queue[r]
    <3>1. /\ q \in Seq(Task)
          /\ \A i \in 1..Len(q) : q[i] \in Task /\ task[q[i]] = "queued" /\ SquadOf[q[i]] = r
          /\ \A i, j \in 1..Len(q) : i < j => q[i] < q[j]
          /\ \A u \in Task : task[u] = "queued" /\ SquadOf[u] = r => \E i \in 1..Len(q) : q[i] = u
      BY <1>2 DEF IInv, QueueInv
    <3>2. CASE r # s
      <4>1. queue'[r] = q
        BY <3>2, <2>1, <1>2
      <4> QED
        BY <4>1, <3>1, <3>2, <2>4, <1>1
    <3>3. CASE r = s
      <4>1. queue'[r] = Append(q, t)
        BY <3>3, <2>1, <1>2
      <4>2. /\ Len(queue'[r]) = Len(q) + 1 /\ Len(q) \in Nat
            /\ queue'[r][Len(q) + 1] = t
            /\ \A i \in 1..Len(q) : queue'[r][i] = q[i]
        BY <4>1, <3>1, <1>1
      <4>3. \A i \in 1..Len(q) : q[i] < t
        BY <3>1, <2>5
      <4> HIDE DEF q
      <4>4. \A i \in 1..(Len(q) + 1) : i \in 1..Len(q) \/ i = Len(q) + 1
        BY <4>2
      <4>5. \A i \in 1..Len(queue'[r]) : task'[queue'[r][i]] = "queued" /\ SquadOf[queue'[r][i]] = r
        BY <4>2, <4>4, <3>1, <2>4, <1>1, <3>3
      <4>6. \A i, j \in 1..Len(queue'[r]) : i < j => queue'[r][i] < queue'[r][j]
        BY <4>2, <4>3, <4>4, <3>1
      <4>7. \A u \in Task : task'[u] = "queued" /\ SquadOf[u] = r =>
                \E i \in 1..Len(queue'[r]) : queue'[r][i] = u
        <5> SUFFICES ASSUME NEW u \in Task, task'[u] = "queued", SquadOf[u] = r
                     PROVE  \E i \in 1..Len(queue'[r]) : queue'[r][i] = u
          OBVIOUS
        <5>1. CASE u = t
          BY <5>1, <4>2
        <5>2. CASE u # t
          <6>1. PICK i \in 1..Len(q) : q[i] = u
            BY <5>2, <2>4, <3>1
          <6> QED
            BY <6>1, <4>2
        <5> QED
          BY <5>1, <5>2
      <4> QED
        BY <4>5, <4>6, <4>7
    <3> QED
      BY <3>2, <3>3
  <2>7. InOrder'
    BY <2>4, <2>5, <1>1 DEF IInv, InOrder, PassInv, Task
  <2>8. \A r : Of(r, Holding)' = Of(r, Holding) /\ Slots(r)' = Slots(r)
    BY <2>4, <1>1, Stays DEF Holding, Slots
  <2>9. CountInv'
    BY <2>8, <2>1 DEF IInv, CountInv
  <2>10. SlotInv'
    <3>1. Cardinality(Slots(s)) = Limit[s]
      BY <1>5, <1>3, <1>1, <1>2 DEF IInv, SlotInv, CountInv
    <3>2. \A r \in Squad \ {s} : queue'[r] = queue[r]
      BY <2>1, <1>2
    <3> QED
      BY <3>1, <3>2, <2>8, <1>1, <1>2 DEF IInv, SlotInv
  <2> QED
    BY <2>2, <2>3, <2>6, <2>7, <2>9, <2>10 DEF IInv
<1> QED
  BY <1>1, <1>2, <1>4, <1>5

\* A task that resumes turns the slot it was handed into one that is counted.
LEMMA ResumeInv == ASSUME NEW t \in Task, IInv, Resume(t) PROVE IInv'
<1> DEFINE s == SquadOf[t]
<1>1. /\ inFlight \in [Squad -> Nat] /\ queue \in [Squad -> Seq(Task)]
      /\ task \in [Task -> TaskState] /\ s \in Squad
  BY FanoutAssumption DEF IInv, TypeOK
<1>2. /\ Passed /\ task[t] = "woken" /\ task'[t] = "granted"
      /\ \A u \in Task \ {t} : task'[u] = task[u]
      /\ UNCHANGED <<reached, queue, aborted, call>>
      /\ inFlight' = [inFlight EXCEPT ![s] = @ + 1]
      /\ task' = [task EXCEPT ![t] = "granted"]
  BY <1>1 DEF Resume
<1>3. TypeOK'
  BY <1>1, <1>2 DEF IInv, TypeOK, TaskState
<1>4. PassInv' /\ QueueInv' /\ InOrder'
  <2>1. PassInv'
    BY <1>2 DEF IInv, PassInv, Passed
  <2>2. QueueInv'
    BY <1>1, <1>2 DEF IInv, QueueInv
  <2>3. InOrder'
    BY <1>2 DEF IInv, InOrder
  <2> QED
    BY <2>1, <2>2, <2>3
<1>5. \A r \in Squad : Cardinality(Of(r, Holding)') =
          IF r = s THEN Cardinality(Of(r, Holding)) + 1 ELSE Cardinality(Of(r, Holding))
  BY <1>2, Gains DEF Holding
<1>6. CountInv'
  BY <1>1, <1>2, <1>5 DEF IInv, CountInv
<1>7. \A r : Slots(r)' = Slots(r)
  BY <1>2, Stays DEF Slots, Holding
<1>8. SlotInv'
  BY <1>2, <1>7 DEF IInv, SlotInv
<1> QED
  BY <1>3, <1>4, <1>6, <1>8 DEF IInv

\* A task that keeps its slot, or that is new or queued, disturbs nothing.
LEMMA KeepsInv ==
    ASSUME IInv, Passed, UNCHANGED <<reached, inFlight, queue, call>>,
           aborted' \in BOOLEAN, task' \in [Task -> TaskState],
           \A u \in Task : \/ task'[u] = task[u]
                           \/ task[u] \in Holding /\ task'[u] \in Holding
    PROVE  IInv'
<1>1. \A u \in Task : /\ task'[u] \in Holding <=> task[u] \in Holding
                     /\ \A x \in {"new", "queued", "woken"} : task'[u] = x <=> task[u] = x
  BY DEF Holding
<1>2. TypeOK' /\ PassInv' /\ InOrder'
  BY <1>1 DEF IInv, TypeOK, PassInv, InOrder, Passed
<1>3. QueueInv'
  BY <1>1 DEF IInv, QueueInv, TypeOK
<1>4. \A r : Of(r, Holding)' = Of(r, Holding) /\ Slots(r)' = Slots(r)
  <2>1. \A u \in Task : task'[u] \in Holding \cup {"woken"} <=> task[u] \in Holding \cup {"woken"}
    BY <1>1
  <2> QED
    BY <1>1, <2>1, Stays DEF Slots
<1>5. CountInv' /\ SlotInv'
  BY <1>4 DEF IInv, CountInv, SlotInv
<1> QED
  BY <1>2, <1>3, <1>5 DEF IInv

\* A release frees a slot, or hands it to the first waiter.
LEMMA HandOverInv ==
    ASSUME IInv, Passed, NEW t \in Task, task[t] \in {"closed", "threw"},
           NEW settled \in Settled, HandOver(SquadOf[t], t, settled),
           reached' = reached, aborted' = aborted, call' \in {"open", "resolved", "rejected"}
    PROVE  IInv'
<1> DEFINE s == SquadOf[t]
<1>1. /\ inFlight \in [Squad -> Nat] /\ queue \in [Squad -> Seq(Task)]
      /\ task \in [Task -> TaskState] /\ s \in Squad /\ Limit \in [Squad -> Nat \ {0}]
      /\ inFlight' = [inFlight EXCEPT ![s] = @ - 1]
  BY FanoutAssumption DEF IInv, TypeOK, HandOver
<1>2. \A r \in Squad : Cardinality(Of(r, Holding)) \in Nat /\ Cardinality(Slots(r)) \in Nat
  BY OfFinite DEF Slots
<1>3. Cardinality(Of(s, Holding)) > 0
  <2>1. t \in Of(s, Holding)
    BY DEF Of, Holding
  <2> QED
    BY <2>1, <1>1, <1>2, OfFinite, FS_EmptySet
<1>4. inFlight' \in [Squad -> Nat]
  BY <1>1, <1>3 DEF IInv, CountInv
<1>5. CASE queue[s] = <<>>
  <2>1. /\ queue' = queue /\ task' = [task EXCEPT ![t] = settled]
        /\ task'[t] = settled /\ \A u \in Task \ {t} : task'[u] = task[u]
    BY <1>5, <1>1 DEF HandOver
  <2>2. TypeOK' /\ PassInv' /\ InOrder'
    BY <2>1, <1>1, <1>4 DEF IInv, TypeOK, PassInv, InOrder, Passed, TaskState, Settled
  <2>3. QueueInv'
    BY <2>1, <1>1 DEF IInv, QueueInv, Settled
  <2>4. \A r \in Squad : Cardinality(Of(r, Holding)') =
            IF r = s THEN Cardinality(Of(r, Holding)) - 1 ELSE Cardinality(Of(r, Holding))
    BY <2>1, Loses DEF Holding, Settled
  <2>5. \A r \in Squad : Cardinality(Slots(r)') =
            IF r = s THEN Cardinality(Slots(r)) - 1 ELSE Cardinality(Slots(r))
    BY <2>1, Loses DEF Holding, Settled, Slots
  <2>6. CountInv'
    BY <2>4, <1>1 DEF IInv, CountInv
  <2>7. SlotInv'
    BY <2>5, <2>1, <1>1, <1>2, <1>5 DEF IInv, SlotInv
  <2> QED
    BY <2>2, <2>3, <2>6, <2>7 DEF IInv
<1>6. CASE queue[s] # <<>>
  <2> DEFINE q == queue[s]  h == Head(q)
  <2>1. /\ queue' = [queue EXCEPT ![s] = Tail(q)]
        /\ task' = [task EXCEPT ![t] = settled, ![h] = "woken"]
    BY <1>6, <1>1 DEF HandOver
  <2>2. /\ q \in Seq(Task) /\ Len(q) \in Nat \ {0} /\ h = q[1] /\ h \in Task
        /\ Len(Tail(q)) = Len(q) - 1
        /\ \A i \in 1..(Len(q) - 1) : Tail(q)[i] = q[i + 1]
    BY <1>6, <1>1
  <2>3. task[h] = "queued" /\ SquadOf[h] = s /\ h # t
    BY <2>2, <1>1 DEF IInv, QueueInv
  <2>4. /\ task'[t] = settled /\ task'[h] = "woken"
        /\ \A u \in Task \ {t, h} : task'[u] = task[u]
    BY <2>1, <2>2, <2>3, <1>1
  <2>5. task' \in [Task -> TaskState]
    BY <2>1, <2>2, <1>1 DEF TaskState, Settled
  <2>6. queue' \in [Squad -> Seq(Task)]
    BY <2>1, <2>2, <1>1, <1>6
  <2>7. TypeOK'
    BY <2>5, <2>6, <1>4 DEF IInv, TypeOK
  <2>8. PassInv'
    BY <2>3, <2>4, <2>2 DEF IInv, PassInv, Passed, Settled
  <2>9. \A u \in Task : task[u] = "queued" /\ SquadOf[u] = s /\ u # h =>
            \E i \in 2..Len(q) : q[i] = u
    BY <2>2, <1>1 DEF IInv, QueueInv
  <2>10. \A i \in 2..Len(q) : q[1] < q[i] /\ q[i] \in Task /\ task[q[i]] = "queued" /\ SquadOf[q[i]] = s
    <3> TAKE i \in 2..Len(q)
    <3>1. i \in 1..Len(q) /\ 1 \in 1..Len(q) /\ 1 < i
      BY <2>2
    <3>2. q[1] < q[i]
      BY <3>1, <1>1 DEF IInv, QueueInv
    <3>3. task[q[i]] = "queued" /\ SquadOf[q[i]] = s
      BY <3>1, <1>1 DEF IInv, QueueInv
    <3>4. q[i] \in Task
      BY <3>1, <2>2
    <3> QED
      BY <3>2, <3>3, <3>4
  <2>11. QueueInv'
    <3> SUFFICES ASSUME NEW r \in Squad
                 PROVE  /\ \A i \in 1..Len(queue'[r]) :
                               task'[queue'[r][i]] = "queued" /\ SquadOf[queue'[r][i]] = r
                        /\ \A i, j \in 1..Len(queue'[r]) : i < j => queue'[r][i] < queue'[r][j]
                        /\ \A u \in Task : task'[u] = "queued" /\ SquadOf[u] = r =>
                               \E i \in 1..Len(queue'[r]) : queue'[r][i] = u
      BY DEF QueueInv
    <3>1. CASE r # s
      <4>1. queue'[r] = queue[r]
        BY <3>1, <2>1, <1>1
      <4>2. \A u \in Task : SquadOf[u] = r => task'[u] = task[u]
        BY <3>1, <2>3, <2>4
      <4>3. queue[r] \in Seq(Task)
        BY <1>1
      <4>4. \A u \in Task : task'[u] = "queued" => task[u] = "queued"
        BY <2>4 DEF Settled
      <4> QED
        BY <4>1, <4>2, <4>3, <4>4 DEF IInv, QueueInv
    <3>2. CASE r = s
      <4>1. queue'[r] = Tail(q)
        BY <3>2, <2>1, <1>1
      <4>2. /\ Len(queue'[r]) = Len(q) - 1
            /\ \A i \in 1..(Len(q) - 1) : queue'[r][i] = q[i + 1]
        BY <4>1, <2>2
      <4>3. \A i \in 1..Len(queue'[r]) : i + 1 \in 2..Len(q)
        BY <4>2, <2>2
      <4>4. \A i \in 2..Len(q) : task'[q[i]] = "queued"
        <5> TAKE i \in 2..Len(q)
        <5>1. q[1] < q[i] /\ q[i] \in Task /\ task[q[i]] = "queued" /\ q[1] \in Task /\ h = q[1]
          BY <2>10, <2>2
        <5>2. q[i] # h
          BY <5>1 DEF Task
        <5>3. q[i] # t
          BY <5>1
        <5> QED
          BY <5>1, <5>2, <5>3, <2>4
      <4>5. \A i, j \in 1..Len(q) : i < j => q[i] < q[j]
        BY <1>1 DEF IInv, QueueInv
      <4>10. Len(q) \in Nat \ {0}
        BY <2>2
      <4> HIDE DEF q
      <4>6. \A i \in 1..Len(queue'[r]) : task'[queue'[r][i]] = "queued" /\ SquadOf[queue'[r][i]] = r
        BY <4>2, <4>3, <4>4, <2>10, <3>2
      <4>7. \A i, j \in 1..Len(queue'[r]) : i < j => queue'[r][i] < queue'[r][j]
        <5> SUFFICES ASSUME NEW i \in 1..Len(queue'[r]), NEW j \in 1..Len(queue'[r]), i < j
                     PROVE  queue'[r][i] < queue'[r][j]
          OBVIOUS
        <5>1. /\ i \in 1..(Len(q) - 1) /\ j \in 1..(Len(q) - 1)
              /\ i + 1 \in 1..Len(q) /\ j + 1 \in 1..Len(q) /\ i + 1 < j + 1
          BY <4>2, <4>10
        <5> QED
          BY <5>1, <4>2, <4>5
      <4>8. ASSUME NEW u \in Task, task'[u] = "queued", SquadOf[u] = r
            PROVE  \E i \in 1..Len(queue'[r]) : queue'[r][i] = u
        <5>1. u # h /\ task[u] = "queued"
          BY <4>8, <2>4 DEF Settled
        <5>2. PICK i \in 2..Len(q) : q[i] = u
          BY <5>1, <4>8, <3>2, <2>9
        <5>3. i - 1 \in 1..Len(queue'[r]) /\ queue'[r][i - 1] = u
          <6>1. i - 1 \in 1..(Len(q) - 1) /\ (i - 1) + 1 = i
            BY <5>2, <4>10
          <6> QED
            BY <6>1, <5>2, <4>2
        <5> QED
          BY <5>3
      <4> QED
        BY <4>6, <4>7, <4>8
    <3> QED
      BY <3>1, <3>2
  <2>12. InOrder'
    <3> SUFFICES ASSUME NEW a \in Task, NEW b \in Task, SquadOf[a] = SquadOf[b], a < b,
                        task'[a] = "queued"
                 PROVE  task'[b] \in {"new", "queued"}
      BY DEF InOrder
    <3>1. task[a] = "queued" /\ a # h /\ a # t
      BY <2>4 DEF Settled
    <3>2. task[b] \in {"new", "queued"}
      BY <3>1 DEF IInv, InOrder
    <3>3. b # t
      BY <3>2
    <3>4. b # h
      <4> SUFFICES ASSUME b = h PROVE FALSE
        OBVIOUS
      <4>1. PICK i \in 2..Len(q) : q[i] = a
        BY <3>1, <2>3, <2>9
      <4>2. h < a
        BY <4>1, <2>10, <2>2
      <4> QED
        BY <4>2 DEF Task
    <3> QED
      BY <3>2, <3>3, <3>4, <2>4
  <2>13. \A r \in Squad : Cardinality(Of(r, Holding)') =
            IF r = s THEN Cardinality(Of(r, Holding)) - 1 ELSE Cardinality(Of(r, Holding))
    <3>1. /\ task[t] \in Holding /\ task'[t] \notin Holding
          /\ \A u \in Task \ {t} : task'[u] \in Holding <=> task[u] \in Holding
      BY <2>3, <2>4 DEF Holding, Settled
    <3> QED
      BY <3>1, Loses
  <2>14. CountInv'
    BY <2>13, <1>1 DEF IInv, CountInv
  <2>15. \A r \in Squad : Cardinality(Slots(r)') = Cardinality(Slots(r))
    <3> TAKE r \in Squad
    <3>1. CASE r # s
      <4>1. Slots(r)' = Slots(r)
        BY <3>1, <2>3, <2>4 DEF Slots, Of
      <4> QED
        BY <4>1
    <3>2. CASE r = s
      <4>1. Slots(r)' = (Slots(r) \ {t}) \cup {h} /\ t \in Slots(r) /\ h \notin Slots(r)
        BY <3>2, <2>2, <2>3, <2>4 DEF Slots, Of, Holding, Settled
      <4>2. IsFiniteSet(Slots(r))
        BY OfFinite DEF Slots
      <4> QED
        <5>1. IsFiniteSet(Slots(r) \ {t}) /\ Cardinality(Slots(r) \ {t}) = Cardinality(Slots(r)) - 1
          BY <4>1, <4>2, FS_RemoveElement
        <5>2. h \notin Slots(r) \ {t}
          BY <4>1
        <5>3. Cardinality((Slots(r) \ {t}) \cup {h}) = Cardinality(Slots(r) \ {t}) + 1
          BY <5>1, <5>2, FS_AddElement
        <5> QED
          BY <5>1, <5>3, <4>1, <1>2
    <3> QED
      BY <3>1, <3>2
  <2>16. SlotInv'
    <3>1. \A r \in Squad \ {s} : queue'[r] = queue[r]
      BY <2>1, <1>1
    <3> QED
      BY <3>1, <2>15, <1>1, <1>6 DEF IInv, SlotInv
  <2> QED
    BY <2>7, <2>8, <2>11, <2>12, <2>14, <2>16 DEF IInv
<1> QED
  BY <1>5, <1>6

LEMMA StepInv == IInv /\ [Next]_vars => IInv'
<1> SUFFICES ASSUME IInv, [Next]_vars PROVE IInv'
  OBVIOUS
<1>1. CASE Acquire
  BY <1>1, AcquireInv
<1>2. ASSUME NEW t \in Task, Resume(t) PROVE IInv'
  BY <1>2, ResumeInv
<1>3. ASSUME NEW t \in Task, Spawn(t) PROVE IInv'
  <2>1. task' \in [Task -> TaskState]
    BY <1>3 DEF Spawn, IInv, TypeOK, TaskState
  <2>2. \A u \in Task : \/ task'[u] = task[u]
                        \/ task[u] \in Holding /\ task'[u] \in Holding
    BY <1>3 DEF Spawn, IInv, TypeOK, Holding
  <2>3. Passed /\ UNCHANGED <<reached, inFlight, queue, call>> /\ aborted' \in BOOLEAN
    BY <1>3 DEF Spawn, IInv, TypeOK
  <2> QED
    BY <2>1, <2>2, <2>3, KeepsInv
<1>4. ASSUME NEW t \in Task, Release(t) PROVE IInv'
  <2>1. \E settled \in Settled : HandOver(SquadOf[t], t, settled)
    BY <1>4 DEF Release, Settled
  <2>2. call' \in {"open", "resolved", "rejected"}
    BY <1>4 DEF Release, IInv, TypeOK
  <2> QED
    BY <1>4, <2>1, <2>2, HandOverInv DEF Release
<1>5. ASSUME NEW t \in Task, Exit(t) PROVE IInv'
  <2>1. task' \in [Task -> TaskState]
    BY <1>5 DEF Exit, IInv, TypeOK, TaskState
  <2>2. \A u \in Task : \/ task'[u] = task[u]
                        \/ task[u] \in Holding /\ task'[u] \in Holding
    BY <1>5 DEF Exit, IInv, TypeOK, Holding, Alive
  <2>3. Passed /\ UNCHANGED <<reached, inFlight, queue, call>> /\ aborted' \in BOOLEAN
    BY <1>5 DEF Exit, Idle, IInv, TypeOK
  <2> QED
    BY <2>1, <2>2, <2>3, KeepsInv
<1>6. CASE Abort
  <2>1. task' \in [Task -> TaskState]
    BY <1>6 DEF Abort, IInv, TypeOK, TaskState
  <2>2. \A u \in Task : \/ task'[u] = task[u]
                        \/ task[u] \in Holding /\ task'[u] \in Holding
    BY <1>6 DEF Abort, Holding
  <2>3. Passed /\ UNCHANGED <<reached, inFlight, queue, call>> /\ aborted' \in BOOLEAN
    BY <1>6 DEF Abort, Idle, IInv, TypeOK
  <2> QED
    BY <2>1, <2>2, <2>3, KeepsInv
<1>7. CASE UNCHANGED vars
  <2>1. \A s, states : Of(s, states)' = Of(s, states)
    BY <1>7 DEF Of, vars
  <2>2. CountInv' /\ SlotInv'
    BY <1>7, <2>1 DEF IInv, CountInv, SlotInv, Slots, vars
  <2>3. TypeOK' /\ PassInv' /\ QueueInv' /\ InOrder'
    BY <1>7 DEF IInv, TypeOK, PassInv, Passed, QueueInv, InOrder, vars
  <2> QED
    BY <2>2, <2>3 DEF IInv
<1> QED
  BY <1>1, <1>2, <1>3, <1>4, <1>5, <1>6, <1>7 DEF Next

-----------------------------------------------------------------------------
(* The theorems.                                                            *)

\* The strengthening holds in every state of a dispatch.
THEOREM Inductive == Spec => []IInv
<1> QED
  BY InitInv, StepInv, PTL DEF Spec

\* Every variable of a dispatch always has its type; inFlight never falls below zero.
THEOREM TypeCorrect == Spec => []TypeOK
<1>1. IInv => TypeOK
  BY DEF IInv
<1> QED
  BY <1>1, Inductive, PTL

\* MAX_INFLIGHT: for any list of subtasks no squad ever has more children than slots.
THEOREM LimitKept == Spec => []WithinLimit
<1>1. IInv => WithinLimit
  <2> SUFFICES ASSUME IInv, NEW s \in Squad PROVE Cardinality(Of(s, Alive)) <= Limit[s]
    BY DEF WithinLimit
  <2>1. Of(s, Alive) \in SUBSET Slots(s)
    BY DEF Of, Slots, Alive, Holding
  <2>2. Cardinality(Of(s, Alive)) <= Cardinality(Slots(s))
    BY <2>1, OfFinite, FS_Subset DEF Slots
  <2>3. Cardinality(Of(s, Alive)) \in Nat /\ Cardinality(Slots(s)) \in Nat
    BY OfFinite DEF Slots
  <2> QED
    BY <2>2, <2>3, FanoutAssumption DEF IInv, SlotInv
<1> QED
  BY <1>1, Inductive, PTL

\* release: whenever the harness waits for an event, a squad with waiting tasks uses
\* all its slots, so no hand-over is lost.
THEOREM SlotsAreUsed == Spec => []NoIdleSlot
<1>1. IInv => NoIdleSlot
  <2> SUFFICES ASSUME IInv, Idle, NEW s \in Squad, queue[s] # <<>>
               PROVE  Cardinality(Of(s, Alive)) = Limit[s]
    BY DEF NoIdleSlot
  <2>1. Of(s, Alive) = Slots(s)
    BY DEF Of, Slots, Alive, Holding, Idle, Microtask
  <2> QED
    BY <2>1 DEF IInv, SlotInv
<1> QED
  BY <1>1, Inductive, PTL

\* Semaphore.queue: the tasks of a squad are served in the order of the list.
THEOREM ServedInOrder == Spec => []InOrder
<1>1. IInv => InOrder
  BY DEF IInv
<1> QED
  BY <1>1, Inductive, PTL

-----------------------------------------------------------------------------
(***************************************************************************)
(* The semaphores implement SquadSlots.  A slot that was handed over is    *)
(* held already, so that a task which resumes takes nothing; a release     *)
(* gives back and hands over at once.                                      *)
(***************************************************************************)

\* Who holds a slot, by squad.
LEMMA HeldByServing == \A s : Semaphores!HeldOf(s) = Slots(s)
  BY DEF Semaphores!HeldOf, Slots, Of, Serving, Holding

\* The cardinality of the two modules is the same.
LEMMA SameCardinality == \A S : Semaphores!Cardinality(S) = Cardinality(S)
  BY Zenon DEF Semaphores!Cardinality, Cardinality

\* acquire asks, and gets a slot or a place at the end of the queue.
LEMMA AcquireAsks == IInv /\ Acquire => Semaphores!Turn
<1> SUFFICES ASSUME IInv, Acquire PROVE Semaphores!Turn
  OBVIOUS
<1>0. PICK t \in Task : t = reached + 1
  BY FanoutAssumption DEF IInv, TypeOK, Acquire, Passed, Task
<1> DEFINE s == SquadOf[t]
<1>1. /\ s \in Squad /\ task[t] = "new" /\ t \notin {u \in Task : task[u] # "new"}
      /\ \A u \in Task : task[u] \in {"new", "queued", "granted"}
      /\ task \in [Task -> TaskState] /\ inFlight[s] \in Nat /\ Limit[s] \in Nat
  BY <1>0, FanoutAssumption DEF IInv, TypeOK, PassInv, Acquire, Passed, Task
<1>2. Semaphores!Cardinality(Semaphores!HeldOf(s)) = inFlight[s]
  <2>1. Slots(s) = Of(s, Holding)
    BY <1>1 DEF Slots, Of
  <2> QED
    BY <2>1, <1>1, HeldByServing, SameCardinality DEF IInv, CountInv
<1>3. inFlight[s] <= Limit[s]
  BY <1>1, <1>2, HeldByServing, SameCardinality DEF IInv, SlotInv
<1>4. CASE inFlight[s] < Limit[s]
  <2>1. task' = [task EXCEPT ![t] = "granted"] /\ queue' = queue
    BY <1>0, <1>1, <1>4 DEF Acquire
  <2>2. task'[t] = "granted" /\ \A u \in Task \ {t} : task'[u] = task[u]
    BY <1>1, <2>1
  <2>3. {u \in Task : task'[u] # "new"} = {u \in Task : task[u] # "new"} \cup {t}
    BY <1>1, <2>2
  <2>4. {u \in Task : task'[u] \in Serving} = {u \in Task : task[u] \in Serving} \cup {t}
    BY <1>1, <2>2 DEF Serving
  <2>5. Semaphores!Ask(t)
    <3>1. Semaphores!Cardinality(Semaphores!HeldOf(SquadOf[t])) < Limit[SquadOf[t]]
      BY <1>2, <1>4
    <3> QED
      BY <1>1, <3>1, <2>1, <2>3, <2>4, Zenon DEF Semaphores!Ask
  <2> QED
    BY <2>5 DEF Semaphores!Turn
<1>5. CASE inFlight[s] >= Limit[s]
  <2>1. /\ task' = [task EXCEPT ![t] = "queued"]
        /\ queue' = [queue EXCEPT ![s] = Append(@, t)]
    BY <1>0, <1>1, <1>5 DEF Acquire
  <2>2. task'[t] = "queued" /\ \A u \in Task \ {t} : task'[u] = task[u]
    BY <1>1, <2>1
  <2>3. {u \in Task : task'[u] # "new"} = {u \in Task : task[u] # "new"} \cup {t}
    BY <1>1, <2>2
  <2>4. {u \in Task : task'[u] \in Serving} = {u \in Task : task[u] \in Serving}
    BY <1>1, <2>2 DEF Serving
  <2>5. inFlight[s] = Limit[s]
    BY <1>1, <1>3, <1>5
  <2>6. Semaphores!Ask(t)
    <3>1. Semaphores!Cardinality(Semaphores!HeldOf(SquadOf[t])) = Limit[SquadOf[t]]
      BY <1>2, <2>5
    <3> QED
      BY <1>1, <3>1, <2>1, <2>3, <2>4, Zenon DEF Semaphores!Ask
  <2> QED
    BY <2>6 DEF Semaphores!Turn
<1> QED
  BY <1>1, <1>4, <1>5

\* release gives a slot back, to the first of the queue if there is one.
LEMMA ReleaseGivesBack == ASSUME IInv, NEW t \in Task, Release(t) PROVE Semaphores!Turn
<1> DEFINE s == SquadOf[t]
<1>1. /\ task \in [Task -> TaskState] /\ queue \in [Squad -> Seq(Task)] /\ s \in Squad
      /\ task[t] \in {"closed", "threw"}
  BY FanoutAssumption DEF IInv, TypeOK, Release
<1>2. PICK settled \in Settled : HandOver(s, t, settled)
  BY DEF Release, Settled
<1>3. t \in {u \in Task : task[u] \in Serving}
  BY <1>1 DEF Serving
<1>4. CASE queue[s] = <<>>
  <2>1. task' = [task EXCEPT ![t] = settled] /\ queue' = queue
    BY <1>2, <1>4 DEF HandOver
  <2>2. task'[t] = settled /\ \A u \in Task \ {t} : task'[u] = task[u]
    BY <1>1, <2>1
  <2>3. {u \in Task : task'[u] # "new"} = {u \in Task : task[u] # "new"}
    BY <1>1, <2>2 DEF Settled
  <2>4. {u \in Task : task'[u] \in Serving} = {u \in Task : task[u] \in Serving} \ {t}
    BY <2>2 DEF Serving, Settled
  <2>5. Semaphores!GiveBack(t)
    BY <1>3, <1>4, <2>1, <2>3, <2>4 DEF Semaphores!GiveBack
  <2> QED
    BY <2>5 DEF Semaphores!Turn
<1>5. CASE queue[s] # <<>>
  <2> DEFINE h == Head(queue[s])
  <2>1. /\ task' = [task EXCEPT ![t] = settled, ![h] = "woken"]
        /\ queue' = [queue EXCEPT ![s] = Tail(@)]
    BY <1>2, <1>5 DEF HandOver
  <2>2. h \in Task /\ task[h] = "queued" /\ h # t
    <3>1. h = queue[s][1] /\ 1 \in 1..Len(queue[s]) /\ h \in Task
      BY <1>1, <1>5
    <3> QED
      BY <1>1, <3>1 DEF IInv, QueueInv
  <2>3. /\ task'[t] = settled /\ task'[h] = "woken"
        /\ \A u \in Task \ {t, h} : task'[u] = task[u]
    BY <1>1, <2>1, <2>2
  <2>4. {u \in Task : task'[u] # "new"} = {u \in Task : task[u] # "new"}
    BY <1>1, <2>2, <2>3 DEF Settled
  <2>5. {u \in Task : task'[u] \in Serving} =
            ({u \in Task : task[u] \in Serving} \ {t}) \cup {h}
    BY <2>2, <2>3 DEF Serving, Settled
  <2>6. Semaphores!GiveBack(t)
    BY <1>3, <1>5, <2>1, <2>4, <2>5 DEF Semaphores!GiveBack
  <2> QED
    BY <2>6 DEF Semaphores!Turn
<1> QED
  BY <1>4, <1>5

\* Everything else leaves the slots and the queues alone.
LEMMA ServingStutters ==
    ASSUME queue' = queue,
           \A u \in Task : \/ task'[u] = task[u]
                           \/ task[u] \in Serving /\ task'[u] \in Serving
    PROVE  UNCHANGED Semaphores!slots
<1>1. {u \in Task : task'[u] # "new"} = {u \in Task : task[u] # "new"}
  BY DEF Serving
<1>2. {u \in Task : task'[u] \in Serving} = {u \in Task : task[u] \in Serving}
  OBVIOUS
<1> QED
  BY <1>1, <1>2 DEF Semaphores!slots

\* Every step of a dispatch is one turn of the semaphores, or none.
LEMMA OneTurn == IInv /\ [Next]_vars => [Semaphores!Turn]_(Semaphores!slots)
<1> SUFFICES ASSUME IInv, [Next]_vars PROVE [Semaphores!Turn]_(Semaphores!slots)
  OBVIOUS
<1>1. CASE Acquire
  BY <1>1, AcquireAsks
<1>2. ASSUME NEW t \in Task, Release(t) PROVE Semaphores!Turn
  BY <1>2, ReleaseGivesBack
<1>3. ASSUME NEW t \in Task, Resume(t) \/ Spawn(t) \/ Exit(t)
      PROVE  UNCHANGED Semaphores!slots
  BY <1>3, ServingStutters DEF Resume, Spawn, Exit, IInv, TypeOK, Serving, Alive
<1>4. CASE Abort
  BY <1>4, ServingStutters DEF Abort, Serving
<1>5. CASE UNCHANGED vars
  BY <1>5, ServingStutters DEF vars
<1> QED
  BY <1>1, <1>2, <1>3, <1>4, <1>5 DEF Next

\* Semaphore: for any subtasks, squads and limits the slots of a dispatch are given in turn,
\* at once while there are free ones and otherwise to whoever waits longest.
THEOREM ServedInTurn == Spec => SlotsInTurn
<1>1. Init => Semaphores!Nobody
  <2> SUFFICES ASSUME Init PROVE Semaphores!Nobody
    OBVIOUS
  <2>1. \A t \in Task : task[t] = "new"
    BY DEF Init
  <2>2. {t \in Task : task[t] # "new"} = {} /\ {t \in Task : task[t] \in Serving} = {}
    BY <2>1 DEF Serving
  <2> QED
    BY <2>2 DEF Init, Semaphores!Nobody
<1> QED
  BY <1>1, OneTurn, Inductive, PTL DEF Spec, SlotsInTurn, Semaphores!FirstComeFirstServed
=============================================================================
