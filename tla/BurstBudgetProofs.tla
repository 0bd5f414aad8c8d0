------------------------- MODULE BurstBudgetProofs -------------------------
(* How long a rented node may live, and what an operator who asks the gate   *)
(* may spend, for any nodes, cards, thresholds and clocks: where /reap is    *)
(* called every ReapEvery ticks, no node is older than its lifetime allows *)
(* or idle for longer than the TTL allows; and the daily cap is kept.        *)
EXTENDS BurstBudget, FiniteSetTheorems, WellFoundedInduction, TLAPS

(***************************************************************************)
(* The strengthening.  A node's clock stands still from the moment it      *)
(* serves, which is within the budget of its stream; whatever the last     *)
(* reaper pass left alive was due for neither reason.                      *)
(***************************************************************************)
Node(t) == [card : Card, created : 0..t, last : 0..t]
Stream(t) == [card : Card, left : 0..MaxReplicas, pod : Pod \cup {NoNode}, since : 0..t]

\* What the clock, the registry and the stream are.
ClockInv ==
    /\ now \in Nat /\ reaped \in 0..now /\ now - reaped <= ReapEvery
    /\ nodes \in [Pod -> {NoNode} \cup Node(now)]
    /\ stream \in {NoStream} \cup Stream(now)

\* The stream of a node began when the node was created, and its budget is not over.
StreamInv ==
    \A p \in Live : stream # NoStream /\ stream.pod = p =>
        stream.since = nodes[p].created /\ now - nodes[p].created <= Budget

\* A node serves within the budget or never.
ServedInv ==
    \A p \in Live : nodes[p].created <= nodes[p].last /\ nodes[p].last <= nodes[p].created + Budget

\* What was alive at the last pass was kept.
KeptInv ==
    \A p \in Live :
        /\ reaped - nodes[p].created < MaxLifetime
        /\ reaped - nodes[p].last < IdleTtl

IInv == ClockInv /\ StreamInv /\ ServedInv /\ KeptInv

-----------------------------------------------------------------------------
\* What the constants are.
LEMMA Constants ==
    /\ Budget \in Nat /\ ReapEvery \in Nat \ {0}
    /\ IdleTtl \in Nat \ {0} /\ MaxLifetime \in Nat \ {0} /\ MaxReplicas \in Nat \ {0}
    /\ NoNode \notin Pod
  BY BudgetAssumption, PolicyAssumption

\* A fresh manager.
THEOREM InitInv == Init => IInv
  BY Constants DEF Init, IInv, ClockInv, StreamInv, ServedInv, KeptInv, Live

\* A live node's record.
LEMMA LiveNode ==
    ASSUME ClockInv, NEW p \in Live
    PROVE  p \in Pod /\ nodes[p] # NoNode /\ nodes[p] \in Node(now)
  BY DEF ClockInv, Live

\* The next replica, or the end of the stream: a stream at no node.
LEMMA StreamRests ==
    ASSUME ClockInv, stream # NoStream, NextReplica
    PROVE  /\ stream' \in {NoStream} \cup Stream(now)
           /\ stream' = NoStream \/ stream'.pod = NoNode
  BY DEF ClockInv, NextReplica, Stream

\* Steps that leave the clock and the registry alone and no stream at a node of its own.
LEMMA StreamMoves ==
    ASSUME IInv, UNCHANGED <<now, nodes, reaped>>,
           stream' \in {NoStream} \cup Stream(now),
           stream' = NoStream \/ stream'.pod = NoNode
    PROVE  IInv'
<1>1. ClockInv' /\ ServedInv' /\ KeptInv'
  BY DEF IInv, ClockInv, ServedInv, KeptInv, Live
<1>2. StreamInv'
  BY Constants DEF StreamInv, Live
<1> QED
  BY <1>1, <1>2 DEF IInv

\* Steps that take nodes out of the registry, with the stream as it was or at no node.
LEMMA Removed ==
    ASSUME IInv, NEW S, nodes' = [p \in Pod |-> IF p \in S THEN NoNode ELSE nodes[p]],
           now' = now, reaped' = reaped,
           \/ stream' = stream
           \/ /\ stream' \in {NoStream} \cup Stream(now)
              /\ stream' = NoStream \/ stream'.pod = NoNode
    PROVE  IInv'
<1>1. \A p \in Live' : p \in Live /\ nodes'[p] = nodes[p]
  BY DEF Live
<1>2. ClockInv'
  BY DEF IInv, ClockInv
<1>3. StreamInv'
  BY <1>1, Constants DEF IInv, StreamInv, Live
<1>4. ServedInv' /\ KeptInv'
  BY <1>1 DEF IInv, ServedInv, KeptInv
<1> QED
  BY <1>2, <1>3, <1>4 DEF IInv

\* A new node, at the time of the stream that waits for it.
LEMMA CreateStep == ASSUME IInv, NEW p \in Pod, Create(p) PROVE IInv'
<1> DEFINE new == [card |-> stream.card, created |-> now, last |-> now]
<1>1. /\ nodes' = [nodes EXCEPT ![p] = new] /\ now' = now /\ reaped' = reaped
      /\ stream' = [stream EXCEPT !.left = @ - 1, !.pod = p, !.since = now]
      /\ stream # NoStream /\ stream.left > 0
  BY DEF Create
<1>2. now \in Nat /\ reaped \in 0..now /\ stream \in Stream(now)
  BY <1>1 DEF IInv, ClockInv
<1>3. new \in Node(now) /\ stream' \in Stream(now)
                        /\ stream'.pod = p /\ stream'.since = now
  <2>1. stream.card \in Card /\ stream.left - 1 \in 0..MaxReplicas
    BY <1>1, <1>2, Constants DEF Stream
  <2>2. new \in Node(now)
    BY <1>2, <2>1 DEF Node
  <2>3. stream' = [card |-> stream.card, left |-> stream.left - 1, pod |-> p, since |-> now]
    BY <1>1, <1>2 DEF Stream
  <2> QED
    BY <1>2, <2>1, <2>2, <2>3 DEF Stream
<1>4. ClockInv'
  BY <1>1, <1>3 DEF IInv, ClockInv
<1>5. \A q \in Live' : q # p => q \in Live /\ nodes'[q] = nodes[q]
  BY <1>1 DEF Live
<1>6. nodes'[p].created = now /\ nodes'[p].last = now
  BY <1>1 DEF IInv, ClockInv
<1>7. StreamInv'
  BY <1>1, <1>2, <1>3, <1>6, Constants DEF StreamInv
<1>8. ServedInv'
  BY <1>2, <1>5, <1>6, Constants DEF IInv, ServedInv
<1>9. KeptInv'
  BY <1>1, <1>2, <1>5, <1>6, Constants DEF IInv, KeptInv
<1> QED
  BY <1>4, <1>7, <1>8, <1>9 DEF IInv

\* A node begins to serve: its stream's budget is not over.
LEMMA ServeStep == ASSUME IInv, NEW p \in Pod, Serve(p) PROVE IInv'
<1>1. /\ p \in Live /\ nodes' = [nodes EXCEPT ![p].last = now]
      /\ now' = now /\ reaped' = reaped
      /\ stream # NoStream /\ stream.pod = p /\ NextReplica
  BY DEF Serve, Provisioning, Live
<1>2. /\ stream' \in {NoStream} \cup Stream(now)
      /\ stream' = NoStream \/ stream'.pod = NoNode
  BY <1>1, StreamRests DEF IInv
<1>3. nodes[p] \in Node(now) /\ now \in Nat /\ reaped \in 0..now
  BY <1>1, LiveNode DEF IInv, ClockInv
<1>4. nodes'[p] = [nodes[p] EXCEPT !.last = now] /\ nodes'[p] \in Node(now)
      /\ nodes'[p].created = nodes[p].created /\ nodes'[p].last = now
  BY <1>1, <1>3 DEF IInv, ClockInv, Node
<1>5. \A q \in Live' : q # p => q \in Live /\ nodes'[q] = nodes[q]
  BY <1>1 DEF Live
<1>6. ClockInv'
  BY <1>1, <1>2, <1>4 DEF IInv, ClockInv
<1>7. StreamInv'
  BY <1>2, Constants DEF StreamInv, Live
<1>8. nodes[p].created \in 0..now /\ now - nodes[p].created <= Budget
  BY <1>1, <1>3 DEF IInv, StreamInv, Node
<1>9. ServedInv'
  <2>1. nodes'[p].created <= nodes'[p].last /\ nodes'[p].last <= nodes'[p].created + Budget
    BY <1>3, <1>4, <1>8, Constants
  <2> QED
    BY <1>5, <2>1 DEF IInv, ServedInv
<1>10. KeptInv'
  BY <1>1, <1>3, <1>4, <1>5, Constants DEF IInv, KeptInv
<1> QED
  BY <1>6, <1>7, <1>9, <1>10 DEF IInv

\* A pass of the reaper keeps what is due for neither reason.
LEMMA ReapStep == ASSUME IInv, Reap PROVE IInv'
<1>1. /\ nodes' = [p \in Pod |-> IF p \in {q \in Live : Verdict(q) # "keep"}
                                 THEN NoNode ELSE nodes[p]]
      /\ reaped' = now /\ now' = now /\ stream' = stream
  BY DEF Reap, Release
<1>2. \A p \in Live' : p \in Live /\ nodes'[p] = nodes[p] /\ Verdict(p) = "keep"
  BY <1>1 DEF Live
<1>3. ClockInv'
  BY <1>1, Constants DEF IInv, ClockInv
<1>4. KeptInv'
  <2> SUFFICES ASSUME NEW p \in Live'
               PROVE  now - nodes[p].created < MaxLifetime /\ now - nodes[p].last < IdleTtl
    BY <1>1, <1>2 DEF KeptInv
  <2>1. now \in Nat /\ nodes[p].created \in 0..now /\ nodes[p].last \in 0..now
    BY <1>2, LiveNode DEF IInv, ClockInv, Node
  <2> QED
    BY <1>2, <2>1, Constants DEF Verdict, LifecycleAction
<1>5. StreamInv' /\ ServedInv'
  BY <1>1, <1>2 DEF IInv, StreamInv, ServedInv
<1> QED
  BY <1>3, <1>4, <1>5 DEF IInv

\* Time passes up to what is due.
LEMMA TickStep == ASSUME IInv, Tick PROVE IInv'
<1>1. /\ now' = now + 1 /\ now - reaped < ReapEvery
      /\ nodes' = nodes /\ stream' = stream /\ reaped' = reaped
      /\ stream # NoStream => now - stream.since < Budget
  BY DEF Tick
<1>2. now \in Nat /\ reaped \in 0..now
  BY DEF IInv, ClockInv
<1>3. Node(now) \subseteq Node(now') /\ Stream(now) \subseteq Stream(now')
  BY <1>1, <1>2 DEF Node, Stream
<1>4. ClockInv'
  BY <1>1, <1>2, <1>3, Constants DEF IInv, ClockInv
<1>5. StreamInv'
  <2> SUFFICES ASSUME NEW p \in Live, stream # NoStream, stream.pod = p
               PROVE  stream.since = nodes[p].created /\ now' - nodes[p].created <= Budget
    <3>1. Live' = Live
      BY <1>1 DEF Live
    <3> QED
      BY <1>1, <3>1 DEF StreamInv
  <2>1. stream.since = nodes[p].created /\ nodes[p].created \in 0..now
    BY LiveNode DEF IInv, StreamInv, Node
  <2> QED
    BY <1>1, <1>2, <2>1, Constants
<1>6. ServedInv' /\ KeptInv'
  BY <1>1 DEF IInv, ServedInv, KeptInv, Live
<1> QED
  BY <1>4, <1>5, <1>6 DEF IInv

\* Every step keeps the invariant.
THEOREM NextInv == IInv /\ [Next]_vars => IInv'
<1> SUFFICES ASSUME IInv, [Next]_vars PROVE IInv'
  OBVIOUS
<1>1. ASSUME UNCHANGED <<now, nodes, stream, reaped>> PROVE IInv'
  BY <1>1 DEF IInv, ClockInv, StreamInv, ServedInv, KeptInv, Live
<1>2. ASSUME NEW d \in Demand, Gate(d) PROVE IInv'
  BY <1>1, <1>2 DEF Gate
<1>3. ASSUME NEW card \in Card, NEW replicas \in 1..MaxReplicas, NEW named \in BOOLEAN,
             Up(card, replicas, named)
      PROVE  IInv'
  <2>1. stream' = [card |-> card, left |-> replicas, pod |-> NoNode, since |-> now]
        /\ UNCHANGED <<now, nodes, reaped>>
    BY <1>3 DEF Up
  <2>2. stream' \in Stream(now) /\ stream'.pod = NoNode
    BY <2>1, Constants DEF Stream, IInv, ClockInv
  <2> QED
    BY <2>1, <2>2, StreamMoves
<1>4. ASSUME NEW p \in Pod, GiveBack(p) PROVE IInv'
  <2>1. nodes' = [q \in Pod |-> IF q \in {p} THEN NoNode ELSE nodes[q]]
    BY <1>4 DEF GiveBack, IInv, ClockInv
  <2>2. /\ stream' \in {NoStream} \cup Stream(now)
        /\ stream' = NoStream \/ stream'.pod = NoNode
    BY <1>4, StreamRests DEF GiveBack, Provisioning, IInv
  <2> QED
    BY <1>4, <2>1, <2>2, Removed DEF GiveBack
<1>5. CASE Gone
  <2>1. /\ stream' \in {NoStream} \cup Stream(now)
        /\ stream' = NoStream \/ stream'.pod = NoNode
    BY <1>5, StreamRests DEF Gone, IInv
  <2> QED
    BY <1>5, <2>1, StreamMoves DEF Gone
<1>6. CASE CreateRaises \/ Drop
  BY <1>6, StreamMoves DEF CreateRaises, Drop
<1>7. ASSUME NEW S \in SUBSET Live, Down(S) PROVE IInv'
  BY <1>7, Removed DEF Down, Release
<1>8. CASE UNCHANGED vars
  BY <1>1, <1>8 DEF vars
<1> QED
  BY <1>2, <1>3, <1>4, <1>5, <1>6, <1>7, <1>8, CreateStep, ServeStep, ReapStep, TickStep
     DEF Next

\* The inductive invariant of the tier's clock.
THEOREM Inductive == Spec => []IInv
  BY InitInv, NextInv, PTL DEF Spec

\* No node outlives its lifetime, or its idle time since it was created or first served, by
\* more than a pass of the reaper.
THEOREM NothingForgotten == Spec => []GivenBackInTime
<1>1. IInv => GivenBackInTime
  <2> SUFFICES ASSUME IInv, NEW p \in Live
               PROVE  /\ now - nodes[p].created < MaxLifetime + ReapEvery
                      /\ now - nodes[p].last < IdleTtl + ReapEvery
    BY DEF GivenBackInTime
  <2>1. /\ now \in Nat /\ reaped \in 0..now /\ now - reaped <= ReapEvery
        /\ nodes[p].created \in 0..now /\ nodes[p].last \in 0..now
    BY LiveNode DEF IInv, ClockInv, Node
  <2>2. reaped - nodes[p].created < MaxLifetime /\ reaped - nodes[p].last < IdleTtl
    BY DEF IInv, KeptInv
  <2> QED
    BY <2>1, <2>2, Constants
<1> QED
  BY <1>1, Inductive, PTL

-----------------------------------------------------------------------------
(***************************************************************************)
(* The day's money: what a release adds is a sum over the nodes it gives   *)
(* back, and how large a sum can be is shown by induction on how many they *)
(* are.  The induction is over a set of numbers, the least number outside  *)
(* of which is looked at.                                                  *)
(***************************************************************************)
First(s) == CHOOSE x \in s : TRUE

\* g adds up f over every set of D, one element after the other.
AddsUp(g, f, D) ==
    \A s \in D : g[s] = IF s = {} THEN 0 ELSE f[First(s)] + g[s \ {First(s)}]

\* A set of numbers has a least one.
LEMMA LeastOf ==
    ASSUME NEW T, T \subseteq Nat, T # {}
    PROVE  \E m \in T : \A k \in T : m <= k
<1> DEFINE R == OpToRel(<, Nat)
<1>1. IsWellFoundedOn(R, Nat)
  BY NatLessThanWellFounded DEF OpToRel
<1>2. \A j, k \in Nat : j < k => <<j, k>> \in R
  BY DEF OpToRel
<1> HIDE DEF R
<1>3. PICK m \in T : \A k \in T : ~ (<<k, m>> \in R)
  BY <1>1, WFMin
<1>4. ASSUME NEW k \in T PROVE m <= k
  <2>1. k \in Nat /\ m \in Nat /\ ~(k < m)
    BY <1>2, <1>3
  <2> QED
    BY <2>1
<1> QED
  BY <1>4

\* A set with zero and every successor has every number.
LEMMA Induct ==
    ASSUME NEW T, 0 \in T, \A n \in Nat : n \in T => n + 1 \in T
    PROVE  Nat \subseteq T
<1> SUFFICES ASSUME Nat \ T # {} PROVE FALSE
  OBVIOUS
<1>1. PICK m \in Nat \ T : \A k \in Nat \ T : m <= k
  BY LeastOf
<1>2. m # 0 /\ m - 1 \in Nat /\ m - 1 + 1 = m
  BY <1>1
<1>3. m - 1 \in T
  BY <1>1, <1>2
<1> QED
  BY <1>1, <1>2, <1>3

\* A set without its first element.
LEMMA Smaller ==
    ASSUME NEW S, IsFiniteSet(S), NEW s \in SUBSET S, s # {}
    PROVE  /\ First(s) \in s /\ s \ {First(s)} \in SUBSET S
           /\ Cardinality(s) \in Nat \ {0}
           /\ Cardinality(s \ {First(s)}) = Cardinality(s) - 1
<1>1. First(s) \in s
  BY DEF First
<1>2. IsFiniteSet(s)
  BY FS_Subset
<1>3. Cardinality(s) \in Nat /\ Cardinality(s) # 0
  BY <1>2, FS_CardinalityType, FS_EmptySet
<1>4. Cardinality(s \ {First(s)}) = Cardinality(s) - 1
  BY <1>1, <1>2, FS_RemoveElement
<1> QED
  BY <1>1, <1>3, <1>4

\* Sums exist: those of at most n elements for every n.
LEMMA SumsExist ==
    ASSUME NEW S, IsFiniteSet(S), NEW f \in [S -> Nat]
    PROVE  \E g \in [SUBSET S -> Nat] : AddsUp(g, f, SUBSET S)
<1> DEFINE Small(n) == {s \in SUBSET S : Cardinality(s) <= n}
           T == {n \in Nat : \E g \in [Small(n) -> Nat] : AddsUp(g, f, Small(n))}
<1>1. 0 \in T
  <2> DEFINE g == [s \in Small(0) |-> 0]
  <2>1. ASSUME NEW s \in SUBSET S, Cardinality(s) <= 0 PROVE s = {}
    <3>1. ASSUME s # {} PROVE FALSE
      <4>1. Cardinality(s) \in Nat \ {0}
        BY <3>1, Smaller
      <4> QED
        BY <2>1, <4>1
    <3> QED
      BY <3>1
  <2>2. g \in [Small(0) -> Nat] /\ AddsUp(g, f, Small(0))
    BY <2>1 DEF AddsUp
  <2> QED
    BY <2>2
<1>2. ASSUME NEW n \in Nat, n \in T PROVE n + 1 \in T
  <2>1. PICK g \in [Small(n) -> Nat] : AddsUp(g, f, Small(n))
    BY <1>2
  <2> DEFINE h == [s \in Small(n + 1) |->
                      IF s = {} THEN 0 ELSE f[First(s)] + g[s \ {First(s)}]]
  <2>2. ASSUME NEW s \in Small(n + 1), s # {}
        PROVE  First(s) \in S /\ s \ {First(s)} \in Small(n)
    <3>1. /\ First(s) \in s /\ s \ {First(s)} \in SUBSET S
          /\ Cardinality(s) \in Nat \ {0} /\ Cardinality(s) <= n + 1
          /\ Cardinality(s \ {First(s)}) = Cardinality(s) - 1
      BY <2>2, Smaller
    <3> QED
      BY <3>1
  <2>3. h \in [Small(n + 1) -> Nat]
    BY <2>2
  <2>4. \A s \in Small(n) : s \in Small(n + 1) /\ h[s] = g[s]
    <3>1. ASSUME NEW s \in Small(n) PROVE s \in Small(n + 1)
      <4>1. Cardinality(s) \in Nat
        BY FS_Subset, FS_CardinalityType
      <4> QED
        BY <4>1
    <3> QED
      BY <2>1, <3>1 DEF AddsUp
  <2>5. AddsUp(h, f, Small(n + 1))
    <3> SUFFICES ASSUME NEW s \in Small(n + 1), s # {}
                 PROVE  h[s] = f[First(s)] + h[s \ {First(s)}]
      BY DEF AddsUp
    <3>1. h[s] = f[First(s)] + g[s \ {First(s)}]
      OBVIOUS
    <3>2. h[s \ {First(s)}] = g[s \ {First(s)}]
      BY <2>2, <2>4
    <3> QED
      BY <3>1, <3>2
  <2> HIDE DEF h
  <2>6. \E k \in [Small(n + 1) -> Nat] : AddsUp(k, f, Small(n + 1))
    BY <2>3, <2>5
  <2> HIDE DEF Small
  <2> QED
    BY <2>6
<1> HIDE DEF T
<1>3. Cardinality(S) \in T
  BY <1>1, <1>2, Induct, FS_CardinalityType
<1>4. Small(Cardinality(S)) = SUBSET S
  BY FS_Subset
<1> QED
  BY <1>3, <1>4 DEF T

\* A sum of n numbers is a number; up to M times n, when each is up to M.
LEMMA SumBound ==
    ASSUME NEW S, IsFiniteSet(S), NEW f \in [S -> Nat], NEW it, AddsUp(it, f, SUBSET S),
           NEW M \in Nat, NEW bounded, bounded => \A x \in S : f[x] <= M
    PROVE  it[S] \in Nat /\ (bounded => it[S] <= M * Cardinality(S))
<1> DEFINE T == {n \in Nat : \A s \in SUBSET S : Cardinality(s) = n =>
                    it[s] \in Nat /\ (bounded => it[s] <= M * n)}
<1>1. 0 \in T
  <2>1. ASSUME NEW s \in SUBSET S, Cardinality(s) = 0 PROVE s = {}
    BY <2>1, Smaller
  <2>2. \A s \in SUBSET S : Cardinality(s) = 0 => it[s] = 0
    BY <2>1 DEF AddsUp
  <2> QED
    BY <2>2
<1>2. ASSUME NEW n \in Nat, n \in T PROVE n + 1 \in T
  <2> SUFFICES ASSUME NEW s \in SUBSET S, Cardinality(s) = n + 1
               PROVE  it[s] \in Nat /\ (bounded => it[s] <= M * (n + 1))
    OBVIOUS
  <2>1. s # {}
    <3>1. n + 1 # 0 /\ Cardinality({}) = 0
      BY FS_EmptySet
    <3> QED
      BY <3>1
  <2>2. /\ First(s) \in S /\ s \ {First(s)} \in SUBSET S
        /\ Cardinality(s \ {First(s)}) = n
    BY <2>1, Smaller
  <2>3. it[s \ {First(s)}] \in Nat /\ (bounded => it[s \ {First(s)}] <= M * n)
    BY <1>2, <2>2
  <2>4. it[s] = f[First(s)] + it[s \ {First(s)}] /\ f[First(s)] \in Nat
        /\ (bounded => f[First(s)] <= M)
    BY <2>1, <2>2 DEF AddsUp
  <2>5. M * (n + 1) = M * n + M /\ M * n \in Nat
    OBVIOUS
  <2> HIDE DEF T
  <2> QED
    BY <2>3, <2>4, <2>5
<1> HIDE DEF T
<1>3. Cardinality(S) \in T
  BY <1>1, <1>2, Induct, FS_CardinalityType
<1> QED
  BY <1>3 DEF T

\* What a card costs an hour.
LEMMA Rates == \A c \in Card : GPUS[c].cents \in Nat
  BY BudgetAssumption DEF GPUS

\* What nodes that are rented at a rate cost.
LEMMA Billed ==
    ASSUME IInv, NEW S \in SUBSET Live
    PROVE  /\ MapThenSumSet(Bill, S) \in Nat
           /\ \A M \in Nat : (\A p \in S : Bill(p) <= M) =>
                  MapThenSumSet(Bill, S) <= M * Cardinality(S)
<1> DEFINE f == [p \in S |-> Bill(p)]
           it == CHOOSE g : g = [s \in SUBSET S |->
                        IF s = {} THEN 0 ELSE Bill(First(s)) + g[s \ {First(s)}]]
<1>1. IsFiniteSet(S)
  BY BudgetAssumption, FS_Subset DEF Live
<1>2. \A p \in S : Bill(p) \in Nat
  <2> SUFFICES ASSUME NEW p \in S PROVE Bill(p) \in Nat
    OBVIOUS
  <2>1. nodes[p] \in Node(now) /\ now \in Nat
    BY LiveNode DEF IInv, ClockInv
  <2>2. GPUS[nodes[p].card].cents \in Nat /\ now - nodes[p].created \in Nat
    BY <2>1, Rates DEF Node
  <2> QED
    BY <2>2 DEF Bill
<1>3. AddsUp(it, f, SUBSET S)
  <2>1. f \in [S -> Nat]
    BY <1>2
  <2>2. PICK g \in [SUBSET S -> Nat] : AddsUp(g, f, SUBSET S)
    BY <1>1, <2>1, SumsExist
  <2>3. \A s \in SUBSET S : s # {} => First(s) \in S /\ f[First(s)] = Bill(First(s))
    <3>1. \A s \in SUBSET S : s # {} => First(s) \in S
      BY <1>1, Smaller
    <3> QED
      BY <3>1
  <2> HIDE DEF f
  <2>4. g = [s \in SUBSET S |-> IF s = {} THEN 0 ELSE Bill(First(s)) + g[s \ {First(s)}]]
    BY <2>2, <2>3 DEF AddsUp
  <2>5. it = [s \in SUBSET S |-> IF s = {} THEN 0 ELSE Bill(First(s)) + it[s \ {First(s)}]]
    BY <2>4
  <2> HIDE DEF it
  <2> QED
    BY <2>3, <2>5 DEF AddsUp
<1>4. MapThenSumSet(Bill, S) = it[S]
  BY DEF MapThenSumSet, MapThenFoldSet, First
<1> HIDE DEF it
<1>5. ASSUME NEW M \in Nat
      PROVE  /\ it[S] \in Nat
             /\ (\A p \in S : Bill(p) <= M) => it[S] <= M * Cardinality(S)
  <2>1. f \in [S -> Nat] /\ \A p \in S : f[p] = Bill(p)
    BY <1>2
  <2> HIDE DEF f
  <2>2. (\A p \in S : Bill(p) <= M) => \A p \in S : f[p] <= M
    BY <2>1
  <2> DEFINE bounded == \A p \in S : Bill(p) <= M
  <2> HIDE DEF bounded
  <2>3. bounded => \A p \in S : f[p] <= M
    BY <2>2 DEF bounded
  <2>4. it[S] \in Nat /\ (bounded => it[S] <= M * Cardinality(S))
    BY <1>1, <1>3, <2>1, <2>3, SumBound
  <2> QED
    BY <2>4 DEF bounded
<1>6. 0 \in Nat
  OBVIOUS
<1> QED
  BY <1>4, <1>5, <1>6

-----------------------------------------------------------------------------
(***************************************************************************)
(* The strengthening for the cap.  A careful operator's nodes and stream   *)
(* are of the grant that was used; what was spent and what the nodes that  *)
(* live and the replicas to come may cost yet, each the grant's hours at   *)
(* its card's rate, stays within the cap.                                  *)
(***************************************************************************)
Grant == [card : Card, replicas : 1..MaxReplicas, hours : Nat, used : BOOLEAN]

\* What a node of the grant may cost.
Owed == IF grant = NoGrant THEN 0 ELSE GPUS[grant.card].cents * (grant.hours * Hour)

ToGo == IF stream = NoStream THEN 0 ELSE stream.left

\* Nodes that may run up a bill yet.
Ahead == Cardinality(Live) + ToGo

MoneyType ==
    /\ now <= MaxNow /\ spent \in Nat /\ careful \in BOOLEAN
    /\ grant \in {NoGrant} \cup Grant

\* What a careful operator has is of the grant, and not beyond its hours.
HonestInv ==
    careful =>
        /\ Live # {} \/ stream # NoStream => grant # NoGrant /\ grant.used
        /\ stream # NoStream => stream.card = grant.card
        /\ \A p \in Live :
               nodes[p].card = grant.card /\ now - nodes[p].created <= grant.hours * Hour

\* Spent, and owed at most, is within the cap.
CapInv ==
    careful =>
        /\ spent <= DailyCap * Hour
        /\ grant # NoGrant /\ ~grant.used => spent + Owed * grant.replicas <= DailyCap * Hour
        /\ grant # NoGrant /\ grant.used => spent + Owed * Ahead <= DailyCap * Hour

MoneyInv == MoneyType /\ HonestInv /\ CapInv

\* A fresh manager has spent nothing.
LEMMA InitMoney == Init => MoneyInv
<1> SUFFICES ASSUME Init PROVE MoneyInv
  OBVIOUS
<1>1. Live = {} /\ DailyCap * Hour \in Nat
  BY PolicyAssumption DEF Init, Live
<1> QED
  BY <1>1, BudgetAssumption DEF Init, MoneyInv, MoneyType, HonestInv, CapInv

\* A larger number of nodes at the same price costs more.
LEMMA Costs ==
    ASSUME NEW a \in Nat, NEW m \in Nat, NEW n \in Nat
    PROVE  a * m \in Nat /\ a * (m + n) = a * m + a * n /\ (m <= n => a * m <= a * n)
<1>1. a * m \in Nat /\ a * (m + n) = a * m + a * n
  OBVIOUS
<1>2. ASSUME m <= n PROVE a * m <= a * n
  <2>1. PICK k \in Nat : n = m + k
    <3>1. n - m \in Nat /\ n = m + (n - m)
      BY <1>2
    <3> QED
      BY <3>1
  <2>2. a * n = a * m + a * k /\ a * m \in Nat /\ a * k \in Nat
    BY <2>1
  <2> QED
    BY <2>2
<1> QED
  BY <1>1, <1>2

\* What is owed and what is ahead are numbers.
LEMMA Numbers ==
    ASSUME IInv
    PROVE  /\ IsFiniteSet(Live) /\ Cardinality(Live) \in Nat
           /\ ToGo \in Nat /\ Ahead \in Nat
           /\ MoneyType => Owed \in Nat
<1>1. IsFiniteSet(Live)
  BY BudgetAssumption, FS_Subset DEF Live
<1>2. Cardinality(Live) \in Nat
  BY <1>1, FS_CardinalityType
<1>3. ToGo \in Nat
  BY DEF ToGo, IInv, ClockInv, Stream
<1>4. ASSUME MoneyType, grant # NoGrant PROVE Owed \in Nat
  <2>1. GPUS[grant.card].cents \in Nat /\ grant.hours \in Nat /\ Hour \in Nat
    BY <1>4, Rates, PolicyAssumption DEF MoneyType, Grant
  <2>2. grant.hours * Hour \in Nat
    BY <2>1
  <2>3. GPUS[grant.card].cents * (grant.hours * Hour) \in Nat
    BY <2>1, <2>2, Costs
  <2> QED
    BY <1>4, <2>3 DEF Owed
<1>5. MoneyType => Owed \in Nat
  BY <1>4 DEF Owed
<1> QED
  BY <1>1, <1>2, <1>3, <1>5 DEF Ahead

\* And are after a step.
LEMMA NumbersNext == ASSUME IInv' PROVE Cardinality(Live') \in Nat /\ Ahead' \in Nat
<1>1. IsFiniteSet(Live') /\ Cardinality(Live') \in Nat
  BY BudgetAssumption, FS_Subset, FS_CardinalityType DEF Live
<1>2. ToGo' \in Nat
  BY DEF ToGo, IInv, ClockInv, Stream
<1> QED
  BY <1>1, <1>2 DEF Ahead

\* A step within the grant: what is added to the bill was ahead and no longer is.
LEMMA WithinGrant ==
    ASSUME IInv, IInv', MoneyInv, UNCHANGED <<grant, careful>>, spent' \in Nat,
           careful => spent' + Owed * Ahead' <= spent + Owed * Ahead,
           careful /\ Live = {} => spent' = spent
    PROVE  CapInv'
<1> SUFFICES ASSUME careful PROVE CapInv'
  BY DEF CapInv
<1> DEFINE cap == DailyCap * Hour
<1>1. /\ Owed \in Nat /\ Owed' = Owed /\ Ahead' \in Nat /\ Owed * Ahead' \in Nat
      /\ cap \in Nat
  <2>1. Owed \in Nat /\ Ahead' \in Nat
    BY Numbers, NumbersNext DEF MoneyInv
  <2>2. Owed' = Owed
    BY DEF Owed
  <2> QED
    BY <2>1, <2>2, Costs, PolicyAssumption
<1>2. /\ spent <= cap
      /\ grant # NoGrant /\ ~grant.used => spent + Owed * grant.replicas <= cap
      /\ grant # NoGrant /\ grant.used => spent + Owed * Ahead <= cap
  BY DEF MoneyInv, CapInv
<1>3. spent \in Nat /\ Owed * Ahead \in Nat
  BY Numbers, Costs, <1>1 DEF MoneyInv, MoneyType
<1>4. CASE grant # NoGrant /\ grant.used
  <2>1. spent' + Owed * Ahead' <= cap /\ spent' <= cap
    BY <1>1, <1>2, <1>3, <1>4
  <2> QED
    BY <1>1, <1>4, <2>1 DEF CapInv
<1>5. CASE ~(grant # NoGrant /\ grant.used)
  <2>1. spent' = spent
    BY <1>5 DEF MoneyInv, HonestInv
  <2> QED
    BY <1>1, <1>2, <1>5, <2>1 DEF CapInv
<1> QED
  BY <1>4, <1>5

\* A step that adds nothing to the bill, and no node and no replica to what is ahead.
LEMMA NothingMore ==
    ASSUME IInv, IInv', MoneyInv, UNCHANGED <<grant, careful, spent>>, Ahead' <= Ahead
    PROVE  CapInv'
<1>1. Owed \in Nat /\ Ahead \in Nat /\ Ahead' \in Nat /\ spent \in Nat
  BY Numbers, NumbersNext DEF MoneyInv, MoneyType
<1>2. Owed * Ahead' <= Owed * Ahead /\ Owed * Ahead' \in Nat /\ Owed * Ahead \in Nat
  BY <1>1, Costs
<1>3. spent' \in Nat /\ spent' + Owed * Ahead' <= spent + Owed * Ahead
  <2> DEFINE a == Owed * Ahead
             b == Owed * Ahead'
  <2>1. b <= a /\ b \in Nat /\ a \in Nat /\ spent' = spent
    BY <1>2
  <2> HIDE DEF a, b
  <2>2. spent' \in Nat /\ spent' + b <= spent + a
    BY <1>1, <2>1
  <2> QED
    BY <2>2 DEF a, b
<1> QED
  BY <1>3, WithinGrant

\* Steps that leave the clock alone, add no node, and take a stream no other card.
LEMMA HonestKept ==
    ASSUME HonestInv, UNCHANGED <<grant, careful, now>>,
           \A p \in Live' : p \in Live /\ nodes'[p].card = nodes[p].card
                            /\ nodes'[p].created = nodes[p].created,
           stream' # NoStream => stream # NoStream /\ stream'.card = stream.card
    PROVE  HonestInv'
  BY DEF HonestInv

\* The next replica is of the same card, and none is added.
LEMMA NextReplicaMoney ==
    ASSUME ClockInv, stream # NoStream, NextReplica
    PROVE  /\ stream' # NoStream => stream'.card = stream.card
           /\ ToGo' <= ToGo
<1>1. stream \in Stream(now) /\ stream.left \in Nat
  BY DEF ClockInv, Stream
<1>2. CASE stream.left = 0
  BY <1>1, <1>2 DEF NextReplica, ToGo
<1>3. CASE stream.left # 0
  <2>1. stream' = [stream EXCEPT !.pod = NoNode]
    BY <1>3 DEF NextReplica
  <2>2. stream'.card = stream.card /\ stream'.left = stream.left
    BY <1>1, <2>1 DEF Stream
  <2> QED
    BY <1>1, <2>2 DEF ToGo
<1> QED
  BY <1>2, <1>3

\* Nodes that are given back cost at most what was owed for them.
LEMMA ReleaseMoney ==
    ASSUME IInv, IInv', MoneyInv, NEW S \in SUBSET Live, Release(S),
           UNCHANGED <<now, stream, grant, careful>>
    PROVE  MoneyInv'
<1> DEFINE sum == MapThenSumSet(Bill, S)
<1>1. /\ Live' = Live \ S /\ \A p \in Live' : nodes'[p] = nodes[p]
      /\ spent' = spent + sum
  BY DEF Release, Live
<1>2. /\ sum \in Nat
      /\ \A M \in Nat : (\A p \in S : Bill(p) <= M) => sum <= M * Cardinality(S)
  BY Billed
<1> HIDE DEF sum
<1>3. spent \in Nat /\ spent' \in Nat
  BY <1>1, <1>2 DEF MoneyInv, MoneyType
<1>4. MoneyType'
  BY <1>3 DEF MoneyInv, MoneyType
<1>5. HonestInv'
  BY <1>1, HonestKept DEF MoneyInv
<1>6. /\ Owed \in Nat /\ IsFiniteSet(S) /\ Cardinality(S) \in Nat
      /\ Ahead \in Nat /\ Ahead' \in Nat /\ Ahead = Ahead' + Cardinality(S)
  <2>1. IsFiniteSet(Live) /\ IsFiniteSet(S) /\ Cardinality(Live) \in Nat /\ ToGo \in Nat
    BY Numbers, FS_Subset
  <2>2. Cardinality(S) \in Nat /\ Cardinality(Live \ S) \in Nat
    BY <2>1, FS_CardinalityType, FS_Difference
  <2>3. Live \cap S = S
    OBVIOUS
  <2>4. Cardinality(Live \ S) = Cardinality(Live) - Cardinality(S)
    BY <2>1, <2>3, FS_Difference
  <2>5. Cardinality(Live') = Cardinality(Live \ S) /\ ToGo' = ToGo
    BY <1>1 DEF ToGo
  <2> QED
    BY <2>1, <2>2, <2>4, <2>5, Numbers DEF Ahead, MoneyInv
<1>7. ASSUME careful, NEW p \in S PROVE Bill(p) <= Owed
  <2>1. /\ grant # NoGrant /\ nodes[p].card = grant.card
        /\ now - nodes[p].created <= grant.hours * Hour
    BY <1>7 DEF MoneyInv, HonestInv
  <2>2. /\ GPUS[grant.card].cents \in Nat /\ grant.hours \in Nat
        /\ now - nodes[p].created \in Nat
    BY <2>1, Rates, LiveNode DEF MoneyInv, MoneyType, Grant, IInv, ClockInv, Node
  <2>3. grant.hours * Hour \in Nat
    BY <2>2, PolicyAssumption
  <2>4. GPUS[grant.card].cents * (now - nodes[p].created)
            <= GPUS[grant.card].cents * (grant.hours * Hour)
    BY <2>1, <2>2, <2>3, Costs
  <2> QED
    BY <2>1, <2>4 DEF Bill, Owed
<1>8. ASSUME careful PROVE spent' + Owed * Ahead' <= spent + Owed * Ahead
  <2>1. sum <= Owed * Cardinality(S)
    BY <1>2, <1>6, <1>7, <1>8
  <2>2. /\ Owed * Ahead' \in Nat /\ Owed * Cardinality(S) \in Nat
        /\ Owed * Ahead = Owed * Ahead' + Owed * Cardinality(S)
    BY <1>6, Costs
  <2> QED
    BY <1>1, <1>2, <1>3, <2>1, <2>2
<1>9. ASSUME careful, Live = {} PROVE spent' = spent
  <2>1. S = {} /\ Cardinality(S) = 0
    BY <1>9, FS_EmptySet
  <2>2. sum <= 0 * Cardinality(S)
    BY <1>2, <2>1
  <2> QED
    BY <1>1, <1>2, <1>3, <2>1, <2>2
<1> QED
  BY <1>3, <1>4, <1>5, <1>8, <1>9, WithinGrant DEF MoneyInv

\* The gate asks for one replica at least and for no more than are allowed.
LEMMA PlanIsClamped == \A d \in Demand : PlanReplicas(d) \in 1..MaxReplicas
<1> SUFFICES ASSUME NEW d \in Demand PROVE PlanReplicas(d) \in 1..MaxReplicas
  OBVIOUS
<1>1. MaxReplicas \in Nat \ {0}
  BY PolicyAssumption
<1>2. CASE PerNode = 0 \/ d.hours = 0
  BY <1>1, <1>2 DEF PlanReplicas
<1>3. CASE ~(PerNode = 0 \/ d.hours = 0)
  <2> DEFINE node == d.hours * PerNode
             want == (d.tokens + node - 1) \div node
             least == Min({want, MaxReplicas})
  <2>1. d.tokens \in Nat /\ d.hours \in Nat /\ PerNode \in Nat /\ d.hours # 0 /\ PerNode # 0
    BY <1>3, BudgetAssumption, PolicyAssumption
  <2>2. node \in Nat /\ node # 0
    BY <2>1
  <2> HIDE DEF node
  <2>3. want \in Int
    BY <2>1, <2>2
  <2> HIDE DEF want
  <2>4. least \in Int /\ least <= MaxReplicas
    BY <1>1, <2>3 DEF Min
  <2> HIDE DEF least
  <2>5. Max({1, least}) \in 1..MaxReplicas
    BY <1>1, <2>4 DEF Max
  <2> QED
    BY <1>3, <2>5 DEF PlanReplicas, node, want, least
<1> QED
  BY <1>2, <1>3

\* The gate lets nothing pass that the cap has no room for.
LEMMA GateMoney == ASSUME IInv, IInv', MoneyInv, NEW d \in Demand, Gate(d) PROVE MoneyInv'
<1> DEFINE new == [card |-> d.card, replicas |-> PlanReplicas(d), hours |-> d.hours,
                   used |-> FALSE]
<1>1. /\ Live = {} /\ stream = NoStream
      /\ grant' = IF ShouldBurst(d, spent) THEN new ELSE NoGrant
      /\ UNCHANGED <<now, nodes, stream, spent, careful>>
  BY DEF Gate
<1>2. Live' = {} /\ stream' = NoStream
  BY <1>1 DEF Live
<1>3. new \in Grant
  BY PlanIsClamped, BudgetAssumption DEF Grant
<1>4. MoneyType'
  BY <1>1, <1>3 DEF MoneyInv, MoneyType
<1>5. HonestInv'
  BY <1>2 DEF HonestInv
<1>6. ASSUME careful PROVE CapInv'
  <2>1. spent <= DailyCap * Hour
    BY <1>6 DEF MoneyInv, CapInv
  <2>2. ASSUME grant' # NoGrant
        PROVE  ~grant'.used /\ spent + Owed' * grant'.replicas <= DailyCap * Hour
    <3>1. ShouldBurst(d, spent) /\ grant' = new
      BY <1>1, <2>2
    <3>2. spent + ProjectedCost(d) <= DailyCap * Hour
      BY <3>1 DEF ShouldBurst
    <3>3. Owed' * grant'.replicas = ProjectedCost(d)
      <4>1. /\ GPUS[d.card].cents \in Nat /\ d.hours \in Nat /\ Hour \in Nat
            /\ PlanReplicas(d) \in Nat
        BY Rates, BudgetAssumption, PolicyAssumption, PlanIsClamped
      <4>2. Owed' = GPUS[d.card].cents * (d.hours * Hour)
        BY <2>2, <3>1 DEF Owed
      <4>3. GPUS[d.card].cents * (d.hours * Hour) = GPUS[d.card].cents * d.hours * Hour
        BY <4>1
      <4> QED
        BY <3>1, <4>2, <4>3 DEF ProjectedCost
    <3> QED
      BY <3>1, <3>2, <3>3
  <2> QED
    BY <1>1, <2>1, <2>2 DEF CapInv
<1> QED
  BY <1>1, <1>4, <1>5, <1>6 DEF MoneyInv, CapInv

\* A careful operator's stream is of the grant and of as many replicas.
LEMMA UpMoney ==
    ASSUME IInv, IInv', MoneyInv, NEW card \in Card, NEW replicas \in 1..MaxReplicas,
           NEW named \in BOOLEAN, Up(card, replicas, named)
    PROVE  MoneyInv'
<1>1. /\ stream' = [card |-> card, left |-> replicas, pod |-> NoNode, since |-> now]
      /\ grant' = IF careful THEN [grant EXCEPT !.used = TRUE] ELSE grant
      /\ careful => /\ grant # NoGrant /\ ~grant.used
                    /\ card = grant.card /\ replicas = grant.replicas
      /\ UNCHANGED <<now, nodes, spent, careful>>
  BY DEF Up
<1>2. ~careful => MoneyInv'
  BY <1>1 DEF MoneyInv, MoneyType, HonestInv, CapInv
<1>3. ASSUME careful PROVE MoneyInv'
  <2>1. grant \in Grant /\ Live = {}
    BY <1>1, <1>3 DEF MoneyInv, MoneyType, HonestInv
  <2>2. /\ grant' \in Grant /\ grant' # NoGrant /\ grant'.used
        /\ grant'.card = grant.card /\ grant'.hours = grant.hours
        /\ grant'.replicas = grant.replicas
    <3>1. grant' = [card |-> grant.card, replicas |-> grant.replicas, hours |-> grant.hours,
                    used |-> TRUE]
      BY <1>1, <1>3, <2>1 DEF Grant
    <3>2. grant' \in Grant /\ Grant \subseteq
              [card : Card, replicas : Nat, hours : Nat, used : BOOLEAN]
      BY <2>1, <3>1, Constants DEF Grant
    <3> QED
      BY <3>1, <3>2, BudgetAssumption
  <2>3. Live' = {}
    BY <1>1, <2>1 DEF Live
  <2>4. MoneyType'
    BY <1>1, <2>2 DEF MoneyInv, MoneyType
  <2>5. HonestInv'
    BY <1>1, <1>3, <2>2, <2>3 DEF HonestInv
  <2>6. Ahead' <= grant.replicas /\ Ahead' \in Nat /\ grant.replicas \in Nat
    <3>1. Cardinality(Live') = 0
      BY <2>3, FS_EmptySet
    <3>2. ToGo' <= grant.replicas /\ grant.replicas \in Nat /\ ToGo' \in Nat
      BY <1>1, <1>3, <2>1, Constants DEF ToGo, Grant
    <3> DEFINE live == Cardinality(Live')
               left == ToGo'
    <3>3. Ahead' = live + left
      BY DEF Ahead
    <3>4. live = 0 /\ left <= grant.replicas /\ grant.replicas \in Nat /\ left \in Nat
      BY <3>1, <3>2
    <3> HIDE DEF live, left
    <3>5. Ahead' = left
      BY <3>3, <3>4
    <3> QED
      BY <3>4, <3>5
  <2>7. Owed' = Owed /\ Owed \in Nat
    BY <1>1, <1>3, <2>2, Numbers DEF Owed, MoneyInv
  <2>8. Owed * Ahead' <= Owed * grant.replicas /\ Owed * Ahead' \in Nat
        /\ Owed * grant.replicas \in Nat
    BY <2>6, <2>7, Costs
  <2>9. spent \in Nat /\ DailyCap * Hour \in Nat
        /\ spent <= DailyCap * Hour /\ spent + Owed * grant.replicas <= DailyCap * Hour
    BY <1>1, <1>3, PolicyAssumption DEF MoneyInv, MoneyType, CapInv
  <2>10. spent' + Owed' * Ahead' <= DailyCap * Hour
    <3> DEFINE a == Owed * Ahead'
               b == Owed * grant.replicas
               c == DailyCap * Hour
    <3>1. a <= b /\ a \in Nat /\ b \in Nat /\ spent + b <= c /\ c \in Nat
      BY <2>8, <2>9
    <3> HIDE DEF a, b, c
    <3>2. spent + a <= c
      BY <2>9, <3>1
    <3>3. spent' = spent /\ Owed' * Ahead' = a
      BY <1>1, <2>7 DEF a
    <3> QED
      BY <3>2, <3>3 DEF c
  <2>11. CapInv'
    BY <1>1, <2>2, <2>9, <2>10 DEF CapInv
  <2> QED
    BY <2>4, <2>5, <2>11 DEF MoneyInv
<1> QED
  BY <1>2, <1>3 DEF MoneyInv, MoneyType

\* A new node was a replica to come.
LEMMA CreateMoney == ASSUME IInv, IInv', MoneyInv, NEW p \in Pod, Create(p) PROVE MoneyInv'
<1> DEFINE new == [card |-> stream.card, created |-> now, last |-> now]
<1>1. /\ stream # NoStream /\ stream.left > 0 /\ nodes[p] = NoNode
      /\ nodes' = [nodes EXCEPT ![p] = new]
      /\ stream' = [stream EXCEPT !.left = @ - 1, !.pod = p, !.since = now]
      /\ UNCHANGED <<now, spent, grant, careful>>
  BY DEF Create
<1>2. /\ stream \in Stream(now) /\ now \in Nat /\ nodes'[p] = new
      /\ stream'.card = stream.card /\ stream'.left = stream.left - 1
      /\ stream.left \in Nat
  BY <1>1 DEF IInv, ClockInv, Stream
<1>3. MoneyType'
  BY <1>1 DEF MoneyInv, MoneyType
<1>4. Live' \subseteq Live \cup {p} /\ \A q \in Live' : q # p => nodes'[q] = nodes[q]
  BY <1>1 DEF Live
<1>5. ASSUME careful PROVE HonestInv'
  <2>1. /\ grant # NoGrant /\ grant.used /\ stream.card = grant.card
        /\ \A q \in Live :
               nodes[q].card = grant.card /\ now - nodes[q].created <= grant.hours * Hour
    BY <1>1, <1>5 DEF MoneyInv, HonestInv
  <2>2. nodes'[p].card = grant.card /\ now - nodes'[p].created <= grant.hours * Hour
    <3>1. grant.hours * Hour \in Nat
      BY <2>1, PolicyAssumption DEF MoneyInv, MoneyType, Grant
    <3>2. nodes'[p].card = stream.card /\ nodes'[p].created = now
      BY <1>2
    <3>3. now - now = 0
      BY <1>2
    <3> QED
      BY <2>1, <3>1, <3>2, <3>3
  <2> QED
    BY <1>1, <1>2, <1>4, <2>1, <2>2 DEF HonestInv
<1>6. Ahead' <= Ahead
  <2>1. IsFiniteSet(Live) /\ Cardinality(Live) \in Nat /\ p \notin Live
    BY <1>1, Numbers DEF Live
  <2>2. IsFiniteSet(Live \cup {p}) /\ Cardinality(Live \cup {p}) = Cardinality(Live) + 1
    BY <2>1, FS_AddElement
  <2>3. Cardinality(Live') <= Cardinality(Live) + 1 /\ Cardinality(Live') \in Nat
    BY <1>4, <2>2, FS_Subset, NumbersNext
  <2>4. ToGo = stream.left /\ ToGo' <= stream.left - 1
    BY <1>1, <1>2 DEF ToGo
  <2>5. ToGo' \in Int /\ ToGo \in Int
    BY <1>2, <2>4 DEF ToGo
  <2> QED
    BY <2>1, <2>3, <2>4, <2>5 DEF Ahead
<1>7. CapInv'
  BY <1>1, <1>6, NothingMore
<1> QED
  BY <1>1, <1>3, <1>5, <1>7 DEF MoneyInv, HonestInv

\* Steps of a stream and of a node that is waited for.
LEMMA StreamMoney ==
    ASSUME IInv, IInv', MoneyInv, UNCHANGED <<now, spent, grant, careful>>,
           \A p \in Live' : p \in Live /\ nodes'[p].card = nodes[p].card
                            /\ nodes'[p].created = nodes[p].created,
           stream # NoStream, stream' = NoStream \/ NextReplica
    PROVE  MoneyInv'
<1>1. /\ stream' # NoStream => stream'.card = stream.card
      /\ ToGo' <= ToGo /\ ToGo \in Nat /\ ToGo' \in Int
  <2>1. ToGo \in Nat
    BY Numbers
  <2>2. CASE stream' = NoStream
    BY <2>1, <2>2 DEF ToGo
  <2>3. CASE NextReplica
    <3>1. ToGo' \in Int
      BY DEF ToGo, IInv, ClockInv, Stream
    <3> QED
      BY <2>1, <2>3, <3>1, NextReplicaMoney DEF IInv
  <2> QED
    BY <2>2, <2>3
<1>2. MoneyType' /\ HonestInv'
  BY <1>1, HonestKept DEF MoneyInv, MoneyType
<1>3. Ahead' <= Ahead
  <2>1. Live' \subseteq Live
    OBVIOUS
  <2>2. Cardinality(Live') <= Cardinality(Live) /\ Cardinality(Live') \in Nat
        /\ Cardinality(Live) \in Nat
    BY <2>1, Numbers, NumbersNext, FS_Subset
  <2> QED
    BY <1>1, <2>2 DEF Ahead
<1> QED
  BY <1>2, <1>3, NothingMore DEF MoneyInv

\* A node that begins to serve is the node it was.
LEMMA ServeMoney == ASSUME IInv, IInv', MoneyInv, NEW p \in Pod, Serve(p) PROVE MoneyInv'
<1>1. /\ p \in Live /\ nodes' = [nodes EXCEPT ![p].last = now] /\ stream # NoStream
      /\ NextReplica /\ UNCHANGED <<now, spent, grant, careful>>
  BY DEF Serve, Provisioning, Live
<1>2. nodes'[p].card = nodes[p].card /\ nodes'[p].created = nodes[p].created
  BY <1>1, LiveNode DEF IInv, ClockInv, Node
<1>3. \A q \in Live' : q \in Live /\ (q # p => nodes'[q] = nodes[q])
  BY <1>1 DEF Live
<1> QED
  BY <1>1, <1>2, <1>3, StreamMoney

\* Time passes only while a careful operator is within the hours asked for.
LEMMA TickMoney == ASSUME IInv, IInv', MoneyInv, Tick PROVE MoneyInv'
<1>1. /\ now < MaxNow /\ now' = now + 1
      /\ careful => \A p \in Live : now - nodes[p].created < grant.hours * Hour
      /\ UNCHANGED <<nodes, stream, spent, grant, careful>>
  BY DEF Tick
<1>2. Live' = Live /\ ToGo' = ToGo
  BY <1>1 DEF Live, ToGo
<1>3. MoneyType'
  BY <1>1, BudgetAssumption DEF MoneyInv, MoneyType, IInv, ClockInv
<1>4. ASSUME careful PROVE HonestInv'
  <2>1. ASSUME NEW p \in Live PROVE now' - nodes'[p].created <= grant'.hours * Hour
    <3>1. now \in Nat /\ nodes[p].created \in 0..now
      BY LiveNode DEF IInv, ClockInv, Node
    <3>2. grant \in Grant
      BY <1>4 DEF MoneyInv, MoneyType, HonestInv
    <3>3. grant.hours * Hour \in Nat
      BY <3>2, PolicyAssumption DEF Grant
    <3>4. now - nodes[p].created < grant.hours * Hour
      BY <1>1, <1>4
    <3> QED
      BY <1>1, <3>1, <3>3, <3>4
  <2> QED
    BY <1>1, <1>2, <1>4, <2>1 DEF MoneyInv, HonestInv
<1>5. CapInv'
  <2>1. Ahead' = Ahead /\ Ahead \in Nat
    BY <1>2, Numbers DEF Ahead
  <2> QED
    BY <1>1, <2>1, NothingMore
<1> QED
  BY <1>1, <1>3, <1>4, <1>5 DEF MoneyInv, HonestInv

\* Every step keeps within the cap.
LEMMA NextMoney == IInv /\ IInv' /\ MoneyInv /\ [Next]_vars => MoneyInv'
<1> SUFFICES ASSUME IInv, IInv', MoneyInv, [Next]_vars PROVE MoneyInv'
  OBVIOUS
<1>1. ASSUME NEW p \in Pod, GiveBack(p) PROVE MoneyInv'
  <2>1. /\ nodes' = [nodes EXCEPT ![p] = NoNode] /\ stream # NoStream
        /\ NextReplica /\ UNCHANGED <<now, spent, grant, careful>>
    BY <1>1 DEF GiveBack, Provisioning
  <2>2. \A q \in Live' : q \in Live /\ nodes'[q] = nodes[q]
    BY <2>1 DEF Live, IInv, ClockInv
  <2> QED
    BY <2>1, <2>2, StreamMoney
<1>2. CASE Gone \/ CreateRaises \/ Drop
  <2>1. /\ stream # NoStream /\ (stream' = NoStream \/ NextReplica)
        /\ UNCHANGED <<now, nodes, spent, grant, careful>>
    BY <1>2 DEF Gone, CreateRaises, Drop
  <2>2. \A q \in Live' : q \in Live /\ nodes'[q] = nodes[q]
    BY <2>1 DEF Live
  <2> QED
    BY <2>1, <2>2, StreamMoney
<1>3. ASSUME NEW S \in SUBSET Live, Down(S) PROVE MoneyInv'
  BY <1>3, ReleaseMoney DEF Down
<1>4. CASE Reap
  <2> DEFINE S == {p \in Live : Verdict(p) # "keep"}
  <2>1. Release(S) /\ UNCHANGED <<now, stream, grant, careful>>
    BY <1>4 DEF Reap
  <2>2. S \in SUBSET Live
    OBVIOUS
  <2> HIDE DEF S
  <2> QED
    BY <2>1, <2>2, ReleaseMoney
<1>5. CASE UNCHANGED vars
  BY <1>5 DEF vars, MoneyInv, MoneyType, HonestInv, CapInv, Owed, Ahead, ToGo, Live
<1> QED
  BY <1>1, <1>2, <1>3, <1>4, <1>5, GateMoney, UpMoney, CreateMoney, ServeMoney, TickMoney
     DEF Next

\* The day's money, for an operator who does as the gate says.
THEOREM WithinTheCap == Spec => []MoneyInv
<1>1. Init => IInv /\ MoneyInv
  BY InitInv, InitMoney
<1>2. IInv /\ MoneyInv /\ [Next]_vars => (IInv /\ MoneyInv)'
  BY NextInv, NextMoney
<1> QED
  BY <1>1, <1>2, PTL DEF Spec

\* Every variable has its type, and a grant is for no more than max_replicas.
THEOREM TypeCorrect == Spec => []TypeOK
<1>1. IInv /\ MoneyInv => TypeOK
  BY BudgetAssumption DEF IInv, ClockInv, MoneyInv, MoneyType, TypeOK, Node, Stream, Grant
<1> QED
  BY <1>1, Inductive, WithinTheCap, PTL

\* The cap is kept by an operator who rents what the gate granted and gives it back in time,
\* for any cards, thresholds and caps.
THEOREM NeverOverTheCap == Spec => []CapKept
<1>1. MoneyInv => CapKept
  BY DEF MoneyInv, CapInv, CapKept
<1> QED
  BY <1>1, WithinTheCap, PTL

=============================================================================
