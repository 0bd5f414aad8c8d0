---------------------------- MODULE BurstBudget ----------------------------
(***************************************************************************)
(* The clock and the money of the burst tier: the gate, renting, giving    *)
(* back and reaping by one manager, with the ages, rates and bills that    *)
(* BurstLifecycle leaves out.  The manager is the one api.manager builds:  *)
(* without callbacks, so that a release has no await and is one step.      *)
(* Calls to the provider take effect; BurstLifecycle has their failures.   *)
(***************************************************************************)
EXTENDS BurstPolicy

CONSTANTS
    Pod,        \* nodes that may live at once
    Card,       \* the provider's cards, which it offers whether it has them in stock or not
    Demand,     \* what the gate is asked: tokens, hours, saturation, perHour, fallback, card
    Work,       \* what is served: model, quant, context
    Budget,     \* PROVISION_BUDGET_S, in ticks
    ReapEvery,  \* ticks between two POST /reap
    MaxNow,     \* bound of the clock
    NoNode, NoStream, NoGrant

ASSUME BudgetAssumption ==
    /\ IsFiniteSet(Pod) /\ NoNode \notin Pod
    /\ NoGrant \notin [card : Card, replicas : Nat, hours : Nat, used : BOOLEAN]
    /\ Card \subseteq DOMAIN GPUS
    /\ Budget \in Nat /\ ReapEvery \in Nat \ {0} /\ MaxNow \in Nat
    /\ \A d \in Demand :
           /\ d.tokens \in Nat /\ d.hours \in Nat /\ d.saturation \in Nat
           /\ d.perHour \in Nat /\ d.fallback \in Nat /\ d.card \in Card

VARIABLES
    now,      \* time.time()
    nodes,    \* BurstManager.nodes
    stream,   \* the /up/stream under way: its card, the replicas to go, its pod
    spent,    \* spent_today_usd
    grant,    \* the last favourable answer of the gate, until it was used
    reaped,   \* when /reap was last called
    careful   \* the operator asks the gate first and gives back in time

vars == <<now, nodes, stream, spent, grant, reaped, careful>>

Live == {p \in Pod : nodes[p] # NoNode}

\* Every variable has its type; a grant is for no more than max_replicas.
TypeOK ==
    /\ now \in 0..MaxNow /\ reaped \in 0..now
    /\ nodes \in [Pod -> {NoNode} \cup [card : Card, created : 0..now, last : 0..now]]
    /\ stream \in {NoStream} \cup
           [card : Card, left : 0..MaxReplicas, pod : Pod \cup {NoNode}, since : 0..now]
    /\ spent \in Nat
    /\ grant \in {NoGrant} \cup [card : Card, replicas : 1..MaxReplicas, hours : Nat, used : BOOLEAN]
    /\ careful \in BOOLEAN

Init ==
    /\ now = 0 /\ reaped = 0
    /\ nodes = [p \in Pod |-> NoNode]
    /\ stream = NoStream /\ spent = 0 /\ grant = NoGrant
    /\ careful \in BOOLEAN

-----------------------------------------------------------------------------
\* POST /gate.  It changes nothing; a careful operator, who has everything back, notes it.
Gate(d) ==
    /\ careful /\ Live = {} /\ stream = NoStream
    /\ grant' = IF ShouldBurst(d, spent)
                THEN [card |-> d.card, replicas |-> PlanReplicas(d), hours |-> d.hours,
                      used |-> FALSE]
                ELSE NoGrant
    /\ UNCHANGED <<now, nodes, stream, spent, reaped, careful>>

\* POST /up/stream: the gate is not asked.  A card that was named is not asked what it can
\* serve either, but then render raises before anything is rented.
Up(card, replicas, named) ==
    /\ stream = NoStream
    /\ careful => /\ grant # NoGrant /\ ~grant.used
                  /\ named /\ card = grant.card /\ replicas = grant.replicas
    /\ grant' = IF careful THEN [grant EXCEPT !.used = TRUE] ELSE grant
    /\ named \/ card \in Pick(Card, Work)
    /\ Renders(card, Work)
    /\ stream' = [card |-> card, left |-> replicas, pod |-> NoNode, since |-> now]
    /\ UNCHANGED <<now, nodes, spent, reaped, careful>>

\* scale_up: create, and into the registry.
Create(p) ==
    /\ stream # NoStream /\ stream.pod = NoNode /\ stream.left > 0
    /\ nodes[p] = NoNode
    /\ nodes' = [nodes EXCEPT ![p] = [card |-> stream.card, created |-> now, last |-> now]]
    /\ stream' = [stream EXCEPT !.left = @ - 1, !.pod = p, !.since = now]
    /\ UNCHANGED <<now, spent, grant, reaped, careful>>

NextReplica ==
    stream' = IF stream.left = 0 THEN NoStream ELSE [stream EXCEPT !.pod = NoNode]

\* The pod of the stream is the one it created: a pod that was released meanwhile is gone.
Provisioning(p) == stream # NoStream /\ stream.pod = p /\ nodes[p] # NoNode

\* SERVING: last_request_at is set, once and for all.
Serve(p) ==
    /\ Provisioning(p)
    /\ nodes' = [nodes EXCEPT ![p].last = now]
    /\ NextReplica
    /\ UNCHANGED <<now, spent, grant, reaped, careful>>

\* ZERO_GPU, a pod that is gone, or the budget is spent: given back, and no bill is added.
GiveBack(p) ==
    /\ Provisioning(p)
    /\ nodes' = [nodes EXCEPT ![p] = NoNode]
    /\ NextReplica
    /\ UNCHANGED <<now, spent, grant, reaped, careful>>

\* The stream's pod was released: the provider has deleted it, status says GONE.
Gone ==
    /\ stream # NoStream /\ stream.pod # NoNode /\ nodes[stream.pod] = NoNode
    /\ NextReplica
    /\ UNCHANGED <<now, nodes, spent, grant, reaped, careful>>

\* No stock is left for the next replica: create raises.
CreateRaises ==
    /\ stream # NoStream /\ stream.pod = NoNode
    /\ stream' = NoStream
    /\ UNCHANGED <<now, nodes, spent, grant, reaped, careful>>

\* The client drops the stream; a pod it was waiting for stays rented.
Drop ==
    /\ stream # NoStream
    /\ stream' = NoStream
    /\ UNCHANGED <<now, nodes, spent, grant, reaped, careful>>

Bill(p) == GPUS[nodes[p].card].cents * (now - nodes[p].created)

\* release, of several nodes one after the other.
Release(S) ==
    /\ nodes' = [p \in Pod |-> IF p \in S THEN NoNode ELSE nodes[p]]
    /\ spent' = spent + MapThenSumSet(Bill, S)

\* POST /down, of one node or of all.
Down(S) ==
    /\ S # {} /\ (S = Live \/ Cardinality(S) = 1) /\ Release(S)
    /\ UNCHANGED <<now, stream, grant, reaped, careful>>

\* NodeState: nothing sets meta["inflight"].
Verdict(p) == LifecycleAction(now - nodes[p].created, now - nodes[p].last, 0)

\* POST /reap
Reap ==
    /\ Release({p \in Live : Verdict(p) # "keep"})
    /\ reaped' = now
    /\ UNCHANGED <<now, stream, grant, careful>>

\* Time passes, but not beyond what is due: /reap is called in time, a stream gives up when
\* its budget is spent, and a careful operator gives back within the hours asked for.
Tick ==
    /\ now < MaxNow /\ now' = now + 1
    /\ now - reaped < ReapEvery
    /\ stream # NoStream =>
           stream.pod # NoNode /\ nodes[stream.pod] # NoNode /\ now - stream.since < Budget
    /\ careful => \A p \in Live : now - nodes[p].created < grant.hours * Hour
    /\ UNCHANGED <<nodes, stream, spent, grant, reaped, careful>>

Next ==
    \/ \E d \in Demand : Gate(d)
    \/ \E card \in Card, replicas \in 1..MaxReplicas, named \in BOOLEAN :
           Up(card, replicas, named)
    \/ \E p \in Pod : Create(p) \/ Serve(p) \/ GiveBack(p)
    \/ Gone \/ CreateRaises \/ Drop
    \/ \E S \in SUBSET Live : Down(S)
    \/ Reap \/ Tick

Spec == Init /\ [][Next]_vars

-----------------------------------------------------------------------------
(* Properties.                                                             *)

\* "Every burst node carries a hard lifetime, an idle TTL" (policy.py:15-16).  Where /reap is
\* called every ReapEvery ticks, no node is older than its lifetime by more than a pass; none
\* is kept longer than the TTL and a pass after last_request_at, which is set when the node is
\* created and once more when it serves -- never by a request, although policy.py:76 has "no
\* requests" and policy.py:171 a timer that traffic may reset.  So a node whose stream was dropped goes,
\* whenever that was, and so does one that is busy.
GivenBackInTime ==
    \A p \in Live :
        /\ now - nodes[p].created < MaxLifetime + ReapEvery
        /\ now - nodes[p].last < IdleTtl + ReapEvery

\* "... and a daily spend cap": an operator who rents what the gate granted, gives it back
\* within the hours asked for and only then asks again stays under the cap.
CapKept == careful => spent <= DailyCap * Hour
=============================================================================
