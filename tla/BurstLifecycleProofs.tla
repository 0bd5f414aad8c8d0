------------------------ MODULE BurstLifecycleProofs ------------------------
(* What the rented-GPU tier keeps, for any number of pods, streams, replicas *)
(* and release requests.                                                     *)
EXTENDS BurstLifecycle, TLAPS

(***************************************************************************)
(* The strengthening.  A stream that has a pod is the only one that has it, *)
(* and the pod is rented and not marked yet.  Hence a pod that a stream     *)
(* gives back was not marked before, and one that it lost was not billing.  *)
(***************************************************************************)
Waiting(u) == up[u].pc \in {"idle", "create"}

\* A stream's pod.
StreamInv ==
    /\ \A u \in Up : IF Waiting(u) THEN up[u].pod = NoPod
                     ELSE /\ up[u].pod \in Pod \ marked
                          /\ pod[up[u].pod] # "none"
    /\ \A u, v \in Up : u # v /\ ~Waiting(u) => up[u].pod # up[v].pod

\* What its step says of it.
StepInv ==
    \A u \in Up :
        /\ up[u].pc = "create" => up[u].left > 0
        /\ up[u].pc \in {"serving", "register"} => up[u].pod \in answered
        /\ up[u].pc = "register" => wired
        /\ up[u].pc = "gone" /\ ~faulty => ~Billing(up[u].pod)

\* Only what was rented is in the registry, marked or in a snapshot.
RentedInv ==
    /\ \A p \in Pod : p \in nodes \cup marked => pod[p] # "none"
    /\ \A r \in Release, p \in Pod : p \in rel[r].todo => pod[p] # "none"

\* The gateway routes to pods that answered, and to none without callbacks.
GatewayInv == RoutedOnlyAfterProbe /\ (~wired => gateway = {})

\* The node a release waits for is one of its snapshot.
ReleaseInv == \A r \in Release : rel[r].pc = "dereg" => rel[r].pod \in rel[r].todo

\* The records of TypeOK.
Stream == [pc: {"idle", "create", "poll", "probe", "serving", "register", "zero", "expired",
                "gone"},
           pod: Pod \cup {NoPod}, left: 0..MaxReplicas]
Request == [pc: {"idle", "next", "dereg"}, kind: {"down", "reap"},
            pod: Pod \cup {NoPod}, todo: SUBSET Pod]

\* The rest of TypeOK.
WorldOK ==
    /\ pod \in [Pod -> PodState] /\ due \in [Pod -> {"fresh", "idle", "aged"}]
    /\ gateway \in SUBSET Pod /\ answered \in SUBSET Pod
    /\ nodes \in SUBSET Pod /\ marked \in SUBSET Pod
    /\ contested \in SUBSET Pod /\ cut \in SUBSET Pod /\ lost \in SUBSET Pod
    /\ wired \in BOOLEAN /\ faulty \in BOOLEAN
    /\ charged \in [Pod -> Nat] /\ crashes \in 0..MaxCrash

\* The inductive invariant.
IInv == TypeOK /\ StreamInv /\ StepInv /\ RentedInv /\ GatewayInv /\ ReleaseInv /\ NoForgottenPod

\* The gateway routes to what is marked, being registered, or was cut short; a pod that
\* was given back while it was marked or while a stream had it was cut short.
CutInv ==
    /\ \A u \in Up : ~Waiting(u) /\ pod[up[u].pod] = "deleted" => up[u].pod \in cut
    /\ wired /\ ~faulty => \A p \in marked : pod[p] = "deleted" => p \in cut
    /\ ~faulty => \A p \in gateway : \/ p \in cut \cup marked
                                     \/ \E u \in Up : up[u].pc = "register" /\ up[u].pod = p

\* A pod that was never contested is in one snapshot at most, and once it was charged it
\* is neither in the registry nor in a snapshot.
ChargeInv ==
    \A p \in Pod \ contested :
        /\ \A r, q \in Release : p \in rel[r].todo /\ p \in rel[q].todo => r = q
        /\ charged[p] <= 1
        /\ charged[p] # 0 => /\ p \notin nodes /\ pod[p] # "none"
                             /\ \A r \in Release : p \notin rel[r].todo

-----------------------------------------------------------------------------
(***************************************************************************)
(* Types.                                                                  *)
(***************************************************************************)

\* The three parts of TypeOK, before and after a step.
LEMMA Types ==
    /\ TypeOK <=> WorldOK /\ up \in [Up -> Stream] /\ rel \in [Release -> Request]
    /\ TypeOK' <=> WorldOK' /\ up' \in [Up -> Stream] /\ rel' \in [Release -> Request]
  BY DEF TypeOK, WorldOK, Stream, Request

\* What a stream and a request begin with.
LEMMA Blank == Idle \in Stream /\ Quiet \in Request
<1>1. 0 \in 0..MaxReplicas
  BY BurstAssumption
<1> QED
  BY <1>1 DEF Idle, Quiet, Stream, Request

\* A fresh daemon.
LEMMA InitInv == Init => IInv /\ CutInv /\ ChargeInv
<1> SUFFICES ASSUME Init PROVE IInv /\ CutInv /\ ChargeInv
  OBVIOUS
<1>1. TypeOK
  <2>1. up \in [Up -> Stream] /\ rel \in [Release -> Request]
    BY Blank DEF Init
  <2>2. pod \in [Pod -> PodState] /\ due \in [Pod -> {"fresh", "idle", "aged"}]
    BY DEF Init, PodState
  <2>3. charged \in [Pod -> Nat] /\ crashes \in 0..MaxCrash
    BY BurstAssumption DEF Init
  <2> QED
    BY <2>1, <2>2, <2>3, Types DEF Init, WorldOK
<1>2. StreamInv /\ StepInv
  BY DEF Init, StreamInv, StepInv, Waiting, Idle
<1>3. RentedInv /\ GatewayInv /\ NoForgottenPod
  BY DEF Init, RentedInv, GatewayInv, RoutedOnlyAfterProbe, NoForgottenPod, Billing, Quiet
<1>4. ReleaseInv /\ CutInv /\ ChargeInv
  BY DEF Init, ReleaseInv, Quiet, CutInv, ChargeInv, Waiting, Idle
<1> QED
  BY <1>1, <1>2, <1>3, <1>4 DEF IInv

(***************************************************************************)
(* What happens to the streams.                                            *)
(***************************************************************************)

\* A stream that goes to another step keeps its pod.
LEMMA Moved ==
    ASSUME TypeOK, NEW u \in Up,
           NEW pc \in {"poll", "probe", "serving", "register", "zero", "expired", "gone"},
           Goto(u, pc)
    PROVE  /\ up' \in [Up -> Stream]
           /\ up'[u].pc = pc /\ up'[u].pod = up[u].pod
           /\ \A v \in Up : v # u => up'[v] = up[v]
<1>1. up \in [Up -> Stream] /\ up' = [up EXCEPT ![u].pc = pc]
  BY Types DEF Goto
<1>2. up'[u] = [up[u] EXCEPT !.pc = pc] /\ up[u] \in Stream
  BY <1>1
<1>3. up'[u] \in Stream /\ up'[u].pc = pc /\ up'[u].pod = up[u].pod
  BY <1>2 DEF Stream
<1> QED
  BY <1>1, <1>3

\* A stream that has done with its pod: it asks for the next one, or stops.
Rests(u) ==
    /\ up' \in [Up -> Stream]
    /\ up'[u].pc \in {"idle", "create"} /\ up'[u].pod = NoPod
    /\ up'[u].pc = "create" => up'[u].left > 0
    /\ \A v \in Up : v # u => up'[v] = up[v]

\* NextReplica is such a step.
LEMMA NextRests == ASSUME TypeOK, NEW u \in Up, NextReplica(u) PROVE Rests(u)
<1>1. up \in [Up -> Stream] /\ up[u] \in Stream
  BY Types
<1>2. CASE up[u].left > 0
  <2>1. up' = [up EXCEPT ![u] = [@ EXCEPT !.pc = "create", !.pod = NoPod]]
    BY <1>2 DEF NextReplica
  <2>2. up'[u] = [up[u] EXCEPT !.pc = "create", !.pod = NoPod]
    BY <1>1, <2>1
  <2>3. up'[u] \in Stream /\ up'[u].pc = "create" /\ up'[u].pod = NoPod
        /\ up'[u].left = up[u].left
    BY <1>1, <2>2 DEF Stream
  <2> QED
    BY <1>1, <1>2, <2>1, <2>3 DEF Rests
<1>3. CASE ~(up[u].left > 0)
  <2>1. up' = [up EXCEPT ![u] = Idle] /\ Idle \in Stream
    BY <1>3, Blank DEF NextReplica
  <2> QED
    BY <1>1, <2>1 DEF Rests, Idle
<1> QED
  BY <1>2, <1>3

\* So does one that ends.
LEMMA IdleRests == ASSUME TypeOK, NEW u \in Up, up' = [up EXCEPT ![u] = Idle] PROVE Rests(u)
<1>1. up \in [Up -> Stream] /\ Idle \in Stream
  BY Types, Blank
<1> QED
  BY <1>1 DEF Rests, Idle

\* When a stream rests, at most its own pod gets marked and rented pods stay as they
\* are or are deleted, every other stream keeps what it had.
LEMMA RestKeeps ==
    ASSUME IInv, NEW u \in Up, Rests(u),
           \A p \in marked' : p \in marked \/ (~Waiting(u) /\ p = up[u].pod),
           \A p \in Pod : pod[p] # "none" => pod'[p] \in {pod[p], "deleted"},
           answered' = answered, wired' = wired, faulty' = faulty
    PROVE  StreamInv' /\ StepInv'
<1>1. Waiting(u)' /\ \A v \in Up : v # u => up'[v] = up[v] /\ (Waiting(v)' <=> Waiting(v))
  BY DEF Rests, Waiting
<1>2. ASSUME NEW v \in Up, v # u, ~Waiting(v)
      PROVE  /\ up[v].pod \in Pod \ marked' /\ pod'[up[v].pod] # "none"
             /\ Billing(up[v].pod)' => Billing(up[v].pod)
  <2>1. /\ up[v].pod \in Pod \ marked /\ pod[up[v].pod] # "none"
        /\ up[v].pod # up[u].pod
    BY <1>2 DEF IInv, StreamInv
  <2>2. pod'[up[v].pod] \in {pod[up[v].pod], "deleted"}
    BY <2>1
  <2> QED
    BY <2>1, <2>2, <1>2, <1>1 DEF Billing
<1>3. StreamInv'
  <2>1. ASSUME NEW v \in Up
        PROVE  IF Waiting(v)' THEN up'[v].pod = NoPod
               ELSE up'[v].pod \in Pod \ marked' /\ pod'[up'[v].pod] # "none"
    BY <1>1, <1>2 DEF IInv, StreamInv, Rests
  <2>2. ASSUME NEW v \in Up, NEW w \in Up, v # w, ~Waiting(v)'
        PROVE  up'[v].pod # up'[w].pod
    BY <1>1, <1>2, <2>2, BurstAssumption DEF IInv, StreamInv, Rests
  <2> QED
    BY <2>1, <2>2 DEF StreamInv
<1>4. StepInv'
  BY <1>1, <1>2 DEF IInv, StepInv, Rests, Waiting
<1> QED
  BY <1>3, <1>4

-----------------------------------------------------------------------------
(* The steps.                                                              *)

\* A pod starts, comes up or exits.
LEMMA PodMoveStep == ASSUME IInv, NEW p \in Pod, PodMove(p) PROVE IInv'
<1> USE DEF IInv, TypeOK, setup, world, history, PodMove, PodMoves
<1>1. TypeOK'
  BY DEF PodState
<1>2. StreamInv'
  BY DEF StreamInv, RentedInv, Waiting
<1>3. StepInv'
  BY DEF StreamInv, StepInv, Waiting, Billing
<1>4. RentedInv'
  BY DEF StreamInv, Waiting, RentedInv
<1>5. GatewayInv'
  BY DEF StepInv, StreamInv, Waiting, GatewayInv, RoutedOnlyAfterProbe
<1>6. ReleaseInv'
  BY DEF ReleaseInv
<1>7. NoForgottenPod'
  BY DEF StreamInv, StepInv, Waiting, NoForgottenPod, Billing
<1> QED
  BY <1>1, <1>2, <1>3, <1>4, <1>5, <1>6, <1>7

\* Time passes for a node.
LEMMA GrowStep == ASSUME IInv, NEW p \in Pod, Grow(p) PROVE IInv'
<1> USE DEF IInv, TypeOK, setup, world, history, Grow
<1>1. TypeOK'
  BY DEF PodState
<1>2. StreamInv'
  BY DEF StreamInv, RentedInv, Waiting
<1>3. StepInv'
  BY DEF StreamInv, StepInv, Waiting, Billing
<1>4. RentedInv'
  BY DEF StreamInv, Waiting, RentedInv
<1>5. GatewayInv'
  BY DEF StepInv, StreamInv, Waiting, GatewayInv, RoutedOnlyAfterProbe
<1>6. ReleaseInv'
  BY DEF ReleaseInv
<1>7. NoForgottenPod'
  BY DEF StreamInv, StepInv, Waiting, NoForgottenPod, Billing
<1> QED
  BY <1>1, <1>2, <1>3, <1>4, <1>5, <1>6, <1>7

\* A stream begins.
LEMMA UpStartStep ==
    ASSUME IInv, NEW u \in Up, NEW n \in 1..MaxReplicas, UpStart(u, n)
    PROVE  IInv'
<1> USE DEF IInv, TypeOK, setup, world, history, UpStart, Idle
<1>1. TypeOK'
  BY DEF PodState
<1>2. StreamInv'
  BY DEF StreamInv, RentedInv, Waiting
<1>3. StepInv'
  BY DEF StreamInv, StepInv, Waiting, Billing
<1>4. RentedInv'
  BY DEF StreamInv, Waiting, RentedInv
<1>5. GatewayInv'
  BY DEF StepInv, StreamInv, Waiting, GatewayInv, RoutedOnlyAfterProbe
<1>6. ReleaseInv'
  BY DEF ReleaseInv
<1>7. NoForgottenPod'
  BY DEF StreamInv, StepInv, Waiting, NoForgottenPod, Billing
<1> QED
  BY <1>1, <1>2, <1>3, <1>4, <1>5, <1>6, <1>7

\* A poll is classified.
LEMMA UpPollStep == ASSUME IInv, NEW u \in Up, NEW late \in BOOLEAN, UpPoll(u, late) PROVE IInv'
<1> USE DEF IInv, TypeOK, setup, world, history, UpPoll, Status, Goto
<1>1. TypeOK'
  BY DEF PodState
<1>2. StreamInv'
  BY DEF StreamInv, RentedInv, Waiting
<1>3. StepInv'
  BY DEF StreamInv, StepInv, Waiting, Billing
<1>4. RentedInv'
  BY DEF StreamInv, Waiting, RentedInv
<1>5. GatewayInv'
  BY DEF StepInv, StreamInv, Waiting, GatewayInv, RoutedOnlyAfterProbe
<1>6. ReleaseInv'
  BY DEF ReleaseInv
<1>7. NoForgottenPod'
  BY DEF StreamInv, StepInv, Waiting, NoForgottenPod, Billing
<1> QED
  BY <1>1, <1>2, <1>3, <1>4, <1>5, <1>6, <1>7

\* A stream rents a pod.
LEMMA UpCreateStep == ASSUME IInv, NEW u \in Up, UpCreate(u) PROVE IInv'
<1> USE DEF UpCreate, world, setup, history
<1>1. CASE \E p \in Pod, s \in {"starting", "zero"} :
              /\ pod[p] = "none" /\ pod' = [pod EXCEPT ![p] = s]
              /\ nodes' = nodes \cup {p}
              /\ up' = [up EXCEPT ![u] = [pc |-> "poll", pod |-> p, left |-> @.left - 1]]
  <2>1. PICK p \in Pod, s \in {"starting", "zero"} :
            /\ pod[p] = "none" /\ pod' = [pod EXCEPT ![p] = s]
            /\ nodes' = nodes \cup {p}
            /\ up' = [up EXCEPT ![u] = [pc |-> "poll", pod |-> p, left |-> @.left - 1]]
    BY <1>1
  <2>2. up \in [Up -> Stream] /\ up[u] \in Stream /\ WorldOK
    BY Types DEF IInv
  <2>3. up[u].left \in 0..MaxReplicas /\ up[u].left > 0
    BY <2>2 DEF IInv, StepInv, Stream
  <2>4. up[u].left - 1 \in 0..MaxReplicas
    BY <2>3, BurstAssumption
  <2>5. /\ up'[u] = [pc |-> "poll", pod |-> p, left |-> up[u].left - 1]
        /\ \A v \in Up : v # u => up'[v] = up[v]
    BY <2>1, <2>2
  <2>6. up'[u] \in Stream
    BY <2>4, <2>5 DEF Stream
  <2>7. up' \in [Up -> Stream] /\ WorldOK'
    BY <2>1, <2>2, <2>6 DEF WorldOK, PodState
  <2>8. TypeOK'
    BY <2>7, Types DEF IInv
  <2>9. p \notin marked /\ \A v \in Up : ~Waiting(v) => up[v].pod # p
    BY <2>1 DEF IInv, StreamInv, RentedInv
  <2>10. pod'[p] # "none" /\ \A q \in Pod : q # p => pod'[q] = pod[q]
    BY <2>1, <2>2 DEF WorldOK
  <2>11. StreamInv' /\ StepInv'
    BY <2>5, <2>9, <2>10, BurstAssumption DEF IInv, StreamInv, StepInv, Waiting, Billing
  <2>12. RentedInv' /\ NoForgottenPod'
    BY <2>1, <2>10 DEF IInv, RentedInv, NoForgottenPod, Billing
  <2> QED
    BY <2>8, <2>11, <2>12 DEF IInv, GatewayInv, RoutedOnlyAfterProbe, ReleaseInv
<1>2. CASE /\ up' = [up EXCEPT ![u] = Idle] /\ nodes' = nodes
           /\ \/ pod' = pod /\ lost' = lost
              \/ faulty /\ \E p \in Pod, s \in {"starting", "zero"} :
                             /\ pod[p] = "none" /\ pod' = [pod EXCEPT ![p] = s]
                             /\ lost' = lost \cup {p}
  <2>1. Rests(u)
    BY <1>2, IdleRests DEF IInv
  <2>2. \A p \in Pod : pod[p] # "none" => pod'[p] = pod[p]
    BY <1>2, Types DEF IInv, WorldOK
  <2>3. StreamInv' /\ StepInv'
    BY <2>1, <2>2, RestKeeps
  <2>4. WorldOK'
    BY <1>2, Types DEF IInv, WorldOK, PodState
  <2>5. TypeOK'
    BY <2>1, <2>4, Types DEF IInv, Rests
  <2>6. RentedInv' /\ NoForgottenPod'
    BY <1>2, <2>2, Types DEF IInv, WorldOK, RentedInv, NoForgottenPod, Billing
  <2> QED
    BY <2>3, <2>5, <2>6 DEF IInv, GatewayInv, RoutedOnlyAfterProbe, ReleaseInv
<1> QED
  BY <1>1, <1>2

\* The probe answers, or not.
LEMMA UpProbedStep == ASSUME IInv, NEW u \in Up, NEW late \in BOOLEAN, UpProbed(u, late) PROVE IInv'
<1> USE DEF UpProbed, world, setup, history
<1>1. PICK pc \in {"serving", "expired", "poll"} :
          Goto(u, pc) /\ (pc = "serving" => answered' = answered \cup {up[u].pod})
  OBVIOUS
<1>2. /\ up' \in [Up -> Stream] /\ up'[u].pc = pc /\ up'[u].pod = up[u].pod
      /\ \A v \in Up : v # u => up'[v] = up[v]
  BY <1>1, Moved DEF IInv
<1>3. ~Waiting(u) /\ up[u].pod \in Pod
  BY DEF IInv, StreamInv, Waiting
<1>4. answered \subseteq answered' /\ answered' \in SUBSET Pod
  BY <1>3, Types DEF IInv, WorldOK
<1>5. WorldOK'
  BY <1>4, Types DEF IInv, WorldOK
<1>6. TypeOK'
  BY <1>2, <1>5, Types DEF IInv
<1>7. StreamInv' /\ StepInv'
  BY <1>1, <1>2, <1>4 DEF IInv, StreamInv, StepInv, Waiting, Billing
<1>8. GatewayInv'
  BY <1>4 DEF IInv, GatewayInv, RoutedOnlyAfterProbe
<1> QED
  BY <1>6, <1>7, <1>8 DEF IInv, RentedInv, ReleaseInv, NoForgottenPod, Billing

\* The SERVING event was taken: on to the callback.
LEMMA UpRegisterStep == ASSUME IInv, NEW u \in Up, UpRegister(u) PROVE IInv'
<1> USE DEF UpRegister, world, setup, history
<1>1. /\ up' \in [Up -> Stream] /\ up'[u].pc = "register" /\ up'[u].pod = up[u].pod
      /\ \A v \in Up : v # u => up'[v] = up[v]
  BY Moved DEF IInv
<1>2. WorldOK'
  BY Types DEF IInv, WorldOK
<1>3. TypeOK'
  BY <1>1, <1>2, Types DEF IInv
<1>4. StreamInv' /\ StepInv'
  BY <1>1 DEF IInv, StreamInv, StepInv, Waiting, Billing
<1> QED
  BY <1>3, <1>4 DEF IInv, RentedInv, GatewayInv, RoutedOnlyAfterProbe, ReleaseInv, NoForgottenPod, Billing

\* No callback: the node is marked at once.
LEMMA UpMarkedStep == ASSUME IInv, NEW u \in Up, UpMarked(u) PROVE IInv'
<1> USE DEF UpMarked, world, setup, history
<1>1. Rests(u)
  BY NextRests DEF IInv
<1>2. WorldOK' /\ ~Waiting(u) /\ up[u].pod \in Pod /\ pod[up[u].pod] # "none"
  BY Types DEF IInv, WorldOK, StreamInv, Waiting, PodState
<1>3. StreamInv' /\ StepInv'
  BY <1>1, <1>2, RestKeeps
<1>4. TypeOK'
  BY <1>1, <1>2, Types DEF IInv, Rests
<1>5. RentedInv' /\ NoForgottenPod'
  BY <1>2, Types DEF IInv, WorldOK, StreamInv, StepInv, Waiting, RentedInv, NoForgottenPod, Billing
<1>6. GatewayInv'
  BY <1>2 DEF IInv, StepInv, GatewayInv, RoutedOnlyAfterProbe
<1> QED
  BY <1>3, <1>4, <1>5, <1>6 DEF IInv, ReleaseInv

\* The callback returns.
LEMMA UpRegisteredStep == ASSUME IInv, NEW u \in Up, UpRegistered(u) PROVE IInv'
<1> USE DEF UpRegistered, world, setup, history
<1>1. Rests(u)
  BY NextRests DEF IInv
<1>2. WorldOK' /\ ~Waiting(u) /\ up[u].pod \in Pod /\ pod[up[u].pod] # "none"
  BY Types DEF IInv, WorldOK, StreamInv, Waiting, PodState
<1>3. StreamInv' /\ StepInv'
  BY <1>1, <1>2, RestKeeps
<1>4. TypeOK'
  BY <1>1, <1>2, Types DEF IInv, Rests
<1>5. RentedInv' /\ NoForgottenPod'
  BY <1>2, Types DEF IInv, WorldOK, StreamInv, StepInv, Waiting, RentedInv, NoForgottenPod, Billing
<1>6. GatewayInv'
  BY <1>2 DEF IInv, StepInv, GatewayInv, RoutedOnlyAfterProbe
<1> QED
  BY <1>3, <1>4, <1>5, <1>6 DEF IInv, ReleaseInv

\* A stream gives its pod back.
LEMMA UpGiveBackStep == ASSUME IInv, NEW u \in Up, UpGiveBack(u) PROVE IInv'
<1> USE DEF UpGiveBack, Terminated, TerminateRaises, world, setup, history
<1>1. Rests(u)
  BY NextRests, IdleRests DEF IInv
<1>2. WorldOK' /\ ~Waiting(u) /\ up[u].pod \in Pod /\ \A p \in Pod : pod'[p] \in {pod[p], "deleted"}
  BY Types DEF IInv, WorldOK, StreamInv, Waiting, PodState
<1>3. StreamInv' /\ StepInv'
  BY <1>1, <1>2, RestKeeps
<1>4. TypeOK'
  BY <1>1, <1>2, Types DEF IInv, Rests
<1>5. RentedInv' /\ NoForgottenPod'
  BY <1>2, Types DEF IInv, WorldOK, StreamInv, StepInv, Waiting, RentedInv, NoForgottenPod, Billing
<1>6. GatewayInv'
  BY <1>2 DEF IInv, StepInv, GatewayInv, RoutedOnlyAfterProbe
<1> QED
  BY <1>3, <1>4, <1>5, <1>6 DEF IInv, ReleaseInv

\* A stream forgets a pod that is gone.
LEMMA UpGoneStep == ASSUME IInv, NEW u \in Up, UpGone(u) PROVE IInv'
<1> USE DEF UpGone, world, setup, history
<1>1. Rests(u)
  BY NextRests DEF IInv
<1>2. WorldOK' /\ ~Waiting(u) /\ up[u].pod \in Pod
  BY Types DEF IInv, WorldOK, StreamInv, Waiting, PodState
<1>3. StreamInv' /\ StepInv'
  BY <1>1, <1>2, RestKeeps
<1>4. TypeOK'
  BY <1>1, <1>2, Types DEF IInv, Rests
<1>5. RentedInv' /\ NoForgottenPod'
  BY <1>2, Types DEF IInv, WorldOK, StreamInv, StepInv, Waiting, RentedInv, NoForgottenPod, Billing
<1>6. GatewayInv'
  BY <1>2 DEF IInv, StepInv, GatewayInv, RoutedOnlyAfterProbe
<1> QED
  BY <1>3, <1>4, <1>5, <1>6 DEF IInv, ReleaseInv

\* A client drops its stream.
LEMMA UpDroppedStep == ASSUME IInv, NEW u \in Up, UpDropped(u) PROVE IInv'
<1> USE DEF UpDropped, world, setup, history
<1>1. Rests(u)
  BY IdleRests DEF IInv
<1>2. WorldOK'
  BY Types DEF IInv, WorldOK, StreamInv, Waiting, PodState
<1>3. StreamInv' /\ StepInv'
  BY <1>1, <1>2, RestKeeps
<1>4. TypeOK'
  BY <1>1, <1>2, Types DEF IInv, Rests
<1>5. RentedInv' /\ NoForgottenPod'
  BY <1>2, Types DEF IInv, WorldOK, StreamInv, StepInv, Waiting, RentedInv, NoForgottenPod, Billing
<1>6. GatewayInv'
  BY <1>2 DEF IInv, StepInv, GatewayInv, RoutedOnlyAfterProbe
<1> QED
  BY <1>3, <1>4, <1>5, <1>6 DEF IInv, ReleaseInv

\* A release takes its snapshot.
LEMMA RelStartStep ==
    ASSUME IInv, NEW r \in Release, NEW kind \in {"down", "reap"}, NEW T \in SUBSET Pod,
           RelStart(r, kind, T)
    PROVE  IInv'
<1> USE DEF IInv, TypeOK, setup, world, history, RelStart, Quiet
<1>1. TypeOK'
  BY DEF PodState
<1>2. StreamInv'
  BY DEF StreamInv, RentedInv, Waiting
<1>3. StepInv'
  BY DEF StreamInv, StepInv, Waiting, Billing
<1>4. RentedInv'
  BY DEF StreamInv, Waiting, RentedInv
<1>5. GatewayInv'
  BY DEF StepInv, StreamInv, Waiting, GatewayInv, RoutedOnlyAfterProbe
<1>6. ReleaseInv'
  BY DEF ReleaseInv
<1>7. NoForgottenPod'
  BY DEF StreamInv, StepInv, Waiting, NoForgottenPod, Billing
<1> QED
  BY <1>1, <1>2, <1>3, <1>4, <1>5, <1>6, <1>7

\* A release answers.
LEMMA RelDoneStep == ASSUME IInv, NEW r \in Release, RelDone(r) PROVE IInv'
<1> USE DEF IInv, TypeOK, setup, world, history, RelDone, Quiet
<1>1. TypeOK'
  BY DEF PodState
<1>2. StreamInv'
  BY DEF StreamInv, RentedInv, Waiting
<1>3. StepInv'
  BY DEF StreamInv, StepInv, Waiting, Billing
<1>4. RentedInv'
  BY DEF StreamInv, Waiting, RentedInv
<1>5. GatewayInv'
  BY DEF StepInv, StreamInv, Waiting, GatewayInv, RoutedOnlyAfterProbe
<1>6. ReleaseInv'
  BY DEF ReleaseInv
<1>7. NoForgottenPod'
  BY DEF StreamInv, StepInv, Waiting, NoForgottenPod, Billing
<1> QED
  BY <1>1, <1>2, <1>3, <1>4, <1>5, <1>6, <1>7

\* A callback that raises ends the release.
LEMMA RelRefusedStep == ASSUME IInv, NEW r \in Release, RelRefused(r) PROVE IInv'
<1> USE DEF IInv, RelRefused, setup, world, history
<1>1. TypeOK'
  BY Types, Blank DEF TypeOK, WorldOK
<1>2. StreamInv' /\ StepInv' /\ GatewayInv' /\ NoForgottenPod'
  BY DEF StreamInv, StepInv, Waiting, GatewayInv, RoutedOnlyAfterProbe, NoForgottenPod, Billing
<1>3. RentedInv' /\ ReleaseInv'
  BY Types DEF RentedInv, ReleaseInv, Quiet
<1> QED
  BY <1>1, <1>2, <1>3

\* Streams do not move; pods stay as they are or are deleted, none gets marked.
LEMMA StreamsKeep ==
    ASSUME IInv, up' = up, marked' \subseteq marked,
           \A p \in Pod : pod'[p] \in {pod[p], "deleted"},
           answered' = answered, wired' = wired, faulty' = faulty
    PROVE  StreamInv' /\ StepInv'
<1>1. \A u \in Up : ~Waiting(u) => up[u].pod \in Pod
  BY DEF IInv, StreamInv
<1>2. StreamInv'
  BY <1>1 DEF IInv, StreamInv, Waiting
<1>3. StepInv'
  BY <1>1 DEF IInv, StepInv, Waiting, Billing
<1> QED
  BY <1>2, <1>3

\* What Surrender leaves: p is out of the registry, billed once more, and deleted unless
\* the call raised; the request goes on without it or has ended.
LEMMA Surrendered ==
    ASSUME TypeOK, NEW r \in Release, NEW p \in Pod, Surrender(r, p)
    PROVE  /\ rel' \in [Release -> Request]
           /\ rel'[r].pc # "dereg" /\ rel'[r].todo \subseteq rel[r].todo \ {p}
           /\ \A q \in Release : q # r => rel'[q] = rel[q]
           /\ pod' \in [Pod -> PodState]
           /\ \A q \in Pod : pod'[q] \in {pod[q], "deleted"}
           /\ \A q \in Pod : q # p => pod'[q] = pod[q]
           /\ pod'[p] = "deleted" \/ (Billing(p) => p \in lost')
           /\ lost \subseteq lost' /\ lost' \in SUBSET Pod /\ (lost' = lost \/ faulty)
           /\ cut' = cut \cup CutShort(p) /\ cut' \in SUBSET Pod
           /\ nodes' = nodes \ {p}
           /\ charged' \in [Pod -> Nat]
           /\ charged'[p] = charged[p] + 1 /\ \A q \in Pod : q # p => charged'[q] = charged[q]
<1> USE DEF Surrender, GiveBack, Terminated, TerminateRaises
<1>1. rel \in [Release -> Request] /\ rel[r] \in Request
      /\ pod \in [Pod -> PodState] /\ charged \in [Pod -> Nat]
  BY Types DEF WorldOK
<1>2. /\ rel' \in [Release -> Request]
      /\ rel'[r].pc # "dereg" /\ rel'[r].todo \subseteq rel[r].todo \ {p}
      /\ \A q \in Release : q # r => rel'[q] = rel[q]
  <2>1. CASE rel' = [rel EXCEPT ![r].pc = "next", ![r].pod = NoPod, ![r].todo = @ \ {p}]
    <3>1. rel'[r] = [rel[r] EXCEPT !.pc = "next", !.pod = NoPod, !.todo = @ \ {p}]
      BY <1>1, <2>1
    <3>2. rel'[r] \in Request /\ rel'[r].pc = "next" /\ rel'[r].todo = rel[r].todo \ {p}
      BY <1>1, <3>1 DEF Request
    <3> QED
      BY <1>1, <2>1, <3>2
  <2>2. CASE rel' = [rel EXCEPT ![r] = Quiet]
    <3>1. rel'[r] = Quiet
      BY <1>1, <2>2
    <3> QED
      BY <1>1, <2>2, <3>1, Blank DEF Quiet
  <2> QED
    BY <2>1, <2>2
<1>3. /\ pod' \in [Pod -> PodState]
      /\ pod'[p] = "deleted" \/ (Billing(p) => p \in lost')
      /\ \A q \in Pod : pod'[q] \in {pod[q], "deleted"}
      /\ \A q \in Pod : q # p => pod'[q] = pod[q]
  BY <1>1 DEF PodState
<1>5. lost \subseteq lost' /\ lost' \in SUBSET Pod /\ (lost' = lost \/ faulty)
  BY Types DEF WorldOK, Billing
<1>6. cut' = cut \cup CutShort(p) /\ cut' \in SUBSET Pod
  BY Types DEF WorldOK, CutShort
<1>4. /\ charged' \in [Pod -> Nat]
      /\ charged'[p] = charged[p] + 1 /\ \A q \in Pod : q # p => charged'[q] = charged[q]
  BY <1>1
<1> QED
  BY <1>2, <1>3, <1>4, <1>5, <1>6

\* A release takes up the next node of its snapshot.
LEMMA RelNextStep == ASSUME IInv, NEW r \in Release, RelNext(r) PROVE IInv'
<1>1. PICK p \in rel[r].todo :
          \/ /\ rel' = [rel EXCEPT ![r].todo = @ \ {p}]
             /\ UNCHANGED <<pod, nodes, charged, cut, lost>>
          \/ /\ rel' = [rel EXCEPT ![r].pc = "dereg", ![r].pod = p]
             /\ UNCHANGED <<pod, nodes, charged, cut, lost>>
          \/ Surrender(r, p)
  BY DEF RelNext
<1>2. /\ UNCHANGED <<gateway, due, marked, up, crashes, wired, faulty, answered, contested>>
      /\ rel[r].pc = "next"
  BY DEF RelNext, setup
<1>3. /\ rel \in [Release -> Request] /\ rel[r] \in Request
      /\ up \in [Up -> Stream] /\ WorldOK
  BY Types DEF IInv
<1>4. p \in Pod /\ pod[p] # "none"
  BY <1>3 DEF IInv, RentedInv, Request
<1>5. CASE UNCHANGED <<pod, nodes, charged, cut, lost>> /\ rel' = [rel EXCEPT ![r].todo = @ \ {p}]
  <2>1. rel'[r] = [rel[r] EXCEPT !.todo = @ \ {p}]
    BY <1>2, <1>3, <1>5
  <2>2. /\ rel'[r] \in Request /\ rel'[r].pc = "next" /\ rel'[r].todo \subseteq rel[r].todo
    BY <1>2, <1>3, <2>1 DEF Request
  <2>3. rel' \in [Release -> Request] /\ \A q \in Release : q # r => rel'[q] = rel[q]
    BY <1>2, <1>3, <1>5, <2>2
  <2>4. TypeOK'
    BY <1>2, <1>3, <1>5, <2>3, Types DEF WorldOK
  <2>5. StreamInv' /\ StepInv'
    BY <1>2, <1>5, StreamsKeep
  <2>6. RentedInv' /\ ReleaseInv' /\ NoForgottenPod'
    BY <1>2, <1>5, <2>2, <2>3 DEF IInv, RentedInv, ReleaseInv, NoForgottenPod, Billing
  <2> QED
    BY <1>2, <1>5, <2>4, <2>5, <2>6 DEF IInv, GatewayInv, RoutedOnlyAfterProbe
<1>6. CASE /\ UNCHANGED <<pod, nodes, charged, cut, lost>>
           /\ rel' = [rel EXCEPT ![r].pc = "dereg", ![r].pod = p]
  <2>1. rel'[r] = [rel[r] EXCEPT !.pc = "dereg", !.pod = p]
    BY <1>2, <1>3, <1>6
  <2>2. /\ rel'[r] \in Request /\ rel'[r].pod = p /\ rel'[r].todo = rel[r].todo
    BY <1>2, <1>3, <1>4, <2>1 DEF Request
  <2>3. rel' \in [Release -> Request] /\ \A q \in Release : q # r => rel'[q] = rel[q]
    BY <1>2, <1>3, <1>6, <2>2
  <2>4. TypeOK'
    BY <1>2, <1>3, <1>6, <2>3, Types DEF WorldOK
  <2>5. StreamInv' /\ StepInv'
    BY <1>2, <1>6, StreamsKeep
  <2>6. RentedInv' /\ ReleaseInv' /\ NoForgottenPod'
    BY <1>2, <1>6, <2>2, <2>3 DEF IInv, RentedInv, ReleaseInv, NoForgottenPod, Billing
  <2> QED
    BY <1>2, <1>6, <2>4, <2>5, <2>6 DEF IInv, GatewayInv, RoutedOnlyAfterProbe
<1>7. CASE Surrender(r, p)
  <2>1. TypeOK'
    BY <1>2, <1>3, <1>4, <1>7, Surrendered, Types DEF IInv, WorldOK
  <2>2. StreamInv' /\ StepInv'
    BY <1>2, <1>4, <1>7, Surrendered, StreamsKeep DEF IInv
  <2>3. RentedInv'
    BY <1>2, <1>4, <1>7, Surrendered DEF IInv, RentedInv
  <2>4. ReleaseInv'
    BY <1>4, <1>7, Surrendered DEF IInv, ReleaseInv
  <2>5. NoForgottenPod'
    BY <1>2, <1>4, <1>7, Surrendered DEF IInv, NoForgottenPod, Billing
  <2> QED
    BY <1>2, <2>1, <2>2, <2>3, <2>4, <2>5 DEF IInv, GatewayInv, RoutedOnlyAfterProbe
<1> QED
  BY <1>1, <1>5, <1>6, <1>7

\* The gateway has let go of a node and it is terminated.
LEMMA RelDeregisteredStep == ASSUME IInv, NEW r \in Release, RelDeregistered(r) PROVE IInv'
<1> DEFINE p == rel[r].pod
<1>1. /\ gateway' = gateway \ {p} /\ marked' = marked \ {p} /\ Surrender(r, p)
      /\ UNCHANGED <<due, up, crashes, setup, answered, contested>> /\ p \in rel[r].todo
  BY DEF RelDeregistered, IInv, ReleaseInv
<1>2. rel \in [Release -> Request] /\ rel[r] \in Request /\ WorldOK
  BY Types DEF IInv
<1>3. p \in Pod /\ pod[p] # "none"
  BY <1>1, <1>2 DEF IInv, RentedInv, Request
<1> HIDE DEF p
<1>4. TypeOK'
  BY <1>1, <1>2, <1>3, Surrendered, Types DEF IInv, WorldOK, setup
<1>5. StreamInv' /\ StepInv'
  BY <1>1, <1>3, Surrendered, StreamsKeep DEF IInv, setup
<1>6. RentedInv' /\ ReleaseInv'
  <2>1. RentedInv'
    BY <1>1, <1>2, <1>3, Surrendered DEF IInv, RentedInv, setup
  <2>2. ReleaseInv'
    BY <1>3, <1>1, Surrendered DEF IInv, ReleaseInv
  <2> QED
    BY <2>1, <2>2
<1>7. NoForgottenPod'
  BY <1>1, <1>3, Surrendered DEF IInv, NoForgottenPod, Billing, setup
<1>8. GatewayInv'
  BY <1>1 DEF IInv, GatewayInv, RoutedOnlyAfterProbe, setup
<1> QED
  BY <1>4, <1>5, <1>6, <1>7, <1>8 DEF IInv

\* The daemon restarts.
LEMMA CrashStep == ASSUME IInv, Crash PROVE IInv'
<1> USE DEF Crash, world, setup, history
<1>1. up' \in [Up -> Stream] /\ rel' \in [Release -> Request]
  BY Blank
<1>2. charged' \in [Pod -> Nat]
  OBVIOUS
<1>3. crashes' \in 0..MaxCrash
  BY Types, BurstAssumption DEF IInv, WorldOK
<1>4. TypeOK'
  BY <1>1, <1>2, <1>3, Types DEF IInv, WorldOK
<1>5. StreamInv' /\ StepInv' /\ ReleaseInv' /\ RentedInv'
  BY DEF StreamInv, StepInv, ReleaseInv, RentedInv, Waiting, Idle, Quiet
<1>6. NoForgottenPod'
  BY DEF IInv, NoForgottenPod, Billing
<1> QED
  BY <1>4, <1>5, <1>6 DEF IInv, GatewayInv, RoutedOnlyAfterProbe

\* The gateway follows a callback that has not returned.
LEMMA RouteStep ==
    ASSUME IInv, \/ \E u \in Up : Routed(u)
                 \/ \E r \in Release : Unrouted(r)
    PROVE  IInv'
<1> USE DEF IInv, Routed, Unrouted, setup, history
<1>1. TypeOK' /\ GatewayInv'
  BY DEF TypeOK, StreamInv, StepInv, Waiting, GatewayInv, RoutedOnlyAfterProbe
<1>2. StreamInv' /\ StepInv' /\ RentedInv' /\ ReleaseInv' /\ NoForgottenPod'
  BY DEF StreamInv, StepInv, Waiting, RentedInv, ReleaseInv, NoForgottenPod, Billing
<1> QED
  BY <1>1, <1>2

-----------------------------------------------------------------------------
(* The theorems.                                                           *)

\* Every step keeps the invariant.
LEMMA NextInv == IInv /\ [Next]_vars => IInv'
<1> SUFFICES ASSUME IInv, [Next]_vars PROVE IInv'
  OBVIOUS
<1>1. CASE UNCHANGED vars
  BY <1>1 DEF vars, setup, world, history, IInv, TypeOK, StreamInv, StepInv, Waiting, RentedInv, GatewayInv,
     RoutedOnlyAfterProbe, ReleaseInv, NoForgottenPod, Billing
<1>2. ASSUME NEW u \in Up, UpStep(u) PROVE IInv'
  BY <1>2, UpCreateStep, UpPollStep, UpProbedStep, UpRegisterStep, UpMarkedStep, UpRegisteredStep,
     UpGiveBackStep, UpGoneStep DEF UpStep
<1>3. ASSUME NEW r \in Release, RelStep(r) PROVE IInv'
  BY <1>3, RelNextStep, RelDeregisteredStep, RelRefusedStep, RelDoneStep DEF RelStep
<1>4. CASE Environment
  BY <1>4, PodMoveStep, GrowStep, RouteStep, CrashStep DEF Environment
<1> QED
  BY <1>1, <1>2, <1>3, <1>4, UpStartStep, UpDroppedStep, RelStartStep DEF Next

\* It holds in every state the program reaches.
LEMMA Inductive == Spec => []IInv
<1>1. Init => IInv
  BY InitInv
<1> QED
  BY <1>1, NextInv, PTL DEF Spec

\* The state of the manager, its streams and its releases has the types that the code
\* gives it, and a stream never has fewer than no replicas to go.
THEOREM TypeCorrect == Spec => []TypeOK
<1>1. IInv => TypeOK
  BY DEF IInv
<1> QED
  BY <1>1, Inductive, PTL

\* lifecycle.py:5 for any number of pods, streams and releases: the gateway only routes
\* to pods that answered a probe.
THEOREM OnlyProbedRouted == Spec => []RoutedOnlyAfterProbe
<1>1. IInv => RoutedOnlyAfterProbe
  BY DEF IInv, GatewayInv
<1> QED
  BY <1>1, Inductive, PTL

\* A pod that bills is in the manager's registry unless a failed call or a crash lost it.
THEOREM NoneForgotten == Spec => []NoForgottenPod
<1>1. IInv => NoForgottenPod
  BY DEF IInv
<1> QED
  BY <1>1, Inductive, PTL

-----------------------------------------------------------------------------
(***************************************************************************)
(* Routes of pods that were given back.                                    *)
(***************************************************************************)

\* Streams do not move, nothing gets marked and no pod is deleted but by Surrender of
\* one that is not marked any more: what releases and the environment do.
LEMMA CutKept ==
    ASSUME IInv, CutInv, up' = up, wired' = wired, faulty' = faulty, cut \subseteq cut',
           gateway' \subseteq gateway,
           \A p \in marked' : p \in marked,
           \A p \in gateway' : p \in marked => p \in marked',
           \A p \in Pod : pod'[p] = "deleted" =>
               \/ pod[p] = "deleted"
               \/ /\ wired => p \notin marked'
                  /\ CutShort(p) \subseteq cut'
    PROVE  CutInv'
<1>1. TypeOK /\ WorldOK /\ \A u \in Up : ~Waiting(u) => up[u].pod \in Pod
  BY Types DEF IInv, StreamInv
<1>2. \A u \in Up : ~Waiting(u) => CutShort(up[u].pod) = {up[u].pod}
  BY DEF CutShort
<1>3. ASSUME NEW u \in Up, ~Waiting(u), pod'[up[u].pod] = "deleted" PROVE up[u].pod \in cut'
  BY <1>1, <1>2, <1>3 DEF CutInv
<1>4. ASSUME wired, ~faulty, NEW p \in marked', pod'[p] = "deleted" PROVE p \in cut'
  BY <1>1, <1>4 DEF CutInv, WorldOK
<1>5. ASSUME ~faulty, NEW p \in gateway'
      PROVE  p \in cut' \cup marked' \/ \E u \in Up : up[u].pc = "register" /\ up[u].pod = p
  BY <1>5 DEF CutInv
<1> QED
  BY <1>3, <1>4, <1>5 DEF CutInv, Waiting

\* A stream rests: its own pod may get marked, deleted or cut short.
LEMMA CutRests ==
    ASSUME IInv, CutInv, NEW u \in Up, Rests(u), ~Waiting(u),
           wired' = wired, faulty' = faulty, cut \subseteq cut',
           \A p \in Pod : p # up[u].pod => pod'[p] = pod[p],
           \A p \in marked' : p \in marked \/ p = up[u].pod,
           marked \subseteq marked',
           \A p \in gateway' : p \in gateway \/ p = up[u].pod,
           up[u].pod \in marked' => pod'[up[u].pod] = pod[up[u].pod],
           up[u].pc = "register" => up[u].pod \in marked' \cup cut',
           up[u].pod \in gateway' \ gateway => up[u].pod \in marked' \cup cut'
    PROVE  CutInv'
<1>1. WorldOK /\ \A v \in Up : ~Waiting(v) => up[v].pod \in Pod \ marked
  BY Types DEF IInv, StreamInv
<1>2. ASSUME NEW v \in Up, v # u, ~Waiting(v)
      PROVE  up'[v] = up[v] /\ up[v].pod # up[u].pod /\ up[v].pod \in Pod
  BY <1>1, <1>2 DEF Rests, IInv, StreamInv
<1>3. ASSUME NEW v \in Up, ~Waiting(v)', pod'[up'[v].pod] = "deleted" PROVE up'[v].pod \in cut'
  <2>1. v # u
    BY <1>3 DEF Rests, Waiting
  <2>2. up'[v] = up[v] /\ ~Waiting(v)
    BY <1>3, <2>1 DEF Rests, Waiting
  <2> QED
    BY <1>2, <1>3, <2>1, <2>2 DEF CutInv
<1>4. ASSUME wired, ~faulty, NEW p \in marked', pod'[p] = "deleted" PROVE p \in cut'
  <2>1. p \in Pod
    BY <1>1 DEF WorldOK
  <2>2. CASE p = up[u].pod
    BY <1>4, <2>2 DEF CutInv
  <2> QED
    BY <1>4, <2>1, <2>2 DEF CutInv
<1>5. ASSUME ~faulty, NEW p \in gateway'
      PROVE  p \in cut' \cup marked' \/ \E v \in Up : up'[v].pc = "register" /\ up'[v].pod = p
  <2>1. CASE p \in cut \cup marked
    BY <2>1
  <2>2. ASSUME NEW v \in Up, up[v].pc = "register", up[v].pod = p
        PROVE  p \in cut' \cup marked' \/ \E w \in Up : up'[w].pc = "register" /\ up'[w].pod = p
    <3>1. CASE v = u
      BY <2>2, <3>1
    <3>2. CASE v # u
      BY <2>2, <3>2 DEF Rests
    <3> QED
      BY <3>1, <3>2
  <2>3. CASE p \in gateway
    BY <1>5, <2>1, <2>2, <2>3 DEF CutInv
  <2>4. CASE p = up[u].pod /\ p \notin gateway
    BY <1>5, <2>4
  <2> QED
    BY <2>3, <2>4
<1> QED
  BY <1>3, <1>4, <1>5 DEF CutInv

\* A stream starts, rents, or goes to another step: nothing is deleted, marked or routed.
LEMMA CutMoves ==
    ASSUME IInv, CutInv, NEW u \in Up, IInv',
           \A v \in Up : v # u => up'[v] = up[v],
           Waiting(u) \/ up'[u].pod = up[u].pod \/ Waiting(u)',
           up[u].pc # "register",
           wired' = wired, faulty' = faulty, cut' = cut, marked' = marked, gateway' = gateway,
           \A p \in Pod : pod'[p] = pod[p] \/ (pod[p] = "none" /\ pod'[p] # "deleted"),
           Waiting(u) /\ ~Waiting(u)' => pod'[up'[u].pod] # "deleted"
    PROVE  CutInv'
<1>1. WorldOK /\ \A v \in Up : ~Waiting(v) => up[v].pod \in Pod
  BY Types DEF IInv, StreamInv
<1>2. ASSUME NEW v \in Up, ~Waiting(v)', pod'[up'[v].pod] = "deleted" PROVE up'[v].pod \in cut'
  <2>1. CASE v = u
    BY <1>1, <1>2, <2>1 DEF CutInv
  <2>2. CASE v # u
    BY <1>1, <1>2, <2>2 DEF CutInv, Waiting
  <2> QED
    BY <2>1, <2>2
<1>3. \A p \in marked' : p \in Pod
  BY <1>1 DEF WorldOK
<1> QED
  BY <1>1, <1>2, <1>3 DEF CutInv

\* Every step keeps CutInv.
LEMMA CutStep == IInv /\ CutInv /\ IInv' /\ [Next]_vars => CutInv'
<1> SUFFICES ASSUME IInv, CutInv, IInv', [Next]_vars PROVE CutInv'
  OBVIOUS
<1>1. /\ WorldOK /\ up \in [Up -> Stream] /\ rel \in [Release -> Request]
      /\ \A u \in Up : ~Waiting(u) => up[u].pod \in Pod \ marked
  BY Types DEF IInv, StreamInv
<1>2. CASE UNCHANGED vars
  BY <1>2 DEF vars, history, CutInv, Waiting
<1>3. ASSUME NEW p \in Pod, PodMove(p) \/ Grow(p) PROVE CutInv'
  <2>1. /\ UNCHANGED <<up, wired, faulty, cut, gateway, marked>>
        /\ \A q \in Pod : pod'[q] = "deleted" => pod[q] = "deleted"
    BY <1>1, <1>3 DEF PodMove, PodMoves, Grow, WorldOK, setup, history
  <2> QED
    BY <2>1, CutKept
<1>4. ASSUME NEW u \in Up, UpCreate(u) \/ \E n \in 1..MaxReplicas : UpStart(u, n) PROVE CutInv'
  <2>1. /\ Waiting(u) /\ \A v \in Up : v # u => up'[v] = up[v]
        /\ UNCHANGED <<wired, faulty, cut, marked, gateway>>
        /\ \A p \in Pod : pod'[p] = pod[p] \/ (pod[p] = "none" /\ pod'[p] # "deleted")
    BY <1>1, <1>4 DEF UpCreate, UpStart, Idle, Waiting, WorldOK, setup, world, history
  <2>2. ~Waiting(u)' => pod'[up'[u].pod] # "deleted"
    BY <1>1, <1>4 DEF UpCreate, UpStart, Idle, Waiting, WorldOK, setup, world, history
  <2> QED
    BY <2>1, <2>2, CutMoves DEF Waiting
<1>5. ASSUME NEW u \in Up, \/ UpPoll(u, FALSE) \/ UpPoll(u, TRUE) \/ UpProbed(u, FALSE)
                           \/ UpProbed(u, TRUE) \/ UpRegister(u)
      PROVE  CutInv'
  <2>1. \E pc \in {"poll", "probe", "serving", "register", "zero", "expired", "gone"} : Goto(u, pc)
    BY <1>5 DEF UpPoll, UpProbed, UpRegister, Status
  <2>2. up'[u].pod = up[u].pod /\ \A v \in Up : v # u => up'[v] = up[v]
    BY <2>1, Moved DEF IInv
  <2>3. /\ UNCHANGED <<wired, faulty, cut, marked, gateway, pod>>
        /\ up[u].pc # "register" /\ ~Waiting(u)
    BY <1>5 DEF UpPoll, UpProbed, UpRegister, setup, world, history, Waiting
  <2> QED
    BY <2>2, <2>3, CutMoves
<1>6. ASSUME NEW u \in Up, UpMarked(u) \/ UpRegistered(u) \/ UpGiveBack(u) \/ UpGone(u)
      PROVE  CutInv'
  <2>1. Rests(u) /\ ~Waiting(u) /\ up[u].pod \in Pod \ marked
    BY <1>1, <1>6, NextRests, IdleRests
       DEF IInv, UpMarked, UpRegistered, UpGiveBack, UpGone, Waiting
  <2>2. /\ UNCHANGED <<wired, faulty, cut>> /\ marked \subseteq marked'
        /\ \A p \in Pod : p # up[u].pod => pod'[p] = pod[p]
        /\ \A p \in marked' : p \in marked \/ p = up[u].pod
        /\ \A p \in gateway' : p \in gateway \/ p = up[u].pod
    BY <1>1, <1>6 DEF UpMarked, UpRegistered, UpGiveBack, UpGone, Terminated, TerminateRaises,
                      setup, world, history, WorldOK
  <2>3. /\ up[u].pod \in marked' => pod' = pod
        /\ up[u].pc = "register" => up[u].pod \in marked'
        /\ gateway' = gateway \/ up[u].pod \in marked'
    BY <2>1, <1>6 DEF UpMarked, UpRegistered, UpGiveBack, UpGone, world
  <2> QED
    BY <2>1, <2>2, <2>3, CutRests
<1>7. ASSUME NEW u \in Up, UpDropped(u) PROVE CutInv'
  <2>1. /\ Rests(u) /\ cut \subseteq cut' /\ UNCHANGED <<wired, faulty, pod, marked>>
        /\ \A p \in gateway' : p \in gateway \/ p = up[u].pod
    BY <1>7, IdleRests DEF UpDropped, IInv, setup
  <2>2. /\ up[u].pc = "register" => up[u].pod \in cut'
        /\ up[u].pc # "register" => UNCHANGED <<gateway, cut>>
    BY <1>7 DEF UpDropped
  <2>3. CASE Waiting(u)
    <3>1. up[u].pc # "register" /\ UNCHANGED <<gateway, cut>>
      BY <2>2, <2>3 DEF Waiting
    <3>2. Waiting(u)' /\ \A v \in Up : v # u => up'[v] = up[v]
      BY <2>1 DEF Rests, Waiting
    <3> QED
      BY <2>1, <2>3, <3>1, <3>2, CutMoves
  <2>4. CASE ~Waiting(u)
    BY <2>1, <2>2, <2>4, CutRests
  <2> QED
    BY <2>3, <2>4
<1>8. ASSUME NEW r \in Release,
             \/ RelDone(r) \/ RelRefused(r)
             \/ \E k \in {"down", "reap"}, T \in SUBSET Pod : RelStart(r, k, T)
      PROVE  CutInv'
  <2>1. UNCHANGED <<up, wired, faulty, cut, gateway, marked, pod>>
    BY <1>8 DEF RelDone, RelRefused, RelStart, setup, world, history
  <2> QED
    BY <2>1, CutKept
<1>9. ASSUME NEW r \in Release, RelNext(r) PROVE CutInv'
  <2>1. UNCHANGED <<up, wired, faulty, gateway, marked>> /\ rel[r].todo \subseteq Pod
    BY <1>1, <1>9 DEF RelNext, setup, Request
  <2>2. PICK p \in rel[r].todo :
            \/ UNCHANGED <<pod, cut>>
            \/ ~(p \in marked /\ wired) /\ Surrender(r, p)
    BY <1>9 DEF RelNext
  <2>3. CASE UNCHANGED <<pod, cut>>
    BY <2>1, <2>3, CutKept
  <2>4. CASE ~(p \in marked /\ wired) /\ Surrender(r, p)
    <3>1. /\ cut' = cut \cup CutShort(p)
          /\ \A q \in Pod : q # p => pod'[q] = pod[q]
      BY <2>1, <2>4, Surrendered DEF IInv
    <3> QED
      BY <2>1, <2>4, <3>1, CutKept
  <2> QED
    BY <2>2, <2>3, <2>4
<1>10. ASSUME NEW r \in Release, RelDeregistered(r) PROVE CutInv'
  <2> DEFINE p == rel[r].pod
  <2>1. /\ UNCHANGED <<up, wired, faulty>> /\ Surrender(r, p) /\ p \in Pod
        /\ gateway' = gateway \ {p} /\ marked' = marked \ {p}
    BY <1>1, <1>10 DEF RelDeregistered, setup, IInv, ReleaseInv, Request
  <2> HIDE DEF p
  <2>2. /\ cut' = cut \cup CutShort(p)
        /\ \A q \in Pod : q # p => pod'[q] = pod[q]
    BY <2>1, Surrendered DEF IInv
  <2> QED
    BY <2>1, <2>2, CutKept
<1>11. ASSUME NEW u \in Up, Routed(u) PROVE CutInv'
  BY <1>11 DEF Routed, CutInv, Waiting, setup, history
<1>12. ASSUME NEW r \in Release, Unrouted(r) PROVE CutInv'
  <2>1. UNCHANGED <<up, wired, faulty, cut, marked, pod>> /\ gateway' \subseteq gateway
    BY <1>12 DEF Unrouted, setup, history
  <2> QED
    BY <2>1, CutKept
<1>13. CASE Crash
  BY <1>13 DEF Crash, CutInv, Waiting, Idle, setup, world
<1> QED
  BY <1>2, <1>3, <1>4, <1>5, <1>6, <1>7, <1>8, <1>9, <1>10, <1>11, <1>12, <1>13
  DEF Next, UpStep, RelStep, Environment

\* Whatever callbacks, releases and dropped streams overlap: without faults the gateway
\* routes to a pod that was given back only if it was given back, or its stream dropped,
\* before register_cb had returned to the stream.
THEOREM GatewayFirst == Spec => []TerminatedOffGateway
<1>1. IInv /\ CutInv => TerminatedOffGateway
  <2> SUFFICES ASSUME IInv, CutInv, ~faulty, NEW p \in gateway, pod[p] = "deleted"
               PROVE  p \in cut
    BY DEF TerminatedOffGateway
  <2>1. wired
    BY DEF IInv, GatewayInv
  <2>2. ASSUME NEW u \in Up, up[u].pc = "register", up[u].pod = p PROVE p \in cut
    BY <2>2 DEF CutInv, Waiting
  <2> QED
    BY <2>1, <2>2 DEF CutInv
<1>2. Init => CutInv
  BY InitInv
<1> QED
  BY <1>1, <1>2, CutStep, Inductive, PTL DEF Spec

-----------------------------------------------------------------------------
(***************************************************************************)
(* Bills.                                                                  *)
(***************************************************************************)

\* A step that bills nothing and enters only freshly rented pods keeps ChargeInv.
LEMMA Unbilled ==
    ASSUME ChargeInv, charged' = charged, contested' = contested,
           \A p \in Pod : pod[p] # "none" => pod'[p] # "none",
           \A p \in Pod : p \in nodes' => p \in nodes \/ pod[p] = "none",
           \A r \in Release, p \in Pod : p \in rel'[r].todo => p \in rel[r].todo
    PROVE  ChargeInv'
  BY DEF ChargeInv

\* A release bills a pod of its snapshot: if nobody contested it, then no other request
\* has it, and it was not billed before.
LEMMA Billed ==
    ASSUME IInv, ChargeInv, contested' = contested,
           NEW r \in Release, NEW p \in rel[r].todo, Surrender(r, p)
    PROVE  ChargeInv'
<1>1. rel[r] \in Request /\ p \in Pod /\ TypeOK /\ pod[p] # "none" /\ charged \in [Pod -> Nat]
  <2>1. rel[r] \in Request /\ charged \in [Pod -> Nat]
    BY Types DEF IInv, WorldOK
  <2> QED
    BY <2>1 DEF IInv, Request, RentedInv
<1>2. p \notin contested =>
          charged[p] = 0 /\ \A q \in Release : q # r => p \notin rel[q].todo
  BY <1>1 DEF ChargeInv
<1>3. charged'[p] = charged[p] + 1 /\ \A q \in Pod : q # p => charged'[q] = charged[q]
  BY <1>1, Surrendered
<1>4. /\ nodes' = nodes \ {p}
      /\ \A q \in Pod : pod[q] # "none" => pod'[q] # "none"
      /\ rel'[r].todo \subseteq rel[r].todo \ {p}
      /\ \A q \in Release : q # r => rel'[q] = rel[q]
  BY <1>1, Surrendered
<1>5. ASSUME NEW q \in Pod \ contested
      PROVE  /\ \A s, t \in Release : q \in rel'[s].todo /\ q \in rel'[t].todo => s = t
             /\ charged'[q] <= 1
             /\ charged'[q] # 0 => /\ q \notin nodes' /\ pod'[q] # "none"
                                  /\ \A t \in Release : q \notin rel'[t].todo
  <2>1. \A t \in Release : q \in rel'[t].todo => q \in rel[t].todo
    BY <1>4
  <2>2. CASE q = p
    BY <1>1, <1>2, <1>3, <1>4, <2>1, <2>2
  <2>3. CASE q # p
    BY <1>3, <1>4, <2>1, <2>3 DEF ChargeInv
  <2> QED
    BY <2>2, <2>3
<1> QED
  BY <1>5 DEF ChargeInv

\* A snapshot makes a pod contested that is in another one; others it takes are nobody's.
LEMMA Snapshot ==
    ASSUME IInv, ChargeInv, NEW r \in Release, NEW k \in {"down", "reap"}, NEW T \in SUBSET Pod,
           RelStart(r, k, T)
    PROVE  ChargeInv'
<1>1. /\ rel \in [Release -> Request] /\ UNCHANGED <<charged, nodes, pod>> /\ T \subseteq nodes
      /\ contested' = contested \cup {p \in T : \E q \in Release : p \in rel[q].todo}
      /\ rel' = [rel EXCEPT ![r] = [pc |-> "next", kind |-> k, pod |-> NoPod, todo |-> T]]
  BY Types DEF IInv, RelStart, world
<1>2. rel'[r].todo = T /\ \A q \in Release : q # r => rel'[q] = rel[q]
  BY <1>1
<1> QED
  BY <1>1, <1>2 DEF ChargeInv

\* However many releases, reaper passes and streams interleave, a pod's bill is added to
\* spent_today_usd again only if two release requests had the pod in hand at one time.
THEOREM BilledOnce == Spec => []ChargedTwiceIfContested
<1>1. IInv /\ ChargeInv /\ [Next]_vars => ChargeInv'
  <2> SUFFICES ASSUME IInv, ChargeInv, [Next]_vars PROVE ChargeInv'
    OBVIOUS
  <2> USE DEF history
  <2>1. /\ WorldOK /\ rel \in [Release -> Request]
        /\ \A u \in Up : ~Waiting(u) => up[u].pod \in Pod
    BY Types DEF IInv, StreamInv
  <2>2. CASE UNCHANGED vars
    BY <2>2 DEF vars, ChargeInv
  <2>3. ASSUME NEW p \in Pod, PodMove(p) \/ Grow(p) PROVE ChargeInv'
    <3>1. /\ UNCHANGED <<nodes, charged, rel, contested>>
          /\ \A q \in Pod : pod[q] # "none" => pod'[q] # "none"
      BY <2>1, <2>3 DEF PodMove, PodMoves, Grow, WorldOK
    <3> QED
      BY <3>1, Unbilled
  <2>4. ASSUME NEW u \in Up, UpCreate(u) PROVE ChargeInv'
    <3>1. /\ UNCHANGED <<charged, rel, contested>>
          /\ \A q \in Pod : pod[q] # "none" => pod'[q] # "none"
          /\ \A q \in Pod : q \in nodes' => q \in nodes \/ pod[q] = "none"
      BY <2>1, <2>4 DEF UpCreate, WorldOK
    <3> QED
      BY <3>1, Unbilled
  <2>5. ASSUME NEW u \in Up, UpGiveBack(u) \/ UpGone(u) PROVE ChargeInv'
    <3>1. /\ UNCHANGED <<charged, rel, contested>> /\ nodes' \subseteq nodes
          /\ \A q \in Pod : pod[q] # "none" => pod'[q] # "none"
      BY <2>1, <2>5 DEF UpGiveBack, UpGone, Terminated, TerminateRaises, WorldOK, world
    <3> QED
      BY <3>1, Unbilled
  <2>6. ASSUME NEW u \in Up,
               \/ UpPoll(u, FALSE) \/ UpPoll(u, TRUE) \/ UpProbed(u, FALSE) \/ UpProbed(u, TRUE)
               \/ UpRegister(u) \/ UpMarked(u) \/ UpRegistered(u) \/ UpDropped(u) \/ Routed(u)
               \/ \E n \in 1..MaxReplicas : UpStart(u, n)
        PROVE  ChargeInv'
    <3>1. UNCHANGED <<charged, rel, nodes, pod, contested>>
      BY <2>6 DEF UpPoll, UpProbed, UpRegister, UpMarked, UpRegistered, UpDropped, UpStart, Routed,
                  world
    <3> QED
      BY <3>1, Unbilled
  <2>7. ASSUME NEW r \in Release, RelDone(r) \/ RelRefused(r) \/ Unrouted(r) PROVE ChargeInv'
    <3>1. /\ UNCHANGED <<charged, nodes, pod, contested>>
          /\ \A q \in Release : rel'[q].todo \subseteq rel[q].todo
      BY <2>1, <2>7 DEF RelDone, RelRefused, Unrouted, Quiet, world
    <3> QED
      BY <3>1, Unbilled
  <2>8. ASSUME NEW r \in Release, RelNext(r) PROVE ChargeInv'
    <3>1. PICK p \in rel[r].todo :
              \/ UNCHANGED <<pod, nodes, charged>> /\ rel' = [rel EXCEPT ![r].todo = @ \ {p}]
              \/ UNCHANGED <<pod, nodes, charged>>
                 /\ rel' = [rel EXCEPT ![r].pc = "dereg", ![r].pod = p]
              \/ Surrender(r, p)
      BY <2>8 DEF RelNext
    <3>2. contested' = contested
      BY <2>8 DEF RelNext
    <3>3. CASE \/ UNCHANGED <<pod, nodes, charged>> /\ rel' = [rel EXCEPT ![r].todo = @ \ {p}]
               \/ UNCHANGED <<pod, nodes, charged>>
                  /\ rel' = [rel EXCEPT ![r].pc = "dereg", ![r].pod = p]
      <4>1. \A q \in Release : rel'[q].todo \subseteq rel[q].todo
        BY <2>1, <3>3 DEF Request
      <4> QED
        BY <3>2, <3>3, <4>1, Unbilled
    <3> QED
      BY <3>1, <3>2, <3>3, Billed
  <2>9. ASSUME NEW r \in Release, RelDeregistered(r) PROVE ChargeInv'
    <3>1. rel[r].pod \in rel[r].todo
      BY <2>9 DEF RelDeregistered, IInv, ReleaseInv
    <3> QED
      BY <2>9, <3>1, Billed DEF RelDeregistered
  <2>10. CASE Crash
    BY <2>1, <2>10 DEF Crash, ChargeInv, Quiet
  <2> QED
    BY <2>2, <2>3, <2>4, <2>5, <2>6, <2>7, <2>8, <2>9, <2>10, Snapshot
    DEF Next, UpStep, RelStep, Environment
<1>2. Init => ChargeInv
  BY InitInv
<1>3. IInv /\ ChargeInv => ChargedTwiceIfContested
  BY Types DEF IInv, WorldOK, ChargeInv, ChargedTwiceIfContested
<1> QED
  BY <1>1, <1>2, <1>3, Inductive, PTL DEF Spec

=============================================================================
