--------------------------- MODULE BurstLifecycle ---------------------------
(***************************************************************************)
(* The rented-GPU tier: BurstManager in burst/burst/lifecycle.py, driven   *)
(* by the /burst endpoints of burst/burst/api.py over the RunPod driver.   *)
(* scale_up streams, manual releases and reaper passes are coroutines of   *)
(* one event loop; driver calls are synchronous, so what runs between two  *)
(* awaits (or between two yields of a stream) is one action.               *)
(*                                                                         *)
(* Pods and the gateway are the environment.  Ages are kept                *)
(* as the verdict the policy draws from them; money as the number of times *)
(* a pod's bill was added to spent_today_usd.                              *)
(***************************************************************************)
EXTENDS Naturals, FiniteSets

CONSTANTS
    Pod,         \* pod ids the provider may hand out, each at most once
    Up,          \* concurrent /up/stream requests
    Release,     \* concurrent /down and /reap requests
    MaxReplicas, \* most replicas one request asks for
    MaxCrash,    \* how often the daemon may crash
    NoPod

ASSUME BurstAssumption ==
    /\ MaxReplicas \in Nat \ {0} /\ MaxCrash \in Nat
    /\ NoPod \notin Pod

VARIABLES
    pod,      \* the provider's view of each pod
    gateway,  \* pods the gateway routes to
    due,      \* what age and idle time say of a pod: "fresh", "idle" or "aged"
    nodes,    \* BurstManager.nodes
    marked,   \* pods whose node.registered is set
    charged,  \* how often each pod's bill was added to spent_today_usd
    up,       \* each stream: where it is suspended, its pod, the replicas to go
    rel,      \* each release request: where it is, its kind, its pod, the rest
    crashes,
    wired,    \* the manager has register_cb and deregister_cb (api.manager gives none)
    faulty,   \* provider calls may fail, the daemon may crash
    answered, \* history: pods whose /v1/models answered a probe
    contested, \* history: pods that two release requests had in hand at the same time
    cut,      \* history: pods given back under a stream that still had them, or whose
              \*     stream was dropped inside register_cb
    lost      \* history: pods that left the registry by a failed call or a crash

history == <<answered, contested, cut, lost>>
vars == <<pod, gateway, due, nodes, marked, charged, up, rel, crashes, wired, faulty, history>>
setup == <<wired, faulty>>
world == <<pod, gateway, due>>

-----------------------------------------------------------------------------
(* The provider.                                                           *)

PodState == {"none", "starting", "running", "ready", "zero", "exited", "deleted"}
Billing(p) == pod[p] \in {"starting", "running", "ready", "zero"}

PodMoves == {<<"starting", "running">>, <<"running", "ready">>,
             <<"starting", "exited">>, <<"running", "exited">>, <<"ready", "exited">>}

PodMove(p) ==
    /\ \E m \in PodMoves : pod[p] = m[1] /\ pod' = [pod EXCEPT ![p] = m[2]]
    /\ UNCHANGED <<gateway, due, nodes, marked, charged, up, rel, crashes, setup, history>>

\* Time passes for a node of the manager.  last_request_at is set when the node
\* registers and never again, so the idle time grows whether or not requests arrive.
Grow(p) ==
    /\ p \in nodes
    /\ \/ due[p] = "fresh" /\ due' = [due EXCEPT ![p] = "idle"]
       \/ due[p] = "idle" /\ due' = [due EXCEPT ![p] = "aged"]
    /\ UNCHANGED <<pod, gateway, nodes, marked, charged, up, rel, crashes, setup, history>>

\* RunPodDriver.status: any failed GET reads as a vanished pod.
Status(p) ==
    {CASE pod[p] = "starting" -> "provisioning"
       [] pod[p] \in {"running", "ready"} -> "loading"
       [] pod[p] = "zero" -> "zero_gpu"
       [] OTHER -> "gone"}
    \cup (IF faulty THEN {"gone"} ELSE {})

\* RunPodDriver.terminate: the DELETE succeeds, or raises -- always for a pod that is
\* deleted already (the provider answers 404).
Terminated(p) == pod[p] # "deleted" /\ pod' = [pod EXCEPT ![p] = "deleted"]
TerminateRaises(p) == (pod[p] = "deleted" \/ faulty) /\ pod' = pod

\* A release request that is between two awaits occupies the event loop: no other
\* coroutine runs until it awaits deregister_cb or answers.
LoopFree == \A r \in Release : rel[r].pc # "next"

-----------------------------------------------------------------------------
(* scale_up and _await_serving.                                            *)

Idle == [pc |-> "idle", pod |-> NoPod, left |-> 0]
Goto(u, pc) == up' = [up EXCEPT ![u].pc = pc]

\* Mutant of NextReplica: one replica too many.
OneMoreReplica(u) ==
    up' = [up EXCEPT ![u] = IF @.left >= 0 THEN [@ EXCEPT !.pc = "create", !.pod = NoPod]
                                           ELSE Idle]

\* A stream that ends an _await_serving goes on with the next replica or stops.
NextReplica(u) ==
    up' = [up EXCEPT ![u] = IF @.left > 0 THEN [@ EXCEPT !.pc = "create", !.pod = NoPod]
                                          ELSE Idle]

UpStart(u, replicas) ==
    /\ LoopFree /\ up[u] = Idle
    /\ up' = [up EXCEPT ![u] = [pc |-> "create", pod |-> NoPod, left |-> replicas]]
    /\ UNCHANGED <<world, nodes, marked, charged, rel, crashes, setup, history>>

\* driver.create rents a pod; it raises when nothing is left to rent, and, if the
\* answer to the POST is lost, after a pod was rented.
UpCreate(u) ==
    /\ LoopFree /\ up[u].pc = "create"
    /\ \/ \E p \in Pod, s \in {"starting", "zero"} :
            /\ pod[p] = "none"
            /\ pod' = [pod EXCEPT ![p] = s]
            /\ \/ /\ nodes' = nodes \cup {p} /\ lost' = lost
                  /\ up' = [up EXCEPT ![u] = [pc |-> "poll", pod |-> p, left |-> @.left - 1]]
               \/ /\ faulty
                  /\ nodes' = nodes /\ lost' = lost \cup {p}
                  /\ up' = [up EXCEPT ![u] = Idle]
       \/ /\ (\A p \in Pod : pod[p] # "none") \/ faulty
          /\ up' = [up EXCEPT ![u] = Idle]
          /\ UNCHANGED <<pod, nodes, lost>>
    /\ UNCHANGED <<gateway, due, marked, charged, rel, crashes, setup, answered, contested, cut>>

\* The top of the poll loop: a terminal phase is yielded before it is acted upon; a
\* loading pod is probed; otherwise the stream sleeps, or gives up once late.
UpPoll(u, isLate) ==
    /\ LoopFree /\ up[u].pc = "poll"
    /\ \E ph \in Status(up[u].pod) :
           Goto(u, CASE ph = "zero_gpu" -> "zero"
                     [] ph = "gone" -> "gone"
                     [] ph = "loading" -> "probe"
                     [] OTHER -> IF isLate THEN "expired" ELSE "poll")
    /\ UNCHANGED <<world, nodes, marked, charged, rel, crashes, setup, history>>

\* Mutant of UpProbed: "running" is taken for serving.
UpProbedUnasked(u, isLate) ==
    LET p == up[u].pod IN
    /\ LoopFree /\ up[u].pc = "probe"
    /\ \/ Goto(u, "serving")
       \/ Goto(u, IF isLate THEN "expired" ELSE "poll")
    /\ UNCHANGED <<world, nodes, marked, charged, rel, crashes, setup, history>>

\* The probe answers.  last_request_at is set only once the SERVING event has been
\* taken by the client, that is on the way into register_cb.
UpProbed(u, isLate) ==
    LET p == up[u].pod IN
    /\ LoopFree /\ up[u].pc = "probe"
    /\ \/ /\ pod[p] = "ready"
          /\ answered' = answered \cup {p}
          /\ Goto(u, "serving")
       \/ Goto(u, IF isLate THEN "expired" ELSE "poll") /\ UNCHANGED answered
    /\ UNCHANGED <<world, nodes, marked, charged, rel, crashes, setup, contested, cut, lost>>

UpRegister(u) ==
    /\ wired /\ LoopFree /\ up[u].pc = "serving"
    /\ due' = [due EXCEPT ![up[u].pod] = IF @ = "aged" THEN @ ELSE "fresh"]
    /\ Goto(u, "register")
    /\ UNCHANGED <<pod, gateway, nodes, marked, charged, rel, crashes, setup, history>>

\* Without register_cb the node is marked as registered at once.
UpMarked(u) ==
    /\ ~wired /\ LoopFree /\ up[u].pc = "serving"
    /\ due' = [due EXCEPT ![up[u].pod] = IF @ = "aged" THEN @ ELSE "fresh"]
    /\ marked' = marked \cup {up[u].pod}
    /\ NextReplica(u)
    /\ UNCHANGED <<pod, gateway, nodes, charged, rel, crashes, setup, history>>

\* Mutant of UpRegistered: the callback runs, the node is not marked.
UpRegisteredUnmarked(u) ==
    /\ LoopFree /\ up[u].pc = "register"
    /\ gateway' = gateway \cup {up[u].pod}
    /\ NextReplica(u)
    /\ UNCHANGED <<pod, due, nodes, marked, charged, rel, crashes, setup, history>>

\* register_cb returns, the gateway routes to the pod by now; the node is marked whatever
\* happened to it meanwhile.
UpRegistered(u) ==
    /\ LoopFree /\ up[u].pc = "register"
    /\ gateway' = gateway \cup {up[u].pod}
    /\ marked' = marked \cup {up[u].pod}
    /\ NextReplica(u)
    /\ UNCHANGED <<pod, due, nodes, charged, rel, crashes, setup, history>>

\* Mutant of UpGiveBack: the node is forgotten, not terminated.
UpForget(u) ==
    LET p == up[u].pod IN
    /\ LoopFree /\ up[u].pc \in {"zero", "expired"}
    /\ nodes' = nodes \ {p} /\ NextReplica(u)
    /\ UNCHANGED <<world, marked, charged, rel, crashes, setup, history>>

\* ZERO_GPU, or the budget is spent: terminate and forget; no bill is added.
UpGiveBack(u) ==
    LET p == up[u].pod IN
    /\ LoopFree /\ up[u].pc \in {"zero", "expired"}
    /\ \/ Terminated(p) /\ nodes' = nodes \ {p} /\ NextReplica(u)
       \/ TerminateRaises(p) /\ nodes' = nodes /\ up' = [up EXCEPT ![u] = Idle]
    /\ UNCHANGED <<gateway, due, marked, charged, rel, crashes, setup, history>>

\* Mutant of UpGone: a pod that is gone is polled again.
UpGoneRetries(u) ==
    /\ LoopFree /\ up[u].pc = "gone"
    /\ nodes' = nodes \ {up[u].pod}
    /\ Goto(u, "poll")
    /\ UNCHANGED <<world, marked, charged, rel, crashes, setup, history>>

\* GONE: forget without terminating.
UpGone(u) ==
    LET p == up[u].pod IN
    /\ LoopFree /\ up[u].pc = "gone"
    /\ nodes' = nodes \ {p}
    /\ lost' = IF Billing(p) THEN lost \cup {p} ELSE lost
    /\ NextReplica(u)
    /\ UNCHANGED <<world, marked, charged, rel, crashes, setup, answered, contested, cut>>

\* The client drops the stream: the generator ends where it is suspended.  What
\* register_cb has asked of the gateway may still come about.
UpDropped(u) ==
    LET inCallback == up[u].pc = "register" IN
    /\ LoopFree /\ up[u] # Idle
    /\ up' = [up EXCEPT ![u] = Idle]
    /\ \/ gateway' = gateway
       \/ inCallback /\ gateway' = gateway \cup {up[u].pod}
    /\ cut' = IF inCallback THEN cut \cup {up[u].pod} ELSE cut
    /\ UNCHANGED <<pod, due, nodes, marked, charged, rel, crashes, setup, answered, contested, lost>>

\* The gateway changes its routes while a callback runs, some time before it returns.
Routed(u) ==
    /\ up[u].pc = "register" /\ up[u].pod \notin gateway
    /\ gateway' = gateway \cup {up[u].pod}
    /\ UNCHANGED <<pod, due, nodes, marked, charged, up, rel, crashes, setup, history>>
Unrouted(r) ==
    /\ rel[r].pc = "dereg" /\ rel[r].pod \in gateway
    /\ gateway' = gateway \ {rel[r].pod}
    /\ UNCHANGED <<pod, due, nodes, marked, charged, up, rel, crashes, setup, history>>

-----------------------------------------------------------------------------
(* release, reap and down.                                                 *)

Quiet == [pc |-> "idle", kind |-> "down", pod |-> NoPod, todo |-> {}]

\* /down releases one node or all of them, /reap looks at all: a snapshot is taken.
RelStart(r, kind, targets) ==
    /\ LoopFree /\ rel[r] = Quiet
    /\ targets \subseteq nodes
    /\ kind = "reap" => targets = nodes
    /\ rel' = [rel EXCEPT ![r] = [pc |-> "next", kind |-> kind, pod |-> NoPod, todo |-> targets]]
    /\ contested' = contested \cup {p \in targets : \E q \in Release : p \in rel[q].todo}
    /\ UNCHANGED <<world, nodes, marked, charged, up, crashes, setup, answered, cut, lost>>

\* lifecycle_action; no code sets meta["inflight"], so a node never looks busy.
Keep(p) == due[p] = "fresh"

\* Pods given back while a stream still has them.
CutShort(p) == {q \in {p} : \E u \in Up : up[u].pod = q}

\* The driver's terminate within a release; when it raises the rest of the pass is skipped.
GiveBack(r, p) ==
    \/ /\ Terminated(p) /\ lost' = lost
       /\ rel' = [rel EXCEPT ![r].pc = "next", ![r].pod = NoPod, ![r].todo = @ \ {p}]
    \/ /\ TerminateRaises(p)
       /\ lost' = IF Billing(p) THEN lost \cup {p} ELSE lost
       /\ rel' = [rel EXCEPT ![r] = Quiet]

\* Mutant of Surrender: the node stays in the manager.
SurrenderAndKeep(r, p) ==
    /\ GiveBack(r, p)
    /\ nodes' = nodes
    /\ charged' = [charged EXCEPT ![p] = @ + 1]
    /\ cut' = cut \cup CutShort(p)

\* The end of release: terminate; forget and add the bill even if that raises.
Surrender(r, p) ==
    /\ GiveBack(r, p)
    /\ nodes' = nodes \ {p}
    /\ charged' = [charged EXCEPT ![p] = @ + 1]
    /\ cut' = cut \cup CutShort(p)

\* The next node of the snapshot, whatever became of it since it was taken.
RelNext(r) ==
    /\ rel[r].pc = "next"
    /\ \E p \in rel[r].todo :
          \/ /\ rel[r].kind = "reap" /\ Keep(p)
             /\ rel' = [rel EXCEPT ![r].todo = @ \ {p}]
             /\ UNCHANGED <<pod, nodes, charged, cut, lost>>
          \/ /\ rel[r].kind = "reap" => ~Keep(p)
             /\ IF p \in marked /\ wired
                THEN /\ rel' = [rel EXCEPT ![r].pc = "dereg", ![r].pod = p]
                     /\ UNCHANGED <<pod, nodes, charged, cut, lost>>
                ELSE Surrender(r, p)
    /\ UNCHANGED <<gateway, due, marked, up, crashes, setup, answered, contested>>

\* deregister_cb returns and the node is terminated.
RelDeregistered(r) ==
    LET p == rel[r].pod IN
    /\ rel[r].pc = "dereg" /\ LoopFree
    /\ gateway' = gateway \ {p}
    /\ marked' = marked \ {p}
    /\ Surrender(r, p)
    /\ UNCHANGED <<due, up, crashes, setup, answered, contested>>

\* deregister_cb raises: the request ends, the node stays as it was.
RelRefused(r) ==
    /\ faulty /\ rel[r].pc = "dereg" /\ LoopFree
    /\ rel' = [rel EXCEPT ![r] = Quiet]
    /\ UNCHANGED <<world, nodes, marked, charged, up, crashes, setup, history>>

\* The request answers.  What /reap adds from reconcile is only reported.
RelDone(r) ==
    /\ rel[r].pc = "next" /\ rel[r].todo = {}
    /\ rel' = [rel EXCEPT ![r] = Quiet]
    /\ UNCHANGED <<world, nodes, marked, charged, up, crashes, setup, history>>

\* The daemon dies and is restarted: the manager starts empty.
Crash ==
    /\ faulty /\ crashes < MaxCrash
    /\ crashes' = crashes + 1
    /\ nodes' = {} /\ marked' = {}
    /\ charged' = [p \in Pod |-> 0] /\ contested' = {}
    /\ lost' = lost \cup {p \in nodes : Billing(p)}
    /\ up' = [u \in Up |-> Idle]
    /\ rel' = [r \in Release |-> Quiet]
    /\ UNCHANGED <<world, setup, answered, cut>>

-----------------------------------------------------------------------------
Init ==
    /\ pod = [p \in Pod |-> "none"]
    /\ gateway = {} /\ nodes = {} /\ marked = {}
    /\ due = [p \in Pod |-> "fresh"]
    /\ charged = [p \in Pod |-> 0]
    /\ up = [u \in Up |-> Idle]
    /\ rel = [r \in Release |-> Quiet]
    /\ crashes = 0 /\ wired \in BOOLEAN /\ faulty \in BOOLEAN
    /\ answered = {} /\ contested = {} /\ cut = {} /\ lost = {}

UpStep(u) ==
    \/ UpCreate(u)
    \/ UpPoll(u, FALSE) \/ UpPoll(u, TRUE)
    \/ UpProbed(u, FALSE) \/ UpProbed(u, TRUE)
    \/ UpRegister(u)
    \/ UpMarked(u)
    \/ UpRegistered(u)
    \/ UpGiveBack(u)
    \/ UpGone(u)

RelStep(r) == RelNext(r) \/ RelDeregistered(r) \/ RelRefused(r) \/ RelDone(r)

Environment ==
    \/ \E p \in Pod : PodMove(p) \/ Grow(p)
    \/ \E u \in Up : Routed(u)
    \/ \E r \in Release : Unrouted(r)
    \/ Crash

Next ==
    \/ \E u \in Up : \E n \in 1..MaxReplicas : UpStart(u, n)
    \/ \E u \in Up : UpStep(u)
    \/ \E u \in Up : UpDropped(u)
    \/ \E r \in Release, kind \in {"down", "reap"}, T \in SUBSET Pod : RelStart(r, kind, T)
    \/ \E r \in Release : RelStep(r)
    \/ Environment

Spec == Init /\ [][Next]_vars

\* The event loop serves its ready queue in turn, so a coroutine that is ready again and
\* again between the steps of others is resumed; a stream that polls for ever reads a time
\* past its budget.  Nobody is supposed to call /reap: what the timer runs, `dnc-burst
\* reap`, is a process with a manager of its own that knows no node (cli.py:145).
LoopFairness ==
    /\ \A u \in Up : /\ SF_vars(UpStep(u))
                     /\ SF_vars(UpPoll(u, TRUE)) /\ SF_vars(UpProbed(u, TRUE))
    /\ \A r \in Release : SF_vars(RelStep(r))

FairSpec == Spec /\ LoopFairness

-----------------------------------------------------------------------------
(* What the manager keeps.                                                 *)

TypeOK ==
    /\ pod \in [Pod -> PodState]
    /\ due \in [Pod -> {"fresh", "idle", "aged"}]
    /\ gateway \in SUBSET Pod /\ answered \in SUBSET Pod
    /\ nodes \in SUBSET Pod /\ marked \in SUBSET Pod
    /\ contested \in SUBSET Pod /\ cut \in SUBSET Pod /\ lost \in SUBSET Pod
    /\ wired \in BOOLEAN /\ faulty \in BOOLEAN
    /\ charged \in [Pod -> Nat]
    /\ up \in [Up -> [pc: {"idle", "create", "poll", "probe", "serving", "register", "zero",
                           "expired", "gone"},
                      pod: Pod \cup {NoPod}, left: 0..MaxReplicas]]
    /\ rel \in [Release -> [pc: {"idle", "next", "dereg"}, kind: {"down", "reap"},
                            pod: Pod \cup {NoPod}, todo: SUBSET Pod]]
    /\ crashes \in 0..MaxCrash

\* lifecycle.py:5 "Never register a deployment until a real /v1/models probe
\* succeeds": the gateway only ever routes to pods that answered a probe, through
\* every interleaving of streams, releases, dropped clients and crashes.
RoutedOnlyAfterProbe == gateway \subseteq answered

\* drivers/base.py:93-94 "anything the registry doesn't know about is a leak": a pod that
\* bills is in the manager's registry, so a reaper pass can reach it, unless a failure lost
\* it: the answer to its POST was lost, a failed GET read as a vanished pod, its DELETE
\* failed in a release, or the daemon crashed.  No order of drops, give-ups, probes and
\* releases forgets a pod by itself.
NoForgottenPod ==
    /\ \A p \in Pod : Billing(p) => p \in nodes \cup lost
    /\ ~faulty => lost = {}

\* lifecycle.py:9 "Deregister before terminating": while the provider and the gateway
\* answer, the gateway routes to a pod that was given back only if that happened before the
\* stream had seen register_cb return -- the release then finds `registered` unset, and a
\* callback that returns late routes to the pod for good -- or if the stream was dropped
\* inside the callback.  A node that is registered is never terminated under its route.
TerminatedOffGateway ==
    ~faulty => \A p \in gateway : pod[p] = "deleted" => p \in cut

\* release: however releases and reaper passes interleave with provisioning, a pod's bill
\* is added to spent_today_usd again only for a pod that two release requests had in hand
\* at the same time (then it is, against lifecycle.py:135 "Safe to call twice").
ChargedTwiceIfContested == \A p \in Pod : charged[p] > 1 => p \in contested

\* PROVISION_BUDGET_S: every /up/stream request comes to an end by itself.
EveryStreamEnds == \A u \in Up : up[u] # Idle ~> up[u] = Idle

=============================================================================
