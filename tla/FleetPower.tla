----------------------------- MODULE FleetPower -----------------------------
(***************************************************************************)
(* One /power/stream request of fleetd: `watch` in fleetd/fleetd/power.py  *)
(* fires Wake-on-LAN or an SSH power-off at the selected nodes, each from  *)
(* a task of its own, and polls every node until it settles.  Inside a     *)
(* chassis the never_sleep node drives the fans: its mates are woken after *)
(* it and powered off before it, an order the tasks keep through one-shot  *)
(* gates.                                                                  *)
(*                                                                         *)
(* An asyncio task runs without interruption between two awaits, so the    *)
(* code between two awaits is one action.  Elapsed time is kept only as    *)
(* what track_node reads of it: at the top of a poll, has the budget run   *)
(* out?  The boards themselves (variable power) are the environment.       *)
(***************************************************************************)
EXTENDS Naturals, FiniteSets

CONSTANTS
    Node,        \* names in the node file
    Chassis,     \* chassis ids
    NoChassis,   \* the value of a node without a `chassis` field
    ChassisOf,   \* node -> its chassis, or NoChassis
    NeverSleep,  \* nodes flagged never_sleep: the fan controllers
    Flaky,       \* nodes whose probes may fail although the service is up
    Faulty       \* nodes whose power-off command may fail to launch at all

ASSUME FleetAssumption ==
    /\ IsFiniteSet(Node)
    /\ ChassisOf \in [Node -> Chassis \cup {NoChassis}]
    /\ NoChassis \notin Chassis
    /\ NeverSleep \subseteq Node
    /\ Flaky \subseteq Node
    /\ Faulty \subseteq Node

VARIABLES
    power,   \* what each board is really doing
    stream,  \* the request: not made, open, ended with `done`, dropped by the client
    state,   \* its direction, "on" or "off"
    force,   \* its force flag
    act,     \* the nodes it acts on
    task,    \* where each node's task is between two awaits
    late,    \* the elapsed time read at the top of the current poll is past the budget
    states,  \* the last phase emitted for each node
    gate,    \* the latch of each node some other node waits for
    fired,   \* history: nodes whose wake or power-off was issued
    revived  \* history: boards that came up after a poll had read them as offline

vars == <<power, stream, state, force, act, task, late, states, gate, fired, revived>>
request == <<stream, state, force, act>>

-----------------------------------------------------------------------------
(* Boards.  "booting" has no sshd yet; "halting" has lost it already.      *)

PowerState == {"off", "booting", "up", "serving", "halting"}
SshUp(n) == power[n] \in {"up", "serving"}

\* What one probe of a service that is really up (or down) may report.
Report(n, isUp) == {isUp} \cup (IF n \in Flaky THEN {FALSE} ELSE {})

HwMove(n, from, to) ==
    /\ power[n] = from
    /\ power' = [power EXCEPT ![n] = to]
    /\ UNCHANGED <<request, task, late, states, gate, fired>>

HwBoot(n) ==
    /\ HwMove(n, "booting", "up")
    /\ revived' = IF states[n] = "offline" THEN revived \cup {n} ELSE revived
HwServe(n) == HwMove(n, "up", "serving") /\ UNCHANGED revived
HwStopServing(n) == HwMove(n, "serving", "up") /\ UNCHANGED revived
HwHalted(n) == HwMove(n, "halting", "off") /\ UNCHANGED revived

-----------------------------------------------------------------------------
(* The chassis order.                                                      *)

Terminal == IF state = "on" THEN {"serving", "timeout"} ELSE {"offline", "timeout"}
OnReachable == {"loading", "serving"}

\* group_by_chassis and split_cooling, for the group n is in.
Mates(n) == {k \in act : ChassisOf[k] = ChassisOf[n]}
Cooling(n) == Mates(n) \cap NeverSleep
Rest(n) == Mates(n) \ NeverSleep

\* The nodes whose gates n's task awaits before it fires.
WaitsOn(n) ==
    IF ChassisOf[n] = NoChassis \/ Cooling(n) = {} \/ Rest(n) = {} THEN {}
    ELSE IF state = "on"
         THEN (IF n \in NeverSleep THEN {} ELSE Cooling(n))
         ELSE (IF n \in NeverSleep THEN Rest(n) ELSE {})

\* Mutant of Gated: only fan controllers are given a gate.
GatedFans(n) == n \in NeverSleep /\ \E k \in act : n \in WaitsOn(k)
Gated(n) == \E k \in act : n \in WaitsOn(k)

\* Mutants of Verdict: a board that only boots opens the gate; on OFF a mate that
\* timed out leaves it shut.
VerdictOnBooting(ph) ==
    IF state = "on"
    THEN IF ph \in OnReachable \cup {"booting"} THEN "ok"
         ELSE IF ph \in {"timeout", "error"} THEN "failed" ELSE "unset"
    ELSE IF ph \in {"offline", "timeout"} THEN "ok" ELSE "unset"
VerdictOfflineOnly(ph) ==
    IF state = "on"
    THEN IF ph \in OnReachable THEN "ok"
         ELSE IF ph \in {"timeout", "error"} THEN "failed" ELSE "unset"
    ELSE IF ph \in {"offline"} THEN "ok" ELSE "unset"

\* gate_emit: the verdict a phase gives, if any.
Verdict(ph) ==
    IF state = "on"
    THEN IF ph \in OnReachable THEN "ok"
         ELSE IF ph \in {"timeout", "error"} THEN "failed" ELSE "unset"
    ELSE IF ph \in {"offline", "timeout"} THEN "ok" ELSE "unset"

\* Mutant of Resolve: a later verdict replaces the first.
ResolveAgain(n, ph) ==
    gate' = [gate EXCEPT ![n] =
                IF Gated(n) /\ Verdict(ph) # "unset" THEN Verdict(ph) ELSE gate[n]]

\* _Gate.resolve: the first verdict stays.
Resolve(n, ph) ==
    gate' = [gate EXCEPT ![n] =
                IF Gated(n) /\ gate[n] = "unset" THEN Verdict(ph) ELSE gate[n]]

\* summarize, as the final `done` event reports it.
InPhase(ph) == {n \in act : states[n] = ph}
Done == InPhase(IF state = "on" THEN "serving" ELSE "offline")
Pending == Cardinality(act) - Cardinality(Done) - Cardinality(InPhase("timeout"))

-----------------------------------------------------------------------------
(* The request.                                                            *)

Ended == {"exited", "raised", "cancelled"}

\* power_stream and the head of watch: partition_never_sleep, the plan, the tasks.
Open(st, f, targets) ==
    /\ stream = "idle"
    /\ state' = st
    /\ force' = f
    /\ act' = IF st = "off" /\ ~f THEN targets \ NeverSleep ELSE targets
    /\ stream' = IF act' = {} THEN "done" ELSE "open"
    /\ task' = [n \in Node |-> IF n \in act' THEN "waiting" ELSE "none"]
    /\ states' = [n \in Node |-> IF n \in act'
                                 THEN (IF st = "on" THEN "waking" ELSE "stopping")
                                 ELSE "none"]
    /\ UNCHANGED <<power, late, gate, fired, revived>>

\* Mutant of Finish: the tasks still waiting at a gate are not awaited.
FinishFired ==
    /\ stream = "open"
    /\ \A n \in fired : task[n] \in Ended
    /\ stream' = "done"
    /\ UNCHANGED <<power, state, force, act, task, late, states, gate, fired, revived>>

\* sentinel: gather returns once every task has ended, raised ones included.
Finish ==
    /\ stream = "open"
    /\ \A n \in act : task[n] \in Ended
    /\ stream' = "done"
    /\ UNCHANGED <<power, state, force, act, task, late, states, gate, fired, revived>>

\* Mutant of Disconnect: only the tasks that poll are cancelled.
DisconnectPollers ==
    /\ stream = "open"
    /\ stream' = "closed"
    /\ task' = [n \in Node |-> IF n \in fired /\ task[n] \notin Ended
                               THEN "cancelled" ELSE task[n]]
    /\ UNCHANGED <<power, state, force, act, late, states, gate, fired, revived>>

\* The client goes away: the generator's finally cancels the tasks.  A power-off
\* already handed to an ssh process still reaches the boards it reaches.
Disconnect ==
    /\ stream = "open"
    /\ stream' = "closed"
    /\ task' = [n \in Node |-> IF n \in act /\ task[n] \notin Ended
                               THEN "cancelled" ELSE task[n]]
    /\ \E K \in SUBSET {n \in act : task[n] = "firing" /\ SshUp(n)} :
           power' = [n \in Node |-> IF n \in K THEN "halting" ELSE power[n]]
    /\ UNCHANGED <<state, force, act, late, states, gate, fired, revived>>

-----------------------------------------------------------------------------
(* run_node, fire and track_node.                                          *)

\* Mutant of GatesOpen: the first gate to open is enough.
SomeGateOpen(n) == WaitsOn(n) = {} \/ \E g \in WaitsOn(n) : gate[g] # "unset"
GatesOpen(n) == \A g \in WaitsOn(n) : gate[g] # "unset"

\* ON: fire sends the magic packet and the first poll starts, without an await
\* between them.  A packet that is lost, or that cannot be sent (the exception is
\* caught), leaves the board as it was.
Wake(n) ==
    /\ state = "on" /\ task[n] = "waiting"
    /\ GatesOpen(n)
    /\ \A g \in WaitsOn(n) : gate[g] = "ok"
    /\ task' = [task EXCEPT ![n] = "ssh"]
    /\ late' = [late EXCEPT ![n] = FALSE]
    /\ fired' = fired \cup {n}
    /\ power' \in {power, [power EXCEPT ![n] = IF @ = "off" THEN "booting" ELSE @]}
    /\ UNCHANGED <<request, states, gate, revived>>

\* ON: a gate gave up, the mate is not woken.
Block(n) ==
    /\ state = "on" /\ task[n] = "waiting"
    /\ GatesOpen(n)
    /\ \E g \in WaitsOn(n) : gate[g] # "ok"
    /\ states' = [states EXCEPT ![n] = "blocked"]
    /\ task' = [task EXCEPT ![n] = "exited"]
    /\ UNCHANGED <<request, power, late, gate, fired, revived>>

\* OFF: power_off_ssh is launched, or raises before there is anything to poll: its
\* exception ends the task.
PowerOff(n) ==
    /\ state = "off" /\ task[n] = "waiting"
    /\ GatesOpen(n)
    /\ \/ /\ n \in Faulty
          /\ task' = [task EXCEPT ![n] = "raised"]
          /\ UNCHANGED fired
       \/ /\ task' = [task EXCEPT ![n] = "firing"]
          /\ fired' = fired \cup {n}
    /\ UNCHANGED <<request, power, late, states, gate, revived>>

\* OFF: ssh returns; whether the command worked is ignored.
PowerOffReturns(n) ==
    /\ task[n] = "firing"
    /\ task' = [task EXCEPT ![n] = "ssh"]
    /\ late' = [late EXCEPT ![n] = FALSE]
    /\ power' \in {power, [power EXCEPT ![n] = IF SshUp(n) THEN "halting" ELSE @]}
    /\ UNCHANGED <<request, states, gate, fired, revived>>

\* track_node, the end of one poll that classified the node as ph.
Classified(n, ph) ==
    LET seen == IF late[n] /\ ph \notin Terminal THEN "timeout" ELSE ph IN
    /\ states' = [states EXCEPT ![n] = seen]
    /\ Resolve(n, seen)
    /\ task' = [task EXCEPT ![n] = IF seen \in Terminal THEN "exited" ELSE "sleeping"]

\* track_node: the ssh probe answers; /health is only asked when it connected.
SshProbed(n) ==
    /\ task[n] = "ssh"
    /\ \E up \in Report(n, SshUp(n)) :
           IF up
           THEN /\ task' = [task EXCEPT ![n] = "health"]
                /\ UNCHANGED <<states, gate>>
           ELSE Classified(n, IF state = "on" THEN "booting" ELSE "offline")
    /\ UNCHANGED <<request, power, late, fired, revived>>

\* track_node: /health answers 200 or not; phase_on or phase_off with sshd up.
HealthProbed(n) ==
    /\ task[n] = "health"
    /\ \E ok \in Report(n, power[n] = "serving") :
           Classified(n, IF state = "off" THEN "stopping"
                         ELSE IF ok THEN "serving" ELSE "loading")
    /\ UNCHANGED <<request, power, late, fired, revived>>

\* track_node: the sleep is over, the clock is read at the top of the next poll.
NextPoll(n, expired) ==
    /\ task[n] = "sleeping"
    /\ late' = [late EXCEPT ![n] = expired]
    /\ task' = [task EXCEPT ![n] = "ssh"]
    /\ UNCHANGED <<request, power, states, gate, fired, revived>>

-----------------------------------------------------------------------------
Init ==
    /\ power \in [Node -> PowerState]
    /\ stream = "idle" /\ state = "on" /\ force = FALSE /\ act = {}
    /\ task = [n \in Node |-> "none"]
    /\ late = [n \in Node |-> FALSE]
    /\ states = [n \in Node |-> "none"]
    /\ gate = [n \in Node |-> "unset"]
    /\ fired = {} /\ revived = {}

Hardware(n) == HwBoot(n) \/ HwServe(n) \/ HwStopServing(n) \/ HwHalted(n)

\* One resumption of node n's task.
RunNode(n) ==
    \/ Wake(n)
    \/ Block(n)
    \/ PowerOff(n)
    \/ PowerOffReturns(n)
    \/ SshProbed(n)
    \/ HealthProbed(n)
    \/ NextPoll(n, FALSE)
    \/ NextPoll(n, TRUE)


Next ==
    \/ \E st \in {"on", "off"}, f \in BOOLEAN, targets \in SUBSET Node : Open(st, f, targets)
    \/ Finish
    \/ Disconnect
    \/ \E n \in Node : RunNode(n)
    \/ \E n \in Node : Hardware(n)

Spec == Init /\ [][Next]_vars

\* The event loop resumes a task whose await is over; the polls of a node
\* that stays unsettled add up, so one of them reads a time past the budget.
Fairness ==
    /\ WF_vars(Finish)
    /\ \A n \in Node : WF_vars(RunNode(n)) /\ SF_vars(NextPoll(n, TRUE))

FairSpec == Spec /\ Fairness
-----------------------------------------------------------------------------
(* What the order is for.                                                  *)

TypeOK ==
    /\ power \in [Node -> PowerState]
    /\ stream \in {"idle", "open", "done", "closed"}
    /\ state \in {"on", "off"} /\ force \in BOOLEAN
    /\ act \in SUBSET Node
    /\ task \in [Node -> {"none", "waiting", "firing", "ssh", "health", "sleeping"} \cup Ended]
    /\ late \in [Node -> BOOLEAN]
    /\ states \in [Node -> {"none", "waking", "stopping", "booting", "loading",
                           "serving", "offline", "timeout", "blocked"}]
    /\ gate \in [Node -> {"unset", "ok", "failed"}]
    /\ fired \in SUBSET act
    /\ revived \in SUBSET Node

\* power.py:417-419 and README "first-to-wake": while this request brings a
\* chassis up, every mate it has woken has its fan controller running, whatever
\* the order in which probes, lost packets and timeouts fall.
MatesWokenUnderFans ==
    state = "on" => \A n \in fired : \A c \in WaitsOn(n) : SshUp(c)

\* power.py:417-419 and README "last-to-sleep": a fan controller is powered off
\* only by a forced request, and when it is, a mate of the request that runs all the
\* same was given up on, or was still booting when it was judged (a board without sshd
\* reads as offline, power.py:274), or its probe was wrong: nothing else lets the fans stop.
FansOutliveMates ==
    state = "off" =>
        \A c \in NeverSleep \cap fired :
            /\ force
            /\ \A m \in WaitsOn(c) :
                   SshUp(m) /\ m \notin Flaky => states[m] = "timeout" \/ m \in revived

\* run_node: a mate is reported blocked only if a fan controller it waited for
\* timed out, its gate failed, and then the request never woke it.
BlockedByDeadFans ==
    \A n \in Node : states[n] = "blocked" =>
        /\ n \notin fired
        /\ \E c \in WaitsOn(n) : gate[c] = "failed" /\ states[c] = "timeout"

\* sentinel and summarize: when `done` is sent every node has reached a terminal
\* phase, and `pending` counts just the nodes the request never commanded.
DoneMeansSettled ==
    stream = "done" =>
        /\ \A n \in fired : states[n] \in Terminal
        /\ \A n \in act \ fired : states[n] = "blocked" \/ n \in Faulty
        /\ Pending = Cardinality(act \ fired)

\* run_node and sentinel: a task waits only for one that goes on without it, so that the
\* request cannot stand still: the owner of a gate that is shut is at work, or free to
\* start.  The exception is an owner whose power-off could not be launched.
NobodyWaitsInVain ==
    \A n \in Node : task[n] = "waiting" =>
        \A g \in WaitsOn(n) : gate[g] = "unset" =>
            \/ task[g] \notin Ended /\ (task[g] = "waiting" => GatesOpen(g))
            \/ task[g] = "raised" /\ g \in Faulty

\* The generator's finally: once the client is gone no further node is woken or
\* powered off, the mates still waiting at a gate included.
NothingFiredAfterDisconnect == [][stream = "closed" => fired' = fired]_vars

\* The request implements the order it promises.
Order == INSTANCE PowerOrder WITH
    asked <- stream # "idle",
    strict <- state = "on",
    after <- [n \in Node |-> WaitsOn(n)],
    acted <- fired,
    verdict <- gate
OrderSpec == Order!OrderSpec

\* watch yields "a final `done`": when every mate's power-off can be launched, a request
\* ends, however many boards stay dark and whatever their probes say.
StreamEnds == stream = "open" ~> stream \in {"done", "closed"}

-----------------------------------------------------------------------------
(* What the texts claim and the code does not keep.                        *)

\* power.py:418-419 "and outlive them on a forced shutdown -- otherwise the mates
\* run with no cooling": no mate runs once its fan controller was told to stop.
FansOutliveEveryMate ==
    state = "off" => \A c \in NeverSleep \cap fired : \A m \in Rest(c) : ~SshUp(m)
=============================================================================
