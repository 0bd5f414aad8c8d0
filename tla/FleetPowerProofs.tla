-------------------------- MODULE FleetPowerProofs --------------------------
(***************************************************************************)
(* Proofs about FleetPower, for every fleet: type correctness, the two     *)
(* halves of the chassis order, the meaning of "blocked", and that a       *)
(* request implements PowerOrder.                                          *)
(***************************************************************************)
EXTENDS FleetPower, FiniteSetTheorems, TLAPS

(***************************************************************************)
(* The strengthening.  A task's place tells whether its node was           *)
(* commanded; a gate's verdict tells what its node's task saw; on ON no    *)
(* board is ever taken down, on OFF one that read as offline comes up only *)
(* if it was booting.                                                      *)
(***************************************************************************)
Polling == {"firing", "ssh", "health", "sleeping"}

IdleInv ==
    stream = "idle" => /\ act = {} /\ fired = {}
                       /\ \A n \in Node : /\ task[n] = "none" /\ states[n] = "none"
                                          /\ gate[n] = "unset"

TaskInv ==
    \A n \in Node :
        /\ task[n] # "none" => n \in act
        /\ task[n] \in Polling => n \in fired
        /\ task[n] \in {"waiting", "raised"} => n \notin fired
        /\ task[n] = "firing" => state = "off"
        /\ task[n] = "health" /\ state = "on" => SshUp(n)

VerdictInv ==
    \A n \in Node :
        /\ gate[n] # "unset" => n \in fired
        /\ gate[n] = "ok" /\ state = "on" => SshUp(n)
        /\ gate[n] = "failed" => state = "on" /\ states[n] = "timeout" /\ task[n] \notin Polling
        /\ gate[n] = "ok" /\ state = "off" =>
               states[n] \in {"offline", "timeout"} /\ task[n] \notin Polling

OffInv ==
    state = "off" => /\ ~force => act \cap NeverSleep = {}
                     /\ \A n \in Node :
                            states[n] = "offline" /\ n \notin Flaky \cup revived => ~SshUp(n)

FiredInv ==
    \A n \in fired : \A g \in WaitsOn(n) :
        IF state = "on" THEN gate[g] = "ok" ELSE gate[g] # "unset"

BlockedInv ==
    \A n \in Node : states[n] = "blocked" =>
        /\ n \notin fired /\ task[n] \in Ended
        /\ \E g \in WaitsOn(n) : gate[g] = "failed"

IInv == TypeOK /\ IdleInv /\ TaskInv /\ VerdictInv /\ OffInv /\ FiredInv /\ BlockedInv

-----------------------------------------------------------------------------
(* The order does not change once the request is made, and has one level.  *)

\* A step that leaves the request alone leaves the order of its nodes alone.
LEMMA WaitsOnStable ==
    ASSUME NEW n, UNCHANGED <<state, act>>
    PROVE  WaitsOn(n)' = WaitsOn(n)
BY DEF WaitsOn, Cooling, Rest, Mates

\* The order has one level: a node that is waited for waits for none (split_cooling).
LEMMA WaitsOnFlat ==
    ASSUME NEW n, NEW g \in WaitsOn(n)
    PROVE  g \in act /\ g # n /\ WaitsOn(g) = {}
BY DEF WaitsOn, Cooling, Rest, Mates

\* What the end of a poll does to a gate.
LEMMA ResolveCases ==
    ASSUME TypeOK, NEW n \in Node, NEW ph, Resolve(n, ph)
    PROVE  \/ gate' = gate
           \/ /\ gate[n] = "unset"
              /\ \/ gate' = [gate EXCEPT ![n] = "ok"] /\ Verdict(ph) = "ok"
                 \/ gate' = [gate EXCEPT ![n] = "failed"] /\ Verdict(ph) = "failed"
<1>1. gate \in [Node -> {"unset", "ok", "failed"}]
  BY DEF TypeOK
<1>2. Verdict(ph) \in {"unset", "ok", "failed"}
  BY DEF Verdict
<1>3. CASE Gated(n) /\ gate[n] = "unset"
  <2>1. gate' = [gate EXCEPT ![n] = Verdict(ph)]
    BY <1>3 DEF Resolve
  <2>2. Verdict(ph) = "unset" => gate' = gate
    BY <2>1, <1>1, <1>3
  <2> QED BY <2>1, <2>2, <1>2, <1>3
<1>4. CASE ~(Gated(n) /\ gate[n] = "unset")
  BY <1>4, <1>1 DEF Resolve
<1> QED BY <1>3, <1>4

-----------------------------------------------------------------------------
(* The invariant is inductive: one lemma per group of actions.             *)

\* Before any request no gate is judged and no node commanded.
LEMMA InitInv == Init => IInv
<1> SUFFICES ASSUME Init PROVE IInv
  OBVIOUS
<1>1. TypeOK
  BY DEF Init, TypeOK, PowerState, Ended
<1>2. IdleInv /\ TaskInv /\ VerdictInv /\ OffInv
  BY DEF Init, IdleInv, TaskInv, VerdictInv, OffInv, Polling
<1>3. FiredInv /\ BlockedInv
  BY DEF Init, FiredInv, BlockedInv
<1> QED BY <1>1, <1>2, <1>3 DEF IInv

\* Opening a request leaves every task at its gates.
LEMMA OpenInv ==
    ASSUME IInv, NEW st \in {"on", "off"}, NEW f \in BOOLEAN, NEW T \in SUBSET Node,
           Open(st, f, T)
    PROVE  IInv'
<1> USE DEF IInv, Open
<1>1. TypeOK'
  BY DEF TypeOK, IdleInv, Ended
<1>2. IdleInv' /\ TaskInv'
  BY DEF TypeOK, IdleInv, TaskInv, Polling
<1>3. VerdictInv' /\ FiredInv' /\ BlockedInv'
  BY DEF TypeOK, IdleInv, VerdictInv, FiredInv, BlockedInv
<1>4. OffInv'
  BY DEF TypeOK, IdleInv, OffInv
<1> QED BY <1>1, <1>2, <1>3, <1>4

\* The end of the stream changes no task and no gate.
LEMMA FinishInv == IInv /\ Finish => IInv'
<1> SUFFICES ASSUME IInv, Finish PROVE IInv'
  OBVIOUS
<1>1. \A n : WaitsOn(n)' = WaitsOn(n)
  BY WaitsOnStable DEF Finish
<1>2. TypeOK' /\ IdleInv' /\ TaskInv' /\ VerdictInv' /\ OffInv'
  BY DEF IInv, Finish, TypeOK, IdleInv, TaskInv, VerdictInv, OffInv, SshUp
<1>3. FiredInv' /\ BlockedInv'
  BY <1>1 DEF IInv, Finish, FiredInv, BlockedInv
<1> QED BY <1>2, <1>3 DEF IInv

\* The generator's finally stops tasks and at most halts boards on OFF.
LEMMA DisconnectInv == IInv /\ Disconnect => IInv'
<1> SUFFICES ASSUME IInv, Disconnect PROVE IInv'
  OBVIOUS
<1> USE DEF IInv
<1>1. \A n : WaitsOn(n)' = WaitsOn(n)
  BY WaitsOnStable DEF Disconnect
<1>2. PICK K \in SUBSET {n \in act : task[n] = "firing" /\ SshUp(n)} :
          power' = [n \in Node |-> IF n \in K THEN "halting" ELSE power[n]]
  BY DEF Disconnect
<1>3. TypeOK'
  BY <1>2 DEF Disconnect, TypeOK, PowerState, Ended
<1>4. IdleInv' /\ TaskInv'
  BY <1>2 DEF Disconnect, TypeOK, IdleInv, TaskInv, Polling, Ended, SshUp
<1>5. VerdictInv'
  BY <1>2 DEF Disconnect, TypeOK, TaskInv, VerdictInv, Polling, Ended, SshUp
<1>6. OffInv'
  BY <1>2 DEF Disconnect, TypeOK, OffInv, SshUp
<1>7. FiredInv' /\ BlockedInv'
  BY <1>1 DEF Disconnect, TypeOK, FiredInv, BlockedInv, Ended
<1> QED BY <1>3, <1>4, <1>5, <1>6, <1>7

\* A board that moves by itself never loses an sshd it had.
LEMMA HardwareInv ==
    ASSUME IInv, NEW n \in Node, Hardware(n)
    PROVE  IInv'
<1> USE DEF IInv
<1>1. \A k : WaitsOn(k)' = WaitsOn(k)
  BY WaitsOnStable DEF Hardware, HwBoot, HwServe, HwStopServing, HwHalted, HwMove, request
<1>2. TypeOK'
  BY DEF Hardware, HwBoot, HwServe, HwStopServing, HwHalted, HwMove, request, TypeOK,
     PowerState
<1>3. \A k \in Node : /\ SshUp(k) => SshUp(k)'
                      /\ k \in revived => k \in revived'
                      /\ states[k] = "offline" /\ ~SshUp(k) => ~SshUp(k)' \/ k \in revived'
  BY DEF Hardware, HwBoot, HwServe, HwStopServing, HwHalted, HwMove, SshUp, TypeOK
<1>4. UNCHANGED <<stream, state, force, act, task, late, states, gate, fired>>
  BY DEF Hardware, HwBoot, HwServe, HwStopServing, HwHalted, HwMove, request
<1>5. IdleInv' /\ TaskInv' /\ VerdictInv' /\ OffInv'
  BY <1>3, <1>4 DEF IdleInv, TaskInv, VerdictInv, OffInv
<1>6. FiredInv' /\ BlockedInv'
  BY <1>1, <1>4 DEF FiredInv, BlockedInv
<1> QED BY <1>2, <1>5, <1>6

\* Firing a node whose gates allow it (Wake, PowerOff, and the return of ssh).
LEMMA FireInv ==
    ASSUME IInv, NEW n \in Node, Wake(n) \/ PowerOff(n) \/ PowerOffReturns(n)
    PROVE  IInv'
<1> USE DEF IInv
<1>0. n \in act /\ stream # "idle"
  BY DEF Wake, PowerOff, PowerOffReturns, TaskInv, IdleInv
<1>1. \A k : WaitsOn(k)' = WaitsOn(k)
  BY WaitsOnStable DEF Wake, PowerOff, PowerOffReturns, request
<1>2. CASE Wake(n)
  <2>1. \A k \in Node : SshUp(k) => SshUp(k)'
    BY <1>2 DEF Wake, SshUp, TypeOK
  <2>2. TypeOK'
    BY <1>0, <1>2 DEF Wake, request, TypeOK, PowerState
  <2>3. IdleInv' /\ TaskInv' /\ VerdictInv'
    BY <1>0, <1>2, <2>1 DEF Wake, request, TypeOK, IdleInv, TaskInv, VerdictInv, Polling
  <2>4. OffInv'
    BY <1>2 DEF Wake, request, OffInv
  <2>5. FiredInv'
    BY <1>1, <1>2 DEF Wake, request, FiredInv
  <2>6. BlockedInv'
    BY <1>1, <1>2 DEF Wake, request, BlockedInv, TypeOK, Ended
  <2> QED BY <2>2, <2>3, <2>4, <2>5, <2>6
<1>3. CASE PowerOff(n)
  <2>2. TypeOK'
    BY <1>0, <1>3 DEF PowerOff, request, TypeOK, Ended
  <2>3. IdleInv' /\ TaskInv' /\ VerdictInv'
    BY <1>0, <1>3 DEF PowerOff, request, TypeOK, IdleInv, TaskInv, VerdictInv, Polling, SshUp
  <2>4. OffInv'
    BY <1>3 DEF PowerOff, request, OffInv, SshUp
  <2>5. FiredInv'
    BY <1>1, <1>3 DEF PowerOff, request, FiredInv, GatesOpen
  <2>6. BlockedInv'
    BY <1>1, <1>3 DEF PowerOff, request, BlockedInv, TypeOK, Ended
  <2> QED BY <2>2, <2>3, <2>4, <2>5, <2>6
<1>4. CASE PowerOffReturns(n)
  <2>1. \A k \in Node : ~SshUp(k) => ~SshUp(k)'
    BY <1>4 DEF PowerOffReturns, SshUp, TypeOK
  <2>2. TypeOK' /\ state = "off"
    BY <1>4 DEF PowerOffReturns, request, TypeOK, PowerState, TaskInv
  <2>3. IdleInv' /\ TaskInv' /\ VerdictInv'
    BY <1>0, <1>4, <2>2 DEF PowerOffReturns, request, TypeOK, IdleInv, TaskInv, VerdictInv,
       Polling
  <2>4. OffInv'
    BY <1>4, <2>1 DEF PowerOffReturns, request, OffInv
  <2>5. FiredInv' /\ BlockedInv'
    BY <1>1, <1>4 DEF PowerOffReturns, request, FiredInv, BlockedInv, TypeOK, Ended
  <2> QED BY <2>2, <2>3, <2>4, <2>5
<1> QED BY <1>2, <1>3, <1>4

\* A blocked mate was never commanded, and the gate that failed stays failed.
LEMMA BlockInv ==
    ASSUME IInv, NEW n \in Node, Block(n)
    PROVE  IInv'
<1> USE DEF IInv, Block, request
<1>1. \A k : WaitsOn(k)' = WaitsOn(k)
  BY WaitsOnStable
<1>2. PICK g \in WaitsOn(n) : gate[g] = "failed"
  <2>1. PICK g \in WaitsOn(n) : gate[g] # "ok" /\ gate[g] # "unset"
    BY DEF GatesOpen
  <2>2. g \in Node
    BY WaitsOnFlat DEF TypeOK
  <2> QED BY <2>1, <2>2 DEF TypeOK
<1>3. TypeOK' /\ IdleInv' /\ TaskInv' /\ OffInv' /\ n \notin fired
  BY DEF TypeOK, IdleInv, TaskInv, OffInv, Polling, SshUp, Ended
<1>4. VerdictInv'
  BY DEF TypeOK, TaskInv, VerdictInv, SshUp, Polling
<1>5. FiredInv'
  BY <1>1 DEF FiredInv
<1>6. BlockedInv'
  BY <1>1, <1>2, <1>3 DEF BlockedInv, TypeOK, Ended
<1> QED BY <1>3, <1>4, <1>5, <1>6

\* A poll ends with a phase ph: what SshProbed and HealthProbed have in common.
\* On ON a reachable phase was seen on a board that is up, and on OFF "offline"
\* was seen on one that is down.
LEMMA ClassifiedInv ==
    ASSUME IInv, NEW n \in Node, NEW ph,
           task[n] \in {"ssh", "health"},
           Classified(n, ph),
           UNCHANGED <<stream, state, force, act, power, late, fired, revived>>,
           IF state = "on"
           THEN /\ ph \in {"booting", "loading", "serving"}
                /\ ph # "booting" => SshUp(n)
           ELSE /\ ph \in {"stopping", "offline"}
                /\ ph = "offline" /\ n \notin Flaky => ~SshUp(n)
    PROVE  IInv'
<1> USE DEF IInv
<1> DEFINE seen == IF late[n] /\ ph \notin Terminal THEN "timeout" ELSE ph
<1>1. \A k : WaitsOn(k)' = WaitsOn(k)
  BY WaitsOnStable
<1>2. /\ states' = [states EXCEPT ![n] = seen]
      /\ Resolve(n, seen)
      /\ task' = [task EXCEPT ![n] = IF seen \in Terminal THEN "exited" ELSE "sleeping"]
  BY DEF Classified
<1>3. n \in fired /\ n \in act /\ stream # "idle"
  BY DEF TaskInv, IdleInv, Polling
<1>4. /\ seen \in {"booting", "loading", "serving", "stopping", "offline", "timeout"}
      /\ seen \in {"timeout", "serving", "offline"} => seen \in Terminal
      /\ state = "on" /\ seen \in {"loading", "serving"} => SshUp(n)
      /\ state = "off" /\ seen = "offline" /\ n \notin Flaky => ~SshUp(n)
  BY DEF Terminal
<1> HIDE DEF seen
<1>5. gate' \in [Node -> {"unset", "ok", "failed"}]
  <2>1. Verdict(seen) \in {"unset", "ok", "failed"}
    BY DEF Verdict
  <2> QED BY <1>2, <2>1, ResolveCases DEF TypeOK
<1>6. TypeOK'
  BY <1>2, <1>4, <1>5 DEF TypeOK, Ended
<1>7. IdleInv' /\ TaskInv'
  BY <1>2, <1>3 DEF IdleInv, TaskInv, TypeOK, Polling, SshUp
<1>8. \A k \in Node : gate[k] # "unset" => gate'[k] = gate[k]
  BY <1>2, ResolveCases DEF TypeOK
<1>9. VerdictInv'
  <2>1. gate[n] = "unset" \/ (gate[n] = "ok" /\ state = "on")
    BY DEF VerdictInv, TypeOK, Polling
  <2>2. \/ gate'[n] = gate[n]
        \/ gate'[n] = "ok" /\ Verdict(seen) = "ok"
        \/ gate'[n] = "failed" /\ Verdict(seen) = "failed"
    BY <1>2, ResolveCases DEF TypeOK
  <2>3. \A k \in Node \ {n} : gate'[k] = gate[k] /\ states'[k] = states[k] /\ task'[k] = task[k]
    BY <1>2, ResolveCases DEF TypeOK
  <2>4. Verdict(seen) = "ok" =>
           IF state = "on" THEN SshUp(n)
           ELSE seen \in {"offline", "timeout"} /\ seen \in Terminal
    BY <1>4 DEF Verdict, OnReachable
  <2>5. Verdict(seen) = "failed" => state = "on" /\ seen = "timeout" /\ seen \in Terminal
    BY <1>4 DEF Verdict
  <2>6. states'[n] = seen /\ (seen \in Terminal => task'[n] = "exited")
    BY <1>2 DEF TypeOK
  <2>7. \A k \in Node : SshUp(k)' = SshUp(k)
    BY DEF SshUp
  <2> SUFFICES ASSUME NEW k \in Node
               PROVE  /\ gate'[k] # "unset" => k \in fired
                      /\ gate'[k] = "ok" /\ state = "on" => SshUp(k)
                      /\ gate'[k] = "failed" =>
                            state = "on" /\ states'[k] = "timeout" /\ task'[k] \notin Polling
                      /\ gate'[k] = "ok" /\ state = "off" =>
                            states'[k] \in {"offline", "timeout"} /\ task'[k] \notin Polling
    BY <2>7 DEF VerdictInv
  <2>8. CASE k # n
    BY <2>3, <2>8 DEF VerdictInv
  <2>9. CASE k = n
    BY <2>1, <2>2, <2>4, <2>5, <2>6, <1>3, <2>9 DEF VerdictInv, Polling, TypeOK
  <2> QED BY <2>8, <2>9
<1>10. OffInv'
  BY <1>2, <1>4 DEF OffInv, TypeOK, SshUp
<1>11. FiredInv'
  BY <1>1, <1>8, WaitsOnFlat DEF FiredInv, TypeOK
<1>12. BlockedInv'
  <2> SUFFICES ASSUME NEW k \in Node, states'[k] = "blocked"
               PROVE  /\ k \notin fired /\ task'[k] \in Ended
                      /\ \E g \in WaitsOn(k) : gate'[g] = "failed"
    BY <1>1 DEF BlockedInv
  <2>1. k # n /\ states[k] = "blocked" /\ task'[k] = task[k]
    BY <1>2, <1>4 DEF TypeOK
  <2>2. PICK g \in WaitsOn(k) : gate[g] = "failed"
    BY <2>1 DEF BlockedInv
  <2>3. gate'[g] = "failed"
    BY <2>2, <1>8, WaitsOnFlat DEF TypeOK
  <2> QED BY <2>1, <2>2, <2>3 DEF BlockedInv
<1> QED BY <1>6, <1>7, <1>9, <1>10, <1>11, <1>12

\* Both probes of a poll end in a classification the boards justify.
LEMMA ProbeInv ==
    ASSUME IInv, NEW n \in Node, SshProbed(n) \/ HealthProbed(n)
    PROVE  IInv'
<1> USE DEF IInv
<1>1. CASE SshProbed(n)
  <2>1. PICK up \in Report(n, SshUp(n)) :
            IF up THEN task' = [task EXCEPT ![n] = "health"] /\ UNCHANGED <<states, gate>>
            ELSE Classified(n, IF state = "on" THEN "booting" ELSE "offline")
    BY <1>1 DEF SshProbed
  <2>2. (up => SshUp(n)) /\ (~up /\ n \notin Flaky => ~SshUp(n)) /\ up \in BOOLEAN
    <3>1. SshUp(n) \in BOOLEAN
      BY DEF SshUp
    <3>2. up = SshUp(n) \/ (up = FALSE /\ n \in Flaky)
      BY <2>1 DEF Report
    <3> QED BY <3>1, <3>2
  <2>3. task[n] = "ssh" /\ UNCHANGED <<stream, state, force, act, power, late, fired, revived>>
    BY <1>1 DEF SshProbed, request
  <2>4. CASE up
    <3>1. \A k : WaitsOn(k)' = WaitsOn(k)
      BY <2>3, WaitsOnStable
    <3>2. n \in fired /\ n \in act /\ stream # "idle"
      BY <2>3 DEF TaskInv, IdleInv, Polling
    <3>3. TypeOK' /\ IdleInv' /\ TaskInv' /\ OffInv'
      BY <2>1, <2>2, <2>3, <2>4, <3>2 DEF TypeOK, IdleInv, TaskInv, OffInv, SshUp, Polling
    <3>4. VerdictInv' /\ FiredInv' /\ BlockedInv'
      BY <2>1, <2>3, <2>4, <3>1, <3>2 DEF VerdictInv, FiredInv, BlockedInv, TypeOK, SshUp,
         Polling, Ended
    <3> QED BY <3>3, <3>4
  <2>5. CASE ~up
    <3>1. Classified(n, IF state = "on" THEN "booting" ELSE "offline")
      BY <2>1, <2>5
    <3> QED BY <2>2, <2>3, <2>5, <3>1, ClassifiedInv
  <2> QED BY <2>2, <2>4, <2>5
<1>2. CASE HealthProbed(n)
  <2>1. PICK ok \in Report(n, power[n] = "serving") :
            Classified(n, IF state = "off" THEN "stopping"
                          ELSE IF ok THEN "serving" ELSE "loading")
    BY <1>2 DEF HealthProbed
  <2>2. task[n] = "health" /\ UNCHANGED <<stream, state, force, act, power, late, fired, revived>>
    BY <1>2 DEF HealthProbed, request
  <2>3. state = "on" => SshUp(n)
    BY <2>2 DEF TaskInv
  <2>4. state \in {"on", "off"}
    BY DEF TypeOK
  <2> QED BY <2>1, <2>2, <2>3, <2>4, ClassifiedInv
<1> QED BY <1>1, <1>2

\* Reading the clock for the next poll touches no gate.
LEMMA PollInv ==
    ASSUME IInv, NEW n \in Node, NEW e \in BOOLEAN, NextPoll(n, e)
    PROVE  IInv'
<1> USE DEF IInv, NextPoll, request
<1>1. \A k : WaitsOn(k)' = WaitsOn(k)
  BY WaitsOnStable
<1>2. n \in fired /\ n \in act /\ stream # "idle"
  BY DEF TaskInv, IdleInv, Polling
<1>3. TypeOK' /\ IdleInv' /\ TaskInv' /\ OffInv'
  BY <1>2 DEF TypeOK, IdleInv, TaskInv, OffInv, SshUp, Polling
<1>4. VerdictInv' /\ FiredInv' /\ BlockedInv'
  BY <1>1, <1>2 DEF VerdictInv, FiredInv, BlockedInv, TypeOK, SshUp, Polling, Ended
<1> QED BY <1>3, <1>4

\* Every step of the specification preserves the invariant.
LEMMA StepInv == IInv /\ [Next]_vars => IInv'
<1> SUFFICES ASSUME IInv, [Next]_vars PROVE IInv'
  OBVIOUS
<1>1. ASSUME NEW st \in {"on", "off"}, NEW f \in BOOLEAN, NEW T \in SUBSET Node, Open(st, f, T)
      PROVE  IInv'
  BY <1>1, OpenInv
<1>2. CASE Finish
  BY <1>2, FinishInv
<1>3. CASE Disconnect
  BY <1>3, DisconnectInv
<1>4. ASSUME NEW n \in Node, RunNode(n) PROVE IInv'
  BY <1>4, FireInv, BlockInv, ProbeInv, PollInv DEF RunNode
<1>5. ASSUME NEW n \in Node, Hardware(n) PROVE IInv'
  BY <1>5, HardwareInv
<1>6. CASE UNCHANGED vars
  BY <1>6 DEF vars, IInv, TypeOK, IdleInv, TaskInv, VerdictInv, OffInv, FiredInv, BlockedInv,
     SshUp, WaitsOn, Cooling, Rest, Mates
<1> QED BY <1>1, <1>2, <1>3, <1>4, <1>5, <1>6 DEF Next

\* The invariant holds of every request over every fleet.
THEOREM Inductive == Spec => []IInv
BY InitInv, StepInv, PTL DEF Spec

-----------------------------------------------------------------------------
(* What follows from it.                                                   *)

\* TypeOK holds for every fleet, with any flaky and faulty nodes in it.
THEOREM TypeCorrect == Spec => []TypeOK
<1>1. IInv => TypeOK
  BY DEF IInv
<1> QED BY <1>1, Inductive, PTL

\* A mate woken by a request has its fan controllers running, for every fleet.
THEOREM FansBeforeMates == Spec => []MatesWokenUnderFans
<1>1. IInv => MatesWokenUnderFans
  BY WaitsOnFlat DEF IInv, TypeOK, FiredInv, VerdictInv, MatesWokenUnderFans
<1> QED BY <1>1, Inductive, PTL

\* A forced power-off takes the fan controllers last, for every fleet: whatever board was
\* booting or halting when it came, a mate that runs without them timed out, was misread, or
\* came up only after it was judged.
THEOREM FansAfterMates == Spec => []FansOutliveMates
<1>1. IInv => FansOutliveMates
  <2> SUFFICES ASSUME IInv, state = "off", NEW c \in NeverSleep \cap fired
               PROVE  /\ force
                      /\ \A m \in WaitsOn(c) : SshUp(m) /\ m \notin Flaky =>
                             states[m] = "timeout" \/ m \in revived
    BY DEF FansOutliveMates
  <2>1. force
    BY DEF IInv, TypeOK, OffInv
  <2>2. ASSUME NEW m \in WaitsOn(c), SshUp(m), m \notin Flaky
        PROVE  states[m] = "timeout" \/ m \in revived
    <3>1. m \in Node /\ gate[m] # "unset"
      BY WaitsOnFlat DEF IInv, TypeOK, FiredInv
    <3>2. gate[m] = "ok"
      BY <3>1 DEF IInv, TypeOK, VerdictInv
    <3>3. states[m] \in {"offline", "timeout"}
      BY <3>1, <3>2 DEF IInv, VerdictInv
    <3> QED BY <2>2, <3>1, <3>3 DEF IInv, OffInv
  <2> QED BY <2>1, <2>2
<1> QED BY <1>1, Inductive, PTL

\* A blocked mate waited for a fan controller that timed out, for every fleet.
THEOREM BlockedMeansDeadFans == Spec => []BlockedByDeadFans
<1>1. IInv => BlockedByDeadFans
  BY WaitsOnFlat DEF IInv, TypeOK, BlockedInv, VerdictInv, BlockedByDeadFans
<1> QED BY <1>1, Inductive, PTL

\* Every step of a request is a step of the order it promises, or none of it: a
\* mate is commanded after the verdicts it needs, and no verdict is taken back.
THEOREM ImplementsOrder == Spec => OrderSpec
<1>1. Init => Order!OrderInit
  BY FleetAssumption DEF Init, Order!OrderInit, WaitsOn, Cooling, Rest, Mates
<1>2. IInv /\ [Next]_vars => [Order!OrderNext]_(Order!ordvars)
  <2> SUFFICES ASSUME IInv, [Next]_vars
               PROVE  [Order!OrderNext]_(Order!ordvars)
    OBVIOUS
  <2> USE DEF IInv
  <2>1. ASSUME NEW st \in {"on", "off"}, NEW f \in BOOLEAN, NEW T \in SUBSET Node, Open(st, f, T)
        PROVE  Order!Ask
    <3>1. \A n \in Node : WaitsOn(n)' \in SUBSET Node
      BY <2>1 DEF Open, WaitsOn, Cooling, Rest, Mates
    <3>2. \A n \in Node : \A k \in WaitsOn(n)' : WaitsOn(k)' = {}
      BY DEF WaitsOn, Cooling, Rest, Mates
    <3> QED BY <2>1, <3>1, <3>2 DEF Open, Order!Ask
  <2>2. ASSUME UNCHANGED <<state, act, fired, gate>>, (stream = "idle") = (stream' = "idle")
        PROVE  UNCHANGED Order!ordvars
    BY <2>2, WaitsOnStable DEF Order!ordvars
  <2>3. ASSUME NEW n \in Node, Wake(n) \/ PowerOff(n)
        PROVE  Order!Command(n) \/ UNCHANGED Order!ordvars
    <3>1. UNCHANGED <<state, act, stream, gate>> /\ stream # "idle" /\ n \notin fired
      BY <2>3 DEF Wake, PowerOff, request, TaskInv, IdleInv
    <3>2. fired' = fired \cup {n} \/ fired' = fired
      BY <2>3 DEF Wake, PowerOff
    <3>3. \A k \in WaitsOn(n) : IF state = "on" THEN gate[k] = "ok" ELSE gate[k] # "unset"
      BY <2>3 DEF Wake, PowerOff, GatesOpen
    <3> QED BY <3>1, <3>2, <3>3, <2>2, WaitsOnStable DEF Order!Command
  <2>4. ASSUME NEW n \in Node, SshProbed(n) \/ HealthProbed(n)
        PROVE  Order!Judge(n) \/ UNCHANGED Order!ordvars
    <3>1. UNCHANGED <<state, act, stream, fired>> /\ n \in fired
      BY <2>4 DEF SshProbed, HealthProbed, request, TaskInv, Polling
    <3>2. gate' = gate \/ \E ph : Resolve(n, ph)
      BY <2>4 DEF SshProbed, HealthProbed, Classified
    <3>3. \/ gate' = gate
          \/ gate[n] = "unset" /\ \E v \in {"ok", "failed"} : gate' = [gate EXCEPT ![n] = v]
      BY <3>2, ResolveCases
    <3> QED BY <3>1, <3>3, <2>2, WaitsOnStable DEF Order!Judge
  <2>5. CASE Next
    <3>1. ASSUME NEW n \in Node, RunNode(n) PROVE Order!OrderNext \/ UNCHANGED Order!ordvars
      <4>1. CASE Wake(n) \/ PowerOff(n)
        BY <4>1, <2>3 DEF Order!OrderNext
      <4>2. CASE SshProbed(n) \/ HealthProbed(n)
        BY <4>2, <2>4 DEF Order!OrderNext
      <4>3. CASE Block(n) \/ PowerOffReturns(n) \/ NextPoll(n, FALSE) \/ NextPoll(n, TRUE)
        BY <4>3, <2>2 DEF Block, PowerOffReturns, NextPoll, request
      <4> QED BY <3>1, <4>1, <4>2, <4>3 DEF RunNode
    <3>2. ASSUME NEW n \in Node, Hardware(n) PROVE UNCHANGED Order!ordvars
      BY <3>2, <2>2 DEF Hardware, HwBoot, HwServe, HwStopServing, HwHalted, HwMove, request
    <3>3. CASE Finish \/ Disconnect
      BY <3>3, <2>2 DEF Finish, Disconnect
    <3> QED BY <2>1, <2>5, <3>1, <3>2, <3>3 DEF Next, Order!OrderNext
  <2>6. CASE UNCHANGED vars
    BY <2>6, <2>2 DEF vars
  <2> QED BY <2>5, <2>6
<1> QED BY <1>1, <1>2, Inductive, PTL DEF Spec, OrderSpec, Order!OrderSpec

-----------------------------------------------------------------------------
(***************************************************************************)
(* How a request ends.  Each task ends for a reason of its own, and once   *)
(* the request is over no task is left that could fire.                    *)
(***************************************************************************)
SettleInv ==
    /\ stream \in {"done", "closed"} => \A n \in act : task[n] \in Ended
    /\ \A n \in Node :
           /\ n \in act \ fired => states[n] \in {"waking", "stopping", "blocked"}
           /\ task[n] = "exited" => states[n] \in Terminal \cup {"blocked"}
           /\ task[n] = "raised" => n \in Faulty
           /\ task[n] = "cancelled" => stream = "closed"

\* Every step keeps it.
LEMMA SettleStep == IInv /\ SettleInv /\ [Next]_vars => SettleInv'
<1> SUFFICES ASSUME IInv, SettleInv, [Next]_vars PROVE SettleInv'
  OBVIOUS
<1> USE DEF request
<1>1. ASSUME NEW st \in {"on", "off"}, NEW f \in BOOLEAN, NEW T \in SUBSET Node, Open(st, f, T)
      PROVE  SettleInv'
  BY <1>1 DEF Open, SettleInv, IInv, IdleInv, Ended
<1>2. CASE Finish
  BY <1>2 DEF Finish, SettleInv, Terminal
<1>3. CASE Disconnect
  BY <1>3 DEF Disconnect, SettleInv, Terminal, Ended, IInv, TypeOK
<1>4. ASSUME NEW n \in Node, Wake(n) \/ PowerOff(n) \/ PowerOffReturns(n)
             \/ (\E e \in BOOLEAN : NextPoll(n, e))
      PROVE  SettleInv'
  <2>1. task[n] \in {"waiting", "firing", "sleeping"} /\ n \in act
    BY <1>4 DEF Wake, PowerOff, PowerOffReturns, NextPoll, IInv, TaskInv
  <2>2. UNCHANGED <<stream, state, act, states>> /\ fired \subseteq fired'
    BY <1>4 DEF Wake, PowerOff, PowerOffReturns, NextPoll
  <2>3. /\ task'[n] \in {"ssh", "firing", "raised"}
        /\ task'[n] = "raised" => n \in Faulty
        /\ \A k \in Node : k # n => task'[k] = task[k]
    BY <1>4 DEF Wake, PowerOff, PowerOffReturns, NextPoll, IInv, TypeOK
  <2>4. stream \notin {"done", "closed"}
    BY <2>1 DEF SettleInv, Ended
  <2> QED
    BY <2>2, <2>3, <2>4 DEF SettleInv, Terminal
<1>5. ASSUME NEW n \in Node, Block(n) PROVE SettleInv'
  BY <1>5 DEF Block, SettleInv, Terminal, IInv, TypeOK, TaskInv, Ended
<1>6. ASSUME NEW n \in Node, NEW ph, Classified(n, ph), task[n] \in {"ssh", "health"},
             UNCHANGED <<stream, state, act, fired>>
      PROVE  SettleInv'
  <2>1. n \in act /\ n \in fired
    BY <1>6 DEF IInv, TaskInv, Polling
  <2>2. stream \notin {"done", "closed"}
    BY <1>6, <2>1 DEF SettleInv, Ended
  <2>3. /\ task'[n] \in {"exited", "sleeping"}
        /\ task'[n] = "exited" => states'[n] \in Terminal
        /\ \A k \in Node : k # n => task'[k] = task[k] /\ states'[k] = states[k]
    BY <1>6 DEF Classified, IInv, TypeOK
  <2> QED
    BY <1>6, <2>1, <2>2, <2>3 DEF SettleInv, Terminal
<1>7. ASSUME NEW n \in Node, SshProbed(n) PROVE SettleInv'
  <2>1. /\ UNCHANGED <<stream, state, act, fired>> /\ task[n] = "ssh" /\ n \in act
    BY <1>7 DEF SshProbed, IInv, TaskInv
  <2>2. CASE task' = [task EXCEPT ![n] = "health"] /\ UNCHANGED states
    BY <2>1, <2>2 DEF SettleInv, Terminal, Ended, IInv, TypeOK
  <2>3. CASE \E ph : Classified(n, ph)
    BY <2>1, <2>3, <1>6
  <2> QED
    BY <1>7, <2>2, <2>3 DEF SshProbed
<1>8. ASSUME NEW n \in Node, HealthProbed(n) PROVE SettleInv'
  BY <1>6, <1>8 DEF HealthProbed
<1>9. CASE \/ UNCHANGED vars
           \/ \E n \in Node : Hardware(n)
  BY <1>9 DEF vars, Hardware, HwBoot, HwServe, HwStopServing, HwHalted, HwMove, SettleInv, Terminal
<1> QED
  BY <1>1, <1>2, <1>3, <1>4, <1>5, <1>7, <1>8, <1>9 DEF Next, RunNode

\* It holds of every request over every fleet.
LEMMA Settles == Spec => []SettleInv
<1>1. Init => SettleInv
  BY DEF Init, SettleInv
<1> QED
  BY <1>1, SettleStep, Inductive, PTL DEF Spec

\* The summary sent with `done` is right for every fleet: every commanded node has settled,
\* the others were blocked or could not be commanded, and `pending` counts just those.
THEOREM DoneIsSettled == Spec => []DoneMeansSettled
<1>1. IInv /\ SettleInv => DoneMeansSettled
  <2> SUFFICES ASSUME IInv, SettleInv, stream = "done" PROVE DoneMeansSettled
    BY DEF DoneMeansSettled
  <2>1. fired \subseteq act /\ act \subseteq Node
    BY DEF IInv, TypeOK
  <2>2. \A n \in act : task[n] \in {"exited", "raised"}
    BY <2>1 DEF SettleInv, Ended
  <2>3. \A n \in fired : states[n] \in Terminal
    BY <2>1, <2>2 DEF SettleInv, IInv, TaskInv, BlockedInv
  <2>4. \A n \in act \ fired : states[n] = "blocked" \/ n \in Faulty
    BY <2>1, <2>2 DEF SettleInv, Terminal
  <2>5. \A n \in act \ fired : states[n] \notin Terminal
    BY <2>1 DEF SettleInv, Terminal
  <2>6. Pending = Cardinality(act \ fired)
    <3>1. IsFiniteSet(act) /\ IsFiniteSet(fired)
      BY <2>1, FleetAssumption, FS_Subset
    <3> DEFINE D == Done  T == InPhase("timeout")
    <3>2. D \cup T = fired /\ D \cap T = {}
      BY <2>1, <2>3, <2>5 DEF Done, InPhase, Terminal
    <3>3. Pending = Cardinality(act) - Cardinality(D) - Cardinality(T)
      BY DEF Pending
    <3> HIDE DEF D, T
    <3>4. IsFiniteSet(D) /\ IsFiniteSet(T)
      BY <3>1, <3>2, FS_Subset
    <3>5. Cardinality(fired) = Cardinality(D) + Cardinality(T)
      <4>1. Cardinality(D \cup T) = Cardinality(D) + Cardinality(T) - Cardinality(D \cap T)
        BY <3>4, FS_Union
      <4>2. Cardinality(D \cap T) = 0
        BY <3>2, FS_EmptySet
      <4>3. Cardinality(D) \in Nat /\ Cardinality(T) \in Nat
        BY <3>4, FS_CardinalityType
      <4>4. Cardinality(fired) = Cardinality(D \cup T)
        BY <3>2
      <4> QED
        BY <4>1, <4>2, <4>3, <4>4
    <3>6. Cardinality(act \ fired) = Cardinality(act) - Cardinality(fired)
      <4>1. act \cap fired = fired
        BY <2>1
      <4> QED
        BY <3>1, <4>1, FS_Difference
    <3>7. /\ Cardinality(act) \in Nat /\ Cardinality(D) \in Nat /\ Cardinality(T) \in Nat
      BY <3>1, <3>4, FS_CardinalityType
    <3> QED
      BY <3>3, <3>5, <3>6, <3>7
  <2> QED
    BY <2>3, <2>4, <2>6 DEF DoneMeansSettled
<1> QED
  BY <1>1, Inductive, Settles, PTL

\* Once the client is gone no further node of any fleet is woken or powered off.
THEOREM NothingFiredAfter == Spec => NothingFiredAfterDisconnect
<1>1. IInv /\ SettleInv /\ [Next]_vars => [stream = "closed" => fired' = fired]_vars
  <2> SUFFICES ASSUME IInv, SettleInv, Next, stream = "closed" PROVE fired' = fired
    OBVIOUS
  <2>1. ASSUME NEW n \in Node, task[n] = "waiting" PROVE FALSE
    BY <2>1 DEF IInv, TaskInv, SettleInv, Ended
  <2> QED
    BY <2>1 DEF Next, RunNode, Wake, Block, PowerOff, PowerOffReturns, SshProbed, HealthProbed,
       NextPoll, Hardware, HwBoot, HwServe, HwStopServing, HwHalted, HwMove, Open, Finish, Disconnect
<1> QED
  BY <1>1, Inductive, Settles, PTL DEF Spec, NothingFiredAfterDisconnect

-----------------------------------------------------------------------------
(* A gate is not left shut: a task that ends at its goal or its timeout has *)
(* judged it.                                                               *)

LatchInv == \A n \in Node : Gated(n) /\ task[n] = "exited" => gate[n] # "unset"

\* A verdict stays, and the poll that ends a task gives one.
LEMMA LatchStep == IInv /\ SettleInv /\ LatchInv /\ [Next]_vars => LatchInv'
<1> SUFFICES ASSUME IInv, SettleInv, LatchInv, [Next]_vars PROVE LatchInv'
  OBVIOUS
<1> USE DEF request
<1>1. ASSUME NEW st \in {"on", "off"}, NEW f \in BOOLEAN, NEW T \in SUBSET Node, Open(st, f, T)
      PROVE  LatchInv'
  BY <1>1 DEF Open, LatchInv
<1>2. ASSUME UNCHANGED <<state, act>> PROVE \A n : Gated(n)' = Gated(n)
  BY <1>2, WaitsOnStable DEF Gated
<1>3. ASSUME UNCHANGED <<state, act, gate>>,
             \A n \in Node : task'[n] = "exited" => task[n] = "exited" \/ ~Gated(n)
      PROVE  LatchInv'
  BY <1>2, <1>3 DEF LatchInv
<1>4. ASSUME Finish \/ Disconnect PROVE LatchInv'
  <2>1. UNCHANGED <<state, act, gate>>
    BY <1>4 DEF Finish, Disconnect
  <2>2. \A n \in Node : task'[n] = "exited" => task[n] = "exited"
    BY <1>4 DEF Finish, Disconnect
  <2> QED
    BY <2>1, <2>2, <1>3
<1>5. ASSUME NEW n \in Node, Wake(n) \/ PowerOff(n) \/ PowerOffReturns(n)
             \/ (\E e \in BOOLEAN : NextPoll(n, e))
      PROVE  LatchInv'
  <2>1. UNCHANGED <<state, act, gate>>
    BY <1>5 DEF Wake, PowerOff, PowerOffReturns, NextPoll
  <2>2. \A k \in Node : task'[k] = "exited" => task[k] = "exited"
    BY <1>5 DEF Wake, PowerOff, PowerOffReturns, NextPoll, IInv, TypeOK
  <2> QED
    BY <2>1, <2>2, <1>3
<1>6. ASSUME NEW n \in Node, Block(n) PROVE LatchInv'
  <2>1. WaitsOn(n) # {}
    BY <1>6 DEF Block
  <2>2. ~Gated(n)
    BY <2>1, WaitsOnFlat DEF Gated
  <2>3. \A k \in Node : task'[k] = "exited" => task[k] = "exited" \/ k = n
    BY <1>6 DEF Block, IInv, TypeOK
  <2> QED
    BY <1>6, <2>2, <2>3, <1>3 DEF Block
<1>7. ASSUME NEW n \in Node, NEW ph, Classified(n, ph), UNCHANGED <<state, act>>
      PROVE  LatchInv'
  <2>1. /\ \A k \in Node : k # n => task'[k] = task[k] /\ gate'[k] = gate[k]
        /\ gate[n] # "unset" => gate'[n] # "unset"
    BY <1>7 DEF Classified, Resolve, IInv, TypeOK
  <2>2. ASSUME task'[n] = "exited", Gated(n) PROVE gate'[n] # "unset"
    <3> DEFINE seen == IF late[n] /\ ph \notin Terminal THEN "timeout" ELSE ph
    <3>1. seen \in Terminal /\ Resolve(n, seen)
      BY <1>7, <2>2 DEF Classified, IInv, TypeOK
    <3>2. Verdict(seen) # "unset"
      BY <3>1 DEF Verdict, Terminal, OnReachable
    <3> HIDE DEF seen
    <3> QED
      BY <2>1, <2>2, <3>1, <3>2 DEF Resolve, IInv, TypeOK
  <2> QED
    BY <1>2, <1>7, <2>1, <2>2 DEF LatchInv
<1>8. ASSUME NEW n \in Node, SshProbed(n) \/ HealthProbed(n) PROVE LatchInv'
  <2>1. UNCHANGED <<state, act>>
    BY <1>8 DEF SshProbed, HealthProbed
  <2>2. CASE task' = [task EXCEPT ![n] = "health"] /\ UNCHANGED gate
    <3>1. \A k \in Node : task'[k] = "exited" => task[k] = "exited"
      BY <2>2 DEF IInv, TypeOK
    <3> QED
      BY <2>1, <2>2, <3>1, <1>3
  <2>3. CASE \E ph : Classified(n, ph)
    BY <2>1, <2>3, <1>7
  <2> QED
    BY <1>8, <2>2, <2>3 DEF SshProbed, HealthProbed
<1>9. ASSUME UNCHANGED vars \/ \E n \in Node : Hardware(n) PROVE LatchInv'
  <2>1. UNCHANGED <<state, act, gate, task>>
    BY <1>9 DEF vars, Hardware, HwBoot, HwServe, HwStopServing, HwHalted, HwMove
  <2> QED
    BY <2>1, <1>3
<1> QED
  BY <1>1, <1>4, <1>5, <1>6, <1>8, <1>9 DEF Next, RunNode

\* No request over any fleet stands still: a task waits at a shut gate only for a task that is
\* at work or free to start, or for one whose power-off could not be launched.
THEOREM WaitsForTheLiving == Spec => []NobodyWaitsInVain
<1>1. Init => LatchInv
  BY DEF Init, LatchInv
<1>2. IInv /\ SettleInv /\ LatchInv => NobodyWaitsInVain
  <2> SUFFICES ASSUME IInv, SettleInv, LatchInv, NEW n \in Node, task[n] = "waiting",
                      NEW g \in WaitsOn(n), gate[g] = "unset"
               PROVE  \/ task[g] \notin Ended /\ (task[g] = "waiting" => GatesOpen(g))
                      \/ task[g] = "raised" /\ g \in Faulty
    BY DEF NobodyWaitsInVain
  <2>1. n \in act /\ g \in act /\ g \in Node /\ WaitsOn(g) = {}
    BY WaitsOnFlat DEF IInv, TaskInv, TypeOK
  <2>2. Gated(g)
    BY <2>1 DEF Gated
  <2>3. task[g] # "exited"
    BY <2>1, <2>2 DEF LatchInv
  <2>4. task[g] # "cancelled"
    <3>1. task[g] = "cancelled" => stream = "closed"
      BY <2>1 DEF SettleInv
    <3>2. stream # "closed"
      BY <2>1 DEF SettleInv, Ended
    <3> QED
      BY <3>1, <3>2
  <2>5. task[g] = "raised" => g \in Faulty
    BY <2>1 DEF SettleInv
  <2>6. GatesOpen(g)
    BY <2>1 DEF GatesOpen
  <2> QED
    BY <2>3, <2>4, <2>5, <2>6 DEF Ended
<1> QED
  BY <1>1, <1>2, LatchStep, Inductive, Settles, PTL DEF Spec
=============================================================================
