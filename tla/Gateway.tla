------------------------------ MODULE Gateway ------------------------------
(***************************************************************************)
(* The gateway at work: clients (Pi processes, the interactive one and     *)
(* fan-out workers) each send one call after the other; the router's       *)
(* strategy picks a deployment for every attempt, and LiteLLM retries,     *)
(* cools down and falls back.                                              *)
(*                                                                         *)
(* The strategy runs without an await, so a selection is one step.  What   *)
(* LiteLLM does is modelled as router/litellm-config.example.yaml sets it. *)
(***************************************************************************)
EXTENDS RouterStrategy

CONSTANTS
    Client,
    Hash,        \* client -> the prefix hash of its first user message
    Ask,         \* what a call asks for: [model, hint, complexity, tokens]
    Retries,     \* num_retries
    Cooldown,    \* cooldown_time, in ticks
    Turns        \* bound: calls of all clients

ASSUME GatewayAssumption ==
    /\ IsFiniteSet(Client) /\ Hash \in [Client -> Nat]
    /\ Ask \subseteq [model : Squad \cup {"auto"}, hint : Squad \cup {"none"},
                     complexity : STRING, tokens : Nat]
    /\ Retries \in Nat /\ Cooldown \in Nat \ {0} /\ Turns \in Nat
    /\ "none" \notin Squad   \* it stands for no hint, and no fallback

VARIABLES
    call,     \* the call of each client
    turns,    \* how many it has sent
    recent,   \* LoadTracker._events: selections by deployment and age
    cooling   \* LiteLLM: ticks left of a deployment's cool-down

vars == <<call, turns, recent, cooling>>

(* A call under way: what it asks for, the model group LiteLLM is trying,   *)
(* the retries it has left there, and the deployment an attempt is at.      *)
NoCall == [phase |-> "idle"]
Model == Squad \cup {"auto"}
Call ==
    {NoCall}
    \cup [phase : {"routing"}, ask : Ask, model : Model, left : 0..Retries]
    \cup [phase : {"sent"}, ask : Ask, model : Model, left : 0..Retries, at : Deployment]

Routing(a, m, n) == [phase |-> "routing", ask |-> a, model |-> m, left |-> n]

\* Every variable has its type.
TypeOK ==
    /\ call \in [Client -> Call]
    /\ turns \in [Client -> 0..Turns]
    /\ recent \in [Deployment -> [Age -> Nat]]
    /\ cooling \in [Deployment -> 0..Cooldown]

Init ==
    /\ call = [c \in Client |-> NoCall]
    /\ turns = [c \in Client |-> 0]
    /\ recent = NoSelection
    /\ cooling = [d \in Deployment |-> 0]

-----------------------------------------------------------------------------
Send(c, a) ==
    /\ call[c].phase = "idle" /\ MapThenSumSet(LAMBDA k : turns[k], Client) < Turns
    /\ turns' = [turns EXCEPT ![c] = @ + 1]
    /\ call' = [call EXCEPT ![c] = Routing(a, a.model, Retries)]
    /\ UNCHANGED <<recent, cooling>>

\* What the strategy is asked: the model group may be a fallback's.
Asked(c) == [call[c].ask EXCEPT !.model = call[c].model]

\* _choose, in a group that has members.
Select(c) ==
    /\ call[c].phase = "routing" /\ Members(call[c].model) # {}
    /\ LET d == SelectDeployment(Asked(c), Hash[c], recent, cooling)
       IN  /\ recent' = Record(recent, d)
           /\ call' = [call EXCEPT ![c] =
                  [phase |-> "sent", ask |-> @.ask, model |-> @.model, left |-> @.left,
                   at |-> d]]
    /\ UNCHANGED <<turns, cooling>>

\* fallbacks of the configuration: S3 -> S2 -> S1.
Fallback(model) == CASE model = "s3" -> "s2" [] model = "s2" -> "s1" [] OTHER -> "none"

\* A group is given up: the client's call goes to the next one, or ends in an error.
AfterGroup(k) ==
    IF Fallback(k.model) = "none" THEN NoCall
    ELSE Routing(k.ask, Fallback(k.model), Retries)

\* Mutant of AfterFailure: one retry too many.
AfterFailureOneMore(k) ==
    IF k.left >= 0 THEN Routing(k.ask, k.model, k.left - 1)
    ELSE AfterGroup(k)

\* An attempt failed: a retry, or the group is given up.
AfterFailure(k) ==
    IF k.left > 0 THEN Routing(k.ask, k.model, k.left - 1)
    ELSE AfterGroup(k)

\* _choose returns None: LiteLLM has no deployment to try.
SelectNone(c) ==
    /\ call[c].phase = "routing" /\ Members(call[c].model) = {}
    /\ call' = [call EXCEPT ![c] = AfterGroup(@)]
    /\ UNCHANGED <<turns, recent, cooling>>

\* The attempt fails.  allowed_fails = 1: the deployment cools down at once.
Fail(c) ==
    /\ call[c].phase = "sent"
    /\ cooling' = [cooling EXCEPT ![call[c].at] = Cooldown]
    /\ call' = [call EXCEPT ![c] = AfterFailure(@)]
    /\ UNCHANGED <<turns, recent>>

Answer(c) ==
    /\ call[c].phase = "sent"
    /\ call' = [call EXCEPT ![c] = NoCall]
    /\ UNCHANGED <<turns, recent, cooling>>

Tick ==
    /\ recent' = Older(recent)
    /\ cooling' = [d \in Deployment |-> Max({cooling[d] - 1, 0})]
    /\ UNCHANGED <<call, turns>>

\* The gateway restarts: what it knows is in memory, and the calls under way are lost.
Restart ==
    /\ call' = [c \in Client |-> NoCall]
    /\ recent' = NoSelection
    /\ cooling' = [d \in Deployment |-> 0]
    /\ UNCHANGED turns

Next ==
    \/ \E c \in Client :
           \/ \E a \in Ask : Send(c, a)
           \/ Select(c) \/ SelectNone(c) \/ Fail(c) \/ Answer(c)
    \/ Tick \/ Restart

Spec == Init /\ [][Next]_vars

-----------------------------------------------------------------------------
(* Properties.                                                             *)

Selects(c) == call[c].phase = "routing" /\ call'[c].phase = "sent"

\* "Route around a downed node": no attempt, by affinity or by spill, goes to a deployment
\* that cools down while another one of the squad does not (strategy.py, the class).
RoutedAround ==
    [][\A c \in Client : Selects(c) =>
           \/ cooling[call'[c].at] = 0
           \/ \A d \in Candidates(Asked(c)) : cooling[d] > 0]_vars

\* "Spread instead of dogpiling": when a selection lifts a deployment above the number its
\* squad bears, every deployment it could have gone to was as loaded, whoever loaded it.
NoDogpile ==
    [][\A c \in Client : Selects(c) =>
           LET d == call'[c].at IN
           Load(recent', d) > Threshold(Asked(c)) =>
               \A e \in Usable(Asked(c), cooling) : Load(recent, e) >= Load(recent, d)]_vars
=============================================================================
