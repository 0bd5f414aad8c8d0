--------------------------- MODULE RouterStrategy ---------------------------
(***************************************************************************)
(* The decisions of router/dnc_router/strategy.py, which the gateway takes *)
(* without an await: the squad a request is meant for, the squad it gets   *)
(* when that one has no deployment, and the deployment inside the squad.   *)
(*                                                                         *)
(* Deployments are numbers, ordered as their ids are; a request's prefix   *)
(* hash is a number too.  Tokens are in thousands.                         *)
(***************************************************************************)
EXTENDS Integers, FiniteSets, FiniteSetsExt

CONSTANTS
    Deployment,
    SquadOf,           \* model_info.dnc_squad
    SquadConcurrency,  \* squad -> SQUAD_CONCURRENCY.get(squad, SPILL_THRESHOLD)
    Window,            \* LOAD_WINDOW_S, in ticks
    CooldownShape      \* what the router's _get_cooldown_deployments returns

\* TIER_ORDER; a squad an operator or a hint may name is in Squad and need not be a tier.
TierOrder == <<"s0", "s1", "s2", "s3">>
Tier == {TierOrder[i] : i \in 1..4}
Squad == DOMAIN SquadConcurrency

ASSUME RouterAssumption ==
    /\ Deployment \subseteq Nat /\ IsFiniteSet(Deployment) /\ Deployment # {}
    /\ Tier \subseteq Squad
    /\ SquadOf \in [Deployment -> Squad]
    /\ SquadConcurrency \in [Squad -> Nat \ {0}]
    /\ Window \in Nat
    /\ CooldownShape \in {"ids", "pair", "none"}

-----------------------------------------------------------------------------
(* Which squad.                                                            *)

Place(tier) == CHOOSE i \in 1..4 : TierOrder[i] = tier

\* CTX_ESCALATION_TOKENS, with 10**9 for s0.
Budget == [s3 |-> 6, s2 |-> 24, s1 |-> 80, s0 |-> 1000000]

BaseTier(complexity) ==
    CASE complexity = "low"  -> "s3"
      [] complexity = "high" -> "s1"
      [] complexity = "max"  -> "s0"
      [] OTHER               -> "s2"

\* The loop of pick_tier: from the base toward s0, the first tier whose budget holds the
\* prompt, or s0.
Escalated(base, tokens) ==
    TierOrder[Max({i \in 1..Place(base) : i = 1 \/ tokens <= Budget[TierOrder[i]]})]

\* pick_tier: an explicit tier passes through, and a hint is taken as it comes ("none": no
\* hint was sent).
PickTier(ask) ==
    IF ask.model # "auto" THEN ask.model
    ELSE IF ask.hint # "none" THEN ask.hint
    ELSE Escalated(BaseTier(ask.complexity), ask.tokens)

\* degrade_squad: the nearest tier with a deployment, toward s3 first, then toward s0.
DegradeSquad(requested, available) ==
    IF requested \in available \/ requested \notin Tier THEN requested
    ELSE LET at(S) == {i \in S : TierOrder[i] \in available}
             below == at(Place(requested) + 1 .. 4)
             above == at(1 .. Place(requested) - 1)
         IN  IF below # {} THEN TierOrder[Min(below)]
             ELSE IF above # {} THEN TierOrder[Max(above)]
             ELSE requested

-----------------------------------------------------------------------------
(* Which deployment.  LoadTracker keeps the times of the selections;       *)
(* recent[d][a] is how many of deployment d are a ticks old, and those     *)
(* older than Window, which load() drops, are not kept.                    *)

Age == 0..Window
NoSelection == [d \in Deployment |-> [a \in Age |-> 0]]

Load(recent, d) == MapThenSumSet(LAMBDA a : recent[d][a], Age)

Record(recent, d) == [recent EXCEPT ![d][0] = @ + 1]

Older(recent) ==
    [d \in Deployment |-> [a \in Age |-> IF a = 0 THEN 0 ELSE recent[d][a - 1]]]

\* _unhealthy: ids of the deployments that cool down.  A pair (ids, times) is a tuple, so
\* the first test takes it, and the set holds the text of two lists: no deployment's id.
Unhealthy(cooling) ==
    IF CooldownShape = "ids" THEN {d \in Deployment : cooling[d] > 0} ELSE {}

Members(model) == {d \in Deployment : model \in {"auto", SquadOf[d]}}

\* The squad, and the deployments select_deployment is given.
ChosenSquad(ask) ==
    DegradeSquad(PickTier(ask), {SquadOf[d] : d \in Members(ask.model)})

Candidates(ask) ==
    LET inSquad == {d \in Members(ask.model) : SquadOf[d] = ChosenSquad(ask)}
    IN  IF inSquad # {} THEN inSquad ELSE Members(ask.model)

Usable(ask, cooling) ==
    LET healthy == Candidates(ask) \ Unhealthy(cooling)
    IN  IF healthy # {} THEN healthy ELSE Candidates(ask)

\* ordered[h % len(ordered)]
Preferred(ordered, hash) ==
    CHOOSE d \in ordered :
        Cardinality({e \in ordered : e < d}) = hash % Cardinality(ordered)

LeastLoaded(ordered, recent) ==
    Min({d \in ordered : \A e \in ordered : Load(recent, d) <= Load(recent, e)})

\* SQUAD_CONCURRENCY.get(squad, SPILL_THRESHOLD); a hint's unknown squad gets the default,
\* which SquadConcurrency holds for it.
Threshold(ask) == SquadConcurrency[ChosenSquad(ask)]

\* Mutant of SelectDeployment: the spill goes to any member, cooling or not.
SelectAnyMember(ask, hash, recent, cooling) ==
    LET ordered == Usable(ask, cooling)
        preferred == Preferred(ordered, hash)
    IN  IF Cardinality(ordered) > 1 /\ Load(recent, preferred) >= Threshold(ask)
        THEN LeastLoaded(Candidates(ask), recent) ELSE preferred

\* Mutant of SelectDeployment: one selection above the threshold is let through.
SelectLate(ask, hash, recent, cooling) ==
    LET ordered == Usable(ask, cooling)
        preferred == Preferred(ordered, hash)
    IN  IF Cardinality(ordered) > 1 /\ Load(recent, preferred) > Threshold(ask)
        THEN LeastLoaded(ordered, recent) ELSE preferred

\* select_deployment: affinity by hash, spill to the least loaded above the threshold.
SelectDeployment(ask, hash, recent, cooling) ==
    LET ordered == Usable(ask, cooling)
        preferred == Preferred(ordered, hash)
    IN  IF Cardinality(ordered) > 1 /\ Load(recent, preferred) >= Threshold(ask)
        THEN LeastLoaded(ordered, recent) ELSE preferred
=============================================================================
