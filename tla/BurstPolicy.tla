---------------------------- MODULE BurstPolicy ----------------------------
(***************************************************************************)
(* The judgements of the burst tier: when to rent and how many nodes, when *)
(* to give one back (burst/burst/policy.py), and which cards can serve a   *)
(* model at all (profiles.py, template.py).                                *)
(*                                                                         *)
(* Fractions are avoided: money is in cents, tokens in millions, contexts  *)
(* in units of 1024 tokens, memory in hundredths of a GiB.                 *)
(***************************************************************************)
EXTENDS Integers, FiniteSets, FiniteSetsExt

CONSTANTS
    MinTokens, MinHours, MinSaturation,   \* Policy's thresholds; saturation in percent
    PerNode,                              \* per_node_tok_s, in millions of tokens an hour
    MaxReplicas,
    DailyCap,                             \* daily_usd_cap, in cents
    Hour,                                 \* clock ticks of an hour
    IdleTtl, MaxLifetime                  \* in ticks

ASSUME PolicyAssumption ==
    /\ MinTokens \in Nat /\ MinHours \in Nat /\ MinSaturation \in Nat /\ PerNode \in Nat
    /\ MaxReplicas \in Nat \ {0} /\ DailyCap \in Nat /\ Hour \in Nat \ {0}
    /\ IdleTtl \in Nat \ {0} /\ MaxLifetime \in Nat \ {0}

-----------------------------------------------------------------------------
(* Cards and models.                                                       *)

ArchRank == [ampere |-> 0, ada |-> 1, hopper |-> 2, blackwell |-> 3]

GPUS ==
    LET card(vram, arch, cents) == [vram |-> vram, arch |-> arch, cents |-> cents]
    IN  [rtx3090 |-> card(24, "ampere", 22),     rtxa5000 |-> card(24, "ampere", 16),
         rtx4090 |-> card(24, "ada", 34),        l40 |-> card(48, "ada", 69),
         rtx6000ada |-> card(48, "ada", 74),     a100pcie |-> card(80, "ampere", 119),
         rtx5090 |-> card(32, "blackwell", 69),  rtxpro6000 |-> card(96, "blackwell", 169),
         h100nvl |-> card(94, "hopper", 259)]

MODELS ==
    LET quant(gb, arch) == [weights |-> gb, arch |-> arch]
    IN  [qwen36_27b |->
            [moe |-> FALSE, full |-> 16, heads |-> 4, dim |-> 256, context |-> 256,
             quants |-> [autoround |-> quant(18, "ampere"), nvfp4 |-> quant(15, "blackwell"),
                         fp8 |-> quant(28, "ada")]],
         qwen36_35b_a3b |->
            [moe |-> TRUE, full |-> 10, heads |-> 2, dim |-> 256, context |-> 256,
             quants |-> [autoround |-> quant(20, "ampere")]]]

\* kv_bytes_per_token at one byte an element, in KiB.
KvPerToken(model) == (2 * model.heads * model.dim * model.full) \div 1024

\* plan_capacity: how many sequences of the context the card holds beside the weights; none
\* when it does not fit.
MaxNumSeqs(card, work) ==
    LET gpu == GPUS[card]
        model == MODELS[work.model]
        pool == 92 * gpu.vram - 100 * model.quants[work.quant].weights
        sequence == KvPerToken(model) * Min({work.context, model.context})
    IN  IF \/ work.quant \notin DOMAIN model.quants
           \/ ArchRank[gpu.arch] < ArchRank[model.quants[work.quant].arch]
           \/ pool <= 0
        THEN 0 ELSE (pool * 1024) \div (100 * sequence)

KnownBad(card, work) ==
    LET arch == GPUS[card].arch IN
    \/ MODELS[work.model].moe /\ work.quant = "nvfp4" /\ arch = "blackwell"
    \/ arch = "ampere" /\ work.quant \in {"nvfp4", "fp8"}

\* render refuses what does not fit and what is known to be bad.
Renders(card, work) == MaxNumSeqs(card, work) >= 1 /\ ~KnownBad(card, work)

\* _pick: the first that serves, offers being sorted by price.
Pick(offers, work) ==
    LET serving == {c \in offers : MaxNumSeqs(c, work) >= 1}
    IN  {c \in serving : \A e \in serving : GPUS[c].cents <= GPUS[e].cents}

-----------------------------------------------------------------------------
(* The gate.                                                               *)

\* Economics.beats_fallback: rate / perHour < fallback.
BeatsFallback(demand) ==
    GPUS[demand.card].cents < demand.fallback * demand.perHour

\* Tokens enough to clear break-even by the margin of 1.5.
ClearsMargin(demand) ==
    2 * demand.tokens * demand.fallback >= 3 * GPUS[demand.card].cents * demand.hours

\* Mutant of PlanReplicas: max_replicas is forgotten.
PlanReplicasUnclamped(demand) ==
    IF PerNode = 0 \/ demand.hours = 0 THEN 1
    ELSE LET node == demand.hours * PerNode
         IN  Max({1, (demand.tokens + node - 1) \div node})

\* plan_replicas: by the rate the work implies, rounded up.
PlanReplicas(demand) ==
    IF PerNode = 0 \/ demand.hours = 0 THEN 1
    ELSE LET node == demand.hours * PerNode
         IN  Max({1, Min({(demand.tokens + node - 1) \div node, MaxReplicas})})

\* Cents and ticks multiplied, so that a bill is a product.
ProjectedCost(demand) ==
    GPUS[demand.card].cents * demand.hours * Hour * PlanReplicas(demand)

\* Mutant of ShouldBurst: what was spent today is forgotten.
ShouldBurstAfresh(demand, spent) ==
    /\ demand.tokens >= MinTokens /\ demand.hours >= MinHours
    /\ demand.saturation >= MinSaturation
    /\ BeatsFallback(demand) /\ ClearsMargin(demand)
    /\ ProjectedCost(demand) <= DailyCap * Hour

\* should_burst, of an enabled tier.
ShouldBurst(demand, spent) ==
    /\ demand.tokens >= MinTokens /\ demand.hours >= MinHours
    /\ demand.saturation >= MinSaturation
    /\ BeatsFallback(demand) /\ ClearsMargin(demand)
    /\ spent + ProjectedCost(demand) <= DailyCap * Hour

-----------------------------------------------------------------------------
(* Keep or kill.                                                           *)

\* Mutant of LifecycleAction: the idle timer is asked first.
LifecycleActionIdleFirst(age, idle, inflight) ==
    IF inflight > 0 \/ idle < IdleTtl THEN "keep"
    ELSE IF age >= MaxLifetime THEN "kill_expired" ELSE "scale_to_zero"

\* lifecycle_action: "a hard lifetime beats an idle timer".
LifecycleAction(age, idle, inflight) ==
    IF age >= MaxLifetime THEN "kill_expired"
    ELSE IF inflight = 0 /\ idle >= IdleTtl THEN "scale_to_zero"
    ELSE "keep"
=============================================================================
