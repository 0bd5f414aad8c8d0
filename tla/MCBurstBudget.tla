--------------------------- MODULE MCBurstBudget ---------------------------
(* The burst tier's clock and money for TLC: half-hour ticks; a card that is *)
(* too small for the default model at full context, and two that serve it.   *)
EXTENDS BurstBudget, TLC

CONSTANTS p1, p2

PodSymmetry == Permutations(Pod)

MCWork == [model |-> "qwen36_35b_a3b", quant |-> "autoround", context |-> 256]

Ask(card, tokens, hours, saturation, perHour) ==
    [card |-> card, tokens |-> tokens, hours |-> hours, saturation |-> saturation,
     perHour |-> perHour, fallback |-> 60]
\* Two that pay, one of them with more replicas than are allowed; too little to do, an
\* under-fed card, a card that does not break even.
MCDemand == {Ask("rtxpro6000", 13, 1, 100, 4), Ask("rtx5090", 10, 2, 100, 2),
             Ask("rtxpro6000", 4, 1, 100, 4), Ask("rtx5090", 10, 2, 50, 2),
             Ask("rtxpro6000", 10, 1, 100, 2), Ask("rtxpro6000", 5, 3, 100, 4)}
=============================================================================
