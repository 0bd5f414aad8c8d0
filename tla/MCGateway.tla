----------------------------- MODULE MCGateway -----------------------------
(* The gateway for TLC: two single-slot s3 boards, one hosted s2 deployment  *)
(* behind a subscription, nothing in s1 and s0.                              *)
EXTENDS Gateway

CONSTANTS c1, c2

MCSquadOf == <<"s3", "s3", "s2">>
MCSquadConcurrency ==
    [s \in Tier \cup {"other"} |-> IF s = "s3" THEN 1 ELSE 2]
MCHash == [c \in Client |-> IF c = c1 THEN 3 ELSE 4]

Auto(hint, complexity, tokens) ==
    [model |-> "auto", hint |-> hint, complexity |-> complexity, tokens |-> tokens]
\* An explicit tier, with a fallback; a long prompt; an unknown hint.
MCAsk == {[model |-> "s3", hint |-> "none", complexity |-> "low", tokens |-> 1],
          Auto("none", "low", 10), Auto("other", "low", 2)}
=============================================================================
