---------------------------- MODULE MCFleetUsage ----------------------------
(* Two Pi processes for TLC, a subscription in s0 and a board in s3.         *)
EXTENDS FleetUsage, TLC

CONSTANTS c1, c2

MCInfo == [d \in Upstream |->
    IF d = "plan" THEN [squad |-> "s0", declared |-> "subscription", private |-> FALSE]
                  ELSE [squad |-> "s3", declared |-> "", private |-> TRUE]]

Clients == Permutations(PiProcess)
=============================================================================
