--------------------------- MODULE MCDeployments ---------------------------
(* Deployments on a host with two servers of its own, for TLC.               *)
EXTENDS Deployments, TLC

CONSTANTS o1, o2, n1, r1, r2

HostSymmetry == Permutations(Request) \cup Permutations(Old)
=============================================================================
