-------------------------- MODULE MCBurstLifecycle --------------------------
(* Pods are interchangeable, and so are release requests. *)
EXTENDS BurstLifecycle, TLC

CONSTANTS p1, p2, u1, r1, r2

Symmetric == Permutations(Pod) \cup Permutations(Release)
=============================================================================
