--------------------------- MODULE MCConfigFiles ---------------------------
(* The configuration files of a small fleet, for TLC.                       *)
EXTENDS ConfigFiles, TLC

CONSTANTS n1, n2, h1, h2, h3, r1, r2, p1, p2, k1

\* The shipped template after the operator filled it in: an entry, a comment, a
\* board's entry and another entry of the operator's.
MCFirstText ==
    <<Line("hand", h1), Mark("note"), Line("node", n1), Line("hand", h2)>>

Threads == Permutations(Request)
=============================================================================
