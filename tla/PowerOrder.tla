----------------------------- MODULE PowerOrder -----------------------------
(***************************************************************************)
(* What a chassis-ordered power request promises, without tasks, polls or  *)
(* boards: a node is commanded only after every node it must follow has    *)
(* been judged, a node is judged only after it was commanded, and neither  *)
(* a command nor a judgement is ever taken back.                           *)
(***************************************************************************)
CONSTANT Node

VARIABLES
    asked,    \* a request has been made
    strict,   \* waking: the nodes followed must have been judged good
    after,    \* after[n]: the nodes n must follow
    acted,    \* the nodes commanded so far
    verdict   \* the judgement passed on each node

ordvars == <<asked, strict, after, acted, verdict>>

OrderInit ==
    /\ asked = FALSE /\ strict \in BOOLEAN
    /\ after = [n \in Node |-> {}]
    /\ acted = {}
    /\ verdict = [n \in Node |-> "unset"]

\* The order has one level: a node that follows others is followed by none.
Ask ==
    /\ ~asked /\ asked'
    /\ strict' \in BOOLEAN
    /\ after' \in [Node -> SUBSET Node]
    /\ \A n \in Node : \A k \in after'[n] : after'[k] = {}
    /\ UNCHANGED <<acted, verdict>>

Command(n) ==
    /\ asked
    /\ n \notin acted
    /\ \A k \in after[n] : IF strict THEN verdict[k] = "ok" ELSE verdict[k] # "unset"
    /\ acted' = acted \cup {n}
    /\ UNCHANGED <<asked, strict, after, verdict>>

Judge(k) ==
    /\ k \in acted
    /\ verdict[k] = "unset"
    /\ \E v \in {"ok", "failed"} : verdict' = [verdict EXCEPT ![k] = v]
    /\ UNCHANGED <<asked, strict, after, acted>>

OrderNext == Ask \/ \E n \in Node : Command(n) \/ Judge(n)

OrderSpec == OrderInit /\ [][OrderNext]_ordvars
=============================================================================
