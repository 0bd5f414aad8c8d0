--------------------------- MODULE GatewayConfig ---------------------------
(* What fleetd's configuration endpoints promise.  A request reads a file   *)
(* whole and replaces it by one change of what it read: registering a node  *)
(* concerns that node only, a sync replaces the fleet's entries, applying   *)
(* the tiers the cloud entries.  Nothing keeps two requests apart: what     *)
(* others did between the reading and the replacement is lost, and a file   *)
(* whose temporary name two of them have open may come to say anything.     *)
EXTENDS Sequences

CONSTANTS Request, Node, Choice, Key, Entry, Alike

VARIABLES
    registry,  \* the node file: squad of each node, or "none"
    tiers,     \* tiers.yaml: the declared cloud tiers
    keys,      \* the environment file: the variables that are set
    gateway,   \* the gateway's configuration: the operator's entries, those of them that
               \*     read like generated ones, the node entries, the cloud entries
    view,      \* each request: what it is to replace, and by which entries
    saw,       \* what that said when the request read it
    shared     \* files whose temporary name was open in two requests at once
files == <<registry, tiers, keys, gateway>>
all == <<view, shared, registry, tiers, keys, gateway, saw>>

Nothing == [of |-> "none"]
Blank ==
    /\ registry = [n \in Node |-> "none"] /\ tiers \in Choice /\ keys = {}
    /\ gateway.cloud = {}
    /\ view = [r \in Request |-> Nothing] /\ saw = [r \in Request |-> Nothing]
    /\ shared = {}

-----------------------------------------------------------------------------
\* A request turns to v, a file that says s.
Turns(r, v, s) ==
    /\ view' = [view EXCEPT ![r] = v]
    /\ UNCHANGED shared
    /\ saw' = [saw EXCEPT ![r] = s]

\* It reads: the file it is to replace, or first the nodes to write entries for.
Squad == {n \in Node : registry[n] = "s3"}
Read(r) ==
    /\ \/ view[r].of = "none" /\ Turns(r, [of |-> "nodes"], registry)
       \/ view[r].of = "none" /\ Turns(r, [of |-> "env"], keys)
       \/ view[r].of = "none" /\ Turns(r, [of |-> "tiers"], Nothing)
       \/ /\ view[r].of = "none"
          /\ \E s3 \in SUBSET Node :
                 (s3 = Squad \/ "nodes" \in shared) /\ Turns(r, [of |-> "sync", s3 |-> s3], Nothing)
       \/ view[r].of = "sync" /\ Turns(r, [of |-> "fleet", s3 |-> view[r].s3], gateway)
       \/ view[r].of = "apply" /\ Turns(r, [of |-> "cloud", cfg |-> view[r].cfg], gateway)
    /\ UNCHANGED files

\* It ends without a replacement.
GiveUp(r) == Turns(r, Nothing, Nothing) /\ UNCHANGED files

\* It puts its one change in place of whatever the file says by now.
Put(r) ==
    \/ /\ view[r].of = "nodes" /\ Turns(r, Nothing, Nothing)
       /\ \E n \in Node, s \in {"s3", "other", "none"} : registry' = [saw[r] EXCEPT ![n] = s]
       /\ UNCHANGED <<tiers, keys, gateway>>
    \/ /\ view[r].of = "env" /\ Turns(r, Nothing, Nothing)
       /\ \E k \in Key : keys' = saw[r] \cup {k}
       /\ UNCHANGED <<registry, tiers, gateway>>
    \/ /\ view[r].of = "tiers" /\ tiers' \in Choice
       /\ Turns(r, Nothing, Nothing) \/ Turns(r, [of |-> "apply", cfg |-> tiers'], Nothing)
       /\ UNCHANGED <<registry, keys, gateway>>
    \/ /\ view[r].of = "fleet" /\ Turns(r, Nothing, Nothing)
       /\ gateway' = [saw[r] EXCEPT !.fleet = view[r].s3, !.alike = {}]
       /\ UNCHANGED <<registry, tiers, keys>>
    \/ /\ view[r].of = "cloud" /\ Turns(r, Nothing, Nothing)
       /\ gateway' = [saw[r] EXCEPT !.cloud = {view[r].cfg}]
       /\ UNCHANGED <<registry, tiers, keys>>

\* Two requests that are to replace one file have its temporary name open.
FileOf(v) == IF v.of \in {"fleet", "cloud"} THEN "litellm" ELSE v.of
Share ==
    /\ shared' # shared /\ UNCHANGED view
    /\ \E q, r \in Request :
           /\ q # r /\ FileOf(view[q]) = FileOf(view[r])
           /\ FileOf(view[r]) \in {"nodes", "tiers", "env", "litellm"}
           /\ shared' = shared \cup {FileOf(view[r])}
    /\ UNCHANGED <<files, saw>>

\* Then one of them may leave anything in it, while it writes or when it replaces it.
Spoil(r) ==
    LET f == FileOf(view[r]) IN
    /\ f \in shared
    /\ \/ Turns(r, view[r], saw[r]) \/ Turns(r, Nothing, Nothing)
       \/ /\ f = "tiers"
          /\ \E c \in Choice : Turns(r, [of |-> "apply", cfg |-> c], Nothing)
    /\ f # "nodes" => registry' = registry
    /\ f # "tiers" => tiers' = tiers
    /\ f # "env" => keys' = keys
    /\ f # "litellm" => gateway' = gateway

\* fleetd dies.
Stop ==
    /\ view' = [r \in Request |-> Nothing]
    /\ saw' = [r \in Request |-> Nothing]
    /\ UNCHANGED <<files, shared>>

EditByHand ==
    /\ UNCHANGED <<view, shared>>
    /\ \/ \E h \in Entry \ Alike : gateway' = [gateway EXCEPT !.hand = Append(@, h)]
       \/ \E h \in Alike : gateway' = [gateway EXCEPT !.alike = @ \cup {h}]
    /\ UNCHANGED <<registry, tiers, keys, saw>>

Change ==
    \/ \E r \in Request : Read(r) \/ Put(r) \/ GiveUp(r) \/ Spoil(r)
    \/ Share \/ Stop \/ EditByHand

OneChangeEach == Blank /\ [][Change]_all
=============================================================================
