----------------------------- MODULE ConfigText -----------------------------
(* The text of the LiteLLM configuration as fleetd edits it: a sequence of  *)
(* lines below `model_list:`, an entry being one line here.  Two edits are  *)
(* made: litellm_sync.rewrite_config regenerates the fleet's node entries,  *)
(* providers.apply_to_config the cloud tiers, each inside fence comments.   *)
EXTENDS Naturals, SequencesExt

CONSTANTS
    Node,        \* boards of the fleet
    Hand,        \* entries the operator wrote
    Lookalike,   \* those with squad s3 and an address http://<digit>
    Named,       \* those with squad s3 and an address http://<name>
    Nobody       \* what a comment or a fence stands for

ASSUME TextAssumption ==
    /\ IsFiniteSet(Node)
    /\ Lookalike \subseteq Hand
    /\ Named \subseteq Hand
    /\ Lookalike \cap Named = {}
    /\ Nobody \notin Node \cup Hand

Kind == {"hand", "node", "cloud", "note", "nodes>>", "<<nodes", "cloud>>", "<<cloud"}
Line(kind, of) == [kind |-> kind, of |-> of]
Mark(kind) == Line(kind, Nobody)
IsEntry(l) == l.kind \in {"hand", "node", "cloud"}

\* The lines of a text at the positions that satisfy keep, in their order.
Lines(text, keep(_)) ==
    LET out[n \in 0..Len(text)] ==
            IF n = 0 THEN <<>>
            ELSE IF keep(n) THEN Append(out[n - 1], text[n])
            ELSE out[n - 1]
    IN  out[Len(text)]

\* A fence hides what follows its opening mark, up to and with the closing one.
Fenced(text, i, open, close) ==
    \/ text[i].kind = close
    \/ \E s \in 1..i : text[s].kind = open /\ \A e \in s..(i - 1) : text[e].kind # close
Unfenced(text, open, close) == Lines(text, LAMBDA i : ~Fenced(text, i, open, close))

\* An entry and the comments that follow it are one block; the block goes when
\* the entry reads like a generated one.
IsNodeEntry(l) == l.kind = "node" \/ (l.kind = "hand" /\ l.of \in Lookalike)

\* Mutant of Dropped: a block does not end at the next entry.
DroppedOn(text, i) == \E j \in 1..i : IsNodeEntry(text[j])

Dropped(text, i) ==
    \E j \in 1..i : IsNodeEntry(text[j]) /\ \A k \in (j + 1)..i : ~IsEntry(text[k])

Kept(text) ==
    LET body == Unfenced(text, "nodes>>", "<<nodes")
    IN  Lines(body, LAMBDA i : ~Dropped(body, i))

Synced(text, nodes) ==
    Kept(text) \o <<Mark("nodes>>")>>
               \o [i \in DOMAIN SetToSeq(nodes) |-> Line("node", SetToSeq(nodes)[i])]
               \o <<Mark("<<nodes")>>

\* The new text is checked before it is written: it must list something, and hold
\* no entry of squad s3 at a plain address beside the two for each node.
SyncRefused(text, nodes) ==
    LET kept == Kept(text) IN
    \/ nodes = {} /\ \A i \in DOMAIN kept : ~IsEntry(kept[i])
    \/ \E i \in DOMAIN kept : kept[i].kind = "hand" /\ kept[i].of \in Named

\* Mutant of Applied: the block of the last time is left in place.
AppliedAgain(text, tiers) ==
    <<Mark("cloud>>"), Line("cloud", tiers), Mark("<<cloud")>> \o text

Applied(text, tiers) ==
    <<Mark("cloud>>"), Line("cloud", tiers), Mark("<<cloud")>>
        \o Unfenced(text, "cloud>>", "<<cloud")

-----------------------------------------------------------------------------
(* What a reader of the text finds in it.                                   *)

Plain(l) == l.kind = "hand" /\ l.of \notin Lookalike
HandOf(text) == Lines(text, LAMBDA i : Plain(text[i]))
AlikeOf(text) == {text[i] : i \in {k \in DOMAIN text : text[k].kind = "hand" /\ text[k].of \in Lookalike}}
NodesOf(text) == {text[i].of : i \in {k \in DOMAIN text : text[k].kind = "node"}}
CloudOf(text) == {text[i].of : i \in {k \in DOMAIN text : text[k].kind = "cloud"}}

\* Every fence is there once or not at all, closed after it was opened and with no
\* other mark inside; cloud entries stand in theirs, and node entries in theirs as
\* soon as there is one.
Places(text, kind) == {i \in DOMAIN text : text[i].kind = kind}
WellFenced(text, open, close, inside) ==
    \/ Places(text, open) = {} /\ Places(text, close) = {}
    \/ \E s, e \in DOMAIN text :
           /\ s < e
           /\ Places(text, open) = {s} /\ Places(text, close) = {e}
           /\ \A i \in DOMAIN text : text[i].kind = inside <=> i \in (s + 1)..(e - 1)
WellFormed(text) ==
    /\ WellFenced(text, "nodes>>", "<<nodes", "node")
    /\ WellFenced(text, "cloud>>", "<<cloud", "cloud")
    /\ CloudOf(text) # {} => Places(text, "cloud>>") # {}
=============================================================================
