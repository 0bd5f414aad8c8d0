--------------------------- MODULE ContextMemory ---------------------------
(***************************************************************************)
(* How a Pi session's conversation gets into the long-term memory: the     *)
(* hook and the command of pi-ext/src/context-distill.ts, the sidecar's    *)
(* POST /distill (context/context/api.py) and the rows it inserts          *)
(* (store.py), beside other writers to the same partition.                 *)
(*                                                                         *)
(* Messages are numbered as they are said.  The list that comes with an    *)
(* agent_end is not always all of them: a compaction replaces those at its *)
(* front by a summary, which counts as the last of those it replaces, and  *)
(* an event without messages brings an empty list.  A fact is the text of  *)
(* a row, equal facts having equal hashes.  agent_end's handler and /remember are *)
(* two flows of one process: Pi runs the handlers of one event after those *)
(* of another, but a command as soon as the user enters it.                *)
(***************************************************************************)
EXTENDS Integers, FiniteSets, FiniteSetsExt

CONSTANTS
    Fact,
    N,          \* bound: messages of the conversation
    FactsOf,    \* message -> the durable facts in it
    Chars,      \* message -> its length
    MinChars    \* MIN_NEW_CHARS

ASSUME ContextAssumption ==
    /\ N \in Nat
    /\ FactsOf \in [1..N -> SUBSET Fact]
    /\ Chars \in [1..N -> Nat] /\ MinChars \in Nat \ {0}

Message == 1..N
Flow == {"agent_end", "remember"}

VARIABLES
    said,        \* messages said by the last agent_end
    base,        \* those that are no longer in the conversation
    latest,      \* length of the message list of the last agent_end
    mark,        \* distilledCount
    request,     \* per flow, the POST /distill it awaits
    table,       \* the facts of the partition's rows
    heard,       \* history: answered transcripts that held a message
    promised,    \* history: facts the judge found for an answered request
    overlapped,  \* history: one flow was run while the other awaited its answer
    shrunk       \* history: a list did not hold all that was said

conversation == <<said, base, latest, shrunk>>
vars == <<conversation, mark, request, table, heard, promised, overlapped>>

None == [stage |-> "none"]
Judging(from, to) == [stage |-> "judging", from |-> from, to |-> to]
Request ==
    {None} \cup [stage : {"judging"}, from : 0..N, to : 0..N]
    \cup [stage : {"storing"}, from : 0..N, to : 0..N,
          facts : SUBSET Fact, todo : SUBSET Fact]

\* Every variable has its type; a request is about something that was said.
TypeOK ==
    /\ said \in 0..N /\ base \in 0..said /\ latest \in {0, said - base}
    /\ mark \in 0..N
    /\ request \in [Flow -> Request]
    /\ \A p \in Flow : request[p] # None =>
           request[p].from < request[p].to /\ request[p].to <= said
    /\ table \subseteq Fact /\ promised \subseteq Fact
    /\ heard \in [Message -> Nat]
    /\ overlapped \in BOOLEAN /\ shrunk \in BOOLEAN

Init ==
    /\ said = 0 /\ base = 0 /\ latest = 0 /\ mark = 0
    /\ request = [p \in Flow |-> None]
    /\ table = {} /\ promised = {}
    /\ heard = [m \in Message |-> 0]
    /\ overlapped = FALSE /\ shrunk = FALSE

-----------------------------------------------------------------------------
(* The extension.                                                          *)

\* Mutant of Enough: /remember sends what there is, be it nothing.
EnoughForced(from, to, force) ==
    force \/ MapThenSumSet(LAMBDA m : Chars[m], from + 1 .. to) >= MinChars

\* enoughToDistill, of the messages after `from` up to `to`.
Enough(from, to, force) ==
    /\ \E m \in from + 1 .. to : Chars[m] > 0
    /\ force \/ MapThenSumSet(LAMBDA m : Chars[m], from + 1 .. to) >= MinChars

\* distill up to its await: latest.slice(distilledCount) goes out, or is too little to send.
Distill(p, from, to, force) ==
    /\ request' = IF Enough(from, to, force)
                  THEN [request EXCEPT ![p] = Judging(from, to)] ELSE request
    /\ overlapped' = (overlapped \/ \E q \in Flow : request[q] # None)

\* Mutant of AgentEnd: a list that is shorter than the watermark is distilled anew.
AgentEndAnew ==
    /\ request["agent_end"] = None
    /\ \E n \in said + 1 .. N, b \in base .. N - 1 :
           /\ b < n /\ said' = n /\ base' = b
           /\ latest' \in {0, n - b} /\ shrunk' = (shrunk \/ latest' # n)
           /\ mark' = IF mark > latest' THEN 0 ELSE mark
           /\ Distill("agent_end", b + mark', b + latest', FALSE)
    /\ UNCHANGED <<table, heard, promised>>

\* agent_end: the freshest conversation or `?? []`, distilled without force.  The watermark
\* is a position in a list that may be a shorter one by now.
AgentEnd ==
    /\ request["agent_end"] = None
    /\ \E n \in said + 1 .. N, b \in base .. N - 1 :
           /\ b < n /\ said' = n /\ base' = b
           /\ latest' \in {0, n - b} /\ shrunk' = (shrunk \/ latest' # n)
           /\ Distill("agent_end", b + mark, b + latest', FALSE)
    /\ UNCHANGED <<mark, table, heard, promised>>

\* /remember
Remember ==
    /\ request["remember"] = None
    /\ Distill("remember", base + mark, base + latest, TRUE)
    /\ UNCHANGED <<conversation, mark, table, heard, promised>>

-----------------------------------------------------------------------------
(* The sidecar, in a thread of its own for each request.                   *)

\* judge.distill: the facts worth keeping; a reply that cannot be read is no fact at all.
Judge(p) ==
    /\ request[p].stage = "judging"
    /\ LET r == request[p] IN
       \E F \in SUBSET UNION {FactsOf[m] : m \in r.from + 1 .. r.to} :
           request' = [request EXCEPT ![p] =
               [stage |-> "storing", from |-> r.from, to |-> r.to,
                facts |-> F, todo |-> F]]
    /\ UNCHANGED <<conversation, mark, table, heard, promised, overlapped>>

\* Mutant of Insert: a fact that cannot be inserted is passed over.
InsertOrSkip(p) ==
    /\ request[p].stage = "storing"
    /\ \E f \in request[p].todo :
           /\ table' = table \cup {f} \/ UNCHANGED table
           /\ request' = [request EXCEPT ![p].todo = @ \ {f}]
    /\ UNCHANGED <<conversation, mark, heard, promised, overlapped>>

\* Store.add, one fact: ON CONFLICT DO NOTHING.
Insert(p) ==
    /\ request[p].stage = "storing"
    /\ \E f \in request[p].todo :
           /\ table' = table \cup {f}
           /\ request' = [request EXCEPT ![p].todo = @ \ {f}]
    /\ UNCHANGED <<conversation, mark, heard, promised, overlapped>>

\* Everything is stored and the answer reaches distill, which sets the watermark.
Answer(p) ==
    /\ request[p].stage = "storing" /\ request[p].todo = {}
    /\ mark' = latest
    /\ request' = [request EXCEPT ![p] = None]
    /\ LET r == request[p] IN
       /\ heard' = [m \in Message |-> heard[m] + IF m \in r.from + 1 .. r.to THEN 1 ELSE 0]
       /\ promised' = promised \cup r.facts
    /\ UNCHANGED <<conversation, table, overlapped>>

\* Mutant of Fail: the watermark is set whatever came back.
FailAdvancing(p) ==
    /\ request[p] # None
    /\ request' = [request EXCEPT ![p] = None]
    /\ mark' = latest
    /\ UNCHANGED <<conversation, table, heard, promised, overlapped>>

\* The judge, the embedding, the database or the sidecar fails: distill returns null, the
\* watermark stays, and the rows inserted so far stay too (autocommit).
Fail(p) ==
    /\ request[p] # None
    /\ request' = [request EXCEPT ![p] = None]
    /\ UNCHANGED <<conversation, mark, table, heard, promised, overlapped>>

\* Another session of this repository, the harness or the CLI stores a fact.
Elsewhere(f) ==
    /\ table' = table \cup {f}
    /\ UNCHANGED <<conversation, mark, request, heard, promised, overlapped>>

Next ==
    \/ AgentEnd \/ Remember
    \/ \E p \in Flow : Judge(p) \/ Insert(p) \/ Answer(p) \/ Fail(p)
    \/ \E f \in Fact : Elsewhere(f)

Spec == Init /\ [][Next]_vars

-----------------------------------------------------------------------------
(* Properties.                                                             *)

\* "Messages already sent to the judge": as long as the two flows did not overlap, no message
\* is in two answered transcripts, whatever failed and was sent again, and although the
\* watermark counts positions of a list whose front a compaction may have cut off.
NeverTwice == ~overlapped => \A m \in Message : heard[m] <= 1

\* "Advance the watermark only on a successful call": if, besides, every list so far held all
\* that was said, a message was in an answered transcript when the watermark has passed it
\* and in none before.
ExactlyOnce ==
    ~overlapped /\ ~shrunk => \A m \in Message : heard[m] = IF m <= mark THEN 1 ELSE 0

\* An answer means that every fact the judge found is stored, with two requests on one
\* partition, other writers and partial failures about.
AnsweredMeansStored == promised \subseteq table

\* "Leave the watermark, retry after the next turn" (context-distill.ts:68): what the
\* watermark has passed in a list that has only grown is in a transcript that was answered
\* or may still be.
NothingSkipped ==
    ~shrunk => \A m \in 1..mark :
        \/ heard[m] > 0
        \/ \E p \in Flow : request[p] # None /\ m \in request[p].from + 1 .. request[p].to
=============================================================================
