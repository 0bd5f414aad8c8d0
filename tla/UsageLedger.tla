---------------------------- MODULE UsageLedger ----------------------------
(* How the gateway accounts for a call (router/dnc_router/usage.py and the  *)
(* middleware of serve.py), and what the Pi extension makes of the sums     *)
(* (pi-ext/src/fleet-usage.ts).  Prices are left out: no decision reads     *)
(* them.  The tokens of a call are one number.                              *)
EXTENDS Integers, Sequences, FiniteSets, FiniteSetsExt

CONSTANTS
    MaxRecords,    \* UsageLedger.max_records
    MinCalls,      \* AdvisorConfig.minCalls
    SessionLimit,  \* DNC_SUBSCRIPTION_SESSION_LIMIT, in tokens; 0 when not set
    WarnPct        \* DNC_SUBSCRIPTION_WARN_PCT

ASSUME LedgerAssumption ==
    /\ MaxRecords \in Nat \ {0}
    /\ MinCalls \in Nat /\ SessionLimit \in Nat /\ WarnPct \in Nat

Billing == {"subscription", "per_token", "per_hour", "local"}

-----------------------------------------------------------------------------
\* classify_billing: what the operator declared, else a private address is local.
ClassifyBilling(dep) ==
    IF dep.declared \in Billing THEN dep.declared
    ELSE IF dep.private THEN "local" ELSE "per_token"

(* What the middleware makes of a body: "stream" with a usage frame, "bare" *)
(* without one, "json" (buffered), "error" (an error's JSON), "cut" (the    *)
(* client left before the last frame).  An error's object has no usage, so  *)
(* parse_usage reads the whole object as one: no tokens, and yet a record.  *)
Captured(body) == body \in {"stream", "json", "error"}

\* record_from, for the answer of a deployment (a call's tokens are one unit), and for an
\* error whose headers name none.
RecordFrom(dep) ==
    [squad |-> dep.squad, billing |-> ClassifyBilling(dep), tokens |-> 1]
ErrorRecord == [squad |-> "?", billing |-> "per_token", tokens |-> 0]

\* Mutant of Added: the limit is passed by one.
AddedOneMore(records, rec) ==
    LET all == Append(records, rec)
    IN  IF Len(all) > MaxRecords + 1
        THEN SubSeq(all, Len(all) - MaxRecords, Len(all)) ELSE all

\* UsageLedger.add: the oldest records make room.
Added(records, rec) ==
    LET all == Append(records, rec)
    IN  IF Len(all) > MaxRecords
        THEN SubSeq(all, Len(all) - MaxRecords + 1, Len(all)) ELSE all

\* summarize
Summarize(records) ==
    LET tokens(S) == MapThenSumSet(LAMBDA i : records[i].tokens, S)
        with(test(_)) == {i \in DOMAIN records : test(records[i])}
    IN  [calls    |-> Len(records),
         tokens   |-> tokens(DOMAIN records),
         tiers    |-> {records[i].squad : i \in DOMAIN records},
         frontier |-> tokens(with(LAMBDA r : r.squad = "s0")),
         plan     |-> tokens(with(LAMBDA r : r.billing = "subscription"))]

\* computeAdvice: delegated >= 25, a division by no tokens being false either way.
Delegating(sum) ==
    Cardinality(sum.tiers \ {"?"}) > 1 /\ 100 * sum.frontier <= 75 * sum.tokens

ComputeAdvice(sum) ==
    IF sum.calls < MinCalls \/ sum.plan = 0 \/ Delegating(sum) THEN "ok"
    ELSE IF SessionLimit > 0 /\ 100 * sum.plan >= WarnPct * SessionLimit
         THEN "warn" ELSE "notice"
=============================================================================
