---------------------------- MODULE FleetUsage -----------------------------
(***************************************************************************)
(* The gateway's account of the calls and what the Pi extension tells its  *)
(* user: every client (a Pi process) makes calls, the middleware of        *)
(* router/dnc_router/serve.py records what their bodies carry, and each    *)
(* client's after_provider_response hook polls the sums and may nudge once *)
(* it has them.  All clients are session "main": nobody sends              *)
(* x-dnc-session.                                                          *)
(***************************************************************************)
EXTENDS UsageLedger

CONSTANTS
    PiProcess, \* the clients
    Upstream,  \* the gateway's deployments
    Info,      \* upstream -> [squad, declared, private]
    NudgeGap   \* calls between two nudges of a client

ASSUME UsageAssumption ==
    /\ Info \in [Upstream -> [squad : STRING, declared : STRING, private : BOOLEAN]]
    /\ NudgeGap \in Nat \ {0}

VARIABLES
    body,       \* whose answer to each client's call still goes by
    hook,       \* each client's hook: what it awaits, or the sums it was sent
    ledger,     \* UsageLedger._records
    advisedAt,  \* the calls in the sums behind a client's last nudge
    since       \* history: records added since those sums, up to NudgeGap

usageVars == <<body, hook, ledger, advisedAt, since>>

Nobody == "nobody"   \* an error of the gateway's own: its headers name no deployment
Gone == "gone"       \* the body has gone by
Idle == [phase |-> "idle"]
Polling == [phase |-> "polling"]
LedgerSquad == {Info[d].squad : d \in Upstream} \cup {ErrorRecord.squad}

\* What a hook holds of the sums it was sent, and two histories: the records between
\* these sums and those of the last nudge, and the records since.
Sums == [phase : {"sent"}, calls : 0..MaxRecords, warn : BOOLEAN,
         span : 0..NudgeGap, later : 0..NudgeGap]

\* Every variable has its type, and the ledger is bounded.
UsageTypeOK ==
    /\ body \in [PiProcess -> Upstream \cup {Nobody, Gone}]
    /\ hook \in [PiProcess -> {Idle, Polling} \cup Sums]
    /\ ledger \in Seq([squad : LedgerSquad, billing : Billing, tokens : Nat])
    /\ Len(ledger) <= MaxRecords
    /\ advisedAt \in [PiProcess -> 0..MaxRecords]
    /\ since \in [PiProcess -> 0..NudgeGap]

UsageInit ==
    /\ body = [c \in PiProcess |-> Gone]
    /\ hook = [c \in PiProcess |-> Idle]
    /\ ledger = <<>>
    /\ advisedAt = [c \in PiProcess |-> 0]
    /\ since = [c \in PiProcess |-> 0]

-----------------------------------------------------------------------------
\* The headers of an answer arrive; _stamp_squad has looked the deployment's squad up.
\* The body goes by while the hook runs; the next call waits for both.
Headers(c) ==
    /\ hook[c] = Idle /\ body[c] = Gone
    /\ \E d \in Upstream \cup {Nobody} : body' = [body EXCEPT ![c] = d]
    /\ hook' = [hook EXCEPT ![c] = Polling]
    /\ UNCHANGED <<ledger, advisedAt, since>>

\* fetchRollup: GET /dnc/usage adds the records up, or there is no answer and nothing to do.
Poll(c) ==
    LET sum == Summarize(ledger) IN
    /\ hook[c] = Polling
    /\ \/ hook' = [hook EXCEPT ![c] = Idle]
       \/ hook' = [hook EXCEPT ![c] = [phase |-> "sent", calls |-> sum.calls,
                                       warn |-> ComputeAdvice(sum) = "warn",
                                       span |-> since[c], later |-> 0]]
    /\ UNCHANGED <<body, ledger, advisedAt, since>>

\* Mutant of Due: sums below the last nudge's are taken for a new count.
DueAnew(c) ==
    hook[c].warn /\ (hook[c].calls < advisedAt[c] \/ hook[c].calls - advisedAt[c] >= NudgeGap)

Due(c) == hook[c].warn /\ hook[c].calls - advisedAt[c] >= NudgeGap

\* The sums have arrived, and the hook nudges or not: by then others may be in the ledger.
Advise(c) ==
    /\ hook[c].phase = "sent"
    /\ hook' = [hook EXCEPT ![c] = Idle]
    /\ IF Due(c)
       THEN /\ advisedAt' = [advisedAt EXCEPT ![c] = hook[c].calls]
            /\ since' = [since EXCEPT ![c] = hook[c].later]
       ELSE UNCHANGED <<advisedAt, since>>
    /\ UNCHANGED <<body, ledger>>

\* The body has gone by, or its client has left: _tee's finally block records the call.
OneMore(n) == Min({n + 1, NudgeGap})
Body(c, kind) ==
    /\ body[c] # Gone
    /\ (kind = "error") <=> (body[c] = Nobody)
    /\ body' = [body EXCEPT ![c] = Gone]
    /\ IF Captured(kind)
       THEN /\ ledger' = Added(ledger, IF kind = "error" THEN ErrorRecord
                                       ELSE RecordFrom(Info[body[c]]))
            /\ since' = [k \in PiProcess |-> OneMore(since[k])]
            /\ hook' = [k \in PiProcess |-> IF hook[k].phase = "sent"
                                            THEN [hook[k] EXCEPT !.later = OneMore(@)]
                                            ELSE hook[k]]
       ELSE UNCHANGED <<ledger, since, hook>>
    /\ UNCHANGED advisedAt

\* /fleet-usage reset: POST /dnc/usage/reset; no client's advisedAt is touched.
Reset ==
    /\ ledger' = <<>>
    /\ UNCHANGED <<body, hook, advisedAt, since>>

\* The gateway restarts: the ledger is in memory, and the bodies under way are lost.
GatewayRestart ==
    /\ ledger' = <<>>
    /\ body' = [c \in PiProcess |-> Gone]
    /\ UNCHANGED <<hook, advisedAt, since>>

BodyKind == {"stream", "bare", "json", "error", "cut"}

UsageNext ==
    \/ \E c \in PiProcess :
           \/ Headers(c) \/ Poll(c) \/ Advise(c)
           \/ \E kind \in BodyKind : Body(c, kind)
    \/ Reset \/ GatewayRestart

UsageSpec == UsageInit /\ [][UsageNext]_usageVars

-----------------------------------------------------------------------------
\* "Nudge at most once every 20 calls so it informs rather than nags": between the sums
\* behind two nudges of one client NudgeGap calls were recorded, whatever the other
\* clients, a reset, a restart or the ledger's limit did before the hooks had them.
NudgesSpaced ==
    [][\A c \in PiProcess : advisedAt'[c] # advisedAt[c] => hook[c].span = NudgeGap]_usageVars
=============================================================================
