# Verification of divide-and-conquer (pi-enders-game-edition)

TLA+ models of the repository's core logic, the TLC runs that check them on small instances,
and theorems about them that TLAPS proves for every value of the constants. Line references
are to the sources under `src/`.

## 1. The system

The repository is a complexity-tiered gateway in front of a fleet of language-model servers
("squads" s0 to s3), with the daemons that look after the fleet.

| Part | Where | State it keeps | Operations | What is hard |
|---|---|---|---|---|
| Fleet power | `fleetd/fleetd/power.py`, `/power/*` in `api.py` | per request: a task, a phase and a gate per node | wake, SSH power-off, poll, gates, SSE stream | one task per node on an event loop; chassis order; unreliable probes; timeouts; a client that disconnects |
| Burst GPUs | `burst/burst` | `BurstManager.nodes`, `spent_today_usd`, pods at the provider | up (rent, poll, register), down, reap, reconcile, CLI | coroutines that interleave at awaits; provider calls that fail half way; crashes; money |
| Burst policy and capacity | `burst/burst/policy.py`, `profiles.py`, `template.py` | none (pure) | gate, replicas, keep/kill, KV-cache capacity | thresholds, rounding, boundary cases |
| Deployments and plays | `fleetd/fleetd/plays.py`, `discover.py`, `db.py`, `api.py` | the deployment table; containers and processes on hosts | put, apply, migrate, discover, stop | records held across remote calls; cut-over; a call that raises half way |
| Node registry and gateway configuration | `power.py:115-259`, `litellm_sync.py`, `providers.py`, `/nodes`, `/tiers` in `api.py` | the node file, the LiteLLM config, the tiers file, the env file | register, deregister, sync, set tiers, set key | thread-pool endpoints that read, edit and replace whole files; a shared temporary name; crashes between two writes |
| Router | `router/dnc_router/strategy.py`, `serve.py` | the window of recent selections per deployment | pick a tier, degrade it, pick a deployment | selections stand for load; fallback when nothing is healthy; cache affinity against load |
| Usage ledger and advice | `router/dnc_router/usage.py`, `serve.py`, `pi-ext/src/fleet-usage.ts` | a bounded list of calls; per client, the count at its last nudge | record, sum up, advise, reset | sums shared by all clients, read before a call's own body has gone by; resets and restarts under the clients |
| Context memory | `context/context`, `pi-ext/src/context-*.ts` | fact rows in Postgres; the client's watermark and latest message list | distill, remember, recall | a message list replaced during an await; retries; partial inserts |
| Harness | `harness/src/fanout.ts` | a semaphore per squad, child processes | dispatch | hand-over of a slot between a release and a waiter; abort; a spawn that throws |
| CLI proxy | `cliproxy/cliproxy` | module registry, tokens | route a request to a module, refresh | pure request plumbing for the most part |
| Pi extension | `pi-ext/src` | command state | UI commands over fleetd's API | SSE parsing, formatting |
| Tools, deploy, agents, docs | `tools/`, `deploy/`, `agents/`, `docs/` | none | scripts, units, prompts | not concurrent |

How they meet: the Pi extension and the harness call fleetd (HTTP, SSE), the router (HTTP)
and the context sidecar (HTTP). fleetd wakes boards and runs plays over SSH, and writes the
LiteLLM configuration that the router serves. The burst API is mounted in fleetd and, when
it is given callbacks, adds pods to the gateway.

What makes each part correct, and what a test hardly reaches, is listed per component in
`PROJECT.json` ("hazards"), each at its line and with the property that covers it.

## 2. The plan

Done in this order, the parts that move hardware, money, servers and files first:

1. `FleetPower` with its abstract specification `PowerOrder`, and `FleetPowerProofs`.
2. `BurstLifecycle` and `BurstLifecycleProofs`.
3. `Deployments`, and `DeploymentsProofs`.
4. `ConfigText` (the two edits of one text), `ConfigFiles` (the requests that make them), their
   abstract specification `GatewayConfig`, and `ConfigFilesProofs`.
5. `Fanout`, its abstract specification `SquadSlots`, and `FanoutProofs`.
6. `RouterStrategy` (the strategy's decisions as operators) and `Gateway` (clients, retries,
   cool-downs, fallbacks and time around them).
7. `UsageLedger` (what a call is recorded as, the sums, the advice) and `FleetUsage` (the calls and
   nudges of several clients); the proofs about both gateway models are in `RouterProofs`.
8. `ContextMemory` and `ContextMemoryProofs`.
9. `BurstPolicy` (gate, replicas, keep/kill and KV-cache arithmetic), `BurstBudget` (the clock
   and the money of renting) and `BurstBudgetProofs`.

Nothing of the plan is left. What could come next is in sections 6 and 7. The suite is kept small enough
to run before every merge.

`FleetPower` implements `PowerOrder`, `ConfigFiles` implements `GatewayConfig`, `Fanout` implements
`SquadSlots`; `ConfigFiles` extends `ConfigText`. The components do not share state in the code beyond files and HTTP calls,
so no module composes fleet power with deployments or the burst tier: a call from one to another
is an input of the one that is called. Three pairs do meet in one module: the strategy with
LiteLLM's retries and several clients (`Gateway` extends `RouterStrategy`), the gateway's ledger
with the extension that reads it (`FleetUsage` extends `UsageLedger`), the burst policy with the
manager that applies it (`BurstBudget` extends `BurstPolicy`).

## 3. Modules and the code

`PROJECT.json` ("map") gives the lines of every definition. What is one action, and why:

**FleetPower** (`power.py`, `/power/stream`). One request. `power` is what the boards really do
and is moved by the environment (`HwMove`, `HwBoot`, `HwServe`, ...); `task`, `states` and `gate` are
the local variables of `watch`. An action is what a task does between two awaits: `Wake` is the
packet and the start of the first poll, `PowerOff`/`PowerOffReturns` the ssh process, `SshProbed` and
`HealthProbed` the two probes of a poll, `NextPoll` its sleep, with the choice whether the budget is
over. A probe of a `Flaky` node may fail although the service is up; a magic packet may be lost; the power-off of
a `Faulty` node may fail to launch. `Disconnect` is the generator's `finally`. When the request comes in
the boards may be in any state, also booting or halting; `revived` is history: boards that came up after a
poll had read them as offline.
`PowerOrder` is the promise in five definitions: a node is commanded after the verdicts on the
nodes it comes after, and on ON only when they are good.

**BurstLifecycle** (`lifecycle.py`, `api.py`, `cli.py`, `drivers/runpod.py`). `nodes`, `marked` and
`charged` are `BurstManager`'s; `pod` and `gateway` belong to the provider and to LiteLLM. Driver
calls are synchronous, so an action is what a coroutine does between two awaits or yields.
`wired` says whether the manager has its callbacks (`api.manager` gives it none), `faulty`
whether calls may fail and the daemon may crash. Ages are the verdict the policy draws from
them. The gateway changes its routes at some time while a callback runs (`Routed`, `Unrouted`), at the latest when it
returns (`UpRegistered`, `RelDeregistered`); releases and reaper passes overlap as they may. Four variables are history:
`answered` (pods that answered a probe), `contested` (pods two releases had in hand at once), `cut` (pods given back under
their stream, or whose stream was dropped in the callback) and `lost` (pods a failed call or a crash took out of the registry).
What the systemd timer runs, `dnc-burst reap`, is a process that knows no node and does nothing to one: it has no action.

**Deployments** (`api.py`, `plays.py`, `discover.py`, `db.py`). A request holds a copy of its row
(`rec`) across remote commands and writes it back whole, as `Db.upsert` does; what a request
knows of its plan is chosen when it resolves. `run` is the host; `contained` the old servers
that live in containers. Operators who break the documented rules (two plays of one
deployment at once, a replacement on a port in use, migrating a managed row) are let in up to
`MaxCareless` times; properties that depend on the rules say `careful`. `UnitsRight` is
the condition that discovery recorded the right unit.

**ConfigText** and **ConfigFiles** (`power.py:115-259`, `litellm_sync.py`, `providers.py`, `api.py`).
`file` is what a reader of each path finds (absent, empty, torn, whole), `tmp` the file
`<path>.tmp` shared by all writers of the path. A request reads and computes (`Register`,
`Sync`, `ApplyTiers`, ...), opens the temporary file (which cuts it off), fills it and
replaces; each is one action, because FastAPI runs these endpoints in a pool of threads, and two requests may
be at the same file at once. The open descriptor (`fd`) remembers whether the name has moved meanwhile: a writer whose
temporary file was replaced writes into the live file. `shared` is history: the files whose temporary name two requests
had open at once. What a request makes of a torn text is torn; what it reads out of one is any choice.
The LiteLLM text is a sequence of lines; entries and fences keep their order, all else of YAML is left out, and so are
the backups, which nothing reads.
`GatewayConfig` is the promise: a request replaces a file by one change of what it read there. It does not promise
that nobody wrote the file in between, nor anything about a file whose temporary name was shared, for the code keeps neither.

**Fanout** (`harness/src/fanout.ts`). One `dispatch`. The synchronous pass of `subtasks.map` is a step for
each task with nothing in between (`reached`). Then an action is one microtask (`Resume`,
`Spawn`, `Release`) or one event (`Exit`, `Abort`), and events wait until no microtask is pending, as in
Node; the order of pending microtasks is left open. `inFlight` and `queue` are the fields of
`Semaphore`; a task whose resolver was called is `woken` until it raises the count.
`SquadSlots` is the promise of the semaphores: a task gets a slot at once while one is free, and a slot that is given
back goes to the task that waits longest, in the same instant. A task has asked once the pass has reached
it, holds a slot from when its resolver was called until it releases (`Serving`), and waits in `queue`.

**BurstPolicy** and **BurstBudget** (`policy.py`, `profiles.py`, `template.py`, `lifecycle.py`, `api.py`,
`drivers/runpod.py`). `BurstPolicy` holds the pure decisions in whole numbers: money in cents,
demand in millions of tokens, contexts in units of 1024 tokens, the tables of cards and models
as in the source; template arguments are left out, what `render` refuses is kept. `BurstBudget`
is one manager as `api.manager` builds it, without callbacks: a release then has no await and is
one step. It adds to `BurstLifecycle` what that module leaves out, ages and bills; calls to the
provider take effect, since their failures are over there. A node is billed at its card's list
rate. `Tick` lets time pass up to what is due and no further: the next `/reap`, the end of a
provisioning budget, and for a `careful` operator the hours that were asked of the gate. Whoever
is not careful rents, names cards and gives back as he likes.

**RouterStrategy** and **Gateway** (`strategy.py`, `router/litellm-config.example.yaml`). The
operators have the names of the functions. A selection is one step, because the strategy has no
await. `recent` holds the selections of the last window by deployment and age, `cooling` LiteLLM's
cool-downs. LiteLLM itself is external: retries, cool-down after a failure and the chain of
fallbacks are as the example configuration sets them (`:121-134`). What a client asks (model,
`x-dnc-tier`, complexity, size of the prompt) is an input, its first message a hash; `"none"` stands for no hint
and for no fallback.
`CooldownShape` is what LiteLLM returns for the cooling deployments, ids or a pair of lists
(`strategy.py:226-244`); the run has ids.

**UsageLedger** and **FleetUsage** (`usage.py`, `serve.py`, `fleet-usage.ts`). A client's call begins with the
headers, which are stamped and start the extension's hook (`Headers`). The hook polls the sums (`Poll`), awaits them,
and then nudges or not (`Advise`); the call's body goes by meanwhile and is recorded when it ends
(`Body`), and so are those of others. A body is one of five kinds, of
which the parser makes a record or none; an error's body makes a record without tokens. All
clients are in one session, since nobody sends `x-dnc-session`. `since`, `span` and `later` are history: the records
since the sums of a client's last nudge, those between them and the sums the hook holds now, and those after these.
The clients are called `PiProcess` and the ledger's deployments `Upstream`, apart
from `Gateway`'s, so that one module can prove things about both.

**ContextMemory** (`context-distill.ts`, `context/api.py`, `judge.py`, `store.py`). Two flows of one
process, the `agent_end` handler and `/remember`, each with at most one request under way; a step
ends at an await. The sidecar judges, then inserts fact by fact (autocommit, `ON CONFLICT DO NOTHING`)
and answers; it may fail at any point, and others write to the same partition. Messages are numbered as they are
said. The list of an event may lack its front, which a compaction has replaced by a summary (`base`), or be empty; `mark`
stays the position it was. `heard`, `promised`, `overlapped` and `shrunk` are history: the answered transcripts a message was in,
the facts found for them, whether one flow ran while the other awaited its answer, and whether a list was not all that was said.
A fact is its hash.

## 4. The runs

| Run | Shows | Instance |
|---|---|---|
| `FleetChassis` | mates woken under running fans and fans stopped after the mates, what `done` means, no task waiting for one that is gone, nothing commanded after a disconnect, `PowerOrder` implemented, every stream ends | boards in any state, a fan controller whose power-off may not launch, two mates, one with probes that may fail |
| `FleetForcedOff` (violation) | a forced OFF stops the fans while a mate that timed out still runs | a fan controller, a mate and a node without chassis, no faults |
| `Fanout` | limits kept, no slot idle while a task waits, slots handed on in the order of asking (`SquadSlots`), an abort settles all | ten tasks, squads with three and two slots, two tasks that cannot be spawned |
| `BurstSafety` | routed only after a probe; charged twice only when two releases had the pod; no pod forgotten but by a failure; deregistered before terminated, but for pods cut short | two pods, one stream for one replica at a time, two releases or reaper passes, one crash |
| `BurstLive` | every stream ends | one pod, one stream of up to two replicas, two releases, one crash |
| `BurstBudget` | no node outlives its lifetime, or the idle time since it was created or first served, by more than a reaper period; a careful operator stays under the daily cap | two nodes, three cards (one too small for what is served), clock of six ticks, reaper every two |
| `DeploySafety` | an old server stops only for a replacement that answers, while its row says migrating; the table tells the truth | two old servers, one port for replacements, two requests, one crash, one careless request |
| `ConfigSafety` | files whole until their temporary name is shared, fences that compose, one change for each request | two nodes, three entries of the operator's, one of which reads like a generated one and one that a sync refuses, two overlapping requests, crashes |
| `Gateway` | no attempt goes to a cooling deployment while another is up; slots are used before one is doubled | two clients, two boards with one slot and a hosted deployment, three calls with a retry each, restarts |
| `FleetUsage` | the ledger is bounded; between the sums behind two nudges of a client the gap was recorded | two clients, a subscription and a board, four records, gap of two calls |
| `ContextMemory` | no message in two answered transcripts; each in exactly one while lists only grow; what an answer promised is stored | five messages, three facts, `agent_end` beside `/remember`, compactions, events without messages, other writers |
| `DistillSkips` (violation) | with the two flows overlapping, a message is never sent to the sidecar at all | the same |

Bounds. `MaxReplicas` and `MaxCrash` (burst), `MaxNow` (the budget's clock), `MaxCrash` and
`MaxCareless` (deployments), `MaxActs` (requests and edits by hand, configuration), `Turns` (calls of all clients of the gateway),
`N` (messages, tasks) and `MaxRecords` (which is the code's own bound) are the only counters. Two of
each actor are what the hazards need: two waiters of one
gate, two pods, two releases of one pod, two holders of one row, two writers of one path, two clients that
load one board or read one ledger; one more of each runs the same pairs. A pod id is handed out
once in `BurstLifecycle`, so the second pod is also the "next" pod after the first was given back;
a stream that goes on to its next replica is where a new stream begins, so `BurstSafety` asks for one at a time and
`BurstLive` for two;
in `BurstBudget` an id is free again. One crash suffices for what is left over from before it: after
it every request is new. Six ticks hold a whole life there (provisioning two, lifetime three, a
reaper period two), with the lifetime and the idle time both deciding; four records an overflow of the ledger between
two nudges, five messages a distillation that fails, one that succeeds, one that overlaps and a compaction, four requests or edits two that
overlap after the text has both fences, three calls both boards
loaded and one more turn that must spill. The thresholds of `BurstBudget.cfg` lie between the
values of its six demands, two that pay and four that fail for one reason each. The theorems of section 5 do not rest on these bounds: they are
proved for all values.

Ten tasks give every squad waiters behind its limit, and more than one hand-over of each slot.

`CHECK_DEADLOCK FALSE` is set for the fleet and the harness only: a request or a dispatch that is
done has nothing left to do.

Fairness. An event loop resumes every coroutine whose await is over: weak fairness of a
task's step, strong where the step is enabled and disabled by others in between. That polls
do not go on for ever with the clock standing still is strong fairness of the poll that reads a
time past the budget (`NextPoll(n, TRUE)`, `UpPoll(u, TRUE)`, `UpProbed(u, TRUE)`). Nothing is
assumed of boards (they may stay dark) or of the client. An ssh process is assumed to return
(`power_off_ssh` has no timeout of its own beyond the connect). A child of the harness that was
told to end is gone after SIGKILL; one that was not may run for ever. `FairSpec` of the burst tier
assumes of nobody that they call `POST /burst/reap`: the repository deploys only the `dnc-burst reap` process, which
would not do (section 6), so no run says that a forgotten pod is given back.
`BurstBudget` asks how long a pod may live where somebody does call it: its `Tick` waits for a `/reap` every `ReapEvery` ticks.
`Gateway`, `FleetUsage`, `ContextMemory` and `BurstBudget` promise nothing that must happen: a client may
leave, a sidecar stay silent, and every retry has a bound of its own.

## 5. The proofs

Each theorem holds for every value of the constants that satisfies the module's assumption
(`FleetAssumption`, `DeploymentsAssumption` and `NoneAssumption`, `FilesAssumption` and
`TextAssumption`, `FanoutAssumption`, `ContextAssumption`, `RouterAssumption`, `GatewayAssumption`, `LedgerAssumption` and `UsageAssumption`,
`PolicyAssumption` and `BudgetAssumption`, `BurstAssumption`). They ask for sets and numbers of the right kind and
do not bound their size. Three say more: that sets of things that exist are finite (nodes and pods, whose number the
proofs count), that names which stand for nothing (`NoNode`, `NoGrant`, `NoPod`, `Nobody`, `"none"`) are not the name of something, and that
the configuration fleetd starts from has no fence yet, which is what the template ships. A theorem that needs more has it as a
hypothesis, told below.

Where a number has to be counted down, the proof looks at the least number of a set that would be a counterexample
(`LeastOf`, and `Induct` from it): the library's induction theorems take an operator, which the
provers cannot be given. The recursion itself is a recursive function (`Lines` in `ConfigText`) or a
fold, whose equation is cited at one argument at a time.

`FleetPowerProofs`. None of the safety properties is inductive. `IInv` adds what links a
task to the boards: an idle request has no tasks (`IdleInv`); a task's place tells whether its
node was commanded (`TaskInv`); a good verdict on ON belongs to a board that is up, and on OFF
to one reported offline or given up on, which is down but for probes that were wrong and boards that came up since
(`VerdictInv`, `OffInv`); whoever was commanded had its
gates open, and whoever is blocked had not (`FiredInv`, `BlockedInv`). `WaitsOnFlat` (the order has one level) keeps a gate from depending on
another gate's owner. The refinement theorem follows step by step: only `Wake` and `PowerOff`
command, only a classified poll judges, everything else stutters. `SettleInv` is about the end of a request: each task that
has ended has a reason of its own (a verdict, a power-off that could not be launched, a client that left), and a
request that is over has no task left. From it come `DoneMeansSettled` and `NothingFiredAfterDisconnect`.
`LatchInv` says that a task that ended at its goal or its timeout has judged its gate, so that `NobodyWaitsInVain` follows: while a request stands open some task
can go on, or a power-off could not be launched. This is the safety part of `StreamEnds`, for every fleet and every set of faulty
commands, the mates' included, which the run leaves out.

`BurstLifecycleProofs`. A stream that has a pod is the only one that has it, and the pod is rented and not marked
(`StreamInv`); its step tells whether the pod has answered a probe (`StepInv`); only what was rented is in the registry, marked or in
the snapshot of a release (`RentedInv`). `RoutedOnlyAfterProbe` and `NoForgottenPod` are parts of the invariant. `CutInv` is
about routes: the gateway routes to what is marked, being registered or was cut short, and a marked or provisioning pod that is deleted was
cut short; `TerminatedOffGateway` follows. `ChargeInv` says of a pod that was never contested that it is in one snapshot at most, and in
none any more once it was charged; `BilledOnce`, which concludes `ChargedTwiceIfContested`, follows for any number of overlapping releases.
All five theorems hold without a hypothesis.

`DeploymentsProofs`. `FactsInv` (types, and what a request holds at each step) gives
`FactsKept`. `CareInv` says, while operators are careful and the units right, that running
plays concern different rows and containers, that a play's copy is what the table says,
and which step of which kind may reach the cut-over; from it `CutoverVerified`,
`OnlyMigratingTouched` and `HealthyServes`. `TruthInv` adds, while commands answer, where each
old server is during its migration, for `RowsTellTheTruth`. The guards are kept backwards:
carelessness is never forgotten and a wrong unit never corrected, so what holds after a step
held before (`Backwards`).

`ConfigFilesProofs`. The theorems are about requests that overlap as they may. `Own` says whose the temporary file is
while its name was not shared: the one request that has it open, with nothing or that request's own text in it. A
descriptor can only point at a live file, or at one that is gone, when the name was shared (`Own` again), which is why a writer
spoils no other path and why `WholeFiles` follows. `Sound` carries this to what was read from there.

The theorems on what the files say rest on a small theory of texts. The loops that go through the lines of the
configuration keep some of them: `Picked` says that a sequence consists of the lines of another at certain
places, in their order, and two sequences that are picked at the same places are the same. From it the
edits are known without looking at their recursion: what `Applied` and `Synced` keep, and that their
results are `Tidy` (lines of known kinds; the cloud tiers' block, if any, on top; the fleet's fence there at most once, closed, and with
exactly its entries between the marks). `Tidy` is the strengthening that `FencesCompose` lacks: that the cloud tiers' block is on top is why
dropping it never takes a line of the fleet's. `Shape` says that every file, temporary file and text that is on
its way is tidy, of its path's type, or spoilt, and gives `TypeOK` and `FencesCompose`.

For the refinement, `Means` says of every request that what it is about to write is one change of what it read: the registry
with one node changed, the keys with one more, the configuration with the fleet's or the cloud tiers' block made anew, and with
it the operator's entries that read like generated ones dropped or kept. This is said of the text that was read, not of the file
as it is by now, so it survives all steps of others. Then each step maps to one: the start of a request to a reading, a
replacement to the change its request means, the opening of a name another has open to its sharing, what that may do afterwards to a
spoiling, and everything else (an open, a fill, a restart) to nothing at all.

`FanoutProofs`. A slot counts as held from the moment it is handed over (`Slots`), although
`inFlight` counts its task only when it resumes; `CountInv` and `SlotInv` keep the two numbers apart and
say that a squad with a waiter has no slot to spare, `QueueInv` that a queue holds exactly the
waiting tasks in the order of the list, `PassInv` what may have happened before the pass is over.
The cardinalities come from FiniteSetTheorems, one task at a time. `ServedInTurn` shows that `Fanout` implements `SquadSlots`:
the pass asks for one task after the other, `Release` gives back and hands over, and everything else, a woken task's
`Resume` too, stutters. It rests on `HeldByServing`: the slots that count as held are those of the tasks in `Serving`,
so a full squad is full in both.

`ContextMemoryProofs`. That a request under way is about the messages from the watermark on, to the end of the list, is
true only while no other flow moves the watermark or the list; the invariant says it of the one request that
may be under way while the flows have not overlapped (`AloneInv`). `HeardInv` says that what was heard lies before the watermark,
wherever the list begins by now: `base` only grows, and an answer moves the watermark up, since a request is never about nothing
(`EnoughIsSomething`). `NeverTwice` follows for all lists. `ListInv` adds that a list that was never short begins with the first message, for `ExactlyOnce`.
For `AnsweredMeansStored` the invariant says that what a storing request has left behind (`facts` without `todo`) is in
the table, where nothing ever deletes a row.

`RouterProofs`. The strategy adds up selections and ranks deployments by id, so the module starts with sums over finite
sets (`SumIs`, `SumGrows`, `SumAbove`) and with `Ranked`: in a finite set of ids some id has each rank, which is why
`ordered[h % len(ordered)]` is defined and names a candidate. From these come `SelectedIs` and `SelectIs`: a selection is the preferred
deployment below the threshold, or a least loaded one. `TypeOK` is inductive as it stands, with `OnlySelects` (only a step
of the router makes `recent` grow, by one selection, whose age is zero) under it. `DownNodesAvoided`
is `RoutedAround` for every gateway; it supposes `CooldownShape = "ids"`, without which it is false (section 6). `LoadSpread`
(`NoDogpile`) compares loads after the selection, in which the chosen one's has grown by one and no other's has changed. `PromptsEscalate` and
`DegradedToNearest` say what `pick_tier`'s escalation and `degrade_squad` return, for every prompt and every set of squads
that are there. Of the account: the ledger's length is not the number of calls, since it stops growing at its limit and
falls to nothing. `Behind` is what survives: while fewer than `NudgeGap` records came since the sums of a client's
last nudge, the ledger is at most that much longer than they said; `SumsBehind` says the same of the sums a hook holds, whatever
the ledger has become since they were sent; `NoNagging` follows.

`BurstBudgetProofs`. `GivenBackInTime` follows from what the last pass of the reaper kept (`KeptInv`), since `Tick`
waits for the next. `ServedInv` bounds the time until a node serves by the budget of its stream, which
`StreamInv` ties to the node's creation; a dropped stream leaves the node's `last` where creation put it.
For `CapKept` the invariant is about money not spent yet: while an operator is careful, all nodes and the stream are of the one
grant that was used (`HonestInv`), and what was spent plus the grant's hours at its card's rate, for each node
that lives and each replica to come, is within the cap (`CapInv`). A release moves money from one term to the other:
the sum of bills that it adds is at most as many grants as nodes leave the registry. Sums over sets are shown to exist, and bounded, by
induction on the size of the set.

Model-checked only: liveness (`AbortSettles`, `StreamEnds`, `EveryStreamEnds`), which
is beyond the prover. Every safety property and every refinement that a passing run checks is also a theorem.
Proved and not run: `BlockedByDeadFans`, `FactsKept`, `InOrder`, and the type invariants of `FleetPower`, `Deployments` and `Fanout`, which
only say what kind of value each variable has.

## 6. Where texts and code differ

Shown by the runs marked "violation" and listed with quotes in `PROJECT.json` ("findings").
Seen while modelling, and not the subject of a run:

Fleet power
- When a mate's power-off cannot be launched its gate never resolves (`power.py:530`): the fan
  controller waits for ever and the stream never ends, against `power.py:465-467`.
- The order is kept within one request. A request that names mates only is not ordered after
  its fan controllers (`power.py:538` against `power.py:417`), and `force` does not override "blocked"
  (`power.py:525`).
- A mate that is still booting when a forced OFF comes has no sshd yet and reads as offline (`power.py:274`); the gate opens
  (`power.py:507`), the fan controller is stopped, and the mate comes up without it. `FansOutliveMates` names the case (`revived`).
- `tools/fleetpower.py` commands all boards of a selection at once from sixteen threads: it spares fan controllers on OFF
  unless forced, and knows nothing of the chassis order. Its `--sync` writes `<path>.tmp` like fleetd does.

Burst tier
- Two releases of one node that overlap charge its bill twice, and the second terminate raises
  (`lifecycle.py:137,143` against `lifecycle.py:135`): `ChargedTwiceIfContested` says that this is the only way.
- A node that is released while its stream still provisions it, or inside `register_cb` when the gateway routes to it already, is not
  deregistered (`lifecycle.py:136`), and the stream registers it afterwards: the gateway routes to a terminated pod
  (`lifecycle.py:117` against `policy.py:234`). `TerminatedOffGateway` says that only such a pod, or one whose
  stream was dropped inside the callback, is.
- What the systemd timer runs, `dnc-burst reap`, is a process with an empty registry: it lists and
  releases nothing (`cli.py:145` against `deploy/dnc-burst-reaper.service:1`). Nothing that is deployed gives a forgotten
  pod back.
- `release` does not drain (`lifecycle.py:140` against `lifecycle.py:9`).
- `/down` looks an unknown id up before it answers 404, and raises KeyError (`api.py:156-158`).
- Idle time ignores traffic: `last_request_at` is set once (`lifecycle.py:153` against `policy.py:76`).
- Renting asks neither the gate nor the daily cap (`api.py:135-149` against `README.md:242` and
  `burst/README.md:48`); that the cap holds (`CapKept`) rests on an operator who asks the gate first and gives back
  in time. The gate itself does not count what live nodes have cost so far, nodes that were given back without serving are never
  billed, and `spent_today_usd` is never reset.
- The gate may answer BURST where the rent exceeds the fallback: it holds one node's price
  against the demand (`policy.py:132`), and then plans several nodes (against `policy.py:75`). With 1.69 $ an hour, a fallback of 0.60 $
  per million tokens, nine million tokens in two hours and 4.32 million per node and hour
  it rents two, 6.76 $ for 5.40 $. It is the arithmetic of one step, and no property is about it.
- `best_template` takes the first fitting quantisation's cheapest card, not the cheapest overall; the driver
  takes a model that one sequence fits where `/capacity` asks for eight; offers are not checked for stock
  (`runpod.py:67-77`). `volume_action` and `spillover_tier` are never called (against `policy.py:16`), and two of
  `render`'s refusals cannot happen with the present tables.
- A terminate that fails, or a GET that fails, loses the pod (`lifecycle.py:142`, `runpod.py:123`
  against `drivers/base.py:93-94`); a crash loses the registry, and `reconcile` only lists
  (`lifecycle.py:163` against `docs/burst-gpu.md:380-381`).
- The API's manager has no callbacks, so its pods are never routed to (`api.py:48` against
  `drivers/base.py:59`). A stream cancelled inside `register_cb` can leave a pod routed after its release.
  `dnc-burst up`, `down` and `status` are processes with a manager of their own.

Deployments
- For every server in a container discovery records the first container that `docker ps` lists, and the
  cut-over may then remove the wrong one (`discover.py:141` with `plays.py:383`): `UnitsRight` is the
  condition under which it does not.
- `_run_migration` marks the row before `plays.migrate` can refuse it (`api.py:191` against
  `test_plays.py:270`), and a stopped row can be migrated again (against `plays.py:3`).
- A command that raises leaves the row deploying or migrating for good.
- When stopping the old server fails, the replacement runs on and no row names it.
- A container of a managed deployment is found by the next discovery and catalogued as adopted.

Configuration
- Two registrations at once share `<path>.tmp`, and an empty or mixed node file can be put in place, or a writer's text goes
  straight into the live file (`power.py:180` against `power.py:119-120`). So do two changes of the keys or the tiers, and a sync beside a change
  of tiers. `WholeFiles` says that only such a file is ever not whole.
- Of two overlapping changes of one file the one that is replaced first is lost, without an error (`power.py:226`, `litellm_sync.py:171`,
  `providers.py:301`), and a sync writes the entries of the nodes it had looked up before (`api.py:459`). `OneChangeEach` promises no more.
- A sync drops an entry of the operator's that reads like a generated one, squad s3 at an address `http://<digit>`
  (`litellm_sync.py:41` against `litellm_sync.py:113`).
- A `nodes:` header with a comment behind it is not recognised (`power.py:190`): a second block is
  appended, which hides the first. Removing an entry of several lines leaves lines behind or is refused.
- Comments after a node entry are dropped by the first sync (against `litellm_sync.py:111-112`); so is a closing fence
  that stands in such a place, and the next change of tiers then drops everything to the end.
- A new provider with models for some tiers keeps the old provider's models for the others (`api.py:381`).
- `tiers.yaml` is saved before the configuration is rendered; when rendering fails they disagree.
  When the restart fails a sync answers 500 although its edit is in place.

Harness
- A spawn that throws rejects the whole dispatch while children run and queued tasks are still
  spawned (`fanout.ts:76` against `fanout.ts:152` "resolves when all finish"); results with one id
  overwrite each other; the limits hold per call of `dispatch`, not per process.

Router
- On s3 a session's own last turn makes its board look busy, so its turns do not stay pinned
  (`strategy.py:48` against `strategy.py:73`).
- A degraded tier goes toward s3 first and undoes an escalation (`strategy.py:121`): a prompt too long for s3
  lands there when s2 has no deployment. `x-dnc-tier` is not validated.
- When LiteLLM returns a pair of lists for the cooling deployments, `_unhealthy` iterates over the pair and
  leaves nothing out (`strategy.py:237-241`): `Gateway.cfg` has ids; with `CooldownShape = "pair"` `RoutedAround` fails.

Usage and advice
- An error's body is recorded as a call without tokens (`serve.py:184`); a stream that is cut off before its
  last frame is not recorded at all.
- `computeAdvice` says that all tokens ran on the subscription when up to a quarter did not.
- The gap is kept between the sums two nudges rest on. The calls that are recorded while a hook awaits its sums count for
  neither nudge, so two nudges themselves may have fewer calls between them (`fleet-usage.ts:235,242`).
- After a reset or a restart nudges stop until the count has passed the old one by the gap; once the
  ledger is full the count stands still and they stop for good.

Context memory
- The watermark takes the length of a list that may have been replaced during the await
  (`context-distill.ts:65` against `:68`): with `/remember` and `agent_end` under way together messages are
  skipped (`DistillSkips`).
- The watermark is a position in a list and is never reset, while an event may bring a shorter list, after a compaction, or none
  (`context-distill.ts:73` against `:51`). Until the list has grown past the watermark nothing is distilled, and what the list
  holds before it is never sent, with no overlap at all. So `ExactlyOnce` speaks of lists that only grew;
  that no message is sent twice (`NeverTwice`) holds all the same.
- A reply of the judge that cannot be read counts as a success without facts.
- Two repositories whose directories have one name share a partition (against `partition.py:5`). The router ignores
  `x-dnc-ctx`.

## 7. What is not modelled, and why

The CLI proxy (it passes one request on to a module and keeps nothing), the Pi extension's commands,
provider and hints, the tools, the deployment units and the agents' prompts have no module: they
keep no state that two actors share; `PROJECT.json` ("components") gives the reason for each.

Inside the modelled parts: the wording of events, HTTP codes, YAML and shell syntax, the catalogue
of models, the prices of calls, embeddings and recall (reads), partitions other than the one that is
written, and a template's arguments are left out, as no property is about them; the validation of
fields is the choice of the inputs. The hash of a first message and the estimate of a prompt's
tokens are inputs. In `ContextMemory` a fetch that times out although the sidecar finishes is not told from one that
fails: the rows it goes on to insert are those of `Elsewhere`.
