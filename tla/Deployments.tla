----------------------------- MODULE Deployments -----------------------------
(***************************************************************************)
(* fleetd's deployment table and the plays that act on one host: the       *)
(* /deployments and /discover endpoints of fleetd/fleetd/api.py over       *)
(* plays.py, discover.py and db.py.                                        *)
(*                                                                         *)
(* A request keeps its own copy of the row it resolved and writes the      *)
(* whole row back.  Requests are coroutines that wait for remote commands; *)
(* what runs between two of them is one action, and a remote command takes *)
(* effect in the action that starts to wait for the next one.  Every       *)
(* server has a port of its own; a managed container is named by its       *)
(* deployment, and the deployments of migrations by their port.            *)
(***************************************************************************)
EXTENDS Naturals

CONSTANTS
    Old,      \* servers that ran on the host before the harness
    New,      \* managed containers, each with its port and its deployment id
    Request,  \* requests in flight at a time
    MaxCrash, \* how often fleetd may crash
    MaxCareless, \* how many requests may do what the documents advise against
    None

ASSUME DeploymentsAssumption ==
    /\ Old \cap New = {} /\ None \notin Old \cup New
    /\ MaxCrash \in Nat /\ MaxCareless \in Nat

VARIABLES
    run,       \* each server's process or container: "off", "booting" or "up"
    contained, \* the old servers that run in containers of their owner
    db,        \* the deployments table: a row or None for each id
    req,       \* each request: where it waits, what it works on, its copy of the row
    careless,  \* how many requests did (the properties need not hold afterwards)
    faulty,    \* remote commands may raise, fleetd may crash
    crashes

vars == <<run, contained, db, req, careless, faulty, crashes>>
setup == <<contained, faulty>>
careful == careless = 0

Server == Old \cup New

\* Row ids: discovery names a row adopted-<host>-<port>, migration mig-<host>-<port>.
Adopted(s) == <<"adopted", s>>
Managed(n) == <<"managed", n>>
Dep == {Adopted(s) : s \in Server} \cup {Managed(n) : n \in New}

\* A row: who owns the lifecycle, the status, and the server that the recorded unit
\* or pid stops (None: nothing is recorded).
Management == {"docker", "adopted", "migrating"}
DepStatus == {"unknown", "deploying", "healthy", "unhealthy", "stopped"}
Row == [mgmt: Management, status: DepStatus, stop: Server \cup {None}]
ASSUME NoneAssumption == None \notin Row \cup Dep

ManagedRow(status) == [mgmt |-> "docker", status |-> status, stop |-> None]

-----------------------------------------------------------------------------
(* Requests.                                                               *)

\* What a discovery found: servers with the recorded unit or pid of each.
Found == UNION {[S -> Server] : S \in SUBSET Server}

Idle == [pc |-> "idle", kind |-> "apply", dep |-> None, new |-> None, rec |-> ManagedRow("unknown"),
         found |-> [s \in {} |-> None]]

Requests == [pc: {"idle", "begin", "start", "check", "stop", "passed", "failed", "catalog"},
             kind: {"apply", "migrate", "discover"},
             dep: Dep \cup {None}, new: Server \cup {None}, rec: Row, found: Found]

\* What the documents ask of an operator: one request per row and per container at a
\* time; apply is for managed deployments; an adopted server that the harness did not
\* start is migrated, once, to a fresh port (plays.py: "binds to a fresh port").
Free(d, n) == \A r \in Request : req[r].dep # d /\ req[r].new # n

Careful(kind, d, n) ==
    /\ Free(d, n)
    /\ kind = "apply" => d[1] = "managed"
    /\ kind = "migrate" =>
          /\ d[2] \in Old /\ db[d].mgmt = "adopted"
          /\ run[n] = "off" /\ db[Managed(n)] = None

\* A request that is not careful is counted.
Counted(ok) ==
    /\ ok \/ careless < MaxCareless
    /\ careless' = IF ok THEN careless ELSE careless + 1

\* PUT /deployments/{id}: the operator records a managed deployment.
Put(n) ==
    /\ Counted(Free(Managed(n), n) /\ db[Managed(n)] = None)
    /\ db' = [db EXCEPT ![Managed(n)] = ManagedRow("unknown")]
    /\ UNCHANGED <<run, req, setup, crashes>>

\* _resolve: the request takes its copy of the row.  The streaming endpoints start
\* the play in a task, so other requests may run before it begins.
Resolve(r, kind, d, n) ==
    /\ req[r] = Idle /\ db[d] # None
    /\ kind = "apply" => n = d[2]
    /\ Counted(Careful(kind, d, n))
    /\ req' = [req EXCEPT ![r] = [Idle EXCEPT !.pc = "begin", !.kind = kind, !.dep = d,
                                              !.new = n, !.rec = db[d]]]
    /\ UNCHANGED <<run, db, setup, crashes>>

Waits(r, pc) == req' = [req EXCEPT ![r].pc = pc]
Leaves(r) == req' = [req EXCEPT ![r] = Idle]

\* Mutant of BeginMigrate: the row is not marked before the play.
BeginUnmarked(r) ==
    /\ req[r].pc = "begin" /\ req[r].kind = "migrate"
    /\ req' = [req EXCEPT ![r].pc = "start", ![r].rec.mgmt = "migrating"]
    /\ db' = db
    /\ UNCHANGED <<run, setup, careless, crashes>>

\* _run_migration marks the row first, so the guard of plays.migrate lets every row pass.
BeginMigrate(r) ==
    LET rec == [req[r].rec EXCEPT !.mgmt = "migrating"] IN
    /\ req[r].pc = "begin" /\ req[r].kind = "migrate"
    /\ db' = [db EXCEPT ![req[r].dep] = rec]
    /\ req' = [req EXCEPT ![r].pc = "start", ![r].rec = rec]
    /\ UNCHANGED <<run, setup, careless, crashes>>

\* apply marks the row and deploys, unless the row is not managed by the harness:
\* then the play's guard fails at once.
BeginApply(r) ==
    LET rec == [req[r].rec EXCEPT !.status = "deploying"] IN
    /\ req[r].pc = "begin" /\ req[r].kind = "apply"
    /\ \/ /\ rec.mgmt = "docker"
          /\ db' = [db EXCEPT ![req[r].dep] = rec]
          /\ req' = [req EXCEPT ![r].pc = "start", ![r].rec = rec]
       \/ /\ rec.mgmt # "docker"
          /\ db' = [db EXCEPT ![req[r].dep] = [rec EXCEPT !.status = "unhealthy"]]
          /\ Leaves(r)
    /\ UNCHANGED <<run, setup, careless, crashes>>

\* A remote command raises (the connection is lost): the request answers with an
\* error and leaves the row as it is.
Raises(r) == faulty /\ Leaves(r)

\* docker pull, ensure_model, then docker rm -f and docker run: whatever ran under
\* this name is replaced.
Start(r) ==
    LET n == req[r].new IN
    /\ req[r].pc = "start"
    /\ \/ run' = run /\ Waits(r, "failed")
       \/ run' = [run EXCEPT ![n] = "off"] /\ Waits(r, "failed")
       \/ run' = [run EXCEPT ![n] = "booting"] /\ Waits(r, "check")
       \/ \E st \in {run[n], "off", "booting"} : run' = [run EXCEPT ![n] = st] /\ Raises(r)
    /\ UNCHANGED <<db, setup, careless, crashes>>

\* Mutant of Check: the health check's report is not looked at.
CheckUnread(r) ==
    /\ req[r].pc = "check"
    /\ Waits(r, IF req[r].kind = "migrate" THEN "stop" ELSE "passed") \/ Raises(r)
    /\ UNCHANGED <<run, db, setup, careless, crashes>>

\* wait_healthy polls until the port answers or ten minutes have passed; for
\* llama.cpp assert_gpu_inference then asks for a completion.  The play goes on only
\* if the server answered the last of them.
Check(r) ==
    /\ req[r].pc = "check"
    /\ \/ /\ run[req[r].new] = "up"
          /\ Waits(r, IF req[r].kind = "migrate" THEN "stop" ELSE "passed")
       \/ Waits(r, "failed")
       \/ Raises(r)
    /\ UNCHANGED <<run, db, setup, careless, crashes>>

\* Mutant of StopAdopted: the exit status of the stop command is not looked at.
StopUnread(r) ==
    LET h == req[r].rec.stop IN
    /\ req[r].pc = "stop"
    /\ \/ h = None /\ run' = run /\ Leaves(r)
       \/ h # None /\ run' = [run EXCEPT ![h] = "off"] /\ Waits(r, "passed")
       \/ h # None /\ run' = run /\ Waits(r, "passed")
    /\ UNCHANGED <<db, setup, careless, crashes>>

\* stop_adopted runs what stop_adopted_command renders from the recorded unit or
\* pid, and raises for a row that has neither.
StopAdopted(r) ==
    LET h == req[r].rec.stop IN
    /\ req[r].pc = "stop"
    /\ \/ h = None /\ run' = run /\ Leaves(r)
       \/ h # None /\ run' = [run EXCEPT ![h] = "off"] /\ Waits(r, "passed")
       \/ h # None /\ run' = run /\ Waits(r, "failed")
       \/ h # None /\ (\E st \in {run[h], "off"} : run' = [run EXCEPT ![h] = st]) /\ Raises(r)
    /\ UNCHANGED <<db, setup, careless, crashes>>

\* Mutant of Written: a play that failed is recorded as healthy.
WrittenHealthy(r) == [req[r].rec EXCEPT !.status = "healthy"]

\* What apply writes back when its play has ended.
Written(r) ==
    [req[r].rec EXCEPT !.status = IF req[r].pc = "passed" THEN "healthy" ELSE "unhealthy"]

\* The play returns and the endpoint writes its copy back; a migration that passed
\* records the replacement first, one that failed makes its row adopted again.
Close(r) ==
    LET d == req[r].dep
        rec == req[r].rec IN
    /\ \/ /\ req[r].kind = "apply" /\ req[r].pc \in {"passed", "failed"}
          /\ db' = [db EXCEPT ![d] = Written(r)]
       \/ /\ req[r].kind = "migrate" /\ req[r].pc = "passed"
          /\ db' = [db EXCEPT ![Managed(req[r].new)] = ManagedRow("healthy"),
                              ![d] = [rec EXCEPT !.status = "stopped"]]
       \/ /\ req[r].kind = "migrate" /\ req[r].pc = "failed"
          /\ db' = [db EXCEPT ![d] = [rec EXCEPT !.mgmt = "adopted"]]
    /\ Leaves(r)
    /\ UNCHANGED <<run, setup, careless, crashes>>

-----------------------------------------------------------------------------
(* Discovery.                                                              *)

InDocker(s) == s \in contained \cup New

\* ps, then how each server is kept alive.  For a server in a container the unit is
\* the first name that `docker ps` prints, which may be any running container's.
Scan(r) ==
    LET names == {s \in Server : InDocker(s) /\ run[s] # "off"} IN
    /\ req[r] = Idle
    /\ \E first \in IF names = {} THEN {None} ELSE names :
          req' = [req EXCEPT ![r] = [Idle EXCEPT !.pc = "catalog", !.kind = "discover",
                     !.found = [s \in {t \in Server : run[t] # "off"} |->
                         IF InDocker(s) THEN first ELSE s]]]
    /\ UNCHANGED <<run, db, setup, careless, crashes>>

\* Rows are added for the servers found, unless their id is in the table.
Catalog(r) ==
    LET found == req[r].found IN
    /\ req[r].pc = "catalog"
    /\ db' = [d \in Dep |->
                 IF d[1] = "adopted" /\ d[2] \in DOMAIN found /\ db[d] = None
                 THEN [mgmt |-> "adopted", status |-> "unknown", stop |-> found[d[2]]]
                 ELSE db[d]]
    /\ Leaves(r)
    /\ UNCHANGED <<run, setup, careless, crashes>>

-----------------------------------------------------------------------------
\* A started container's server answers after a while.
Boot(n) ==
    /\ run[n] = "booting"
    /\ run' = [run EXCEPT ![n] = "up"]
    /\ UNCHANGED <<db, req, setup, careless, crashes>>

\* fleetd dies: its requests are gone, the table and the host stay as they are.
Crash ==
    /\ faulty /\ crashes < MaxCrash
    /\ crashes' = crashes + 1
    /\ req' = [r \in Request |-> Idle]
    /\ UNCHANGED <<run, db, setup, careless>>

Init ==
    /\ run = [s \in Server |-> IF s \in Old THEN "up" ELSE "off"]
    /\ contained \in SUBSET Old
    /\ db = [d \in Dep |-> None]
    /\ req = [r \in Request |-> Idle]
    /\ faulty \in BOOLEAN
    /\ careless = 0 /\ crashes = 0

Play(r) ==
    \/ BeginApply(r) \/ BeginMigrate(r) \/ Start(r) \/ Check(r) \/ StopAdopted(r) \/ Close(r)

Discover(r) == Scan(r) \/ Catalog(r)

Next ==
    \/ \E n \in New : Put(n) \/ Boot(n)
    \/ \E r \in Request, kind \in {"apply", "migrate"}, d \in Dep, n \in Server :
          /\ kind = "migrate" => n \in New
          /\ Resolve(r, kind, d, n)
    \/ \E r \in Request : Play(r) \/ Discover(r)
    \/ Crash

Spec == Init /\ [][Next]_vars

-----------------------------------------------------------------------------
(* What the table and the plays keep.                                      *)

TypeOK ==
    /\ run \in [Server -> {"off", "booting", "up"}]
    /\ contained \in SUBSET Old
    /\ db \in [Dep -> Row \cup {None}]
    /\ req \in [Request -> Requests]
    /\ faulty \in BOOLEAN
    /\ careless \in 0..MaxCareless /\ crashes \in 0..MaxCrash

\* Every adopted row names its own server.
UnitsRight == \A s \in Server : db[Adopted(s)] # None => db[Adopted(s)].stop = s

\* Some migration of this old server is at its cut-over and its replacement answers.
Replaced(o) ==
    \E r \in Request : /\ req[r].dep = Adopted(o) /\ req[r].pc = "stop"
                       /\ run[req[r].new] = "up"

\* plays.migrate "verify it's healthy, and only then stop the old server": while
\* operators do as the documents say and the recorded units are right, an old server
\* goes down only at a cut-over whose replacement answers at that moment, whatever
\* other requests, failures and crashes happen around it.
CutoverVerified ==
    [][careful /\ UnitsRight =>
          \A o \in Old : run[o] = "up" /\ run'[o] = "off" => Replaced(o)]_vars

\* plays.py:8 adopted servers are "NEVER touched by plays": an old server goes down
\* only while its row says that it is being migrated, so a reader of the table is
\* never surprised.
OnlyMigratingTouched ==
    [][careful /\ UnitsRight =>
          \A o \in Old : run[o] = "up" /\ run'[o] = "off" =>
              db[Adopted(o)].mgmt = "migrating"]_vars

\* _run_migration "roll back: old server is still the live one": with careful
\* operators and commands that answer, the table tells the truth: an adopted server
\* is up, and a stopped one is down and its replacement recorded.
RowsTellTheTruth ==
    careful /\ ~faulty /\ UnitsRight =>
        \A o \in Old : db[Adopted(o)] # None =>
            /\ db[Adopted(o)].mgmt = "adopted" => run[o] = "up"
            /\ db[Adopted(o)].status = "stopped" =>
                  run[o] = "off" /\ \E n \in New : db[Managed(n)] # None

\* apply and migrate: a managed row is healthy only while its server answers, even
\* when commands raise, upgrades replace the container and fleetd crashes.
HealthyServes ==
    careful /\ UnitsRight =>
        \A n \in New : /\ db[Managed(n)] # None
                       /\ db[Managed(n)].status = "healthy"
                       => run[n] = "up"

\* api.discover "don't clobber facts on re-discovery": the recorded unit or pid of
\* an adopted row never changes, however discoveries and plays overlap.
FactsKept ==
    [][\A s \in Server : db[Adopted(s)] # None =>
          db'[Adopted(s)] # None /\ db'[Adopted(s)].stop = db[Adopted(s)].stop]_vars
=============================================================================
