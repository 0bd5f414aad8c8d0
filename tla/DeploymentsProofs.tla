-------------------------- MODULE DeploymentsProofs --------------------------
(***************************************************************************)
(* Proofs about Deployments, for every host and every number of requests:  *)
(* type correctness, the permanence of discovered facts, and what careful  *)
(* operators may rely on at a cut-over.                                    *)
(***************************************************************************)
EXTENDS Deployments, TLAPS

Plays(r) == req[r].pc \notin {"idle", "catalog"}

(***************************************************************************)
(* What a request holds: a row that exists, whose recorded unit or pid is  *)
(* that of its copy.                                                       *)
(***************************************************************************)
Holds(r) ==
    IF Plays(r)
    THEN /\ req[r].dep \in Dep /\ req[r].new \in Server
         /\ req[r].kind \in {"apply", "migrate"}
         /\ req[r].kind = "migrate" => req[r].new \in New
         /\ db[req[r].dep] # None
         /\ req[r].dep[1] = "adopted" => req[r].rec.stop = db[req[r].dep].stop
    ELSE req[r].dep = None /\ req[r].new = None

FactsInv == TypeOK /\ \A r \in Request : Holds(r)

-----------------------------------------------------------------------------
(* Ids.                                                                    *)

\* Adopted and managed rows have different ids, and an id names one server.
LEMMA Ids ==
    /\ \A s \in Server : Adopted(s) \in Dep
    /\ \A n \in New : Managed(n) \in Dep
    /\ \A s, n : Adopted(s) # Managed(n)
    /\ \A s, t : Adopted(s) = Adopted(t) => s = t
    /\ \A s, t : Managed(s) = Managed(t) => s = t
    /\ \A d \in Dep : \/ \E s \in Server : d = Adopted(s) /\ d[1] = "adopted" /\ d[2] = s
                      \/ \E n \in New : d = Managed(n) /\ d[1] = "managed" /\ d[2] = n
BY DEF Adopted, Managed, Dep, Server

\* Rows stay rows when a column is rewritten, and None is neither a row nor an id.
LEMMA Rows ==
    /\ ManagedRow("unknown") \in Row /\ ManagedRow("healthy") \in Row
    /\ None \notin Row /\ None \notin Dep /\ None \notin Server
    /\ \A rec \in Row, st \in DepStatus :
          /\ [rec EXCEPT !.status = st] \in Row
          /\ [rec EXCEPT !.status = st].stop = rec.stop
    /\ \A rec \in Row, m \in Management :
          /\ [rec EXCEPT !.mgmt = m] \in Row
          /\ [rec EXCEPT !.mgmt = m].stop = rec.stop
BY DeploymentsAssumption, NoneAssumption DEF ManagedRow, Row, Management, DepStatus, Server

\* The empty result of a request that discovers nothing.
LEMMA FoundNothing == [s \in {} |-> None] \in Found
<1>1. [s \in {} |-> None] \in [{} -> Server]
  OBVIOUS
<1> QED
  BY <1>1 DEF Found

\* A request that does nothing holds no row and no container.
LEMMA IdleTyped ==
    /\ Idle.pc = "idle" /\ Idle.dep = None /\ Idle.new = None
    /\ Idle \in Requests
BY FoundNothing, Rows DEF Idle, Requests

-----------------------------------------------------------------------------
(* The three ways in which a step changes a request.                       *)

Others(r) == req' \in [Request -> Requests] /\ \A t \in Request : t # r => req'[t] = req[t]

Moves(r, pc, rec) ==
    /\ Others(r)
    /\ req'[r].pc = pc /\ req'[r].rec = rec
    /\ req'[r].kind = req[r].kind /\ req'[r].dep = req[r].dep /\ req'[r].new = req[r].new

Goes(r) == Others(r) /\ req'[r] = Idle

PlayPc == {"begin", "start", "check", "stop", "passed", "failed"}

\* Waiting for the next remote command keeps what the request holds.
LEMMA WaitsMoves ==
    ASSUME TypeOK, NEW r \in Request, NEW pc \in PlayPc, Waits(r, pc)
    PROVE  Moves(r, pc, req[r].rec) /\ req[r].rec \in Row
BY DEF Waits, Moves, Others, TypeOK, Requests, PlayPc

\* So does marking the row, but for the copy.
LEMMA RewriteMoves ==
    ASSUME TypeOK, NEW r \in Request, NEW rec \in Row,
           req' = [req EXCEPT ![r].pc = "start", ![r].rec = rec]
    PROVE  Moves(r, "start", rec)
BY DEF Moves, Others, TypeOK, Requests

\* An answered request holds nothing.
LEMMA LeavesGoes ==
    ASSUME TypeOK, NEW r \in Request, Leaves(r)
    PROVE  Goes(r)
BY IdleTyped DEF Leaves, Goes, Others, TypeOK

\* No row disappears and the facts of an adopted row stay.
RowsKept ==
    \A d \in Dep : db[d] # None =>
        db'[d] # None /\ (d[1] = "adopted" => db'[d].stop = db[d].stop)

\* What requests hold survives a move of one of them,
LEMMA HoldsMoved ==
    ASSUME FactsInv, NEW r \in Request, Plays(r), NEW pc \in PlayPc, NEW rec,
           rec.stop = req[r].rec.stop, Moves(r, pc, rec), RowsKept
    PROVE  \A t \in Request : Holds(t)'
BY Rows DEF FactsInv, Holds, Plays, Moves, Others, RowsKept, PlayPc

\* and the end of one of them.
LEMMA HoldsGone ==
    ASSUME FactsInv, NEW r \in Request, Goes(r), RowsKept
    PROVE  \A t \in Request : Holds(t)'
BY Rows, IdleTyped DEF FactsInv, Holds, Plays, Goes, Others, RowsKept

-----------------------------------------------------------------------------
(* Type correctness.                                                       *)

\* Nothing is held in the initial states.
LEMMA InitFacts == Init => FactsInv
<1> SUFFICES ASSUME Init PROVE FactsInv
  OBVIOUS
<1>1. TypeOK
  BY IdleTyped, DeploymentsAssumption DEF Init, TypeOK
<1>2. \A r \in Request : Holds(r)
  BY IdleTyped DEF Init, Holds, Plays
<1> QED
  BY <1>1, <1>2 DEF FactsInv

\* The budget of careless requests is never exceeded.
LEMMA CarelessBound ==
    ASSUME careless \in 0..MaxCareless, NEW ok, Counted(ok)
    PROVE  careless' \in 0..MaxCareless
BY DeploymentsAssumption DEF Counted

\* Every action keeps the types, what requests hold, and the facts of the rows.
LEMMA FactsStep == FactsInv /\ [Next]_vars => FactsInv' /\ RowsKept
<1> SUFFICES ASSUME FactsInv, [Next]_vars PROVE FactsInv' /\ RowsKept
  OBVIOUS
<1> USE DEF FactsInv
<1>1. ASSUME NEW n \in New, Put(n) PROVE FactsInv' /\ RowsKept
  <2>1. db' \in [Dep -> Row \cup {None}]
    BY <1>1, Rows DEF Put, TypeOK
  <2>2. careless' \in 0..MaxCareless
    BY <1>1, CarelessBound DEF Put, TypeOK
  <2>3. TypeOK'
    BY <1>1, <2>1, <2>2 DEF Put, TypeOK, setup
  <2>4. \A r \in Request : Holds(r)'
    BY <1>1, Rows, Ids DEF Put, setup, Holds, Plays, TypeOK
  <2>5. RowsKept
    BY <1>1, Rows, Ids DEF Put, RowsKept, TypeOK
  <2> QED
    BY <2>3, <2>4, <2>5
<1>2. ASSUME NEW n \in New, Boot(n) PROVE FactsInv' /\ RowsKept
  BY <1>2 DEF RowsKept, Boot, TypeOK, setup, Holds, Plays, Server
<1>3. ASSUME NEW r \in Request, NEW kind \in {"apply", "migrate"}, NEW d \in Dep,
             NEW n \in Server, kind = "migrate" => n \in New, Resolve(r, kind, d, n)
      PROVE  FactsInv' /\ RowsKept
  <2> DEFINE q == [Idle EXCEPT !.pc = "begin", !.kind = kind, !.dep = d, !.new = n,
                               !.rec = db[d]]
  <2>1. db[d] \in Row
    BY <1>3 DEF Resolve, TypeOK
  <2>2. q \in Requests /\ q.pc = "begin" /\ q.kind = kind /\ q.dep = d /\ q.new = n
        /\ q.rec = db[d]
    BY <2>1, IdleTyped DEF Requests, Idle
  <2>3. req' = [req EXCEPT ![r] = q]
    BY <1>3 DEF Resolve
  <2> HIDE DEF q
  <2>4. TypeOK'
    BY <1>3, <2>2, <2>3, DeploymentsAssumption DEF Resolve, Counted, TypeOK, setup, Requests
  <2>5. \A t \in Request : Holds(t)'
    BY <1>3, <2>2, <2>3 DEF Resolve, setup, Holds, Plays, TypeOK
  <2>6. RowsKept
    BY <1>3 DEF Resolve, RowsKept
  <2> QED
    BY <2>4, <2>5, <2>6
<1>4. ASSUME NEW r \in Request, BeginApply(r) PROVE FactsInv' /\ RowsKept
  <2> DEFINE rec == [req[r].rec EXCEPT !.status = "deploying"]
  <2>1. Plays(r) /\ Holds(r) /\ req[r].rec \in Row
    BY <1>4 DEF BeginApply, Plays, TypeOK, Requests
  <2>2. /\ rec \in Row /\ rec.stop = req[r].rec.stop
        /\ [rec EXCEPT !.status = "unhealthy"] \in Row
        /\ [rec EXCEPT !.status = "unhealthy"].stop = req[r].rec.stop
    BY <2>1, Rows DEF DepStatus
  <2>3. \/ Goes(r) \/ Moves(r, "start", rec)
    BY <1>4, <2>2, RewriteMoves, LeavesGoes DEF BeginApply
  <2>4. \E row \in Row : row.stop = req[r].rec.stop /\ db' = [db EXCEPT ![req[r].dep] = row]
    BY <1>4, <2>2 DEF BeginApply
  <2> HIDE DEF rec
  <2>5. RowsKept
    BY <2>1, <2>4, Rows DEF RowsKept, Holds, TypeOK
  <2>6. TypeOK'
    BY <1>4, <2>3, <2>4 DEF BeginApply, Moves, Goes, Others, TypeOK, setup
  <2> QED
    BY <2>1, <2>2, <2>3, <2>5, <2>6, HoldsMoved, HoldsGone DEF PlayPc
<1>5. ASSUME NEW r \in Request, BeginMigrate(r) PROVE FactsInv' /\ RowsKept
  <2> DEFINE rec == [req[r].rec EXCEPT !.mgmt = "migrating"]
  <2>1. Plays(r) /\ Holds(r) /\ req[r].rec \in Row
    BY <1>5 DEF BeginMigrate, Plays, TypeOK, Requests
  <2>2. rec \in Row /\ rec.stop = req[r].rec.stop
    BY <2>1, Rows DEF Management
  <2>3. Moves(r, "start", rec) /\ db' = [db EXCEPT ![req[r].dep] = rec]
    BY <1>5, <2>2, RewriteMoves DEF BeginMigrate
  <2> HIDE DEF rec
  <2>4. RowsKept
    BY <2>1, <2>2, <2>3, Rows DEF RowsKept, Holds, TypeOK
  <2>5. TypeOK'
    BY <1>5, <2>2, <2>3 DEF BeginMigrate, Moves, Others, TypeOK, setup
  <2> QED
    BY <2>1, <2>2, <2>3, <2>4, <2>5, HoldsMoved DEF PlayPc
<1>6. ASSUME NEW r \in Request, Start(r) PROVE FactsInv' /\ RowsKept
  <2>1. Plays(r) /\ Holds(r) /\ req[r].rec \in Row
    BY <1>6 DEF Start, Plays, TypeOK, Requests
  <2>2. \/ Goes(r)
        \/ \E pc \in PlayPc : Moves(r, pc, req[r].rec)
    BY <1>6, WaitsMoves, LeavesGoes DEF Start, Raises, PlayPc
  <2>3. RowsKept
    BY <1>6 DEF Start, RowsKept
  <2>4. TypeOK'
    BY <1>6, <2>1, <2>2 DEF Start, Moves, Goes, Others, TypeOK, setup
  <2> QED
    BY <2>1, <2>2, <2>3, <2>4, HoldsMoved, HoldsGone
<1>7. ASSUME NEW r \in Request, Check(r) PROVE FactsInv' /\ RowsKept
  <2>1. Plays(r) /\ Holds(r) /\ req[r].rec \in Row
    BY <1>7 DEF Check, Plays, TypeOK, Requests
  <2>2. \/ Goes(r)
        \/ \E pc \in PlayPc : Moves(r, pc, req[r].rec)
    BY <1>7, WaitsMoves, LeavesGoes DEF Check, Raises, PlayPc
  <2>3. RowsKept
    BY <1>7 DEF Check, RowsKept
  <2>4. TypeOK'
    BY <1>7, <2>1, <2>2 DEF Check, Moves, Goes, Others, TypeOK, setup
  <2> QED
    BY <2>1, <2>2, <2>3, <2>4, HoldsMoved, HoldsGone
<1>8. ASSUME NEW r \in Request, StopAdopted(r) PROVE FactsInv' /\ RowsKept
  <2>1. Plays(r) /\ Holds(r) /\ req[r].rec \in Row
    BY <1>8 DEF StopAdopted, Plays, TypeOK, Requests
  <2>2. \/ Goes(r)
        \/ \E pc \in PlayPc : Moves(r, pc, req[r].rec)
    BY <1>8, WaitsMoves, LeavesGoes DEF StopAdopted, Raises, PlayPc
  <2>3. RowsKept
    BY <1>8 DEF StopAdopted, RowsKept
  <2>4. TypeOK'
    BY <1>8, <2>1, <2>2 DEF StopAdopted, Moves, Goes, Others, TypeOK, setup
  <2> QED
    BY <2>1, <2>2, <2>3, <2>4, HoldsMoved, HoldsGone
<1>9. ASSUME NEW r \in Request, Close(r) PROVE FactsInv' /\ RowsKept
  <2>1. Plays(r) /\ Holds(r) /\ req[r].rec \in Row
    BY <1>9 DEF Close, Plays, TypeOK, Requests
  <2>2. Goes(r)
    BY <1>9, LeavesGoes DEF Close
  <2>3. PICK row \in Row :
           /\ row.stop = req[r].rec.stop
           /\ \/ db' = [db EXCEPT ![req[r].dep] = row]
              \/ /\ req[r].kind = "migrate"
                 /\ db' = [db EXCEPT ![Managed(req[r].new)] = ManagedRow("healthy"),
                                     ![req[r].dep] = row]
    BY <1>9, <2>1, Rows DEF Close, Written, DepStatus, Management
  <2>4. RowsKept
    BY <2>1, <2>3, Rows, Ids DEF RowsKept, Holds, TypeOK
  <2>5. TypeOK'
    BY <1>9, <2>1, <2>2, <2>3, Rows DEF Close, Goes, Others, TypeOK, setup
  <2> QED
    BY <2>2, <2>4, <2>5, HoldsGone
<1>10. ASSUME NEW r \in Request, Scan(r) PROVE FactsInv' /\ RowsKept
  <2>1. PICK f \in Found : req' = [req EXCEPT ![r] = [Idle EXCEPT !.pc = "catalog",
                                                        !.kind = "discover", !.found = f]]
    <3> DEFINE S == {t \in Server : run[t] # "off"}
               names == {s \in Server : InDocker(s) /\ run[s] # "off"}
    <3>1. PICK first \in IF names = {} THEN {None} ELSE names :
             req' = [req EXCEPT ![r] = [Idle EXCEPT !.pc = "catalog", !.kind = "discover",
                        !.found = [s \in S |-> IF InDocker(s) THEN first ELSE s]]]
      BY <1>10 DEF Scan
    <3>2. [s \in S |-> IF InDocker(s) THEN first ELSE s] \in [S -> Server]
      <4>1. ASSUME NEW s \in S PROVE (IF InDocker(s) THEN first ELSE s) \in Server
        <5>1. CASE InDocker(s)
          <6>1. s \in names
            BY <5>1
          <6> QED
            BY <6>1, <5>1
        <5> QED
          BY <5>1
      <4> QED
        BY <4>1
    <3>3. [s \in S |-> IF InDocker(s) THEN first ELSE s] \in Found
      BY <3>2 DEF Found
    <3> QED
      BY <3>1, <3>3
  <2> DEFINE q == [Idle EXCEPT !.pc = "catalog", !.kind = "discover", !.found = f]
  <2>2. q \in Requests /\ q.pc = "catalog" /\ q.dep = None /\ q.new = None
    BY IdleTyped DEF Idle, Requests
  <2> HIDE DEF q
  <2>3. TypeOK'
    BY <1>10, <2>1, <2>2 DEF Scan, TypeOK, setup, q
  <2>4. \A t \in Request : Holds(t)'
    BY <1>10, <2>1, <2>2 DEF Scan, Holds, Plays, TypeOK, q
  <2>5. RowsKept
    BY <1>10 DEF Scan, RowsKept
  <2> QED
    BY <2>3, <2>4, <2>5
<1>11. ASSUME NEW r \in Request, Catalog(r) PROVE FactsInv' /\ RowsKept
  <2>1. Goes(r)
    BY <1>11, LeavesGoes DEF Catalog
  <2>2. RowsKept
    BY <1>11, Rows DEF Catalog, RowsKept, TypeOK
  <2>3. \A s \in DOMAIN req[r].found : req[r].found[s] \in Server
    BY DEF TypeOK, Requests, Found
  <2>4. db' \in [Dep -> Row \cup {None}]
    BY <1>11, <2>3 DEF Catalog, TypeOK, Row, Management, DepStatus
  <2>5. TypeOK'
    BY <1>11, <2>1, <2>4 DEF Catalog, Goes, Others, TypeOK, setup
  <2> QED
    BY <2>1, <2>2, <2>5, HoldsGone
<1>12. CASE Crash
  <2>1. crashes' \in 0..MaxCrash
    BY <1>12, DeploymentsAssumption DEF Crash, TypeOK
  <2>2. TypeOK'
    BY <1>12, <2>1, IdleTyped DEF Crash, TypeOK, setup
  <2>3. \A t \in Request : Holds(t)'
    BY <1>12, IdleTyped DEF Crash, Holds, Plays
  <2>4. RowsKept
    BY <1>12 DEF Crash, RowsKept
  <2> QED
    BY <2>2, <2>3, <2>4
<1>13. CASE UNCHANGED vars
  BY <1>13 DEF vars, RowsKept, TypeOK, Holds, Plays
<1> QED
  BY <1>1, <1>2, <1>3, <1>4, <1>5, <1>6, <1>7, <1>8, <1>9, <1>10, <1>11, <1>12, <1>13
  DEF Next, Play, Discover

\* Every variable always has its type, for any number of servers and requests.
THEOREM TypeCorrect == Spec => []TypeOK
<1>1. FactsInv => TypeOK
  BY DEF FactsInv
<1> QED
  BY InitFacts, FactsStep, <1>1, PTL DEF Spec

\* The facts of an adopted row never change: neither a re-discovery nor the copy
\* that a play writes back replaces the recorded unit or pid.
THEOREM FactsNeverChange == Spec => FactsKept
<1>1. FactsInv /\ [Next]_vars =>
          [\A s \in Server : db[Adopted(s)] # None =>
              db'[Adopted(s)] # None /\ db'[Adopted(s)].stop = db[Adopted(s)].stop]_vars
  BY FactsStep, Ids DEF RowsKept, Adopted
<1> QED
  BY InitFacts, FactsStep, <1>1, PTL DEF Spec, FactsKept

-----------------------------------------------------------------------------
(***************************************************************************)
(* What careful operators may rely on.  A request's copy is the row itself *)
(* and no two requests share a row or a container, so what a play has      *)
(* verified is still so at its next step.                                  *)
(***************************************************************************)
Migrates(r) == Plays(r) /\ req[r].kind = "migrate"
Applies(r) == Plays(r) /\ req[r].kind = "apply"

Apart == \A r, t \in Request :
    Plays(r) /\ Plays(t) /\ r # t => req[r].dep # req[t].dep /\ req[r].new # req[t].new

Copies == \A r \in Request : Plays(r) => db[req[r].dep] = req[r].rec /\ req[r].new \in New

Migrations == \A r \in Request : Migrates(r) =>
    /\ \E o \in Old : req[r].dep = Adopted(o)
    /\ db[Managed(req[r].new)] = None
    /\ req[r].rec.mgmt = IF req[r].pc = "begin" THEN "adopted" ELSE "migrating"

Applications == \A r \in Request : Applies(r) =>
    /\ req[r].dep = Managed(req[r].new)
    /\ req[r].pc # "stop"
    /\ req[r].pc # "begin" => req[r].rec.status = "deploying"

Verified == \A r \in Request :
    Plays(r) /\ req[r].pc \in {"stop", "passed"} => run[req[r].new] = "up"

HealthyUp == \A n \in New :
    db[Managed(n)] # None /\ db[Managed(n)].status = "healthy" => run[n] = "up"

Care == Apart /\ Copies /\ Migrations /\ Applications /\ Verified /\ HealthyUp

CareInv == careful /\ UnitsRight => Care

\* What is true of the old servers while commands answer.
RowsTrue == \A o \in Old :
    /\ db[Adopted(o)] = None => run[o] = "up"
    /\ db[Adopted(o)] # None =>
          /\ db[Adopted(o)].mgmt = "adopted" => run[o] = "up"
          /\ db[Adopted(o)].status = "stopped" =>
                run[o] = "off" /\ \E n \in New : db[Managed(n)] # None

CutoversTrue == \A r \in Request, o \in Old :
    Migrates(r) /\ req[r].dep = Adopted(o) =>
        run[o] = IF req[r].pc = "passed" THEN "off" ELSE "up"

Truth == RowsTrue /\ CutoversTrue

TruthInv == careful /\ UnitsRight /\ ~faulty => Truth

\* Carelessness and wrong units are not undone: what holds after a step held before.
LEMMA Backwards ==
    ASSUME FactsInv, [Next]_vars
    PROVE  /\ careful' => careful
           /\ UnitsRight' => UnitsRight
<1>1. careless' = careless \/ \E ok \in BOOLEAN : Counted(ok)
  <2>1. ASSUME NEW n \in New, Put(n) PROVE \E ok \in BOOLEAN : Counted(ok)
    BY <2>1, Zenon DEF Put, Free
  <2>2. ASSUME NEW r \in Request, NEW kind \in {"apply", "migrate"}, NEW d \in Dep,
               NEW n \in Server, Resolve(r, kind, d, n)
        PROVE  \E ok \in BOOLEAN : Counted(ok)
    BY <2>2, Zenon DEF Resolve, Careful, Free
  <2>3. ASSUME NEW r \in Request, Play(r) \/ Discover(r) PROVE careless' = careless
    BY <2>3 DEF Play, Discover, BeginApply, BeginMigrate, Start, Check, StopAdopted, Close,
       Scan, Catalog
  <2> QED
    BY <2>1, <2>2, <2>3 DEF Next, Boot, Crash, vars
<1>3. careless' = careless \/ careless' = careless + 1
  BY <1>1 DEF Counted
<1>2. UnitsRight' => UnitsRight
  BY FactsStep, Ids DEF RowsKept, UnitsRight, Adopted
<1> QED
  BY <1>2, <1>3, DeploymentsAssumption DEF careful, FactsInv, TypeOK

\* The row of a careful migration names the server itself.
LEMMA StopsItself ==
    ASSUME FactsInv, Care, UnitsRight, NEW r \in Request, Migrates(r)
    PROVE  \E o \in Old : req[r].dep = Adopted(o) /\ req[r].rec.stop = o
BY Ids DEF FactsInv, Holds, Care, Copies, Migrations, Migrates, UnitsRight, Server

\* Every action keeps what careful operators rely on.
LEMMA CareStep == FactsInv /\ CareInv /\ [Next]_vars => CareInv'
<1> SUFFICES ASSUME FactsInv, CareInv, [Next]_vars, careful', UnitsRight'
             PROVE  Care'
  BY DEF CareInv
<1>0. careful /\ UnitsRight /\ Care /\ TypeOK /\ \A r \in Request : Holds(r)
  BY Backwards DEF CareInv, FactsInv
<1> USE <1>0
<1>1. ASSUME NEW n \in New, Put(n) PROVE Care'
  <2>1. Free(Managed(n), n) /\ db[Managed(n)] = None
    BY <1>1 DEF Put, Counted, careful
  <2>2. /\ req' = req /\ run' = run
        /\ \A d \in Dep : d # Managed(n) => db'[d] = db[d]
        /\ db'[Managed(n)] = ManagedRow("unknown")
    BY <1>1, Ids DEF Put, setup, TypeOK
  <2>10. Apart'
    BY <2>1, <2>2, Ids, Rows DEF Care, Free, Holds, ManagedRow, Copies, Apart, Plays, Migrates, Applies
  <2>11. Copies'
    BY <2>1, <2>2, Ids, Rows DEF Care, Free, Holds, ManagedRow, Apart, Copies, Plays, Migrates, Applies
  <2>12. Migrations'
    BY <2>1, <2>2, Ids, Rows DEF Care, Free, Holds, ManagedRow, Apart, Copies, Migrations, Plays, Migrates, Applies
  <2>13. Applications'
    BY <2>1, <2>2, Ids, Rows DEF Care, Free, Holds, ManagedRow, Apart, Copies, Applications, Plays, Migrates, Applies
  <2>14. Verified'
    BY <2>1, <2>2, Ids, Rows DEF Care, Free, Holds, ManagedRow, Apart, Copies, Verified, Plays, Migrates, Applies
  <2>15. HealthyUp'
    BY <2>1, <2>2, Ids, Rows DEF Care, Free, Holds, ManagedRow, Apart, Copies, HealthyUp, Plays, Migrates, Applies
  <2> QED
    BY <2>10, <2>11, <2>12, <2>13, <2>14, <2>15 DEF Care
<1>2. ASSUME NEW n \in New, Boot(n) PROVE Care'
  <2>10. Apart'
    BY <1>2 DEF Boot, Care, Holds, TypeOK, Server, Copies, Apart, Plays, Migrates, Applies
  <2>11. Copies'
    BY <1>2 DEF Boot, Care, Holds, TypeOK, Server, Apart, Copies, Plays, Migrates, Applies
  <2>12. Migrations'
    BY <1>2 DEF Boot, Care, Holds, TypeOK, Server, Apart, Copies, Migrations, Plays, Migrates, Applies
  <2>13. Applications'
    BY <1>2 DEF Boot, Care, Holds, TypeOK, Server, Apart, Copies, Applications, Plays, Migrates, Applies
  <2>14. Verified'
    BY <1>2 DEF Boot, Care, Holds, TypeOK, Server, Apart, Copies, Verified, Plays, Migrates, Applies
  <2>15. HealthyUp'
    BY <1>2 DEF Boot, Care, Holds, TypeOK, Server, Apart, Copies, HealthyUp, Plays, Migrates, Applies
  <2> QED
    BY <2>10, <2>11, <2>12, <2>13, <2>14, <2>15 DEF Care
<1>3. ASSUME NEW r \in Request, NEW kind \in {"apply", "migrate"}, NEW d \in Dep,
             NEW n \in Server, kind = "migrate" => n \in New, Resolve(r, kind, d, n)
      PROVE  Care'
  <2> DEFINE q == [Idle EXCEPT !.pc = "begin", !.kind = kind, !.dep = d, !.new = n,
                               !.rec = db[d]]
  <2>1. Careful(kind, d, n) /\ db' = db /\ run' = run /\ db[d] # None
    BY <1>3 DEF Resolve, Counted, careful
  <2>2. q.pc = "begin" /\ q.kind = kind /\ q.dep = d /\ q.new = n /\ q.rec = db[d]
    BY DEF Idle
  <2> HIDE DEF q
  <2>3. req'[r] = q /\ \A t \in Request : t # r => req'[t] = req[t]
    BY <1>3 DEF Resolve, TypeOK, q
  <2>4. n \in New /\ (kind = "apply" => d = Managed(n))
        /\ (kind = "migrate" => \E o \in Old : d = Adopted(o))
    <3>1. ASSUME kind = "apply" PROVE n \in New /\ d = Managed(n)
      BY <3>1, <1>3, <2>1, Ids DEF Resolve, Careful
    <3>2. ASSUME kind = "migrate" PROVE n \in New /\ \E o \in Old : d = Adopted(o)
      BY <3>2, <1>3, <2>1, Ids, DeploymentsAssumption DEF Careful
    <3> QED
      BY <3>1, <3>2
  <2>10. Apart'
    BY <2>1, <2>2, <2>3, <2>4, Ids DEF Care, Careful, Free, Holds, Copies, Apart, Plays, Migrates, Applies
  <2>11. Copies'
    BY <2>1, <2>2, <2>3, <2>4, Ids DEF Care, Careful, Free, Holds, Apart, Copies, Plays, Migrates, Applies
  <2>12. Migrations'
    BY <2>1, <2>2, <2>3, <2>4, Ids DEF Care, Careful, Free, Holds, Apart, Copies, Migrations, Plays, Migrates, Applies
  <2>13. Applications'
    BY <2>1, <2>2, <2>3, <2>4, Ids DEF Care, Careful, Free, Holds, Apart, Copies, Applications, Plays, Migrates, Applies
  <2>14. Verified'
    BY <2>1, <2>2, <2>3, <2>4, Ids DEF Care, Careful, Free, Holds, Apart, Copies, Verified, Plays, Migrates, Applies
  <2>15. HealthyUp'
    BY <2>1, <2>2, <2>3, <2>4, Ids DEF Care, Careful, Free, Holds, Apart, Copies, HealthyUp, Plays, Migrates, Applies
  <2> QED
    BY <2>10, <2>11, <2>12, <2>13, <2>14, <2>15 DEF Care
<1>4. ASSUME NEW r \in Request, BeginApply(r) PROVE Care'
  <2> DEFINE rec == [req[r].rec EXCEPT !.status = "deploying"]
  <2>1. Applies(r) /\ Holds(r) /\ req[r].rec \in Row /\ run' = run /\ req[r].pc = "begin"
    BY <1>4 DEF BeginApply, Plays, Applies, TypeOK, Requests
  <2>2. rec \in Row /\ rec.status = "deploying"
    BY <2>1, Rows DEF DepStatus, Row
  <2>3. \/ Goes(r) \/ Moves(r, "start", rec)
    BY <1>4, <2>2, RewriteMoves, LeavesGoes DEF BeginApply
  <2>4. PICK row \in Row : /\ row.status \in {"deploying", "unhealthy"}
                           /\ db' = [db EXCEPT ![req[r].dep] = row]
                           /\ Moves(r, "start", rec) => row = rec
    <3>1. [rec EXCEPT !.status = "unhealthy"] \in Row
          /\ [rec EXCEPT !.status = "unhealthy"].status = "unhealthy"
      BY <2>2, Rows DEF DepStatus, Row
    <3>2. ~(Goes(r) /\ Moves(r, "start", rec))
      BY IdleTyped DEF Goes, Moves
    <3>3. CASE rec.mgmt = "docker"
      <4>1. db' = [db EXCEPT ![req[r].dep] = rec]
        BY <1>4, <3>3 DEF BeginApply
      <4> QED
        BY <4>1, <2>2
    <3>4. CASE rec.mgmt # "docker"
      <4>1. db' = [db EXCEPT ![req[r].dep] = [rec EXCEPT !.status = "unhealthy"]] /\ Goes(r)
        BY <1>4, <3>4, LeavesGoes DEF BeginApply
      <4> QED
        BY <4>1, <3>1, <3>2
    <3> QED
      BY <3>3, <3>4
  <2> HIDE DEF rec
  <2>5. /\ db'[req[r].dep] = row /\ req[r].dep = Managed(req[r].new)
        /\ \A d \in Dep : d # req[r].dep => db'[d] = db[d]
    BY <2>1, <2>4 DEF Holds, TypeOK, Care, Applications, Applies
  <2>10. Apart'
    BY <2>1, <2>2, <2>3, <2>4, <2>5, Ids, Rows, IdleTyped DEF Care, Goes, Moves, Others, Holds, Copies, Apart, Plays, Migrates, Applies
  <2>11. Copies'
    BY <2>1, <2>2, <2>3, <2>4, <2>5, Ids, Rows, IdleTyped DEF Care, Goes, Moves, Others, Holds, Apart, Copies, Plays, Migrates, Applies
  <2>12. Migrations'
    BY <2>1, <2>2, <2>3, <2>4, <2>5, Ids, Rows, IdleTyped DEF Care, Goes, Moves, Others, Holds, Apart, Copies, Migrations, Plays, Migrates, Applies
  <2>13. Applications'
    BY <2>1, <2>2, <2>3, <2>4, <2>5, Ids, Rows, IdleTyped DEF Care, Goes, Moves, Others, Holds, Apart, Copies, Applications, Plays, Migrates, Applies
  <2>14. Verified'
    BY <2>1, <2>2, <2>3, <2>4, <2>5, Ids, Rows, IdleTyped DEF Care, Goes, Moves, Others, Holds, Apart, Copies, Verified, Plays, Migrates, Applies
  <2>15. HealthyUp'
    BY <2>1, <2>2, <2>3, <2>4, <2>5, Ids, Rows, IdleTyped DEF Care, Goes, Moves, Others, Holds, Apart, Copies, HealthyUp, Plays, Migrates, Applies
  <2> QED
    BY <2>10, <2>11, <2>12, <2>13, <2>14, <2>15 DEF Care
<1>5. ASSUME NEW r \in Request, BeginMigrate(r) PROVE Care'
  <2> DEFINE rec == [req[r].rec EXCEPT !.mgmt = "migrating"]
  <2>1. Migrates(r) /\ Holds(r) /\ req[r].rec \in Row /\ run' = run /\ req[r].pc = "begin"
    BY <1>5 DEF BeginMigrate, Plays, Migrates, TypeOK, Requests
  <2>2. rec \in Row /\ rec.mgmt = "migrating" /\ rec.status = req[r].rec.status
    BY <2>1, Rows DEF Management, Row
  <2>3. Moves(r, "start", rec)
    BY <1>5, <2>2, RewriteMoves DEF BeginMigrate
  <2>4. db' = [db EXCEPT ![req[r].dep] = rec]
    BY <1>5 DEF BeginMigrate
  <2> HIDE DEF rec
  <2>5. /\ db'[req[r].dep] = rec /\ \E o \in Old : req[r].dep = Adopted(o)
        /\ \A d \in Dep : d # req[r].dep => db'[d] = db[d]
    BY <2>1, <2>4 DEF Holds, TypeOK, Care, Migrations, Migrates
  <2>10. Apart'
    BY <2>1, <2>2, <2>3, <2>5, Ids, Rows DEF Care, Moves, Others, Holds, Copies, Apart, Plays, Migrates, Applies
  <2>11. Copies'
    BY <2>1, <2>2, <2>3, <2>5, Ids, Rows DEF Care, Moves, Others, Holds, Apart, Copies, Plays, Migrates, Applies
  <2>12. Migrations'
    BY <2>1, <2>2, <2>3, <2>5, Ids, Rows DEF Care, Moves, Others, Holds, Apart, Copies, Migrations, Plays, Migrates, Applies
  <2>13. Applications'
    BY <2>1, <2>2, <2>3, <2>5, Ids, Rows DEF Care, Moves, Others, Holds, Apart, Copies, Applications, Plays, Migrates, Applies
  <2>14. Verified'
    BY <2>1, <2>2, <2>3, <2>5, Ids, Rows DEF Care, Moves, Others, Holds, Apart, Copies, Verified, Plays, Migrates, Applies
  <2>15. HealthyUp'
    BY <2>1, <2>2, <2>3, <2>5, Ids, Rows DEF Care, Moves, Others, Holds, Apart, Copies, HealthyUp, Plays, Migrates, Applies
  <2> QED
    BY <2>10, <2>11, <2>12, <2>13, <2>14, <2>15 DEF Care
<1>6. ASSUME NEW r \in Request, Start(r) PROVE Care'
  <2>1. Plays(r) /\ Holds(r) /\ db' = db /\ req[r].pc = "start"
    BY <1>6 DEF Start, Plays
  <2>2. \/ Goes(r) \/ Moves(r, "failed", req[r].rec) \/ Moves(r, "check", req[r].rec)
    BY <1>6, WaitsMoves, LeavesGoes DEF Start, Raises, PlayPc
  <2>3. \A n \in New : n # req[r].new => run'[n] = run[n]
    BY <1>6 DEF Start, TypeOK, Server
  <2>4. ~(db[Managed(req[r].new)] # None /\ db[Managed(req[r].new)].status = "healthy")
    BY <2>1, Rows DEF Care, Migrations, Applications, Copies, Migrates, Applies, Holds
  <2>10. Apart'
    BY <2>1, <2>2, <2>3, <2>4, IdleTyped DEF Care, Goes, Moves, Others, Holds, Copies, Apart, Plays, Migrates, Applies
  <2>11. Copies'
    BY <2>1, <2>2, <2>3, <2>4, IdleTyped DEF Care, Goes, Moves, Others, Holds, Apart, Copies, Plays, Migrates, Applies
  <2>12. Migrations'
    BY <2>1, <2>2, <2>3, <2>4, IdleTyped DEF Care, Goes, Moves, Others, Holds, Apart, Copies, Migrations, Plays, Migrates, Applies
  <2>13. Applications'
    BY <2>1, <2>2, <2>3, <2>4, IdleTyped DEF Care, Goes, Moves, Others, Holds, Apart, Copies, Applications, Plays, Migrates, Applies
  <2>14. Verified'
    BY <2>1, <2>2, <2>3, <2>4, IdleTyped DEF Care, Goes, Moves, Others, Holds, Apart, Copies, Verified, Plays, Migrates, Applies
  <2>15. HealthyUp'
    BY <2>1, <2>2, <2>3, <2>4, IdleTyped DEF Care, Goes, Moves, Others, Holds, Apart, Copies, HealthyUp, Plays, Migrates, Applies
  <2> QED
    BY <2>10, <2>11, <2>12, <2>13, <2>14, <2>15 DEF Care
<1>7. ASSUME NEW r \in Request, Check(r) PROVE Care'
  <2>1. Plays(r) /\ Holds(r) /\ db' = db /\ run' = run /\ req[r].pc = "check"
    BY <1>7 DEF Check, Plays
  <2>2. \/ Goes(r) \/ Moves(r, "failed", req[r].rec)
        \/ Moves(r, "stop", req[r].rec) /\ Migrates(r) /\ run[req[r].new] = "up"
        \/ Moves(r, "passed", req[r].rec) /\ Applies(r) /\ run[req[r].new] = "up"
    BY <1>7, <2>1, WaitsMoves, LeavesGoes DEF Check, Raises, PlayPc, Migrates, Applies, Holds
  <2>10. Apart'
    BY <2>1, <2>2, IdleTyped DEF Care, Goes, Moves, Others, Holds, Copies, Apart, Plays, Migrates, Applies
  <2>11. Copies'
    BY <2>1, <2>2, IdleTyped DEF Care, Goes, Moves, Others, Holds, Apart, Copies, Plays, Migrates, Applies
  <2>12. Migrations'
    BY <2>1, <2>2, IdleTyped DEF Care, Goes, Moves, Others, Holds, Apart, Copies, Migrations, Plays, Migrates, Applies
  <2>13. Applications'
    BY <2>1, <2>2, IdleTyped DEF Care, Goes, Moves, Others, Holds, Apart, Copies, Applications, Plays, Migrates, Applies
  <2>14. Verified'
    BY <2>1, <2>2, IdleTyped DEF Care, Goes, Moves, Others, Holds, Apart, Copies, Verified, Plays, Migrates, Applies
  <2>15. HealthyUp'
    BY <2>1, <2>2, IdleTyped DEF Care, Goes, Moves, Others, Holds, Apart, Copies, HealthyUp, Plays, Migrates, Applies
  <2> QED
    BY <2>10, <2>11, <2>12, <2>13, <2>14, <2>15 DEF Care
<1>8. ASSUME NEW r \in Request, StopAdopted(r) PROVE Care'
  <2>1. Plays(r) /\ Holds(r) /\ db' = db /\ req[r].pc = "stop"
    BY <1>8 DEF StopAdopted, Plays
  <2>2. Migrates(r)
    BY <2>1 DEF Care, Applications, Migrates, Applies, Holds
  <2>3. \/ Goes(r) \/ Moves(r, "failed", req[r].rec) \/ Moves(r, "passed", req[r].rec)
    BY <1>8, WaitsMoves, LeavesGoes DEF StopAdopted, Raises, PlayPc
  <2>4. \A n \in New : run'[n] = run[n]
    BY <1>8, <2>2, StopsItself, DeploymentsAssumption DEF StopAdopted, TypeOK, Server
  <2>10. Apart'
    BY <2>1, <2>2, <2>3, <2>4, IdleTyped DEF Care, Goes, Moves, Others, Holds, Copies, Apart, Plays, Migrates, Applies
  <2>11. Copies'
    BY <2>1, <2>2, <2>3, <2>4, IdleTyped DEF Care, Goes, Moves, Others, Holds, Apart, Copies, Plays, Migrates, Applies
  <2>12. Migrations'
    BY <2>1, <2>2, <2>3, <2>4, IdleTyped DEF Care, Goes, Moves, Others, Holds, Apart, Copies, Migrations, Plays, Migrates, Applies
  <2>13. Applications'
    BY <2>1, <2>2, <2>3, <2>4, IdleTyped DEF Care, Goes, Moves, Others, Holds, Apart, Copies, Applications, Plays, Migrates, Applies
  <2>14. Verified'
    BY <2>1, <2>2, <2>3, <2>4, IdleTyped DEF Care, Goes, Moves, Others, Holds, Apart, Copies, Verified, Plays, Migrates, Applies
  <2>15. HealthyUp'
    BY <2>1, <2>2, <2>3, <2>4, IdleTyped DEF Care, Goes, Moves, Others, Holds, Apart, Copies, HealthyUp, Plays, Migrates, Applies
  <2> QED
    BY <2>10, <2>11, <2>12, <2>13, <2>14, <2>15 DEF Care
<1>9. ASSUME NEW r \in Request, Close(r) PROVE Care'
  <2>1. Plays(r) /\ Holds(r) /\ req[r].rec \in Row /\ run' = run
    BY <1>9 DEF Close, Plays, TypeOK, Requests
  <2>2. Goes(r)
    BY <1>9, LeavesGoes DEF Close
  <2>3. \A d \in Dep : d # req[r].dep /\ d # Managed(req[r].new) => db'[d] = db[d]
    BY <1>9, <2>1 DEF Close, Holds, TypeOK
  <2>4. \A n \in New : Managed(n) \in {req[r].dep, Managed(req[r].new)} /\ db'[Managed(n)] # None
           /\ db'[Managed(n)].status = "healthy" => n = req[r].new /\ run[n] = "up"
    <3>1. CASE Applies(r)
      <4>1. db' = [db EXCEPT ![req[r].dep] = Written(r)] /\ Written(r).status =
               IF req[r].pc = "passed" THEN "healthy" ELSE "unhealthy"
        BY <1>9, <3>1, <2>1 DEF Close, Applies, Written, Row
      <4> QED
        BY <4>1, <3>1, <2>1, <1>9, Ids DEF Care, Applications, Verified, Close, TypeOK, Applies
    <3>2. CASE Migrates(r) /\ req[r].pc = "passed"
      BY <3>2, <2>1, Ids DEF Care, Verified, Migrations, Migrates
    <3>3. CASE Migrates(r) /\ req[r].pc # "passed"
      <4>1. db'[Managed(req[r].new)] = db[Managed(req[r].new)]
        <5>1. req[r].dep # Managed(req[r].new) /\ Managed(req[r].new) \in Dep
          BY <3>3, <2>1, Ids DEF Care, Migrations, Migrates, Copies
        <5>2. \E row : db' = [db EXCEPT ![req[r].dep] = row]
          BY <1>9, <3>3 DEF Close, Migrates
        <5> QED
          BY <5>1, <5>2 DEF TypeOK
      <4> QED
        BY <4>1, <3>3, <2>1, Ids DEF Care, Migrations, Migrates
    <3> QED
      BY <3>1, <3>2, <3>3, <2>1 DEF Holds, Applies, Migrates
  <2>5. \A t \in Request : Plays(t) /\ t # r =>
           /\ req[t].dep # req[r].dep /\ req[t].dep # Managed(req[r].new)
           /\ Managed(req[t].new) # req[r].dep /\ req[t].new # req[r].new
    BY <2>1, Ids, Rows DEF Care, Apart, Copies, Migrations, Applications, Migrates, Applies, Holds
  <2>10. Apart'
    BY <2>1, <2>2, <2>3, <2>4, <2>5, Ids, IdleTyped DEF Care, Goes, Others, Holds, Copies, Apart, Plays, Migrates, Applies
  <2>11. Copies'
    BY <2>1, <2>2, <2>3, <2>4, <2>5, Ids, IdleTyped DEF Care, Goes, Others, Holds, Apart, Copies, Plays, Migrates, Applies
  <2>12. Migrations'
    BY <2>1, <2>2, <2>3, <2>4, <2>5, Ids, IdleTyped DEF Care, Goes, Others, Holds, Apart, Copies, Migrations, Plays, Migrates, Applies
  <2>13. Applications'
    BY <2>1, <2>2, <2>3, <2>4, <2>5, Ids, IdleTyped DEF Care, Goes, Others, Holds, Apart, Copies, Applications, Plays, Migrates, Applies
  <2>14. Verified'
    BY <2>1, <2>2, <2>3, <2>4, <2>5, Ids, IdleTyped DEF Care, Goes, Others, Holds, Apart, Copies, Verified, Plays, Migrates, Applies
  <2>15. HealthyUp'
    BY <2>1, <2>2, <2>3, <2>4, <2>5, Ids, IdleTyped DEF Care, Goes, Others, Holds, Apart, Copies, HealthyUp, Plays, Migrates, Applies
  <2> QED
    BY <2>10, <2>11, <2>12, <2>13, <2>14, <2>15 DEF Care
<1>10. ASSUME NEW r \in Request, Scan(r) PROVE Care'
  <2>1. db' = db /\ run' = run /\ req'[r].pc = "catalog"
        /\ \A t \in Request : t # r => req'[t] = req[t]
    BY <1>10 DEF Scan, Idle, TypeOK
  <2>10. Apart'
    BY <2>1 DEF Care, Copies, Apart, Plays, Migrates, Applies
  <2>11. Copies'
    BY <2>1 DEF Care, Apart, Copies, Plays, Migrates, Applies
  <2>12. Migrations'
    BY <2>1 DEF Care, Apart, Copies, Migrations, Plays, Migrates, Applies
  <2>13. Applications'
    BY <2>1 DEF Care, Apart, Copies, Applications, Plays, Migrates, Applies
  <2>14. Verified'
    BY <2>1 DEF Care, Apart, Copies, Verified, Plays, Migrates, Applies
  <2>15. HealthyUp'
    BY <2>1 DEF Care, Apart, Copies, HealthyUp, Plays, Migrates, Applies
  <2> QED
    BY <2>10, <2>11, <2>12, <2>13, <2>14, <2>15 DEF Care
<1>11. ASSUME NEW r \in Request, Catalog(r) PROVE Care'
  <2>1. Goes(r) /\ run' = run
    BY <1>11, LeavesGoes DEF Catalog
  <2>2. \A d \in Dep : db[d] # None \/ d[1] # "adopted" => db'[d] = db[d]
    BY <1>11 DEF Catalog
  <2>3. \A n \in New : db'[Managed(n)] = db[Managed(n)]
    BY <2>2, Ids DEF Managed
  <2>10. Apart'
    BY <2>1, <2>2, <2>3, IdleTyped DEF Care, Goes, Others, Holds, Copies, Apart, Plays, Migrates, Applies
  <2>11. Copies'
    BY <2>1, <2>2, <2>3, IdleTyped DEF Care, Goes, Others, Holds, Apart, Copies, Plays, Migrates, Applies
  <2>12. Migrations'
    BY <2>1, <2>2, <2>3, IdleTyped DEF Care, Goes, Others, Holds, Apart, Copies, Migrations, Plays, Migrates, Applies
  <2>13. Applications'
    BY <2>1, <2>2, <2>3, IdleTyped DEF Care, Goes, Others, Holds, Apart, Copies, Applications, Plays, Migrates, Applies
  <2>14. Verified'
    BY <2>1, <2>2, <2>3, IdleTyped DEF Care, Goes, Others, Holds, Apart, Copies, Verified, Plays, Migrates, Applies
  <2>15. HealthyUp'
    BY <2>1, <2>2, <2>3, IdleTyped DEF Care, Goes, Others, Holds, Apart, Copies, HealthyUp, Plays, Migrates, Applies
  <2> QED
    BY <2>10, <2>11, <2>12, <2>13, <2>14, <2>15 DEF Care
<1>12. CASE Crash
  <2>10. Apart'
    BY <1>12, IdleTyped DEF Crash, Care, TypeOK, Copies, Apart, Plays, Migrates, Applies
  <2>11. Copies'
    BY <1>12, IdleTyped DEF Crash, Care, TypeOK, Apart, Copies, Plays, Migrates, Applies
  <2>12. Migrations'
    BY <1>12, IdleTyped DEF Crash, Care, TypeOK, Apart, Copies, Migrations, Plays, Migrates, Applies
  <2>13. Applications'
    BY <1>12, IdleTyped DEF Crash, Care, TypeOK, Apart, Copies, Applications, Plays, Migrates, Applies
  <2>14. Verified'
    BY <1>12, IdleTyped DEF Crash, Care, TypeOK, Apart, Copies, Verified, Plays, Migrates, Applies
  <2>15. HealthyUp'
    BY <1>12, IdleTyped DEF Crash, Care, TypeOK, Apart, Copies, HealthyUp, Plays, Migrates, Applies
  <2> QED
    BY <2>10, <2>11, <2>12, <2>13, <2>14, <2>15 DEF Care
<1>13. CASE UNCHANGED vars
  <2>10. Apart'
    BY <1>13 DEF vars, Care, Copies, Apart, Plays, Migrates, Applies
  <2>11. Copies'
    BY <1>13 DEF vars, Care, Apart, Copies, Plays, Migrates, Applies
  <2>12. Migrations'
    BY <1>13 DEF vars, Care, Apart, Copies, Migrations, Plays, Migrates, Applies
  <2>13. Applications'
    BY <1>13 DEF vars, Care, Apart, Copies, Applications, Plays, Migrates, Applies
  <2>14. Verified'
    BY <1>13 DEF vars, Care, Apart, Copies, Verified, Plays, Migrates, Applies
  <2>15. HealthyUp'
    BY <1>13 DEF vars, Care, Apart, Copies, HealthyUp, Plays, Migrates, Applies
  <2> QED
    BY <2>10, <2>11, <2>12, <2>13, <2>14, <2>15 DEF Care
<1> QED
  BY <1>1, <1>2, <1>3, <1>4, <1>5, <1>6, <1>7, <1>8, <1>9, <1>10, <1>11, <1>12, <1>13
  DEF Next, Play, Discover

\* It holds before the first request.
LEMMA InitCare == Init => CareInv
BY IdleTyped, Ids, Rows DEF Init, CareInv, Care, Apart, Copies, Migrations, Applications,
   Verified, HealthyUp, Plays, Migrates, Applies

\* Only the stop of a migration takes an old server down, and it is the server the
\* migrated row names.
LEMMA DownByItsMigration ==
    ASSUME FactsInv, Care, UnitsRight, [Next]_vars, NEW o \in Old, run[o] = "up", run'[o] = "off"
    PROVE  \E r \in Request : /\ Migrates(r) /\ req[r].pc = "stop" /\ req[r].dep = Adopted(o)
<1> USE DEF FactsInv
<1>1. o \in Server /\ o \notin New
  BY DeploymentsAssumption DEF Server
<1>2. ASSUME NEW r \in Request, Start(r) PROVE FALSE
  <2>1. req[r].new \in New
    BY <1>2 DEF Start, Care, Copies, Plays
  <2> QED
    BY <1>1, <1>2, <2>1 DEF Start, TypeOK
<1>3. ASSUME NEW r \in Request, StopAdopted(r)
      PROVE  Migrates(r) /\ req[r].pc = "stop" /\ req[r].dep = Adopted(o)
  <2>1. Plays(r) /\ req[r].pc = "stop"
    BY <1>3 DEF StopAdopted, Plays
  <2>2. Migrates(r)
    BY <2>1 DEF Care, Applications, Migrates, Applies, Holds
  <2>3. req[r].rec.stop = o
    BY <1>1, <1>3 DEF StopAdopted, TypeOK
  <2> QED
    BY <2>1, <2>2, <2>3, StopsItself
<1>4. ASSUME NEW r \in Request, \/ BeginApply(r) \/ BeginMigrate(r) \/ Check(r) \/ Close(r)
                               \/ Scan(r) \/ Catalog(r)
      PROVE  FALSE
  BY <1>4 DEF BeginApply, BeginMigrate, Check, Close, Scan, Catalog
<1>5. ASSUME NEW n \in New, Put(n) \/ Boot(n) PROVE FALSE
  BY <1>1, <1>5 DEF Put, Boot, TypeOK
<1>6. ASSUME NEW r, NEW kind, NEW d, NEW n, Resolve(r, kind, d, n) PROVE FALSE
  BY <1>6 DEF Resolve
<1> QED
  BY <1>2, <1>3, <1>4, <1>5, <1>6 DEF Next, Play, Discover, Crash, vars

\* While operators are careful and the recorded units are right, an old server goes
\* down only at the cut-over of its own migration, and the replacement answers then.
THEOREM CutoverIsVerified == Spec => CutoverVerified
<1>1. FactsInv /\ CareInv /\ [Next]_vars =>
          [careful /\ UnitsRight =>
              \A o \in Old : run[o] = "up" /\ run'[o] = "off" => Replaced(o)]_vars
  BY DownByItsMigration DEF CareInv, Care, Verified, Migrates, Replaced
<1> QED
  BY InitFacts, FactsStep, InitCare, CareStep, <1>1, PTL DEF Spec, CutoverVerified

\* ... and the table says at that moment that the server is being migrated.
THEOREM TouchedWhileMigrating == Spec => OnlyMigratingTouched
<1>1. FactsInv /\ CareInv /\ [Next]_vars =>
          [careful /\ UnitsRight =>
              \A o \in Old : run[o] = "up" /\ run'[o] = "off" =>
                  db[Adopted(o)].mgmt = "migrating"]_vars
  BY DownByItsMigration DEF CareInv, Care, Copies, Migrations, Migrates
<1> QED
  BY InitFacts, FactsStep, InitCare, CareStep, <1>1, PTL DEF Spec, OnlyMigratingTouched

\* A managed row is healthy only while its server answers.
THEOREM HealthyRowsServe == Spec => []HealthyServes
<1>1. CareInv => HealthyServes
  BY DEF CareInv, Care, HealthyUp, HealthyServes
<1> QED
  BY InitFacts, FactsStep, InitCare, CareStep, <1>1, PTL DEF Spec

\* Before the first request no row says anything and the old servers are up.
LEMMA InitTruth == Init => TruthInv
BY IdleTyped, Ids, Rows DEF Init, TruthInv, Truth, RowsTrue, CutoversTrue, Migrates, Plays, Server

\* Every action keeps the table true.
LEMMA TruthStep == FactsInv /\ CareInv /\ TruthInv /\ [Next]_vars => TruthInv'
<1> SUFFICES ASSUME FactsInv, CareInv, TruthInv, [Next]_vars, careful', UnitsRight', ~faulty'
             PROVE  Truth'
  BY DEF TruthInv
<1>a. faulty' = faulty
  BY DEF Next, Play, Discover, Put, Boot, Resolve, BeginApply, BeginMigrate, Start, Check,
     StopAdopted, Close, Scan, Catalog, Crash, vars, setup
<1>0. /\ careful /\ UnitsRight /\ ~faulty /\ Care /\ Truth /\ TypeOK
      /\ \A r \in Request : Holds(r)
  BY <1>a, Backwards DEF CareInv, TruthInv, FactsInv
<1>b. Old \subseteq Server /\ \A o \in Old : o \notin New /\ o # None
  BY DeploymentsAssumption DEF Server
<1>c. \A n \in New : db[Managed(n)] # None => db'[Managed(n)] # None
  BY FactsStep, Ids DEF RowsKept
<1> USE <1>0
<1>1. ASSUME NEW n \in New, Put(n) PROVE Truth'
  <2>1. req' = req /\ run' = run /\ \A s : db'[Adopted(s)] = db[Adopted(s)]
    BY <1>1, Ids DEF Put, setup, TypeOK
  <2>10. RowsTrue'
    BY <1>c, <2>1 DEF Truth, RowsTrue, CutoversTrue
  <2>11. CutoversTrue'
    BY <1>c, <2>1 DEF Truth, RowsTrue, CutoversTrue, Migrates, Plays
  <2> QED
    BY <2>10, <2>11 DEF Truth
<1>2. ASSUME NEW n \in New, Boot(n) PROVE Truth'
  <2>1. req' = req /\ db' = db /\ \A o \in Old : run'[o] = run[o]
    BY <1>2, <1>b DEF Boot, TypeOK
  <2>10. RowsTrue'
    BY <2>1 DEF Truth, RowsTrue, CutoversTrue
  <2>11. CutoversTrue'
    BY <2>1 DEF Truth, RowsTrue, CutoversTrue, Migrates, Plays
  <2> QED
    BY <2>10, <2>11 DEF Truth
<1>3. ASSUME NEW r \in Request, NEW kind \in {"apply", "migrate"}, NEW d \in Dep,
             NEW n \in Server, Resolve(r, kind, d, n)
      PROVE  Truth'
  <2>1. Careful(kind, d, n) /\ db' = db /\ run' = run /\ db[d] # None
    BY <1>3 DEF Resolve, Counted, careful
  <2>2. /\ req'[r].pc = "begin" /\ req'[r].kind = kind /\ req'[r].dep = d
        /\ \A t \in Request : t # r => req'[t] = req[t]
    BY <1>3 DEF Resolve, TypeOK, Idle
  <2>10. RowsTrue'
    BY <2>1, <2>2 DEF Truth, RowsTrue, CutoversTrue, Careful
  <2>11. CutoversTrue'
    BY <2>1, <2>2 DEF Truth, RowsTrue, CutoversTrue, Migrates, Plays, Careful
  <2> QED
    BY <2>10, <2>11 DEF Truth
<1>4. ASSUME NEW r \in Request, BeginApply(r) PROVE Truth'
  <2>1. Applies(r) /\ run' = run
    BY <1>4 DEF BeginApply, Plays, Applies
  <2>2. req[r].dep = Managed(req[r].new)
    BY <2>1 DEF Care, Applications
  <2>3. \A o \in Old : db'[Adopted(o)] = db[Adopted(o)]
    <3>1. \E row : db' = [db EXCEPT ![req[r].dep] = row]
      BY <1>4, Zenon DEF BeginApply
    <3> QED
      BY <1>b, <2>2, <3>1, Ids DEF TypeOK
  <2>4. /\ ~Migrates(r)'
        /\ \A t \in Request : t # r => req'[t] = req[t]
    BY <1>4, <2>1, IdleTyped DEF BeginApply, Leaves, TypeOK, Requests, Applies, Migrates, Plays
  <2>10. RowsTrue'
    BY <1>c, <2>1, <2>3, <2>4 DEF Truth, RowsTrue, CutoversTrue
  <2>11. CutoversTrue'
    BY <1>c, <2>1, <2>3, <2>4 DEF Truth, RowsTrue, CutoversTrue, Migrates, Plays
  <2> QED
    BY <2>10, <2>11 DEF Truth
<1>5. ASSUME NEW r \in Request, BeginMigrate(r) PROVE Truth'
  <2> DEFINE rec == [req[r].rec EXCEPT !.mgmt = "migrating"]
  <2>1. Migrates(r) /\ req[r].rec \in Row /\ run' = run /\ req[r].pc = "begin"
    BY <1>5 DEF BeginMigrate, Plays, Migrates, TypeOK, Requests
  <2>2. rec \in Row /\ rec.mgmt = "migrating" /\ rec.status = req[r].rec.status
    BY <2>1, Rows DEF Management, Row
  <2>3. Moves(r, "start", rec) /\ db' = [db EXCEPT ![req[r].dep] = rec]
    BY <1>5, <2>2, RewriteMoves DEF BeginMigrate
  <2> HIDE DEF rec
  <2>4. PICK o \in Old : req[r].dep = Adopted(o)
    BY <2>1 DEF Care, Migrations
  <2>5. /\ db'[Adopted(o)] = rec
        /\ \A p \in Old : p # o => db'[Adopted(p)] = db[Adopted(p)]
    BY <1>b, <2>3, <2>4, Ids DEF TypeOK
  <2>6. db[Adopted(o)] = req[r].rec /\ db[Adopted(o)] # None /\ req[r].rec.mgmt = "adopted"
    BY <2>1, <2>4 DEF Care, Copies, Migrations, Migrates, Holds
  <2>10. RowsTrue'
    BY <1>c, <2>1, <2>2, <2>3, <2>4, <2>5, <2>6, Rows DEF Truth, RowsTrue, CutoversTrue, Moves, Others
  <2>11. CutoversTrue'
    BY <1>c, <2>1, <2>2, <2>3, <2>4, <2>5, <2>6, Rows DEF Truth, RowsTrue, CutoversTrue, Migrates, Plays, Moves, Others
  <2> QED
    BY <2>10, <2>11 DEF Truth
<1>6. ASSUME NEW r \in Request, Start(r) PROVE Truth'
  <2>1. Plays(r) /\ db' = db /\ req[r].pc # "passed"
    BY <1>6 DEF Start, Plays
  <2>2. req[r].new \in New
    BY <2>1 DEF Care, Copies
  <2>3. \A o \in Old : run'[o] = run[o]
    BY <1>6, <1>b, <2>2 DEF Start, TypeOK
  <2>4. Goes(r) \/ Moves(r, "failed", req[r].rec) \/ Moves(r, "check", req[r].rec)
    BY <1>6, <2>1, WaitsMoves, LeavesGoes DEF Start, Raises, PlayPc, Applies, Migrates, Holds
  <2>10. RowsTrue'
    BY <2>1, <2>3, <2>4, IdleTyped DEF Truth, RowsTrue, CutoversTrue, Moves, Goes, Others, Applies
  <2>11. CutoversTrue'
    BY <2>1, <2>3, <2>4, IdleTyped DEF Truth, RowsTrue, CutoversTrue, Migrates, Plays, Moves, Goes, Others, Applies
  <2> QED
    BY <2>10, <2>11 DEF Truth
<1>7. ASSUME NEW r \in Request, Check(r) PROVE Truth'
  <2>1. Plays(r) /\ db' = db /\ req[r].pc # "passed"
    BY <1>7 DEF Check, Plays
  <2>2. req[r].new \in New
    BY <2>1 DEF Care, Copies
  <2>3. \A o \in Old : run'[o] = run[o]
    BY <1>7, <1>b, <2>2 DEF Check, TypeOK
  <2>4. \/ Goes(r) \/ Moves(r, "failed", req[r].rec) \/ Moves(r, "stop", req[r].rec)
        \/ Moves(r, "passed", req[r].rec) /\ Applies(r)
    BY <1>7, <2>1, WaitsMoves, LeavesGoes DEF Check, Raises, PlayPc, Applies, Migrates, Holds
  <2>10. RowsTrue'
    BY <2>1, <2>3, <2>4, IdleTyped DEF Truth, RowsTrue, CutoversTrue, Moves, Goes, Others, Applies
  <2>11. CutoversTrue'
    BY <2>1, <2>3, <2>4, IdleTyped DEF Truth, RowsTrue, CutoversTrue, Migrates, Plays, Moves, Goes, Others, Applies
  <2> QED
    BY <2>10, <2>11 DEF Truth
<1>8. ASSUME NEW r \in Request, StopAdopted(r) PROVE Truth'
  <2>1. Plays(r) /\ db' = db /\ req[r].pc = "stop"
    BY <1>8 DEF StopAdopted, Plays
  <2>2. Migrates(r)
    BY <2>1 DEF Care, Applications, Migrates, Applies, Holds
  <2>3. PICK o \in Old : req[r].dep = Adopted(o) /\ req[r].rec.stop = o
    BY <2>2, StopsItself
  <2>4. \/ Moves(r, "failed", req[r].rec) /\ run' = run
        \/ Moves(r, "passed", req[r].rec) /\ run' = [run EXCEPT ![o] = "off"]
    BY <1>8, <1>b, <2>3, WaitsMoves DEF StopAdopted, Raises, PlayPc
  <2>5. /\ \A p \in Old : p # o => run'[p] = run[p]
        /\ \A p \in Old : Adopted(p) = Adopted(o) => p = o
        /\ \A t \in Request : Migrates(t) /\ t # r => req[t].dep # Adopted(o)
        /\ \/ Moves(r, "failed", req[r].rec) /\ run'[o] = run[o]
           \/ Moves(r, "passed", req[r].rec) /\ run'[o] = "off"
    BY <1>b, <2>1, <2>3, <2>4, Ids DEF Care, Apart, Migrates, TypeOK
  <2>6. /\ run[o] = "up" /\ db[Adopted(o)] # None /\ db[Adopted(o)].mgmt = "migrating"
    BY <2>1, <2>2, <2>3 DEF Truth, CutoversTrue, Care, Copies, Migrations, Holds
  <2>10. RowsTrue'
    BY <2>1, <2>2, <2>3, <2>5, <2>6 DEF Truth, RowsTrue, CutoversTrue, Moves, Others
  <2>11. CutoversTrue'
    BY <2>1, <2>2, <2>3, <2>5, <2>6 DEF Truth, RowsTrue, CutoversTrue, Migrates, Plays, Moves, Others
  <2> QED
    BY <2>10, <2>11 DEF Truth
<1>9. ASSUME NEW r \in Request, Close(r) PROVE Truth'
  <2>1. Plays(r) /\ Holds(r) /\ req[r].rec \in Row /\ run' = run
    BY <1>9 DEF Close, Plays, TypeOK, Requests
  <2>2. Goes(r)
    BY <1>9, LeavesGoes DEF Close
  <2>3. CASE Applies(r)
    <3>1. req[r].dep = Managed(req[r].new)
      BY <2>3 DEF Care, Applications
    <3>2. \A o \in Old : db'[Adopted(o)] = db[Adopted(o)]
      <4>1. db' = [db EXCEPT ![req[r].dep] = Written(r)]
        BY <1>9, <2>3 DEF Close, Applies
      <4> QED
        BY <1>b, <3>1, <4>1, Ids DEF TypeOK
    <3>3. RowsTrue'
      BY <1>c, <2>1, <3>2 DEF Truth, RowsTrue
    <3>4. CutoversTrue'
      BY <2>1, <2>2, IdleTyped DEF Truth, CutoversTrue, Migrates, Plays, Goes, Others
    <3> QED
      BY <3>3, <3>4 DEF Truth
  <2>4. CASE Migrates(r)
    <3>1. PICK o \in Old : req[r].dep = Adopted(o)
      BY <2>4 DEF Care, Migrations
    <3>2. \A p \in Old : p # o => db'[Adopted(p)] = db[Adopted(p)]
      <4>1. \E row : \/ db' = [db EXCEPT ![req[r].dep] = row]
                      \/ db' = [db EXCEPT ![Managed(req[r].new)] = ManagedRow("healthy"),
                                         ![req[r].dep] = row]
        BY <1>9, <2>4, Zenon DEF Close, Migrates
      <4> QED
        BY <1>b, <3>1, <4>1, Ids DEF TypeOK
    <3>3. db[Adopted(o)] = req[r].rec /\ db[Adopted(o)] # None /\ req[r].new \in New
      BY <2>1, <3>1 DEF Care, Copies, Holds
    <3>4. CASE req[r].pc = "passed"
      <4>1. /\ db' = [db EXCEPT ![Managed(req[r].new)] = ManagedRow("healthy"),
                                ![Adopted(o)] = [req[r].rec EXCEPT !.status = "stopped"]]
            /\ req[r].rec.mgmt = "migrating"
        BY <1>9, <2>4, <3>1, <3>4 DEF Close, Migrates, Care, Migrations
      <4>2. /\ db'[Adopted(o)].mgmt = "migrating" /\ db'[Adopted(o)] # None
            /\ db'[Managed(req[r].new)] # None
        <5>1. /\ Managed(req[r].new) # Adopted(o) /\ Managed(req[r].new) \in Dep
              /\ Adopted(o) \in Dep
          BY <1>b, <3>3, Ids
        <5>2. /\ db'[Adopted(o)] = [req[r].rec EXCEPT !.status = "stopped"]
              /\ db'[Managed(req[r].new)] = ManagedRow("healthy")
          BY <4>1, <5>1 DEF TypeOK
        <5>3. [req[r].rec EXCEPT !.status = "stopped"].mgmt = req[r].rec.mgmt
              /\ [req[r].rec EXCEPT !.status = "stopped"] \in Row
          BY <2>1, Rows DEF Row, DepStatus
        <5> QED
          BY <4>1, <5>2, <5>3, Rows
      <4>3. run'[o] = "off"
        BY <2>1, <2>4, <3>1, <3>4 DEF Truth, CutoversTrue
      <4>4. RowsTrue'
        BY <1>c, <2>1, <3>2, <3>3, <4>2, <4>3 DEF Truth, RowsTrue
      <4>5. CutoversTrue'
        BY <2>1, <2>2, IdleTyped DEF Truth, CutoversTrue, Migrates, Plays, Goes, Others
      <4> QED
        BY <4>4, <4>5 DEF Truth
    <3>5. CASE req[r].pc # "passed"
      <4>1. db' = [db EXCEPT ![Adopted(o)] = [req[r].rec EXCEPT !.mgmt = "adopted"]]
        BY <1>9, <2>4, <3>1, <3>5 DEF Close, Migrates
      <4>2. /\ db'[Adopted(o)].status = db[Adopted(o)].status /\ db'[Adopted(o)] # None
        BY <1>b, <2>1, <3>3, <4>1, Ids, Rows DEF TypeOK, Row, Management
      <4>3. run'[o] = "up"
        BY <2>1, <2>4, <3>1, <3>5 DEF Truth, CutoversTrue
      <4>4. RowsTrue'
        BY <1>c, <2>1, <3>2, <3>3, <4>2, <4>3 DEF Truth, RowsTrue
      <4>5. CutoversTrue'
        BY <2>1, <2>2, IdleTyped DEF Truth, CutoversTrue, Migrates, Plays, Goes, Others
      <4> QED
        BY <4>4, <4>5 DEF Truth
    <3> QED
      BY <3>4, <3>5
  <2> QED
    BY <2>1, <2>3, <2>4 DEF Holds, Applies, Migrates
<1>10. ASSUME NEW r \in Request, Scan(r) PROVE Truth'
  <2>1. db' = db /\ run' = run /\ req'[r].pc = "catalog"
        /\ \A t \in Request : t # r => req'[t] = req[t]
    BY <1>10 DEF Scan, Idle, TypeOK
  <2>10. RowsTrue'
    BY <2>1 DEF Truth, RowsTrue, CutoversTrue
  <2>11. CutoversTrue'
    BY <2>1 DEF Truth, RowsTrue, CutoversTrue, Migrates, Plays
  <2> QED
    BY <2>10, <2>11 DEF Truth
<1>11. ASSUME NEW r \in Request, Catalog(r) PROVE Truth'
  <2>1. Goes(r) /\ run' = run
    BY <1>11, LeavesGoes DEF Catalog
  <2>2. \A o \in Old : \/ db'[Adopted(o)] = db[Adopted(o)]
                      \/ /\ db[Adopted(o)] = None
                         /\ db'[Adopted(o)].status = "unknown"
    BY <1>11, <1>b, Ids DEF Catalog
  <2>10. RowsTrue'
    BY <1>c, <2>1, <2>2, IdleTyped DEF Truth, RowsTrue, CutoversTrue, Goes, Others
  <2>11. CutoversTrue'
    BY <1>c, <2>1, <2>2, IdleTyped DEF Truth, RowsTrue, CutoversTrue, Migrates, Plays, Goes, Others
  <2> QED
    BY <2>10, <2>11 DEF Truth
<1>12. CASE Crash
  BY <1>12 DEF Crash
<1>13. CASE UNCHANGED vars
  <2>10. RowsTrue'
    BY <1>13 DEF Truth, RowsTrue, CutoversTrue, vars
  <2>11. CutoversTrue'
    BY <1>13 DEF Truth, RowsTrue, CutoversTrue, Migrates, Plays, vars
  <2> QED
    BY <2>10, <2>11 DEF Truth
<1> QED
  BY <1>1, <1>2, <1>3, <1>4, <1>5, <1>6, <1>7, <1>8, <1>9, <1>10, <1>11, <1>12, <1>13
  DEF Next, Play, Discover

\* While commands answer, the table tells careful operators the truth about the
\* servers that were there before the harness.
THEOREM RowsAreTrue == Spec => []RowsTellTheTruth
<1>1. TruthInv => RowsTellTheTruth
  BY DEF TruthInv, Truth, RowsTrue, RowsTellTheTruth
<1> QED
  BY InitFacts, FactsStep, InitCare, CareStep, InitTruth, TruthStep, <1>1, PTL DEF Spec

=============================================================================
