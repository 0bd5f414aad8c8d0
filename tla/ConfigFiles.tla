---------------------------- MODULE ConfigFiles ----------------------------
(* The four files fleetd keeps for the gateway and the fleet: the node file *)
(* (power.py), the LiteLLM configuration (litellm_sync.py, providers.py),   *)
(* tiers.yaml and the environment file (providers.py).  The endpoints that  *)
(* change them (api.py) run on a pool of threads.  Each reads a file,       *)
(* computes the new text and puts it in place by way of <path>.tmp, a name  *)
(* that all writers of a file share.                                        *)
EXTENDS ConfigText, FiniteSets

CONSTANTS
    Request,     \* threads of the pool
    Provider,    \* cloud providers
    FirstChoice, \* the one a missing tiers.yaml stands for
    Key,         \* variables of the environment file
    FirstText,   \* the configuration the operator starts from
    MaxActs      \* bound: requests made and entries added by the operator

ASSUME FilesAssumption ==
    /\ FirstChoice \in Provider
    /\ FirstText \in Seq([kind : {"hand"}, of : Hand] \cup [kind : {"node"}, of : Node]
                             \cup {Mark("note")})
    /\ MaxActs \in Nat

VARIABLES
    file,    \* what a reader of each path finds
    tmp,     \* what <path>.tmp holds
    req,     \* the requests
    acts,    \* requests made and entries added so far
    shared   \* history: files whose temporary name two requests had open at once
vars == <<file, tmp, req, acts, shared>>

File == {"nodes", "litellm", "tiers", "env"}

\* A path names no file, a file just opened for writing, a text that someone wrote, or one
\* with the tail of another; the latter may parse or not, and may say anything.
Absent == [is |-> "absent"]
Empty == [is |-> "empty"]
Torn == [is |-> "torn"]
Whole(text) == [is |-> "whole", text |-> text]

\* POST and DELETE /nodes, POST /litellm/sync, POST /tiers without and with `apply`,
\* POST /providers/{p}/key.
Choice == [provider : Provider, own : BOOLEAN]
Op == {"register", "deregister", "sync", "tiers", "apply", "key"}

Idle == [pc |-> "idle", op |-> "none", path |-> "nodes", read |-> Absent, new |-> Absent,
         s3 |-> {}, cfg |-> "none", fd |-> "none"]
Busy(r) == req[r].pc # "idle"
Act == acts < MaxActs /\ acts' = acts + 1
Starts(r) == ~Busy(r) /\ Act

\* A request that has read the file of path now holds what it will write there.
Holds(r, op, path, new) ==
    req' = [req EXCEPT ![r] = [Idle EXCEPT !.pc = "open", !.op = op, !.path = path,
                                           !.read = file[path], !.new = new]]
Leaves(r) == req' = [req EXCEPT ![r] = Idle]

-----------------------------------------------------------------------------
(* The edits.                                                               *)

\* The change of a spoilt text is one.
Edited(old, text) == IF old = Torn THEN Torn ELSE Whole(text)

Registry(old) == IF old.is = "whole" THEN old.text ELSE [n \in Node |-> "none"]
Fleet(old) == {n \in Node : Registry(old)[n] = "s3"}

\* A new provider without models of its own gets the defaults.
Tiers(old) == IF old.is = "whole" THEN old.text ELSE [provider |-> FirstChoice, own |-> FALSE]
Declared(provider, own, old) ==
    [provider |-> provider, own |-> own \/ (old.own /\ provider = old.provider)]

Keys(old) == IF old.is = "whole" THEN old.text ELSE {}

Config(old) == IF old.is = "whole" THEN old.text ELSE <<>>

-----------------------------------------------------------------------------
(* The steps of a request.                                                  *)

\* A name that is taken is refused unless the caller asks to overwrite it.
Register(r) ==
    LET old == file["nodes"] IN
    /\ Starts(r)
    /\ \E n \in Node, tier \in {"s3", "other"}, overwrite \in BOOLEAN :
           /\ Registry(old)[n] = "none" \/ overwrite
           /\ Holds(r, "register", "nodes", Edited(old, [Registry(old) EXCEPT ![n] = tier]))
    /\ UNCHANGED <<file, tmp, shared>>

\* Mutant of Deregister: the line stays and is marked as removed.
DeregisterSoftly(r) ==
    LET old == file["nodes"] IN
    /\ Starts(r)
    /\ \E n \in Node :
           /\ Registry(old)[n] # "none" \/ old = Torn
           /\ Holds(r, "deregister", "nodes", Edited(old, [Registry(old) EXCEPT ![n] = "removed"]))
    /\ UNCHANGED <<file, tmp, shared>>

Deregister(r) ==
    LET old == file["nodes"] IN
    /\ Starts(r)
    /\ \E n \in Node :
           /\ Registry(old)[n] # "none" \/ old = Torn
           /\ Holds(r, "deregister", "nodes", Edited(old, [Registry(old) EXCEPT ![n] = "none"]))
    /\ UNCHANGED <<file, tmp, shared>>

SetKey(r) ==
    LET old == file["env"] IN
    /\ Starts(r)
    /\ \E key \in Key : Holds(r, "key", "env", Edited(old, Keys(old) \cup {key}))
    /\ UNCHANGED <<file, tmp, shared>>

\* set_tiers saves tiers.yaml before it looks at the configuration, and dumps it afresh.
SetTiers(r) ==
    LET old == file["tiers"] IN
    /\ Starts(r)
    /\ \E op \in {"tiers", "apply"}, provider \in Provider, own \in BOOLEAN :
           \E was \in IF old = Torn THEN Choice ELSE {Tiers(old)} :
               LET cfg == Declared(provider, own, was) IN
               req' = [req EXCEPT ![r] = [Idle EXCEPT
                          !.pc = "open", !.op = op, !.path = "tiers", !.read = old,
                          !.new = Whole(cfg), !.cfg = cfg]]
    /\ UNCHANGED <<file, tmp, shared>>

\* litellm_sync_endpoint reads the node file first.
LookUp(r) ==
    LET old == file["nodes"] IN
    /\ Starts(r)
    /\ old # Absent /\ file["litellm"] # Absent
    /\ \E s3 \in IF old = Torn THEN SUBSET Node ELSE {Fleet(old)} :
           req' = [req EXCEPT ![r] = [Idle EXCEPT !.pc = "config", !.op = "sync", !.s3 = s3]]
    /\ UNCHANGED <<file, tmp, shared>>

\* Both writers of the configuration check the new text by parsing it, give up when it
\* does not parse, and leave a copy of what they read beside the file.
Render(r, text) ==
    req' = [req EXCEPT ![r] = [@ EXCEPT !.pc = "open", !.path = "litellm", !.read = file["litellm"],
                                        !.new = Edited(file["litellm"], text)]]

Sync(r) ==
    LET text == Config(file["litellm"]) IN
    /\ req[r].pc = "config" /\ req[r].op = "sync"
    /\ \/ Leaves(r)
       \/ /\ file["litellm"] \notin {Absent, Empty}
          /\ SyncRefused(text, req[r].s3) => file["litellm"] = Torn
          /\ Render(r, Synced(text, req[r].s3))
    /\ UNCHANGED <<file, tmp, acts, shared>>

ApplyTiers(r) ==
    /\ req[r].pc = "config" /\ req[r].op = "apply"
    /\ Leaves(r) \/ Render(r, Applied(Config(file["litellm"]), req[r].cfg))
    /\ UNCHANGED <<file, tmp, acts, shared>>

-----------------------------------------------------------------------------
(* _atomic_write, save_tiers, set_env_var: open(tmp, "w"), write, os.replace *)

\* Requests that have the temporary name of p open, or what became of it.
Writers(p) == {q \in Request : req[q].pc \in {"fill", "replace"} /\ req[q].path = p}
Sharing(p) == shared' = IF Writers(p) = {} THEN shared ELSE shared \cup {p}

\* Mutant of Open: the file is replaced before the text is written.
OpenUnwritten(r) ==
    /\ req[r].pc = "open"
    /\ tmp' = [tmp EXCEPT ![req[r].path] = Empty]
    /\ req' = [req EXCEPT ![r].pc = "replace"]
    /\ Sharing(req[r].path)
    /\ UNCHANGED <<file, acts>>

\* Opening creates the file or cuts off what it held, also under another writer.
Open(r) ==
    /\ req[r].pc = "open"
    /\ tmp' = [tmp EXCEPT ![req[r].path] = Empty]
    /\ req' = [req EXCEPT ![r].pc = "fill", ![r].fd = "tmp"]
    /\ Sharing(req[r].path)
    /\ UNCHANGED <<file, acts>>

\* The whole text is written from the start of the file, over what is there.
Over(old, new) == IF old \in {Empty, new} THEN {new} ELSE {new, Torn}

Fill(r) ==
    LET p == req[r].path IN
    /\ req[r].pc = "fill"
    /\ CASE req[r].fd = "tmp" ->
              /\ \E t \in Over(tmp[p], req[r].new) : tmp' = [tmp EXCEPT ![p] = t]
              /\ UNCHANGED file
         [] req[r].fd = "live" ->
              /\ \E t \in Over(file[p], req[r].new) : file' = [file EXCEPT ![p] = t]
              /\ UNCHANGED tmp
         [] req[r].fd = "gone" -> UNCHANGED <<file, tmp>>
    /\ req' = [req EXCEPT ![r].pc = "replace", ![r].fd = "none"]
    /\ UNCHANGED <<acts, shared>>

\* What another writer of the path still has open is now the live file.
Moved(q, p) ==
    IF req[q].path # p \/ req[q].fd = "none" THEN req[q].fd
    ELSE IF req[q].fd = "tmp" THEN "live" ELSE "gone"

AfterReplace(r) ==
    IF req[r].path = "tiers" /\ req[r].op = "apply"
    THEN [Idle EXCEPT !.pc = "config", !.op = "apply", !.cfg = req[r].cfg]
    ELSE IF req[r].path = "litellm" THEN [Idle EXCEPT !.pc = "restart"]
    ELSE Idle

Replace(r) ==
    LET p == req[r].path IN
    /\ req[r].pc = "replace"
    /\ IF tmp[p] = Absent
       THEN Leaves(r) /\ UNCHANGED <<file, tmp>>
       ELSE /\ file' = [file EXCEPT ![p] = tmp[p]]
            /\ tmp' = [tmp EXCEPT ![p] = Absent]
            /\ req' = [q \in Request |-> IF q = r THEN AfterReplace(r)
                                         ELSE [req[q] EXCEPT !.fd = Moved(q, p)]]
    /\ UNCHANGED <<acts, shared>>

\* `systemctl restart dnc-litellm`; an error is reported, nothing is taken back.
Restart(r) ==
    /\ req[r].pc = "restart"
    /\ Leaves(r)
    /\ UNCHANGED <<file, tmp, acts, shared>>

-----------------------------------------------------------------------------
\* fleetd dies.  A temporary file it leaves is as good as none: nobody reads it, and
\* the next writer that opens it cuts it off.
Crash ==
    /\ \E r \in Request : Busy(r)
    /\ req' = [r \in Request |-> Idle]
    /\ tmp' = [f \in File |-> Absent]
    /\ UNCHANGED <<file, acts, shared>>

\* The operator adds an entry at the end of the list, outside the fences.
Edit ==
    /\ Act
    /\ file["litellm"].is = "whole"
    /\ LET text == file["litellm"].text IN
       \E h \in Hand :
           /\ \A i \in DOMAIN text : text[i] # Line("hand", h)
           /\ file' = [file EXCEPT !["litellm"] = Whole(Append(text, Line("hand", h)))]
    /\ UNCHANGED <<tmp, req, shared>>

Init ==
    /\ file = [f \in File |-> IF f = "litellm" THEN Whole(FirstText) ELSE Absent]
    /\ tmp = [f \in File |-> Absent]
    /\ req = [r \in Request |-> Idle]
    /\ acts = 0 /\ shared = {}

\* No more is asked for and every request is over.
Rest == acts = MaxActs /\ (\A r \in Request : ~Busy(r)) /\ UNCHANGED vars

Reads(r) ==
    \/ Register(r) \/ Deregister(r) \/ SetKey(r) \/ SetTiers(r)
    \/ LookUp(r) \/ Sync(r) \/ ApplyTiers(r)
Puts(r) == Open(r) \/ Fill(r) \/ Replace(r)
Next ==
    \/ \E r \in Request : Reads(r) \/ Puts(r) \/ Restart(r)
    \/ Crash
    \/ Edit
    \/ Rest

Spec == Init /\ [][Next]_vars

-----------------------------------------------------------------------------
(* Properties.                                                              *)

Text(f) ==
    CASE f = "nodes" -> [Node -> {"none", "s3", "other"}]
      [] f = "tiers" -> Choice
      [] f = "env"   -> SUBSET Key
ConfigLine ==
    [kind : {"hand"}, of : Hand] \cup [kind : {"node"}, of : Node]
    \cup [kind : {"cloud"}, of : Choice]
    \cup [kind : Kind \ {"hand", "node", "cloud"}, of : {Nobody}]
IsContent(f, c) ==
    \/ c \in {Absent, Empty, Torn}
    \/ c.is = "whole" /\ IF f = "litellm" THEN \A i \in DOMAIN c.text : c.text[i] \in ConfigLine
                                         ELSE c.text \in Text(f)

\* Every variable keeps its type.
TypeOK ==
    /\ \A f \in File : IsContent(f, file[f]) /\ IsContent(f, tmp[f])
    /\ \A r \in Request :
           /\ req[r].pc \in {"idle", "config", "open", "fill", "replace", "restart"}
           /\ req[r].op \in Op \cup {"none"}
           /\ req[r].fd \in {"none", "tmp", "live", "gone"}
           /\ req[r].s3 \subseteq Node
           /\ req[r].path \in File
    /\ acts \in 0..MaxActs /\ shared \subseteq File

\* power.py:119 "applied atomically (temp + os.replace)": whoever opens one of the files, the
\* gateway included, finds a whole text in it, also after a crash and whatever is done to the
\* other files -- unless two requests had the temporary name of that file open at once, which
\* no lock prevents: then an empty or a mixed text may go live.
WholeFiles == \A f \in File \ shared : file[f] \notin {Empty, Torn}

\* providers.py:14 "the two compose": after any sequence of edits by hand, syncs and
\* changes of tiers, overlapping or not, each fence is there at most once and encloses its
\* entries in every text that is one request's.
FencesCompose == file["litellm"].is = "whole" => WellFormed(file["litellm"].text)

\* What a file says.
Says(text) ==
    [hand |-> HandOf(text), alike |-> AlikeOf(text), fleet |-> NodesOf(text), cloud |-> CloudOf(text)]

\* What a request is about to replace, and what that said when the request read it.
Writing == {"open", "fill", "replace"}
View(q) ==
    CASE q.pc = "config" /\ q.op = "sync"  -> [of |-> "sync", s3 |-> q.s3]
      [] q.pc = "config" /\ q.op = "apply" -> [of |-> "apply", cfg |-> q.cfg]
      [] q.pc \in {"idle", "restart"} -> [of |-> "none"]
      [] q.pc \in Writing /\ q.path # "litellm" -> [of |-> q.path]
      [] q.pc \in Writing /\ q.path = "litellm" /\ q.op = "sync"  -> [of |-> "fleet", s3 |-> q.s3]
      [] q.pc \in Writing /\ q.path = "litellm" /\ q.op = "apply" -> [of |-> "cloud", cfg |-> q.cfg]
Saw(q) ==
    CASE q.pc \in Writing /\ q.path = "nodes" -> Registry(q.read)
      [] q.pc \in Writing /\ q.path = "env"   -> Keys(q.read)
      [] q.pc \in Writing /\ q.path = "litellm" -> Says(Config(q.read))
      [] OTHER -> [of |-> "none"]

\* litellm_sync.py:113 "Everything outside the managed block is preserved verbatim" and
\* providers.py:251: through all interleavings of reads, temporary files, replacements and
\* crashes a request replaces a file by one change of what the file said when the request
\* read it (an update made in between is lost), unless the temporary name was shared.
Promise == INSTANCE GatewayConfig WITH
    Entry <- [kind : {"hand"}, of : Hand],
    Alike <- [kind : {"hand"}, of : Lookalike],
    registry <- Registry(file["nodes"]),
    tiers <- Tiers(file["tiers"]),
    keys <- Keys(file["env"]),
    gateway <- Says(Config(file["litellm"])),
    view <- [r \in Request |-> View(req[r])],
    saw <- [r \in Request |-> Saw(req[r])]
OneChangeEach == Promise!OneChangeEach
=============================================================================
