---------------------------- MODULE PoolControl ----------------------------
(***************************************************************************)
(* The registry of nodes and pools in orchestrator/app.py: the handlers    *)
(* that change nodes, pools and, through HTTP, the workers; the health     *)
(* loop; and the mint of the PoolINFT after a load.                        *)
(*                                                                         *)
(* A handler is cut at each await.  It reads its pool document first and   *)
(* works from that copy to its end; its writes find the document by _id    *)
(* and the nodes by node_id, and change nothing that is gone.              *)
(*                                                                         *)
(* One owner: every query is scoped by owner_username.  A node row counts  *)
(* for its pool_name and for whether its status is "loaded"; assignments   *)
(* are the model and the two nodes in order, from which                    *)
(* _compute_assignments derives roles and layers.                          *)
(***************************************************************************)
EXTENDS Integers, Sequences, FiniteSets

CONSTANTS
  Nodes,     \* node ids
  Docs,      \* pool documents, one _id each
  Names,     \* pool names
  Models,    \* the keys of MODEL_LAYERS
  Handlers,  \* requests in progress at one time
  MaxMints,  \* bound: PoolINFTs minted for one pool document
  Faults,    \* what may go wrong in this instance, a subset of FaultKinds
  None

FaultKinds ==
  { "http",     \* a call to a worker fails, whether it took effect or not
    "late",     \* the orchestrator gives up on a call that the worker goes on with
    "mint",     \* build_and_mint_for_pool raises, minted or not
    "crash",    \* the orchestrator stops and starts again
    "restart" } \* a worker process stops and starts again

ASSUME PoolAssumption ==
  /\ MaxMints \in Nat
  /\ Faults \subseteq FaultKinds
  /\ None \notin Names

VARIABLES
  registered,  \* the nodes with a row in db.nodes
  poolName,    \* the pool_name of each row
  seenLoaded,  \* whose status is "loaded"
  name,        \* the name of each pool document, None if there is none
  members,     \* its node_ids
  initialized,
  loaded,
  assigned,    \* its assignments and model, or None
  token,       \* whether it has an inft_token_id
  minted,      \* the PoolINFTs minted for it on chain
  config,      \* s.config of each worker
  running,     \* the configuration its model was built from, None without a model
  late,        \* the calls that are given up on, and that workers still serve
  req,         \* what each handler is doing and its locals
  missing,     \* the pools _reconcile_pool_loaded has found incomplete
  disturbed    \* history: what has disturbed the handlers so far

nodeVars   == <<registered, poolName, seenLoaded>>
poolVars   == <<name, members, initialized, loaded, assigned, token>>
workerVars == <<config, running, late>>
vars == <<nodeVars, poolVars, minted, workerVars, req, missing, disturbed>>

Membership == {"add", "remove", "delete", "deleteNode"}
Ops        == Membership \cup {"initialize", "load", "unload"}

\* Which requests were in progress together.
OverlapKinds ==
  { "members",  \* two that change the membership
    "plan",     \* /initialize with one that changes the membership
    "loads",    \* two /load
    "other" }

Overlap(op1, op2) ==
  IF {op1, op2} \subseteq Membership THEN "members"
  ELSE IF {op1, op2} \subseteq Membership \cup {"initialize"} /\ op1 # op2 THEN "plan"
  ELSE IF {op1, op2} = {"load"} THEN "loads"
  ELSE "other"

\* "halfInit": an /initialize ended without its pool update after it had
\* started to configure workers.  "halfDelete": a worker did not unload for a
\* pool that was to be deleted.
Disturbances == (FaultKinds \ {"http"}) \cup OverlapKinds \cup {"halfInit", "halfDelete"}

Pairs       == {p \in Nodes \X Nodes : p[1] # p[2]}
Assignments == [model : Models, nodes : Pairs]
MemberLists == {<<>>} \cup {<<n>> : n \in Nodes} \cup Pairs

\* What _configure_one sends to a worker.
Role(a, n)   == IF n = a.nodes[1] THEN "entry" ELSE "exit"
Peer(a, n)   == IF n = a.nodes[1] THEN a.nodes[2] ELSE a.nodes[1]
Payload(a, n) == [model |-> a.model, role |-> Role(a, n), peer |-> Peer(a, n)]
Payloads == [model : Models, role : {"entry", "exit"}, peer : Nodes]

\* A late call; a /load that has begun keeps the configuration it began with.
\* Calls that are alike count once.
LateCalls == [node : Nodes, call : {"configure", "load", "loading", "unload"},
              payload : Payloads \cup {None}]

\* pc is the await a handler is at; snap is the pool it read, nodes and model
\* its arguments, todo the nodes it has not checked or not heard of yet.
Idle == [op |-> "none", pc |-> "idle"]
Requests ==
  [ op : Ops,
    pc : {"check", "nodes", "gather", "post", "pool", "node", "remint", "mint", "token"},
    doc : Docs \cup {None}, name : Names \cup {None}, snap : MemberLists,
    nodes : MemberLists, model : Models \cup {None},
    todo : SUBSET Nodes, failed : BOOLEAN ]

TypeOK ==
  /\ registered \subseteq Nodes
  /\ poolName \in [Nodes -> Names \cup {None}]
  /\ seenLoaded \subseteq Nodes
  /\ name \in [Docs -> Names \cup {None}]
  /\ members \in [Docs -> MemberLists]
  /\ {initialized, loaded, token} \subseteq SUBSET Docs
  /\ assigned \in [Docs -> Assignments \cup {None}]
  /\ minted \in [Docs -> 0 .. MaxMints]
  /\ config \in [Nodes -> Payloads \cup {None}]
  /\ running \in [Nodes -> Payloads \cup {None}]
  /\ late \subseteq LateCalls
  /\ req \in [Handlers -> {Idle} \cup Requests]
  /\ missing \subseteq Docs
  /\ disturbed \subseteq Disturbances

Init ==
  /\ registered = {}
  /\ poolName = [n \in Nodes |-> None]
  /\ seenLoaded = {}
  /\ name = [d \in Docs |-> None]
  /\ members = [d \in Docs |-> <<>>]
  /\ initialized = {}
  /\ loaded = {}
  /\ assigned = [d \in Docs |-> None]
  /\ token = {}
  /\ minted = [d \in Docs |-> 0]
  /\ config = [n \in Nodes |-> None]
  /\ running = [n \in Nodes |-> None]
  /\ late = {}
  /\ req = [h \in Handlers |-> Idle]
  /\ missing = {}
  /\ disturbed = {}

Exists(d)  == name[d] # None
Present(d) == {members[d][i] : i \in DOMAIN members[d]}
Listed(s)  == {s[i] : i \in DOMAIN s}
up         == {n \in Nodes : running[n] # None}
IdleNow    == \A h \in Handlers : req[h] = Idle

-----------------------------------------------------------------------------
(* The start and the end of a request.                                     *)

Ask(h, r) ==
  /\ req[h] = Idle
  /\ req' = [req EXCEPT ![h] = r]
  /\ disturbed' = disturbed \cup
       {Overlap(r.op, req[g].op) : g \in {g \in Handlers : req[g] # Idle}}

OnPool(op, pc, d) ==
  [ op |-> op, pc |-> pc, doc |-> d, name |-> name[d], snap |-> members[d],
    nodes |-> <<>>, model |-> None, todo |-> {}, failed |-> FALSE ]

Goto(h, pc) == req' = [req EXCEPT ![h].pc = pc]
Return(h)   == req' = [req EXCEPT ![h] = Idle]
At(h, op, pc) == req[h].op = op /\ req[h].pc = pc

\* The answers of all workers are in.
Answered(h, op) == At(h, op, "post") /\ req[h].todo = {}

HalfInit(h) ==
  req[h].op = "initialize" /\ req[h].pc \in {"post", "pool"}

-----------------------------------------------------------------------------
(* Nodes.                                                                  *)

\* The row is looked up and then inserted or updated: what can change between
\* the two is that it appears or goes, and then nothing is written.
RegisterNode(n) ==
  /\ registered' = registered \cup {n}
  /\ seenLoaded' = seenLoaded \ {n}
  /\ UNCHANGED <<poolName, poolVars, minted, workerVars, req, missing, disturbed>>

DeleteNodeRequest(n) ==
  [ op |-> "deleteNode", pc |-> "node", doc |-> None, name |-> None, snap |-> <<>>,
    nodes |-> <<n>>, model |-> None, todo |-> {}, failed |-> FALSE ]

\* Mutant: a node is deleted whatever its pool.
AskDeleteAnyNode(h, n) ==
  /\ n \in registered
  /\ Ask(h, DeleteNodeRequest(n))
  /\ UNCHANGED <<nodeVars, poolVars, minted, workerVars, missing>>

AskDeleteNode(h, n) ==
  /\ n \in registered
  /\ poolName[n] = None
  /\ Ask(h, DeleteNodeRequest(n))
  /\ UNCHANGED <<nodeVars, poolVars, minted, workerVars, missing>>

\* delete_one by _id.  Another handler that holds this row by its _id finds
\* nothing from now on, not even a row registered again: it is over.
NodeDeleted(h) ==
  /\ At(h, "deleteNode", "node")
  /\ \E n \in Nodes :
       /\ req[h].nodes = <<n>>
       /\ registered' = registered \ {n}
       /\ poolName' = [poolName EXCEPT ![n] = None]
       /\ seenLoaded' = seenLoaded \ {n}
       /\ req' = [g \in Handlers |->
                   IF At(g, "deleteNode", "node") /\ req[g].nodes = <<n>>
                     THEN Idle ELSE req[g]]
  /\ UNCHANGED <<poolVars, minted, workerVars, missing, disturbed>>

-----------------------------------------------------------------------------
(* Pools and their members.                                                *)

\* A document is new: no handler holds its _id.
CreatePool(d, nm) ==
  /\ ~Exists(d)
  /\ \A h \in Handlers : req[h] # Idle => req[h].doc # d
  /\ \A e \in Docs : name[e] # nm
  /\ name' = [name EXCEPT ![d] = nm]
  /\ members' = [members EXCEPT ![d] = <<>>]
  /\ initialized' = initialized \ {d}
  /\ loaded' = loaded \ {d}
  /\ assigned' = [assigned EXCEPT ![d] = None]
  /\ token' = token \ {d}
  /\ minted' = [minted EXCEPT ![d] = 0]
  /\ UNCHANGED <<nodeVars, workerVars, req, missing, disturbed>>

\* The node ids that are members already have been left out of ns.
AskAdd(h, d, ns) ==
  /\ Exists(d)
  /\ d \notin loaded
  /\ ns # <<>>
  /\ Listed(ns) \cap Present(d) = {}
  /\ Len(members[d]) + Len(ns) <= 2
  /\ Ask(h, [OnPool("add", "check", d) EXCEPT !.nodes = ns, !.todo = Listed(ns)])
  /\ UNCHANGED <<nodeVars, poolVars, minted, workerVars, missing>>

\* Mutant: the check that a node is in no pool is missing.
FreeRegistered(n) == n \in registered /\ n \notin seenLoaded

Free(n) == n \in registered /\ poolName[n] = None /\ n \notin seenLoaded

\* One node after the other is looked up.
AddCheck(h) ==
  /\ At(h, "add", "check")
  /\ \E i \in DOMAIN req[h].nodes :
       LET n == req[h].nodes[i] IN
       /\ n \in req[h].todo
       /\ \A j \in 1 .. i - 1 : req[h].nodes[j] \notin req[h].todo
       /\ \/ /\ Free(n)
             /\ req' = [req EXCEPT ![h].todo = @ \ {n},
                                   ![h].pc = IF i = Len(req[h].nodes) THEN "nodes" ELSE @]
          \/ ~Free(n) /\ Return(h)
  /\ UNCHANGED <<nodeVars, poolVars, minted, workerVars, missing, disturbed>>

AddNodes(h) ==
  /\ At(h, "add", "nodes")
  /\ poolName' = [n \in Nodes |->
                   IF n \in registered /\ n \in Listed(req[h].nodes)
                     THEN req[h].name ELSE poolName[n]]
  /\ Goto(h, "pool")
  /\ UNCHANGED <<registered, seenLoaded, poolVars, minted, workerVars, missing, disturbed>>

\* Mutant: the membership changes but the pool stays initialized.
SetMembersOnly(d, ms) ==
  /\ members' = IF Exists(d) THEN [members EXCEPT ![d] = ms] ELSE members
  /\ UNCHANGED <<initialized, assigned>>

\* The update of a pool document's membership, which takes back /initialize.
SetMembers(d, ms) ==
  IF Exists(d)
    THEN /\ members' = [members EXCEPT ![d] = ms]
         /\ initialized' = initialized \ {d}
         /\ assigned' = [assigned EXCEPT ![d] = None]
    ELSE UNCHANGED <<members, initialized, assigned>>

AddPool(h) ==
  /\ At(h, "add", "pool")
  /\ SetMembers(req[h].doc, req[h].snap \o req[h].nodes)
  /\ Return(h)
  /\ UNCHANGED <<nodeVars, name, loaded, token, minted, workerVars, missing, disturbed>>

AskRemove(h, d, n) ==
  /\ Exists(d)
  /\ n \in Present(d)
  /\ Ask(h, [OnPool("remove", IF d \in loaded THEN "gather" ELSE "pool", d)
               EXCEPT !.nodes = <<n>>])
  /\ UNCHANGED <<nodeVars, poolVars, minted, workerVars, missing>>

SetLoaded(d, value) ==
  loaded' = IF value /\ Exists(d) THEN loaded \cup {d}
            ELSE IF value THEN loaded ELSE loaded \ {d}

\* The pool counts as unloaded whatever the workers have answered.
RemoveUnloaded(h) ==
  /\ Answered(h, "remove")
  /\ SetLoaded(req[h].doc, FALSE)
  /\ IF req[h].failed THEN Return(h) ELSE Goto(h, "pool")
  /\ UNCHANGED <<nodeVars, name, members, initialized, assigned, token,
                 minted, workerVars, missing, disturbed>>

\* Of two members, one is left.
Others(s, n) == CHOOSE t \in MemberLists : Listed(t) = Listed(s) \ {n}

RemovePool(h) ==
  /\ At(h, "remove", "pool")
  /\ SetMembers(req[h].doc, Others(req[h].snap, req[h].nodes[1]))
  /\ Goto(h, "node")
  /\ UNCHANGED <<nodeVars, name, loaded, token, minted, workerVars, missing, disturbed>>

RemoveNode(h) ==
  /\ At(h, "remove", "node")
  /\ poolName' = [poolName EXCEPT ![req[h].nodes[1]] = None]
  /\ Return(h)
  /\ UNCHANGED <<registered, seenLoaded, poolVars, minted, workerVars, missing, disturbed>>

AskDelete(h, d) ==
  /\ Exists(d)
  /\ Ask(h, OnPool("delete", IF d \in loaded THEN "gather" ELSE "nodes", d))
  /\ UNCHANGED <<nodeVars, poolVars, minted, workerVars, missing>>

\* With an error from a worker the pool is kept, and stays marked as loaded.
DeleteUnloaded(h) ==
  /\ Answered(h, "delete")
  /\ IF req[h].failed
       THEN Return(h) /\ disturbed' = disturbed \cup {"halfDelete"}
       ELSE Goto(h, "nodes") /\ UNCHANGED disturbed
  /\ UNCHANGED <<nodeVars, poolVars, minted, workerVars, missing>>

DeleteNodes(h) ==
  /\ At(h, "delete", "nodes")
  /\ poolName' = [n \in Nodes |-> IF n \in Listed(req[h].snap) THEN None ELSE poolName[n]]
  /\ Goto(h, "pool")
  /\ UNCHANGED <<registered, seenLoaded, poolVars, minted, workerVars, missing, disturbed>>

DeletePool(h) ==
  /\ At(h, "delete", "pool")
  /\ LET d == req[h].doc IN
       /\ name' = [name EXCEPT ![d] = None]
       /\ members' = [members EXCEPT ![d] = <<>>]
       /\ initialized' = initialized \ {d}
       /\ loaded' = loaded \ {d}
       /\ assigned' = [assigned EXCEPT ![d] = None]
       /\ token' = token \ {d}
       /\ missing' = missing \ {d}
  /\ Return(h)
  /\ UNCHANGED <<nodeVars, minted, workerVars, disturbed>>

-----------------------------------------------------------------------------
(* /initialize, /load and /unload.                                         *)

AskInitialize(h, d, m) ==
  /\ Exists(d)
  /\ d \notin loaded
  /\ Len(members[d]) = 2
  /\ Ask(h, [OnPool("initialize", "gather", d) EXCEPT !.model = m])
  /\ UNCHANGED <<nodeVars, poolVars, minted, workerVars, missing>>

AskLoad(h, d) ==
  /\ Exists(d)
  /\ d \in initialized
  /\ Ask(h, OnPool("load", "gather", d))
  /\ UNCHANGED <<nodeVars, poolVars, minted, workerVars, missing>>

AskUnload(h, d) ==
  /\ Exists(d)
  /\ Ask(h, OnPool("unload", "gather", d))
  /\ UNCHANGED <<nodeVars, poolVars, minted, workerVars, missing>>

\* The rows of the members are read; /initialize needs both, and both workers
\* to answer /info, where the others call the workers they find.
Gather(h) ==
  /\ req[h].pc = "gather"
  /\ LET found == Listed(req[h].snap) \cap registered IN
       \/ /\ req[h].op = "initialize" => Cardinality(found) = 2
          /\ req' = [req EXCEPT ![h].pc = "post", ![h].todo = found]
       \/ /\ req[h].op = "initialize"
          /\ Cardinality(found) # 2 \/ "http" \in Faults
          /\ Return(h)
  /\ UNCHANGED <<nodeVars, poolVars, minted, workerVars, missing, disturbed>>

Planned(h) == [model |-> req[h].model, nodes |-> req[h].snap]

\* worker/app.py: what a call does, and whether it is answered with an error.
Configure(n, payload) ==
  /\ config' = IF n \in up THEN config ELSE [config EXCEPT ![n] = payload]
  /\ UNCHANGED <<running, late>>
Load(n)   == /\ running' = IF n \in up THEN running ELSE [running EXCEPT ![n] = config[n]]
             /\ UNCHANGED <<config, late>>
Unload(n) == running' = [running EXCEPT ![n] = None] /\ UNCHANGED <<config, late>>

Effect(h, n) ==
  CASE req[h].op = "initialize" -> Configure(n, Payload(Planned(h), n))
    [] req[h].op = "load" -> Load(n)
    [] OTHER -> Unload(n)

Refuses(h, n) ==
  \/ req[h].op = "initialize" /\ n \in up
  \/ req[h].op = "load" /\ config[n] = None

Hear(h, n, error) ==
  req' = [req EXCEPT ![h].todo = @ \ {n}, ![h].failed = @ \/ error]

\* asyncio.gather of _post_one: the workers answer in any order.
Post(h) ==
  /\ req[h].pc = "post"
  /\ \E n \in req[h].todo :
       \/ Effect(h, n) /\ Hear(h, n, Refuses(h, n))
       \/ /\ "http" \in Faults
          /\ Effect(h, n) \/ UNCHANGED workerVars
          /\ Hear(h, n, TRUE)
  /\ UNCHANGED <<nodeVars, poolVars, minted, missing, disturbed>>

Call(h, n) ==
  [ node |-> n,
    call |-> CASE req[h].op = "initialize" -> "configure" [] req[h].op = "load" -> "load" [] OTHER -> "unload",
    payload |-> IF req[h].op = "initialize" THEN Payload(Planned(h), n) ELSE None ]

\* httpx raises its timeout, which is an error of that worker to the handler;
\* the worker knows nothing of it and goes on.
GiveUp(h) ==
  /\ "late" \in Faults
  /\ req[h].pc = "post"
  /\ \E n \in req[h].todo :
       /\ late' = late \cup {Call(h, n)}
       /\ Hear(h, n, TRUE)
  /\ UNCHANGED <<nodeVars, poolVars, minted, config, running, missing, disturbed>>

Done(c) ==
  /\ late' = late \ {c}
  /\ disturbed' = disturbed \cup {"late"}
  /\ UNCHANGED <<nodeVars, poolVars, minted, req, missing>>

\* A call that would be refused may as well wait, or never be served.
LateConfigure(c) ==
  /\ c.call = "configure" /\ c.node \notin up
  /\ config' = [config EXCEPT ![c.node] = c.payload]
  /\ UNCHANGED running
  /\ Done(c)

\* /load builds its model from the configuration it finds, in a thread,
LateLoadBegins(c) ==
  /\ c.call = "load" /\ c.node \notin up /\ config[c.node] # None
  /\ late' = (late \ {c}) \cup
       {[node |-> c.node, call |-> "loading", payload |-> config[c.node]]}
  /\ UNCHANGED <<nodeVars, poolVars, minted, config, running, req, missing, disturbed>>

\* and puts it in place of whatever is there by then.
LateLoadEnds(c) ==
  /\ c.call = "loading"
  /\ running' = [running EXCEPT ![c.node] = c.payload]
  /\ UNCHANGED config
  /\ Done(c)

LateUnload(c) ==
  /\ c.call = "unload" /\ c.node \in up
  /\ running' = [running EXCEPT ![c.node] = None]
  /\ UNCHANGED config
  /\ Done(c)

LateCall(c) == LateConfigure(c) \/ LateLoadBegins(c) \/ LateLoadEnds(c) \/ LateUnload(c)

InitializeAnswered(h) ==
  /\ Answered(h, "initialize")
  /\ IF req[h].failed
       THEN Return(h) /\ disturbed' = disturbed \cup {"halfInit"}
       ELSE Goto(h, "pool") /\ UNCHANGED disturbed
  /\ UNCHANGED <<nodeVars, poolVars, minted, workerVars, missing>>

InitializePool(h) ==
  /\ At(h, "initialize", "pool")
  /\ IF Exists(req[h].doc)
       THEN /\ initialized' = initialized \cup {req[h].doc}
            /\ assigned' = [assigned EXCEPT ![req[h].doc] = Planned(h)]
       ELSE UNCHANGED <<initialized, assigned>>
  /\ Return(h)
  /\ UNCHANGED <<nodeVars, name, members, loaded, token, minted, workerVars, missing, disturbed>>

\* Mutant: errors of the workers are not looked at.
LoadFlagAlways(h) ==
  /\ Answered(h, "load")
  /\ SetLoaded(req[h].doc, TRUE) /\ Goto(h, "remint")
  /\ UNCHANGED <<nodeVars, name, members, initialized, assigned, token,
                 minted, workerVars, missing, disturbed>>

LoadFlag(h) ==
  /\ Answered(h, "load")
  /\ IF req[h].failed
       THEN Return(h) /\ UNCHANGED loaded
       ELSE SetLoaded(req[h].doc, TRUE) /\ Goto(h, "remint")
  /\ UNCHANGED <<nodeVars, name, members, initialized, assigned, token,
                 minted, workerVars, missing, disturbed>>

\* Mutant: the pool is not read again before the mint.
LoadReadAlways(h) ==
  /\ At(h, "load", "remint")
  /\ Goto(h, "mint") \/ Return(h)
  /\ UNCHANGED <<nodeVars, poolVars, minted, workerVars, missing, disturbed>>

\* The pool is read again; it is minted if it has no token and its owner has
\* a wallet.
LoadRead(h) ==
  /\ At(h, "load", "remint")
  /\ \/ Exists(req[h].doc) /\ req[h].doc \notin token /\ Goto(h, "mint")
     \/ Return(h)
  /\ UNCHANGED <<nodeVars, poolVars, minted, workerVars, missing, disturbed>>

Mint(h) ==
  /\ At(h, "load", "mint")
  /\ minted[req[h].doc] < MaxMints
  /\ minted' = [minted EXCEPT ![req[h].doc] = @ + 1]
  /\ \/ Goto(h, "token") /\ UNCHANGED disturbed
     \/ /\ "mint" \in Faults
        /\ Return(h)
        /\ disturbed' = disturbed \cup {"mint"}
  /\ UNCHANGED <<nodeVars, poolVars, workerVars, missing>>

\* Upload or transaction fails before anything is minted: it is only logged.
MintFails(h) ==
  /\ At(h, "load", "mint")
  /\ "mint" \in Faults \/ minted[req[h].doc] = MaxMints
  /\ Return(h)
  /\ UNCHANGED <<nodeVars, poolVars, minted, workerVars, missing, disturbed>>

SaveToken(h) ==
  /\ At(h, "load", "token")
  /\ token' = IF Exists(req[h].doc) THEN token \cup {req[h].doc} ELSE token
  /\ Return(h)
  /\ UNCHANGED <<nodeVars, name, members, initialized, loaded, assigned,
                 minted, workerVars, missing, disturbed>>

\* The pool counts as unloaded even if a worker did not answer.
UnloadFlag(h) ==
  /\ Answered(h, "unload")
  /\ SetLoaded(req[h].doc, FALSE)
  /\ Return(h)
  /\ UNCHANGED <<nodeVars, name, members, initialized, assigned, token,
                 minted, workerVars, missing, disturbed>>

-----------------------------------------------------------------------------
(* healthcheck_loop.                                                       *)

\* The answer may be old when it is written; so is every status, which is
\* whatever the worker answered at some time before.
Poll(n) ==
  /\ n \in registered
  /\ seenLoaded' = IF n \in up THEN seenLoaded \cup {n} ELSE seenLoaded \ {n}
  /\ UNCHANGED <<registered, poolName, poolVars, minted, workerVars, req, missing, disturbed>>

\* The third failure in a row makes the node unhealthy.
PollFails(n) ==
  /\ "http" \in Faults
  /\ n \in seenLoaded
  /\ seenLoaded' = seenLoaded \ {n}
  /\ UNCHANGED <<registered, poolName, poolVars, minted, workerVars, req, missing, disturbed>>

Incomplete(d) == members[d] # <<>> /\ ~(Present(d) \subseteq registered)

ReconcileRead(d) ==
  /\ d \in loaded
  /\ Incomplete(d)
  /\ d \notin missing
  /\ missing' = missing \cup {d}
  /\ UNCHANGED <<nodeVars, poolVars, minted, workerVars, req, disturbed>>

ReconcileWrite(d) ==
  /\ d \in missing
  /\ SetLoaded(d, FALSE)
  /\ missing' = missing \ {d}
  /\ UNCHANGED <<nodeVars, name, members, initialized, assigned, token, minted,
                 workerVars, req, disturbed>>

-----------------------------------------------------------------------------
\* Nobody waits for the answers any more, but what was sent is served.
SentCalls == UNION {{Call(h, n) : n \in req[h].todo} : h \in {g \in Handlers : req[g].pc = "post"}}

Crash ==
  /\ "crash" \in Faults
  /\ ~IdleNow
  /\ disturbed' = disturbed \cup {"crash"}
                     \cup (IF \E h \in Handlers : HalfInit(h) THEN {"halfInit"} ELSE {})
  /\ req' = [h \in Handlers |-> Idle]
  /\ missing' = {}
  /\ late' = IF "late" \in Faults THEN late \cup SentCalls ELSE late
  /\ UNCHANGED <<nodeVars, poolVars, minted, config, running>>

WorkerRestarts(n) ==
  /\ "restart" \in Faults
  /\ config[n] # None
  /\ config' = [config EXCEPT ![n] = None]
  /\ running' = [running EXCEPT ![n] = None]
  /\ late' = {c \in late : c.node # n}
  /\ disturbed' = disturbed \cup {"restart"}
  /\ UNCHANGED <<nodeVars, poolVars, minted, req, missing>>

Handle(h) ==
  \/ NodeDeleted(h)
  \/ AddCheck(h) \/ AddNodes(h) \/ AddPool(h)
  \/ RemoveUnloaded(h) \/ RemovePool(h) \/ RemoveNode(h)
  \/ DeleteUnloaded(h) \/ DeleteNodes(h) \/ DeletePool(h)
  \/ Gather(h) \/ Post(h) \/ GiveUp(h)
  \/ InitializeAnswered(h) \/ InitializePool(h)
  \/ LoadFlag(h) \/ LoadRead(h) \/ Mint(h) \/ MintFails(h) \/ SaveToken(h)
  \/ UnloadFlag(h)

Request(h) ==
  \/ \E n \in Nodes : AskDeleteNode(h, n)
  \/ \E d \in Docs :
       \/ \E ns \in MemberLists : AskAdd(h, d, ns)
       \/ \E n \in Nodes : AskRemove(h, d, n)
       \/ \E m \in Models : AskInitialize(h, d, m)
       \/ AskDelete(h, d)
       \/ AskLoad(h, d)
       \/ AskUnload(h, d)

Health ==
  \/ \E n \in Nodes : Poll(n) \/ PollFails(n)
  \/ \E d \in Docs : ReconcileRead(d) \/ ReconcileWrite(d)

Next ==
  \/ \E n \in Nodes : RegisterNode(n) \/ WorkerRestarts(n)
  \/ \E d \in Docs, nm \in Names : CreatePool(d, nm)
  \/ \E h \in Handlers : Request(h) \/ Handle(h)
  \/ \E c \in late : LateCall(c)
  \/ Health
  \/ Crash

Spec == Init /\ [][Next]_vars

-----------------------------------------------------------------------------
(* What must hold.                                                         *)

Without(kinds) == disturbed \cap kinds = {}

\* Nodes and pools agree on the membership whenever no request is in
\* progress, however the calls to the workers have failed and whatever was
\* initialized, loaded and unloaded meanwhile: a node row names a pool if and
\* only if that pool lists the node.  Only two membership requests at once, or
\* a crash between the two updates of one, break it.
MembershipAgrees ==
  Without({"members", "crash"}) /\ IdleNow =>
    /\ \A d \in Docs : Exists(d) =>
         \A n \in Nodes : n \in Present(d) <=> n \in registered /\ poolName[n] = name[d]
    /\ \A n \in registered : poolName[n] # None => \E d \in Docs : name[d] = poolName[n]

\* A pool is initialized for the members it has, in their order: whatever
\* changes the membership takes the assignments back.  A crash, a failing
\* worker or any overlap but one with /initialize does not break it.
AssignedAreMembers ==
  Without({"plan"}) =>
    \A d \in initialized : assigned[d].nodes = members[d]

\* "loaded" means that both workers run the part the pool assigns to them, as
\* long as a call to a worker takes effect before its answer or its failure, or
\* never.  With calls that are given up on and take effect afterwards it is not
\* true: an /unload takes away the model of a pool loaded again meanwhile; a /load
\* still at its model when the pool is unloaded and initialized for another one
\* puts the old one in place, and the next /load says already_loaded.
LoadedAsAssigned ==
  Without(OverlapKinds \cup {"crash", "restart", "late", "halfInit", "halfDelete"}) /\ IdleNow =>
    \A d \in loaded :
      /\ d \in initialized
      /\ \A n \in Present(d) : running[n] = Payload(assigned[d], n)

\* sponsors/0g/README.md: every pool has exactly one PoolINFT.  It never has
\* two, unless two loads overlap or a mint is cut off before its token is saved.
MintedOnce ==
  Without({"loads", "crash", "mint"}) =>
    \A d \in Docs : minted[d] <= 1 /\ (d \in token => minted[d] = 1)

=============================================================================
