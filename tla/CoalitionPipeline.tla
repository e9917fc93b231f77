------------------------- MODULE CoalitionPipeline -------------------------
(***************************************************************************)
(* How a pool gets its payment pool: the chain of handlers in              *)
(* orchestrator/economics.py from on_pool_initialize to                    *)
(* on_member_units_set, each started by the one before with create_task    *)
(* or by a webhook of KeeperHub; the transactions of OnchainSubmitter; and *)
(* worker/coalition_sign.py, which signs and connects for each operator.   *)
(*                                                                         *)
(* All sessions belong to one pool document, which has two operators, and  *)
(* so write the same payment_pools row.  A handler is cut at its awaits.   *)
(* A transaction is two steps, the read of the nonce and the send; a send  *)
(* fails if another transaction of the account was mined in between.       *)
(***************************************************************************)
EXTENDS Integers, FiniteSets

CONSTANTS
  Sessions,   \* coalition ids: one for each /initialize of the pool
  OpA, OpB,   \* participants[0] and participants[1]
  Settings,   \* the values of settings.coalition_enabled to check
  Stake,      \* stake_amount_wei
  Faults,     \* what may go wrong in this instance, a subset of FaultKinds
  None

FaultKinds ==
  { "revert",   \* a transaction of the orchestrator fails
    "worker",   \* a call to a worker, or a transaction of it, fails
    "timeout",  \* the orchestrator gives up on a call that goes on
    "webhook",  \* KeeperHub delivers an event of its own or a repeated one
    "crash" }   \* the orchestrator stops and starts again

ASSUME CoalitionAssumption ==
  /\ OpA # OpB
  /\ Settings \subseteq BOOLEAN
  /\ Stake \in Nat
  /\ Faults \subseteq FaultKinds
  /\ None \notin [pool : Nat, ready : BOOLEAN, count : Nat]

Participants == {OpA, OpB}

VARIABLES
  enabled,    \* settings.coalition_enabled, read when the process starts
  row,        \* the state of each coalition document, "none" before it exists
  signTxs,    \* whose hashes its sign_txs holds
  payPool,    \* the row of db.payment_pools, None before the first upsert
  jobs,       \* the handlers in progress
  calls,      \* the worker requests in progress
  delivered,  \* the webhook events delivered so far
  proposed,   \* on chain: the coalitions proposed,
  signers,    \*   who has signed each,
  activated,  \*   the coalitions activated,
  units,      \*   the members with a unit of each GDA pool, in order of creation,
  connected,  \*   and the members that are connected to it
  allowance,  \*   what each operator has approved for the Coalition contract
  fanned,     \* history: the pools the operators were asked to connect to
  disturbed   \* history: what has disturbed the pipeline so far

docVars   == <<enabled, row, signTxs, payPool>>
chainVars == <<proposed, signers, activated, units, connected, allowance>>
vars == <<docVars, jobs, calls, delivered, chainVars, fanned, disturbed>>

\* The four events webhooks.py passes to the pipeline's handlers.
Events == {"coalition_proposed", "coalition_activated", "payment_pool_ready", "member_units_set"}

Pools     == 1 .. 2 * Cardinality(Sessions)
TxSteps   == {"propose", "activate", "create", "unitsA", "unitsB"}
Steps     == TxSteps \cup
             {"insert", "record", "gather", "upsert", "spawn", "read", "inc", "reread", "ready", "fanout"}
Nonces    == {"none", "fresh", "stale"}
\* A handler: its session, what started its chain, the await it is at, its
\* nonce, the pool and the member it handles and the answers it waits for.
Jobs ==
  [ s : Sessions, via : Events \cup {"direct"}, pc : Steps, nonce : Nonces,
    pool : Pools \cup {None}, member : Participants \cup {None},
    ans : [Participants -> {"wait", "ok", "bad"}] ]
Calls ==
  [ s : Sessions, via : Events \cup {"direct"}, w : Participants,
    pc : {"check", "approve", "sign", "connect"}, nonce : Nonces, pool : Pools \cup {None},
    by : Participants \cup {None} ]

TypeOK ==
  /\ enabled \in Settings
  /\ row \in [Sessions -> {"none", "proposed", "active"}]
  /\ signTxs \in [Sessions -> SUBSET Participants]
  /\ payPool \in {None} \cup [pool : Pools, ready : BOOLEAN, count : Nat]
  /\ jobs \subseteq Jobs
  /\ calls \subseteq Calls
  /\ delivered \subseteq Events \X Sessions
  /\ proposed \subseteq Sessions
  /\ signers \in [Sessions -> SUBSET Participants]
  /\ activated \subseteq Sessions
  /\ DOMAIN units \subseteq Pools
  /\ \A p \in DOMAIN units : units[p] \subseteq Participants
  /\ connected \in [Pools -> SUBSET Participants]
  /\ allowance \in [Participants -> {0, Stake}]
  /\ fanned \subseteq Pools
  /\ disturbed \subseteq FaultKinds \cup {"overlap"}

Init ==
  /\ enabled \in Settings
  /\ row = [s \in Sessions |-> "none"]
  /\ signTxs = [s \in Sessions |-> {}]
  /\ payPool = None
  /\ jobs = {}
  /\ calls = {}
  /\ delivered = {}
  /\ proposed = {}
  /\ signers = [s \in Sessions |-> {}]
  /\ activated = {}
  /\ units = <<>>
  /\ connected = [p \in Pools |-> {}]
  /\ allowance = [w \in Participants |-> 0]
  /\ fanned = {}
  /\ disturbed = {}

Quiet == jobs = {} /\ calls = {}

-----------------------------------------------------------------------------
(* Steps of a handler j.                                                   *)

Waiting == [w \in Participants |-> "wait"]

NewJob(s, via, pc, pool, member) ==
  [s |-> s, via |-> via, pc |-> pc, nonce |-> "none", pool |-> pool,
   member |-> member, ans |-> Waiting]

At(j, pc) == j \in jobs /\ j.pc = pc
Become(j, next) == jobs' = (jobs \ {j}) \cup next
Goto(j, pc) == Become(j, {[j EXCEPT !.pc = pc, !.nonce = "none"]})
Return(j) == Become(j, {})

\* on_pool_initialize, up to the insert: called by pools_initialize.
Initialize(s) ==
  /\ row[s] = "none"
  /\ row' = [row EXCEPT ![s] = "proposed"]
  /\ jobs' = jobs \cup {NewJob(s, "direct", IF enabled THEN "propose" ELSE "insert", None, None)}
  /\ disturbed' = disturbed \cup (IF Quiet THEN {} ELSE {"overlap"})
  /\ UNCHANGED <<enabled, signTxs, payPool, calls, delivered, chainVars, fanned>>

\* Without coalitions the row is made active and on_payment_pool_ready is
\* started without a pool.
SkipCoalition(j) ==
  /\ At(j, "insert")
  /\ row' = [row EXCEPT ![j.s] = "active"]
  /\ Goto(j, "upsert")
  /\ UNCHANGED <<enabled, signTxs, payPool, calls, delivered, chainVars, fanned, disturbed>>

\* OnchainSubmitter._send.
ReadNonce(j) ==
  /\ j \in jobs /\ j.pc \in TxSteps /\ j.nonce = "none"
  /\ Become(j, {[j EXCEPT !.nonce = "fresh"]})
  /\ UNCHANGED <<docVars, calls, delivered, chainVars, fanned, disturbed>>

Stale(S) == {[x EXCEPT !.nonce = IF @ = "fresh" THEN "stale" ELSE @] : x \in S}

\* The transaction is mined: nonces read before are used up.
Mined(j, pc, pool) ==
  jobs' = Stale(jobs \ {j}) \cup {[j EXCEPT !.pc = pc, !.nonce = "none", !.pool = pool]}

\* The contracts: Coalition activates what all have signed.
Propose(j) ==
  /\ proposed' = proposed \cup {j.s}
  /\ Mined(j, "record", None)
  /\ UNCHANGED <<activated, units>>

Activate(j) ==
  /\ signers[j.s] = Participants
  /\ activated' = activated \cup {j.s}
  /\ Mined(j, "create", None)
  /\ UNCHANGED <<proposed, units>>

CreatePool(j) ==
  /\ units' = [p \in DOMAIN units \cup {Cardinality(DOMAIN units) + 1} |->
                IF p \in DOMAIN units THEN units[p] ELSE {}]
  /\ Mined(j, IF enabled THEN "unitsA" ELSE "upsert", Cardinality(DOMAIN units) + 1)
  /\ UNCHANGED <<proposed, activated>>

UpdateMemberUnits(j, member, next) ==
  /\ units' = [units EXCEPT ![j.pool] = @ \cup {member}]
  /\ Mined(j, next, j.pool)
  /\ UNCHANGED <<proposed, activated>>

\* Mutant: the payment pool is announced when one member has its units.
SubmitAnnouncesEarly(j) ==
  /\ j \in jobs /\ j.nonce = "fresh"
  /\ \/ j.pc = "propose" /\ Propose(j)
     \/ j.pc = "activate" /\ Activate(j)
     \/ j.pc = "create" /\ CreatePool(j)
     \/ j.pc = "unitsA" /\ UpdateMemberUnits(j, OpA, "upsert")
     \/ j.pc = "unitsB" /\ UpdateMemberUnits(j, OpB, "upsert")
  /\ UNCHANGED <<docVars, calls, delivered, signers, connected, allowance, fanned, disturbed>>

Submit(j) ==
  /\ j \in jobs /\ j.nonce = "fresh"
  /\ \/ j.pc = "propose" /\ Propose(j)
     \/ j.pc = "activate" /\ Activate(j)
     \/ j.pc = "create" /\ CreatePool(j)
     \/ j.pc = "unitsA" /\ UpdateMemberUnits(j, OpA, "unitsB")
     \/ j.pc = "unitsB" /\ UpdateMemberUnits(j, OpB, "upsert")
  /\ UNCHANGED <<docVars, calls, delivered, signers, connected, allowance, fanned, disturbed>>

\* _send raises and with it the handler: the nonce is taken, the transaction
\* reverts or is lost.  Nobody starts the handler again.
SubmitFails(j) ==
  /\ j \in jobs /\ j.pc \in TxSteps
  /\ \/ j.nonce = "stale" /\ Return(j) /\ UNCHANGED disturbed
     \/ /\ "revert" \in Faults
        /\ j.nonce = "fresh"
        /\ jobs' = jobs \ {j} \/ jobs' = Stale(jobs \ {j})
        /\ disturbed' = disturbed \cup {"revert"}
  /\ UNCHANGED <<docVars, calls, delivered, chainVars, fanned>>

\* on_coalition_proposed: the row gets the on-chain id, which the Proposed
\* event tells, and both workers are asked to sign.
RecordProposed(j) ==
  /\ At(j, "record")
  /\ j.s \in proposed
  /\ Goto(j, "gather")
  /\ calls' = calls \cup
       {[s |-> j.s, via |-> j.via, w |-> w, pc |-> "check", nonce |-> "none",
         pool |-> None, by |-> None] : w \in Participants}
  /\ UNCHANGED <<docVars, delivered, chainVars, fanned, disturbed>>

\* Mutant: it goes on with whoever has signed.
SignaturesInAny(j) ==
  /\ At(j, "gather")
  /\ \A w \in Participants : j.ans[w] # "wait"
  /\ signTxs' = [signTxs EXCEPT ![j.s] = {w \in Participants : j.ans[w] = "ok"}]
  /\ Goto(j, IF enabled THEN "activate" ELSE "create")
  /\ UNCHANGED <<enabled, row, payPool, calls, delivered, chainVars, fanned, disturbed>>

\* The answers are written over what sign_txs held; it goes on if both signed.
SignaturesIn(j) ==
  /\ At(j, "gather")
  /\ \A w \in Participants : j.ans[w] # "wait"
  /\ signTxs' = [signTxs EXCEPT ![j.s] = {w \in Participants : j.ans[w] = "ok"}]
  /\ IF \A w \in Participants : j.ans[w] = "ok"
       THEN Goto(j, IF enabled THEN "activate" ELSE "create")
       ELSE Return(j)
  /\ UNCHANGED <<enabled, row, payPool, calls, delivered, chainVars, fanned, disturbed>>

\* on_payment_pool_ready: without an address it only logs an error.
UpsertPaymentPool(j) ==
  /\ At(j, "upsert")
  /\ payPool' = IF j.pool = None THEN payPool
                ELSE [pool |-> j.pool, ready |-> FALSE, count |-> 0]
  /\ IF j.pool = None THEN Return(j) ELSE Goto(j, "spawn")
  /\ UNCHANGED <<enabled, row, signTxs, calls, delivered, chainVars, fanned, disturbed>>

SpawnUnitsSet(j) ==
  /\ At(j, "spawn")
  /\ Become(j, {NewJob(j.s, j.via, "read", None, w) : w \in Participants})
  /\ UNCHANGED <<docVars, calls, delivered, chainVars, fanned, disturbed>>

\* on_member_units_set: the row is read, its count incremented and read again.
UnitsRead(j) ==
  /\ At(j, "read")
  /\ Become(j, IF payPool = None THEN {}
               ELSE {[j EXCEPT !.pc = "inc", !.pool = payPool.pool]})
  /\ UNCHANGED <<docVars, calls, delivered, chainVars, fanned, disturbed>>

UnitsIncrement(j) ==
  /\ At(j, "inc")
  /\ payPool' = [payPool EXCEPT !.count = @ + 1]
  /\ Goto(j, "reread")
  /\ UNCHANGED <<enabled, row, signTxs, calls, delivered, chainVars, fanned, disturbed>>

\* Mutant: only who finds exactly the target goes on.
UnitsRereadExact(j) ==
  /\ At(j, "reread")
  /\ IF payPool.count # Cardinality(Participants) THEN Return(j) ELSE Goto(j, "ready")
  /\ UNCHANGED <<docVars, calls, delivered, chainVars, fanned, disturbed>>

\* Every handler that finds the target reached goes on.
UnitsReread(j) ==
  /\ At(j, "reread")
  /\ IF payPool.count < Cardinality(Participants) THEN Return(j) ELSE Goto(j, "ready")
  /\ UNCHANGED <<docVars, calls, delivered, chainVars, fanned, disturbed>>

UnitsReady(j) ==
  /\ At(j, "ready")
  /\ payPool' = [payPool EXCEPT !.ready = TRUE]
  /\ Goto(j, "fanout")
  /\ UNCHANGED <<enabled, row, signTxs, calls, delivered, chainVars, fanned, disturbed>>

\* The operators are asked to connect to the pool the handler read first.
\* What they answer is only logged.
ConnectFanout(j) ==
  /\ At(j, "fanout")
  /\ Return(j)
  /\ fanned' = fanned \cup {j.pool}
  /\ calls' = calls \cup
       {[s |-> j.s, via |-> j.via, w |-> w, pc |-> "connect", nonce |-> "none",
         pool |-> j.pool, by |-> j.member] : w \in Participants}
  /\ UNCHANGED <<docVars, delivered, chainVars, disturbed>>

-----------------------------------------------------------------------------
(* worker/coalition_sign.py: a request c to the worker c.w.                *)

StaleOf(w, S) == {x \in S : x.w # w} \cup Stale({x \in S : x.w = w})
Instead(c, next) == calls' = (calls \ {c}) \cup next

\* The answer reaches the handler that waits for it, if it still does.
Answer(c, a) ==
  jobs' = {IF j.pc = "gather" /\ j.s = c.s /\ j.via = c.via /\ j.ans[c.w] = "wait"
             THEN [j EXCEPT !.ans[c.w] = a] ELSE j : j \in jobs}

\* Mutant: the worker never approves.
CheckAllowanceNot(c) ==
  /\ c \in calls /\ c.pc = "check"
  /\ Instead(c, {[c EXCEPT !.pc = "sign"]})
  /\ UNCHANGED <<docVars, jobs, delivered, chainVars, fanned, disturbed>>

CheckAllowance(c) ==
  /\ c \in calls /\ c.pc = "check"
  /\ Instead(c, {[c EXCEPT !.pc = IF allowance[c.w] >= Stake THEN "sign" ELSE "approve"]})
  /\ UNCHANGED <<docVars, jobs, delivered, chainVars, fanned, disturbed>>

WorkerReadNonce(c) ==
  /\ c \in calls /\ c.pc # "check" /\ c.nonce = "none"
  /\ Instead(c, {[c EXCEPT !.nonce = "fresh"]})
  /\ UNCHANGED <<docVars, jobs, delivered, chainVars, fanned, disturbed>>

\* approve sets the allowance; sign takes the stake, once for each operator.
Approve(c) ==
  /\ c \in calls /\ c.pc = "approve" /\ c.nonce = "fresh"
  /\ allowance' = [allowance EXCEPT ![c.w] = Stake]
  /\ calls' = StaleOf(c.w, calls \ {c}) \cup {[c EXCEPT !.pc = "sign", !.nonce = "none"]}
  /\ UNCHANGED <<docVars, jobs, delivered, proposed, signers, activated, units,
                 connected, fanned, disturbed>>

Signable(c) == c.s \in proposed /\ c.w \notin signers[c.s] /\ allowance[c.w] >= Stake

Sign(c) ==
  /\ c \in calls /\ c.pc = "sign" /\ c.nonce = "fresh"
  /\ Signable(c)
  /\ allowance' = [allowance EXCEPT ![c.w] = @ - Stake]
  /\ signers' = [signers EXCEPT ![c.s] = @ \cup {c.w}]
  /\ calls' = StaleOf(c.w, calls \ {c})
  /\ Answer(c, "ok")
  /\ UNCHANGED <<docVars, delivered, proposed, activated, units, connected, fanned, disturbed>>

Connect(c) ==
  /\ c \in calls /\ c.pc = "connect" /\ c.nonce = "fresh"
  /\ connected' = [connected EXCEPT ![c.pool] = @ \cup {c.w}]
  /\ calls' = StaleOf(c.w, calls \ {c})
  /\ UNCHANGED <<docVars, jobs, delivered, proposed, signers, activated, units,
                 allowance, fanned, disturbed>>

\* A stale nonce, a transaction that reverts, or a fault.
CallFails(c) ==
  /\ c \in calls
  /\ \/ c.nonce = "stale" /\ Instead(c, {}) /\ UNCHANGED disturbed
     \/ /\ c.pc = "sign" /\ c.nonce = "fresh" /\ ~Signable(c)
        /\ calls' = StaleOf(c.w, calls \ {c})
        /\ UNCHANGED disturbed
     \/ /\ "worker" \in Faults
        /\ Instead(c, {})
        /\ disturbed' = disturbed \cup {"worker"}
  /\ Answer(c, "bad")
  /\ UNCHANGED <<docVars, delivered, chainVars, fanned>>

\* The 120 s of /coalition/sign-onchain are over; the worker goes on.
SignTimeout(c) ==
  /\ "timeout" \in Faults
  /\ \E j \in jobs : j.pc = "gather" /\ j.s = c.s /\ j.via = c.via /\ j.ans[c.w] = "wait"
  /\ Answer(c, "bad")
  /\ disturbed' = disturbed \cup {"timeout"}
  /\ UNCHANGED <<docVars, calls, delivered, chainVars, fanned>>

-----------------------------------------------------------------------------
(* webhooks.py: an authentic event is passed to its handler.               *)

\* Bound: each event once for a session, in addition to the pipeline's own.
Deliver(e, s) ==
  /\ "webhook" \in Faults
  /\ row[s] # "none"
  /\ <<e, s>> \notin delivered
  /\ delivered' = delivered \cup {<<e, s>>}
  /\ disturbed' = disturbed \cup {"webhook"}

WebhookProposed(s) ==
  /\ Deliver("coalition_proposed", s)
  /\ s \in proposed
  /\ jobs' = jobs \cup {NewJob(s, "coalition_proposed", "record", None, None)}
  /\ UNCHANGED <<docVars, calls, chainVars, fanned>>

WebhookActivated(s) ==
  /\ Deliver("coalition_activated", s)
  /\ row' = [row EXCEPT ![s] = "active"]
  /\ UNCHANGED <<enabled, signTxs, payPool, jobs, calls, chainVars, fanned>>

\* The address is resolved from a transaction that created a pool.
WebhookPoolReady(s, p) ==
  /\ Deliver("payment_pool_ready", s)
  /\ jobs' = jobs \cup {NewJob(s, "payment_pool_ready", "upsert", p, None)}
  /\ UNCHANGED <<docVars, calls, chainVars, fanned>>

WebhookUnitsSet(s, w) ==
  /\ Deliver("member_units_set", s)
  /\ jobs' = jobs \cup {NewJob(s, "member_units_set", "read", None, w)}
  /\ UNCHANGED <<docVars, calls, chainVars, fanned>>

\* The handlers are tasks of the process: none is started again.
Crash ==
  /\ "crash" \in Faults
  /\ jobs # {}
  /\ jobs' = {}
  /\ disturbed' = disturbed \cup {"crash"}
  /\ UNCHANGED <<docVars, calls, delivered, chainVars, fanned>>

HandlerStep(j) ==
  \/ SkipCoalition(j)
  \/ ReadNonce(j) \/ Submit(j) \/ SubmitFails(j)
  \/ RecordProposed(j) \/ SignaturesIn(j)
  \/ UpsertPaymentPool(j) \/ SpawnUnitsSet(j)
  \/ UnitsRead(j) \/ UnitsIncrement(j) \/ UnitsReread(j) \/ UnitsReady(j) \/ ConnectFanout(j)

CallStep(c) ==
  \/ CheckAllowance(c) \/ WorkerReadNonce(c) \/ Approve(c) \/ Sign(c) \/ Connect(c)
  \/ CallFails(c)

Work == (\E j \in jobs : HandlerStep(j)) \/ (\E c \in calls : CallStep(c))

Webhook(s) ==
  \/ WebhookProposed(s) \/ WebhookActivated(s)
  \/ \E p \in DOMAIN units \cup {None} : WebhookPoolReady(s, p)
  \/ \E w \in Participants : WebhookUnitsSet(s, w)

Next ==
  \/ \E s \in Sessions : Initialize(s) \/ Webhook(s)
  \/ Work
  \/ \E c \in calls : SignTimeout(c)
  \/ Crash

Spec == Init /\ [][Next]_vars

\* The event loop and the chain get to every step; no one has to initialize,
\* to deliver or to fail.
FairSpec == Spec /\ WF_vars(Work)

-----------------------------------------------------------------------------
(* What must hold.                                                         *)

Without(kinds) == disturbed \cap kinds = {}

\* "All worker sign txs have landed": activation is only tried, and a
\* signature only recorded, when it is on chain, whatever has timed out, was
\* signed twice or ran at the same time.
SignaturesLanded ==
  /\ \A s \in Sessions : signTxs[s] \subseteq signers[s]
  /\ \A j \in jobs : j.pc = "activate" => signers[j.s] = Participants

\* A payment pool that requests are billed to has units for both operators:
\* otherwise the stream would pay one of them everything.  Only a webhook that
\* announces a pool too early breaks it.
RecordedPoolHasUnits ==
  Without({"webhook"}) /\ payPool # None => units[payPool.pool] = Participants

\* on_member_units_set increments, reads again and compares: two handlers may
\* both find the target reached, or a second initialization may set the count
\* back under them.  Whatever the order, when all is quiet the row is ready and
\* the operators were asked to connect to the pool it names.
LastPoolFannedOut ==
  Without({"crash"}) /\ Quiet /\ payPool # None =>
    payPool.ready /\ payPool.pool \in fanned

\* With coalitions, if nothing goes wrong and one initialization is not started
\* during another, both operators are connected to the pool in the end, although
\* each is asked twice at a time and one of its transactions may be refused.
CalmCoalitionsConnect ==
  \A s \in Sessions :
    enabled /\ row[s] # "none" ~>
      \/ disturbed # {}
      \/ payPool # None /\ payPool.ready /\ connected[payPool.pool] = Participants

=============================================================================
