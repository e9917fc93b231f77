---------------------------- MODULE InferPayment ----------------------------
(***************************************************************************)
(* A paid inference: /pools/{name}/infer and /infer/stream (api/infer.py)  *)
(* with the payment and stream handlers of economics.py, the transactions  *)
(* of onchain.py, the facilitator's /verify and /settle, and the USDC      *)
(* contract's rule that an authorization is used once.                     *)
(*                                                                         *)
(* All requests are for one pool of one owner.  Each is a handler of the   *)
(* orchestrator's event loop; between two of its awaits other handlers and *)
(* the tasks it has created run.  The pool's Superfluid flow is one rate   *)
(* per payment pool contract: it is named by the request that set it.      *)
(***************************************************************************)
EXTENDS Integers

CONSTANTS
  Requests,   \* calls of the two routes
  Vouchers,   \* signed EIP-3009 authorizations clients send as X-PAYMENT
  Kinds,      \* which routes are used, a subset of {"plain", "stream"}
  MaxPools,   \* bound: payment pool contracts ever made for this pool
  Faults,     \* what may go wrong, a subset of FaultKinds
  None

FaultKinds ==
  { "tx",           \* a transaction of the orchestrator fails
    "limbo",        \* its receipt does not come within 120 s
    "worker",       \* the generation fails
    "refused",      \* /settle answers success = false and nothing was paid
    "unreachable",  \* the /settle call raises, whether or not USDC moved
    "disconnect",   \* the client of /infer/stream goes away
    "slowtask" }    \* a task's database update comes late

PaymentStates == {"verified", "streaming", "stopped", "settled", "orphaned"}

ASSUME PaymentAssumption ==
  /\ Kinds \subseteq {"plain", "stream"}
  /\ MaxPools \in Nat \ {0}
  /\ Faults \subseteq FaultKinds
  /\ None \notin Requests \cup Vouchers \cup {"plain", "stream"} \cup PaymentStates

VARIABLES
  pc,        \* where each handler is
  kind,      \* its route
  voucher,   \* the authorization it was sent
  outcome,   \* how its inference went, as the handler sees it
  at,        \* the payment pool contract it has read; 0: none
  payment,   \* the state field of its document in db.payments
  tasks,     \* database updates handed to asyncio.create_task
  pp,        \* the contract db.payment_pools points to; 0: no document
  flow,      \* the flow of each contract: whose rate it is, or None
  limbo,     \* transactions the orchestrator gave up waiting for
  busy,      \* the request the entry worker is generating for
  used,      \* authorizationState of the USDC contract
  paid       \* the requests whose settlement moved USDC

handlerVars == <<pc, kind, voucher, outcome, at>>
chainVars   == <<pp, flow, limbo>>
moneyVars   == <<used, paid>>
vars == <<handlerVars, payment, tasks, chainVars, busy, moneyVars>>

Pools     == 1 .. MaxPools
Steps     == { "verify", "record", "open", "infer", "generate", "close",
               "settle", "markSettled", "markOrphaned" }

TypeOK ==
  /\ pc \in [Requests -> {"idle", "ended"} \cup Steps]
  /\ kind \in [Requests -> Kinds \cup {None}]
  /\ voucher \in [Requests -> Vouchers \cup {None}]
  /\ outcome \in [Requests -> {"none", "done", "swallowed", "raised", "gone"}]
  /\ at \in [Requests -> 0 .. MaxPools]
  /\ payment \in [Requests -> PaymentStates \cup {None}]
  /\ tasks \subseteq [req : Requests, state : {"streaming", "stopped"}]
  /\ pp \in 0 .. MaxPools
  /\ flow \in [Pools -> Requests \cup {None}]
  /\ limbo \subseteq [pool : Pools, rate : Requests \cup {None}]
  /\ busy \in Requests \cup {None}
  /\ used \subseteq Vouchers
  /\ paid \subseteq Requests

Init ==
  /\ pc = [r \in Requests |-> "idle"]
  /\ kind = [r \in Requests |-> None]
  /\ voucher = [r \in Requests |-> None]
  /\ outcome = [r \in Requests |-> "none"]
  /\ at = [r \in Requests |-> 0]
  /\ payment = [r \in Requests |-> None]
  /\ tasks = {}
  /\ pp \in {0, 1}
  /\ flow = [p \in Pools |-> None]
  /\ limbo = {}
  /\ busy = None
  /\ used = {}
  /\ paid = {}

Goto(r, step) == pc' = [pc EXCEPT ![r] = step]

ReadPool(r) == at' = [at EXCEPT ![r] = pp]

-----------------------------------------------------------------------------
(* The prelude: the voucher is verified and the payment recorded.          *)

Ask(r) ==
  /\ pc[r] = "idle"
  /\ Goto(r, "verify")
  /\ \E k \in Kinds : kind' = [kind EXCEPT ![r] = k]
  /\ \E v \in Vouchers : voucher' = [voucher EXCEPT ![r] = v]
  /\ UNCHANGED <<outcome, at, payment, tasks, chainVars, busy, moneyVars>>

\* The facilitator sees that the nonce is unused; signature, window, amount
\* and balance may be wrong as well, and it may not answer.
Verify(r) ==
  /\ pc[r] = "verify"
  /\ \/ voucher[r] \notin used /\ Goto(r, "record")
     \/ Goto(r, "ended")
  /\ UNCHANGED <<kind, voucher, outcome, at, payment, tasks, chainVars, busy, moneyVars>>

\* on_payment_received: without a payment pool there is no stream.
Record(r) ==
  /\ pc[r] = "record"
  /\ payment' = [payment EXCEPT ![r] = "verified"]
  /\ ReadPool(r)
  /\ Goto(r, IF pp = 0 THEN "infer" ELSE "open")
  /\ UNCHANGED <<kind, voucher, outcome, tasks, chainVars, busy, moneyVars>>

-----------------------------------------------------------------------------
(* Transactions.  The nonce is the number of mined transactions, so of two *)
(* transactions under way at once, or of one in limbo and a later one, at  *)
(* most one is mined.                                                      *)

SetFlow(r, rate) ==
  /\ flow' = [flow EXCEPT ![at[r]] = rate]
  /\ limbo' = {}
  /\ UNCHANGED pp

NonceClash(r) ==
  \E s \in Requests \ {r} : pc[s] \in {"open", "close"} /\ at[s] # 0

\* _send raises: without effect, or with the transaction still in the pool.
SetFlowFails(r, rate) ==
  /\ \/ /\ "tx" \in Faults \/ NonceClash(r) \/ limbo # {}
        /\ UNCHANGED limbo
     \/ /\ "limbo" \in Faults
        /\ limbo' = limbo \cup {[pool |-> at[r], rate |-> rate]}
  /\ UNCHANGED <<pp, flow>>

LimboMined(t) ==
  /\ flow' = [flow EXCEPT ![t.pool] = t.rate]
  /\ limbo' = {}
  /\ UNCHANGED <<handlerVars, payment, tasks, pp, busy, moneyVars>>

LimboDropped(t) ==
  /\ limbo' = limbo \ {t}
  /\ UNCHANGED <<handlerVars, payment, tasks, pp, flow, busy, moneyVars>>

CreateTask(r, state) == tasks' = tasks \cup {[req |-> r, state |-> state]}

\* on_stream_started and on_stream_stopped: unconditional $set.
RunTask(t) ==
  /\ tasks' = tasks \ {t}
  /\ payment' = [payment EXCEPT ![t.req] = t.state]
  /\ UNCHANGED <<handlerVars, chainVars, busy, moneyVars>>

OpenFlow(r) ==
  /\ pc[r] = "open"
  /\ SetFlow(r, r)
  /\ CreateTask(r, "streaming")
  /\ Goto(r, "infer")
  /\ UNCHANGED <<kind, voucher, outcome, at, payment, busy, moneyVars>>

\* The exception leaves the handler: the try block is not entered yet.
OpenFlowFails(r) ==
  /\ pc[r] = "open"
  /\ SetFlowFails(r, r)
  /\ Goto(r, "ended")
  /\ UNCHANGED <<kind, voucher, outcome, at, payment, tasks, busy, moneyVars>>

\* on_payment_pool_ready of an initialization that ends in the background.
Provision ==
  /\ pp < MaxPools
  /\ pp' = pp + 1
  /\ UNCHANGED <<handlerVars, payment, tasks, flow, limbo, busy, moneyVars>>

-----------------------------------------------------------------------------
(* The inference, then the finally block.                                  *)

\* The finally block: on_inference_complete reads the payment pool again.
ToClose(r) == Goto(r, "close") /\ ReadPool(r)

\* The entry worker takes one generation at a time and refuses others.
Post(r) ==
  /\ pc[r] = "infer"
  /\ \/ /\ busy = None
        /\ busy' = r
        /\ Goto(r, "generate")
        /\ UNCHANGED <<outcome, at>>
     \/ /\ busy # None
        /\ outcome' = [outcome EXCEPT ![r] = "raised"]
        /\ ToClose(r)
        /\ UNCHANGED busy
  /\ UNCHANGED <<kind, voucher, payment, tasks, chainVars, moneyVars>>

Generated(r) ==
  /\ pc[r] = "generate"
  /\ outcome' = [outcome EXCEPT ![r] = "done"]
  /\ busy' = None
  /\ ToClose(r)
  /\ UNCHANGED <<kind, voucher, payment, tasks, chainVars, moneyVars>>

\* Mutant: on_inference_complete without the finally around it.
GenerationFailsOutright(r) ==
  /\ "worker" \in Faults
  /\ pc[r] \in {"infer", "generate"}
  /\ outcome' = [outcome EXCEPT ![r] = "raised"]
  /\ busy' = IF busy = r THEN None ELSE busy
  /\ Goto(r, "ended")
  /\ UNCHANGED <<kind, voucher, at, payment, tasks, chainVars, moneyVars>>

\* A failure raises in the handler; but the "error" event that ends a failed
\* stream is none of stream_pool_inference's cases, and its "done" follows.
GenerationFails(r) ==
  /\ "worker" \in Faults
  /\ pc[r] \in {"infer", "generate"}
  /\ \/ outcome' = [outcome EXCEPT ![r] = "raised"]
     \/ /\ kind[r] = "stream"
        /\ pc[r] = "generate"
        /\ outcome' = [outcome EXCEPT ![r] = "swallowed"]
  /\ busy' = IF busy = r THEN None ELSE busy
  /\ ToClose(r)
  /\ UNCHANGED <<kind, voucher, payment, tasks, chainVars, moneyVars>>

\* Mutant: the handler settles in its finally block.
AfterCloseSettles(r) == "settle"

\* What follows on_inference_complete.
AfterClose(r) ==
  IF outcome[r] \in {"done", "swallowed"} THEN "settle"
  ELSE IF outcome[r] = "raised" /\ kind[r] = "stream" THEN "markOrphaned"
  ELSE "ended"

CloseFlow(r) ==
  /\ pc[r] = "close"
  /\ \/ /\ at[r] # 0
        /\ SetFlow(r, None)
        /\ CreateTask(r, "stopped")
     \/ /\ at[r] = 0
        /\ UNCHANGED <<chainVars, tasks>>
  /\ Goto(r, AfterClose(r))
  /\ UNCHANGED <<kind, voucher, outcome, at, payment, busy, moneyVars>>

\* The exception of the finally block leaves the handler.
CloseFlowFails(r) ==
  /\ pc[r] = "close"
  /\ at[r] # 0
  /\ SetFlowFails(r, None)
  /\ Goto(r, "ended")
  /\ UNCHANGED <<kind, voucher, outcome, at, payment, tasks, busy, moneyVars>>

-----------------------------------------------------------------------------
(* The settlement.                                                         *)

\* Mutant: a contract that does not keep authorizationState.
TransferAgain(r) ==
  /\ used' = used \cup {voucher[r]}
  /\ paid' = paid \cup {r}

\* transferWithAuthorization: the contract reverts when the nonce is used.
Transfer(r) ==
  /\ voucher[r] \notin used
  /\ used' = used \cup {voucher[r]}
  /\ paid' = paid \cup {r}

\* Mutant: the handler does not look at `success`.
SettleUnchecked(r) ==
  /\ pc[r] = "settle"
  /\ Goto(r, "markSettled")
  /\ \/ Transfer(r)
     \/ /\ voucher[r] \in used \/ "refused" \in Faults
        /\ UNCHANGED moneyVars
  /\ UNCHANGED <<kind, voucher, outcome, at, payment, tasks, chainVars, busy>>

\* Mutant: a settled payment is not recorded.
SettleUnmarked(r) ==
  /\ pc[r] = "settle"
  /\ \/ Transfer(r) /\ Goto(r, "ended")
     \/ /\ voucher[r] \in used \/ "refused" \in Faults
        /\ Goto(r, "markOrphaned")
        /\ UNCHANGED moneyVars
  /\ UNCHANGED <<kind, voucher, outcome, at, payment, tasks, chainVars, busy>>

Settle(r) ==
  /\ pc[r] = "settle"
  /\ \/ Transfer(r) /\ Goto(r, "markSettled")
     \/ /\ voucher[r] \in used \/ "refused" \in Faults
        /\ Goto(r, "markOrphaned")
        /\ UNCHANGED moneyVars
  /\ UNCHANGED <<kind, voucher, outcome, at, payment, tasks, chainVars, busy>>

\* No answer from the facilitator: the exception leaves the handler.  Or the
\* facilitator has no receipt: it reports a failure, the transfer may be mined.
SettleUnclear(r) ==
  /\ "unreachable" \in Faults
  /\ pc[r] = "settle"
  /\ Transfer(r) \/ UNCHANGED moneyVars
  /\ Goto(r, "ended") \/ Goto(r, "markOrphaned")
  /\ UNCHANGED <<kind, voucher, outcome, at, payment, tasks, chainVars, busy>>

Prompt(r) == "slowtask" \in Faults \/ \A t \in tasks : t.req # r

MarkSettled(r) ==
  /\ pc[r] = "markSettled"
  /\ Prompt(r)
  /\ payment' = [payment EXCEPT ![r] = "settled"]
  /\ Goto(r, "ended")
  /\ UNCHANGED <<kind, voucher, outcome, at, tasks, chainVars, busy, moneyVars>>

MarkOrphaned(r) ==
  /\ pc[r] = "markOrphaned"
  /\ Prompt(r)
  /\ payment' = [payment EXCEPT ![r] = "orphaned"]
  /\ Goto(r, "ended")
  /\ UNCHANGED <<kind, voucher, outcome, at, tasks, chainVars, busy, moneyVars>>

-----------------------------------------------------------------------------
(* The client of /infer/stream goes away: the server cancels the response  *)
(* task at the await it is in, and at every later one.  If that await is   *)
(* in the generator, its finally block does not get past its own first     *)
(* await; if it is not, the generator is closed by a task of its own and   *)
(* the finally block is completed, but nothing after it is run.  Threads   *)
(* and other services finish what they were asked before.                  *)

Gone(r, step) ==
  /\ outcome' = [outcome EXCEPT ![r] = "gone"]
  /\ busy' = IF busy = r THEN None ELSE busy
  /\ Goto(r, step)

DisconnectEarly(r) ==
  /\ pc[r] \in {"infer", "generate"}
  /\ \/ Gone(r, "close") /\ ReadPool(r)
     \/ Gone(r, "ended") /\ UNCHANGED at
  /\ UNCHANGED <<payment, limbo, moneyVars>>

DisconnectLate(r) ==
  /\ \/ /\ pc[r] = "close"
        /\ outcome[r] # "gone"
        /\ \/ UNCHANGED limbo
           \/ at[r] # 0 /\ limbo' = limbo \cup {[pool |-> at[r], rate |-> None]}
        /\ UNCHANGED <<payment, moneyVars>>
     \/ /\ pc[r] = "settle"
        /\ Transfer(r) \/ UNCHANGED moneyVars
        /\ UNCHANGED <<payment, limbo>>
     \/ /\ pc[r] = "markSettled"
        /\ payment' = [payment EXCEPT ![r] = "settled"]
        /\ UNCHANGED <<limbo, moneyVars>>
     \/ /\ pc[r] = "markOrphaned"
        /\ payment' \in {payment, [payment EXCEPT ![r] = "orphaned"]}
        /\ UNCHANGED <<limbo, moneyVars>>
  /\ Goto(r, "ended")
  /\ UNCHANGED <<outcome, at, busy>>

Disconnect(r) ==
  /\ "disconnect" \in Faults
  /\ kind[r] = "stream"
  /\ DisconnectEarly(r) \/ DisconnectLate(r)
  /\ UNCHANGED <<kind, voucher, tasks, pp, flow>>

-----------------------------------------------------------------------------
Handle(r) ==
  \/ Verify(r)
  \/ Record(r)
  \/ OpenFlow(r)
  \/ OpenFlowFails(r)
  \/ Post(r)
  \/ Generated(r)
  \/ GenerationFails(r)
  \/ CloseFlow(r)
  \/ CloseFlowFails(r)
  \/ Settle(r)
  \/ SettleUnclear(r)
  \/ MarkSettled(r)
  \/ MarkOrphaned(r)

Next ==
  \/ \E r \in Requests : Ask(r) \/ Handle(r) \/ Disconnect(r)
  \/ \E t \in tasks : RunTask(t)
  \/ \E t \in limbo : LimboMined(t) \/ LimboDropped(t)
  \/ Provision

Spec == Init /\ [][Next]_vars

\* Handlers go on: every call they await returns or times out (15 s, 60 s,
\* 120 s, 600 s; a stream ends with TokenLoop's generation).  Tasks run.
FairSpec ==
  /\ Spec
  /\ \A r \in Requests : WF_vars(Handle(r))
  /\ WF_vars(\E t \in tasks : RunTask(t))
-----------------------------------------------------------------------------
(* What must hold.                                                         *)

\* One voucher pays for one request, whatever is retried, lost or concurrent.
VoucherPaysOnce ==
  \A r, s \in paid : voucher[r] = voucher[s] => r = s

\* A payment recorded as SETTLED was paid on chain (mark_settled).
SettledMeansPaid ==
  \A r \in Requests : payment[r] = "settled" => r \in paid

\* Who pays has been served: USDC moves only for a generation that reached its
\* end ("stream did not complete" in infer_stream names the other case).
PaidMeansServed ==
  \A r \in paid : outcome[r] = "done"

\* On the route that does not stream, a failed or refused generation raises in
\* the handler, and neither the finally block nor what follows charges for it.
PlainPaidMeansServed ==
  \A r \in paid : kind[r] = "plain" => outcome[r] = "done"

AtRest == limbo = {} /\ \A r \in Requests : pc[r] \in {"idle", "ended"}

\* docs/submission.md: the stream stops the moment the request closes, "on EOS
\* or client disconnect": with no request in progress no flow is running.
MeterHalts == AtRest => \A p \in Pools : flow[p] = None

\* At rest the records say who has paid: SETTLED for those, no one else.
RecordsMatchChain ==
  AtRest /\ tasks = {} => \A r \in Requests : (r \in paid <=> payment[r] = "settled")

\* A flow that was opened is stopped again.
EveryFlowStops == \A p \in Pools : flow[p] # None ~> flow[p] = None
=============================================================================
