# ComputePool: specifications and proofs

TLA+ specifications of ComputePool, TLC instances that model-check them, and
TLAPS proofs. The source is `src/`; every definition that stands for code names
its lines in `PROJECT.json` ("map").

## 1. The system

A *pool* is a pair of workers that serve one language model cut in two. A user
pays per request with a signed USDC authorization (x402, EIP-3009); while a
request is served a Superfluid stream pays the operators of the workers.

| Component | State | Operations | What is hard, what makes it correct |
|---|---|---|---|
| Worker token loop (`worker/pipeline.py`, `axl_client.py`, `framing.py`) | the generators' queues, `EntryDispatcher._pending`, `ExitState.caches`, frames in AXL | `entry_generate_iter`, `entry_recv_loop`, `exit_loop`, `AXLClient.send/recv` | frames are lost, late, duplicated by a retry; generations time out and are cancelled. A token must depend on exactly the tokens before it; a generation ends, and stops at EOS or `max_tokens`; finished requests leave nothing behind. |
| Worker lifecycle (`worker/app.py`) | `s.config`, `s.model`, `s.recv_task`, `s.dispatcher`, `s.gen_in_flight` | `/configure`, `/load`, `/unload`, `/generate`, `/generate/stream` | handlers interleave at each await. One receive loop, one generation in flight, the reported configuration is the running one. |
| Worker coalition signing (`worker/coalition_sign.py`) | the operator's account: nonce, allowance | `/coalition/sign-onchain`, `/coalition/connect-pool` | requests of two fan-outs share one account; the allowance is checked before it is taken |
| Paid inference (`orchestrator/api/infer.py`, `x402.py`) | local state of each handler | `/pools/{n}/infer`, `/infer/stream` | five services in sequence, each can fail; a client can leave. Who pays has been served, once; the meter stops. |
| Payments, streams, coalitions (`orchestrator/economics.py`) | `db.payments`, `db.payment_pools`, `db.coalitions` | `on_payment_received` to `mark_settled`; `on_pool_initialize` to `on_member_units_set` | background tasks and repeated webhooks write the same documents. Records agree with the chain; a payment pool is used when both operators have their units and are asked to connect. |
| On-chain submitter (`onchain.py`, `chain.py`) | account nonce | `_send` | one key, concurrent transactions, receipts that do not come |
| Facilitator (`facilitator/`), `MockUSDC.sol`, faucet (`api/faucet.py`) | balances, `authorizationState`, `_RecentMintCache`, two account nonces | `/verify`, `/settle`, `transferWithAuthorization`, `/faucet/usdc-mint` | a voucher checked early and used late, on two clocks and under two EIP-712 names; a mint whose receipt is late; claims that overlap |
| Node and pool registry (`orchestrator/app.py`, `db.py`, `models.py`) | `db.nodes`, `db.pools`, health loop | register, membership, initialize, load, unload, delete | check-then-act on two collections, handlers of minutes, partial broadcasts, calls that take effect after they were given up on |
| Deployment scripts (`scripts/deploy_*.py`, `finish_superfluid_demo.py`, `more_demo_txs.py`) | `.mainnet_state.json`, `.env.mainnet`, the chain | phases, `--resume`, the demo stream | interrupted between a transaction and the write of its address, or in the write; one script reads what another has written; contracts that refuse what the script relies on |
| iNFT service and `PoolINFT.sol` | token records, authorizations | mint, transfer, clone, authorize | double mint, proofs |
| OpenAI API, KeeperHub client, TEE signer, auth, migrations, frontend | - | - | stateless, or not called by the present code |

How they interact: the orchestrator calls workers, facilitator and chain over
HTTP; workers exchange binary frames through the AXL daemon; within a process,
asyncio handlers and tasks share `app.state` and MongoDB, and only an await lets
another one run. The coalition pipeline is a chain of handlers, each started by
the one before or by a webhook; it leaves the payment pool that paid requests
stream into. `PROJECT.json` lists every hazard found, at its line, with the
properties that cover it and what they are conditional on.

## 2. Modules

| Module | Models |
|---|---|
| `TokenLoop` | the token loop of one pool: many generators, one dispatcher, one exit loop, AXL as a set of frames |
| `TokenStream` | what the token loop promises its caller, the abstract specification `TokenLoop` implements (`ImplementsTokenStream`) |
| `WorkerLifecycle` | the handlers of `worker/app.py` over the shared state of one worker |
| `InferPayment` | the two paid routes, the payment tasks, the orchestrator's transactions, facilitator and USDC nonce |
| `CoalitionPipeline` | from `/initialize` to a connected payment pool: the handlers of `economics.py`, the transactions, two operators' workers, webhooks |
| `UsdcWallet` | faucet, facilitator and MockUSDC around the balances and vouchers of the users' wallets |
| `FlowRate` | the rate and the budget of a payout stream, and the theorem about them |
| `PoolControl` | the registry of nodes and pools: membership, initialize, load, unload, the health loop, the mint after a load |
| `Deployment` | the five scripts that share `.mainnet_state.json`, transaction by transaction |
| `MCTokenLoop`, `MCWorkerLifecycle`, `MCInferPayment`, `MCCoalitionPipeline`, `MCUsdcWallet`, `MCPoolControl` | TLC instances: sets of faults, symmetry, bounds (`Deployment` is its own) |
| `MCTokenLoopLive` | `TokenLoop` composed with itself without faults (`Calm`), chosen at the start of a behaviour, for liveness |
| `TokenLoopProofs`, `WorkerLifecycleProofs`, `InferPaymentProofs`, `CoalitionPipelineProofs`, `UsdcWalletProofs`, `PoolControlProofs`, `DeploymentProofs` | theorems |

An action is what a handler or thread does from one await to the next; a guard
is the code's condition, an alternative its error path. What may go wrong is a
constant set (`Faults`), so that each property is checked under the
widest set it holds for, and so that a run can show what breaks it. Several
modules keep a history variable (`overlapped`, `disturbed`, `faults`,
`interrupts`) of what has gone wrong: where the code keeps a property only
without some disturbance, the property names it, and is checked under all the
others. Operators marked "Mutant" are deliberately wrong variants of the
definition that follows them. They are not part of any specification; each
shows that a property is sensitive to the code it is about.

### TokenLoop

State: `pc`, `maxTokens`, `seqc`, `attempt`, `generated`, `queue` are the locals
of a generator; `pending` is the dispatcher's dictionary; `job`, `reply`,
`replyTry`, `caches`, `kv` are `exit_loop`. Hidden states are abstracted to the
number of the chunk they carry, a cache to the sequence of chunks run through
it, a token to the cache content it was sampled from and whether it is EOS:
"the right token" is then "the token with the right context". Frames are in a
set: no order is promised by AXL. Two frames of one content differ in their
attempt number. The orchestrator draws a fresh id per request, so each request
id starts one generation.

`GetToken` covers the loop body up to the next await. A reload of the entry
worker (`EntryReload`) makes running generators unknown to the new dispatcher.
Cancelling a generator during a send leaves the send's thread running.

### WorkerLifecycle

`model`, `recvTask` and `dispatcher` name the `/load` call that created them;
`built` and `loop` record with what configuration and what became of its loop.
`Unload` runs to its first await that suspends (joining the receive loop, then
the thread that frees the model). Every handler may overlap with every other: the
orchestrator serialises lifecycle calls of one user's pool only by waiting for
them, the worker not at all. `overlapped` records which kinds of overlap have
happened. What the conditions of the properties say of the code:

* `/unload` clears `gen_in_flight` of a generation that goes on
  (`worker/app.py:333`), so that the next request is accepted beside it, where
  `README.md:231` has one generation at a time (`SingleUnlessUnloaded`).
* `worker/app.py:262` tells a caller to unload before reconfiguring, yet
  `/configure` is accepted while a `/load` is under way (`ConfiguredAsLoaded`).
* Two `/load` calls that overlap leave an `exit_loop` that no `/unload` stops,
  with its caches, which `README.md:232` says are dropped (`NoStrayLoop`,
  `UnloadDropsCaches`).

### InferPayment

One record per request: `pc`, route, voucher, what its inference came to, the
payment pool read. `tasks` are the database updates given to
`asyncio.create_task`; `flow` is the stream of each payment pool contract,
named by the request that set its rate; `limbo` holds transactions whose
receipt was given up after 120 s. `NonceClash` is the effect of reading the
transaction count before sending: of two transactions under way one fails.
`Disconnect` follows the server's behaviour: the response task is cancelled at
its current await and at each later one (level-triggered cancellation in the
task group of `StreamingResponse`), threads and other services finish.

What the model shows the code not to promise, although a document does: the
stream runs for each inference (`docs/submission.md:27`; the first request that
ends stops the flow of all, `economics.py:643`); the stream stops when the
client leaves (`docs/submission.md:50`; cancellation also reaches the
transaction that would stop it, `infer.py:446`); the stream opens once the
voucher settles (`README.md:89`; `infer.py:243` and `:388` open it before the
inference and settle after it).

### CoalitionPipeline

`jobs` are the handlers in progress, one record each with the await it is at,
the pool it handles and the answers it waits for; `calls` the requests at the
workers. A transaction is `ReadNonce` and `Submit`; what is mined in between
makes the nonce stale and the second send fails (`SubmitFails`). Sessions share
one pool document and so one row `payPool`. The chain is `proposed`, `signers`,
`activated`, `units` (the members with a unit of each GDA pool), `connected`,
`allowance`.

Facts of the code that the module keeps:

* With `coalition_enabled = false` the chain of handlers ends in
  `on_payment_pool_ready` without an address: no payment pool is ever recorded,
  where `settings.py:30-33`, `README.md:209` and `MAINNET_DEPLOYMENT.md:105` say
  that the GDA flow runs without the coalition. `CalmCoalitionsConnect` is about
  `enabled`.
* On the direct path the coalition's row stays at "proposed"; only the webhook
  makes it active.
* The row is marked ready before the operators are asked to connect, and what
  they answer is only logged.
* All who find the target of `on_member_units_set` reached fan out, so that a
  worker is asked twice at a time. One of its transactions may lose its nonce;
  that the other connects it is what `CalmCoalitionsConnect` checks.
* A repeated `coalition_proposed` writes its answers over `sign_txs`: workers
  that have signed already refuse, and the recorded hashes are gone.
* The allowance is checked before it is used (`coalition_sign.py:92-99`): of
  two signatures under way at one operator the second may find it taken.

### UsdcWallet

`pc` is the await of each claim (a POST to the faucet) and of each request
(a voucher through `/verify` and `/settle`); `tx` what became of its
transaction. `now` is the servers' clock, a block's timestamp is within `Skew`
of it. `key` says whether the faucet has the owner's key; `cache` is
`_RecentMintCache`. `/verify` reads the nonce and the balance in two calls,
which are two actions; the signature and the window are checked before both.

A signature is its EIP-712 name. The 402 challenge names "USDC"
(`x402.py:20`), the facilitator recovers the signer under that name
(`facilitator/app.py:73-86`), and `frontend/lib/sign-payment.ts:75` and
`scripts/sign_payment.py:55` sign under it; `MockUSDC.sol:32` recovers under
"USD Coin", with which only `deploy_mainnet.py:316` and `more_demo_txs.py:187`
sign. `domain` is the name of the token at `USDC_ADDRESS`, either of the two. If
it is MockUSDC, each voucher that passes `/verify` is refused with
`AuthInvalidSig`, where `MAINNET_DEPLOYMENT.md:78` says that x402 settlement on
mainnet is functional; the demos work because they send their authorization to
the contract themselves. `RefusalsExplained` has this as its first reason.

What the conditions of the properties say of the code: a claim whose receipt
takes longer than 60 s is answered with an error, because web3 raises its own
`TimeExhausted` and not the `asyncio.TimeoutError` of `faucet.py:265`; it is not
cached, and the next claim mints again. Claims that overlap both look into the
cache before either records its mint. `/verify` accepts a voucher whose
`validAfter` is this very second, where the contract still reverts (the
frontend signs 0).

### FlowRate

`Rate` and `Budget` are the two branches of `on_payment_received`
(`economics.py:515-522`) in exact integers. The estimate is a float, which is a
quotient of integers, and `Duration` its whole seconds (`int()`), at least one.
A stream that runs for the estimate itself, 25.6 s of which 25 are counted, may
therefore exceed its budget, by less than flows in a second.

### PoolControl

Pool documents are named by their `_id`, so that one that is deleted and
created again under its name is a different one for a handler that still holds
the old `_id`. `req` is the local state of each request in progress: `snap` is
the pool document it read first and works from to its end, `todo` the workers it
has not heard of. A worker is its configuration and the configuration its model
was built from (`WorkerLifecycle` has the rest). `late` holds the calls that the
orchestrator has given up on (`GiveUp`: httpx's timeout, 30 s or for `/load`
600 s, or a crash) while the worker goes on: each takes effect at any later time
(`LateConfigure`, `LateLoadBegins` and `LateLoadEnds`, `LateUnload`), or never.
A late `/load` keeps the configuration it began with and puts its model in place
of whatever is there when it ends, as `worker/app.py:284-299` does. `disturbed` is a history variable: which kinds
of requests have overlapped, whether a crash, a restart or a failed mint has
happened, whether a call has taken effect late, whether an `/initialize` ended
half-way or a delete could not unload.
It is what the properties are conditional on, and the conditions are the
observations to take home:

* Two membership requests at once, or a crash between the two updates of one,
  put `nodes` and `pools` apart; nothing repairs that. No other overlap does.
* An `/initialize` that overlaps a membership change leaves a pool initialized
  for members it does not have.
* An `/initialize` that fails on one worker after it has configured the other
  leaves the pool initialized with its old assignments; the next `/load`
  succeeds with two workers that do not belong together (`halfInit`).
* A call that is given up on and takes effect later makes "loaded" untrue
  without any overlap of requests: `/load` times out, `/unload`, `/initialize`
  with another model, the old load ends, and the next `/load` says
  `already_loaded` (`late`). No property covers it.
* Two loads at once, or a crash between mint and save, mint two PoolINFTs, where
  `sponsors/0g/README.md:49` says that every pool has exactly one.

### Deployment

`prog` is the rest of the running script, a sequence of the steps it still has
to take: a transaction, `"save"` (`save_state`) or `"write_env"`. `file` and
`env` are the two files, `mem` what the script knows, the chain is `made`,
`done`, `wraps`, `funded`, `minted`, `flows`. `Raise` is a script that stops at
a step, for a reverted transaction or a missing address; `Interrupt` one that
is stopped at any step or in the middle of a write, which leaves the file or
`.env.mainnet` `Torn` because `write_text` is not atomic. A script then fails to
parse a torn state file.

What the Superfluid contracts do is modelled as far as the scripts and documents
tell. `Accepted` are the transactions that need something to have been done
before. `MayRevert` are those the contracts may refuse all the same: `updateContracts`
with the factory's proxy (`deploy_superfluid_manual.py:333-342`), which makes the
chain of two proxies `MAINNET_DEPLOYMENT.md:84` describes, and the
`createERC20Wrapper` with four arguments (`:370`, and the mainnet script's if that is the
first in the ABI), which needs a mapping no script initializes
(`finish_superfluid_demo.py:147-150`). Both outcomes are followed.

Facts of the code that the module keeps:

* On a chain that enforces EIP-170, `SuperfluidGDAv1DeployerLibrary` cannot be
  deployed. `deploy_superfluid_mainnet.py` saves the libraries only after the
  last one, so that its comment "resume from any prior partial deploy" is never
  put to use there.
* In a framework of `deploy_superfluid_manual.py` the agreements were
  registered by their proxies, and GDA calls through the forwarder revert
  (`MAINNET_DEPLOYMENT.md:82-92`): its demo never completes (`Forwards`). The
  framework and its forwarders are saved nevertheless, before the wrapper and
  the demo are tried. `SavedFrameworkReady` therefore does not say that saved
  forwarders can be used, only that they belong to the framework of the file
  and that this one is whole.
* If its wrapper is refused as well, the file keeps the USDCx of an earlier
  framework beside the new one. `RecordsAgree` allows that, and no other
  mismatch, without an interruption.
* The commands of `MAINNET_DEPLOYMENT.md:109-118` do not run from an empty
  state: `deploy_superfluid_manual.py` exits without the libraries that only
  `deploy_superfluid_mainnet.py` deploys, and `finish_superfluid_demo.py` then
  fails without `superTokenFactoryImpl`.
* `finish_superfluid_demo.py` needs `superTokenFactoryImpl`, which no script
  writes; a file to which it was added by hand is one of the initial states.
* `save_state` of `deploy_mainnet.py --resume` drops the "superfluid" section,
  although `MAINNET_DEPLOYMENT.md:99` and `:107` call the file resume-safe and
  the full address book (`Loaded`).
* `write_env_mainnet` looks up `CFAv1Forwarder` and `GDAv1Forwarder`, the scripts
  save `cfaV1Forwarder` and `gdaV1Forwarder`: the environment gets the zero
  address, which is why `env` models the three addresses that do arrive.

## 3. Runs

Bounds are small because the interesting cases need few actors: two requests
for every interference between requests, a third where a clash needs a
bystander; two or three tokens so that there is a first, a middle and a last
one; two attempts so that a send can fail, succeed after failing, and give up.
Where a property is conditional on what has gone wrong, its run follows a
behaviour until a second kind of disturbance (`OneKind`, `OneFault`): each
property is excused by some kinds and checked under each of the others. All
instances switch deadlock checking off: each request, call, script or webhook
is made a bounded number of times, so that the system stops when all are
finished.

| Run | Checks | Result |
|---|---|---|
| `TokenLoopLossy` | 2 requests, 2 tokens, 2 attempts; loss, errors, failed passes, late answers, cancellations: `TypeOK`, `ContextExact`, `StopsExactly`, `ForgottenForGood`, `ImplementsTokenStream` | hold |
| `TokenLoopOutOfStep` | 1 request; a failed send may have been accepted, and both workers may reload at any time: `NeverAhead`. Bounded by `SomeGenerationRuns` (what is left of an ended generation cannot change it) and `FewFrames` | hold |
| `TokenLoopLive` | liveness, 2 requests: under loss and errors `EveryGenerationEnds`; when nothing goes wrong (`calm`) `CalmGenerationsSucceed`, `CalmCachesAreDropped` | hold |
| `WorkerCalls` | 3 `/load` or `/unload` calls, 3 generations, any overlap: `LoadedServes`, `SingleUnlessUnloaded`, `NoStrayLoop`, `UnloadDropsCaches`, `ConfiguredAsLoaded`, `ModelNotReplaced`, and the liveness property `BusyEnds` | hold |
| `PaymentAll` | 2 requests, 2 vouchers, 2 payment pools, both routes, all faults: `VoucherPaysOnce`, `SettledMeansPaid`, `PlainPaidMeansServed` | hold |
| `PaymentMeter` | 2 requests of one payment pool, failing generations, refused settlements: `MeterHalts`, `RecordsMatchChain`, and the liveness property `EveryFlowStops` | hold |
| `PaymentFailedStream` | `PaidMeansServed` on the streaming route: a generation whose worker reports an error is settled | violated |
| `CoalitionForms` | 2 initializations of one pool, coalitions on and off; reverts, failing workers, timeouts, a webhook, a crash: `SignaturesLanded`, `RecordedPoolHasUnits`, `LastPoolFannedOut`, and the liveness property `CalmCoalitionsConnect`. `LateOverlap`: two sessions are in progress together only once a pool was created; `FewCalls`: after a disturbance one fan-out at a time; `OneWebhook`: one webhook, with one session | hold |
| `WalletRefills` | 2 claims of 2 wallets, or 2 vouchers of one wallet and a claim for it; failing nodes, late receipts, a shared key, a restart, one kind in a behaviour: `MintAnswersTrue`, `OneMintAWindow`, `RefusalsExplained`. `MaxTime` is twice the window, so that a claim can come inside it, at its end and after it; vouchers that are open, not yet open and about to expire, signed under either EIP-712 name, and a token of either name | hold |
| `PoolCalls` | 2 nodes, 2 pools, one request at a time, any number of them; failing calls, calls that take effect late, crashes, worker restarts: `MembershipAgrees`, `AssignedAreMembers`, `LoadedAsAssigned`. No mint (`MaxMints = 0`); one call is late at a time, and nothing else disturbs meanwhile (`OneLate`) | hold |
| `PoolOverlaps` | 2 nodes, 1 pool, two requests in progress at a time, any number of them: `MembershipAgrees`, `AssignedAreMembers`, `MintedOnce` | hold |
| `DeployResume` | 4 scripts in any order, one interrupted at any transaction or write, chains with and without EIP-170: `RecordedOnChain`, `RecordsAgree`, `SavedFrameworkReady`, `FlowsClosed`, `ResumeDeploysOnce`. Four scripts are a deployment, its resumption and two that build on it; with two interruptions the properties hold as well (10 million states) | hold |

The violated run is a statement of the code's own error message that the code
does not keep; "findings" in `PROJECT.json` quotes it with its line. Other
statements of the documents that the code does not keep are named in section 2,
next to the property whose condition shows them.

### Fairness

Only steps the code takes by itself are fair: event loops run ready handlers,
threads return, timers fire, `/recv` is polled, created tasks run, every awaited
call returns or times out (`TokenLoop!Fairness`, `WorkerLifecycle!Fairness`,
`InferPayment!FairSpec`, and `CoalitionPipeline!FairSpec`, which is weak fairness
of `Work`, the steps of handlers and worker requests). Nothing obliges a request,
a fault, a webhook or a cancellation. Weak fairness is enough: none of these
steps is disabled by another actor again and again. In `InferPayment` fairness
is on the handler, not on the successful outcome of its calls.

## 4. Proofs

All theorems are for every value of the constants (any number of requests,
tokens, vouchers, sessions, wallets, pools, handlers, scripts), under the named
assumptions of each module.

* `TokenLoopProofs`. `TypeCorrect` and `GenerationStopsExactly` rest on
  `CountInv`, which ties the program counter of a generator to the number of
  tokens it has yielded. `EveryTokenHasItsContext` needs more: `ContextExact`
  is not inductive, because what a token was computed from depends on the cache,
  the cache on the hidden frames that were delivered, those on the generator.
  `LoopInv` says where the one chunk in progress of a request can be (in
  the network, in the exit loop, in a reply, in the queue) and that there is
  only one such place; from it follow the content of the cache and of the next
  token. `FinishedRequestsStayForgotten` is the action property from the same
  invariant: a finished request has nothing under way that could create its
  cache again. `NoStreamRunsAhead` holds under every fault, duplicated frames and
  reloads in the middle of a generation included, where `LoopInv` fails: what is
  under way, cached or queued may then be repeated, but `seq_counter` is never
  behind it (`BehindInv`). `LoopImplementsTokenStream` is the refinement: in
  lockstep (no duplicated frame, no reload: without it a stream may repeat a
  token and `TokenStream` is not implemented) the initial states map to those of
  `TokenStream` and each step to one of its steps or a stutter. Three kinds of
  steps of the loop are visible there: a request starts, a token is yielded, a
  generator ends. The step simulation rests on `LoopInv`: the token in the queue
  is the next one of its request and was computed from its whole context.
* `WorkerLifecycleProofs`. `OneGenerationAtATime`: until an `/unload` overlaps
  a generation, `gen_in_flight` is held by the single generation in flight
  (`FlagInv`). `LoadedWorkersServe`: a worker that reports its model loaded has
  the receive loop and the dispatcher that go with it unless an `/unload` is
  taking it down (`ServeInv`). The other four are about lifecycle calls that
  come one at a time: then there is at most one loop, it belongs to the model
  that is there, and that was built from the configuration that is reported
  (`SerialInv`); `NoStrayLoop`, `UnloadDropsCaches`, `ConfiguredAsLoaded` and
  the action property `ModelNotReplaced` follow.
* `InferPaymentProofs`. `MoneyInv` places each transfer in its handler: before
  the settlement a request is unpaid, at `markSettled` it is paid, and each
  payment has used its voucher; `NoDoubleCharge` and `SettledRecordsAreTrue`
  follow for all faults. `PlainChargesAreServed` adds that the plain route
  reaches the settlement only with a completed generation. `MeterIsLeftOff`:
  with one payment pool, no failing transaction and no disconnect, whenever the
  flow runs some request that knows the contract has yet to stop it
  (`MeterInv`); a transaction that loses its nonce loses it to such a request.
  `RecordsAreComplete`: a request that has paid is about to be marked, or was
  marked after the last of its tasks (`RecordInv`), so that at rest the settled
  requests are exactly those that paid. It is stated without the faults "unreachable" (no answer from `/settle`: the transfer
  may have gone through), "disconnect" and "slowtask" (an update that is late
  is overtaken): with any of the three the code does record something else,
  and the runs leave them out of this property for the same reason. Failing
  generations, refused settlements and all faults of flow transactions are in.
* `CoalitionPipelineProofs`. `Inv` says what each handler in progress may rely
  on (`JobOK`): an answer "ok" it holds is a signature on chain, at "activate"
  all are, a pool it carries exists, and at "upsert" that pool has units for
  both. What it relies on only grows (`Grows`), so that no step of another
  handler, a worker or a webhook takes it away (`JobKept`). From it follow
  `SignaturesHaveLanded` under every fault and overlap, and
  `RecordedPoolsHaveUnits` as long as no webhook announced a pool.
  `LastPoolIsFannedOut` is about the handlers of `MemberUnitsSet`, which
  increment, read again and compare without a lock: some handler has always yet
  to do what makes the last pool ready and fans it out, or both handlers of that
  pool have yet to count (`Promised`); handlers of older pools may count as well
  but cannot use that up. A crash is excluded by the property, nothing else is.
* `UsdcWalletProofs`. `AnswersAreTrue`: what the cache and a waiting claim name
  is a mined transaction of that wallet. `WindowIsKept`: once a claim is
  answered, its wallet's cache entry is that claim or a younger one until the
  process restarts, so that a later claim in the window is answered from it.
  `RefusalsAreExplained`: a verified voucher is signed under "USDC", and was
  unused and covered when its balance was read; the token's name is fixed, and
  what can change until the transfer is the clock and the transfers of other
  requests of the wallet.
* `DeploymentProofs`. `RecordsAreReal`: what a script knows and what the files
  say is bounded by what is on chain, and steps only add to the chain.
  The other four share one invariant (`DeployInv`) and need no assumption. Its
  core is `Plan(prog, mem, done)`: what the rest of the script may be relied on
  for. `Windows` says which steps follow which (`distributeFlow(0)` after
  `distributeFlow(rate)`, a save after a deployment or a wrapper), the conjuncts
  with `At` say what has been done before a step, `Fine` that a save then tells
  the truth about the framework. That a program has these when it starts is
  shown once for each piece it is joined from; that they last while steps are
  taken is a fact about tails. `DemosCloseTheirStreams` follows by counting
  (`StreamsCounted`: the one stream more is about to be closed and the
  forwarder still reaches the agreement), `ResumeSkipsDeployed` likewise
  (`DeploysCounted`), `RecordsBelongTogether` from what the script knows of the
  wrapper (`TokensAgree`, `WrapperAgrees`): a new framework has no wrapper, and
  once a wrapper of it is on chain the very next step saves it, so that a script
  the contracts refuse leaves a framework without one or names it.
  `SavedFrameworksAreReady` follows from `FileReady`: the framework of saved
  forwarders is whole and stays so (`WholeGrows`), and one that was written down
  without forwarders can be made whole (`Based`). What the contracts may refuse
  is not assumed either way: any transaction of a script may be its last step.
* `FlowRate`. `RateFitsBudget`: for every amount and every estimate the stream,
  over the whole seconds of the estimate, stays within its budget and leaves less
  than one wei per second of it; over the estimate itself it exceeds the budget
  by less than one second's flow.
* `PoolControlProofs`. `NodesAndPoolsAgree`: a node row names a pool if and only
  if the pool lists the node, or the one membership request in progress is half
  way through adding or removing it, unless a delete of that pool is between its
  two updates (`RowsAgree`); a request that waits still has the pool as it read
  it. `AssignmentsFit`: as long as no `/initialize` overlaps a membership
  request, what it has read is what the pool has. `OneTokenPerPool`: an existing
  pool that is minted and has no token is that of the one load about to save it.
  `LoadedPoolsRun` adds the workers: while requests come one at a time
  (`Serial`), the request in progress has called the members it no longer
  waits for, and those run what its plan gives them (`CallOK`); a member belongs
  to one pool only (`MembersApart`), so that the calls of another pool do not
  reach it; and a call that is still late has not taken effect, which is what the
  property names. All hold for any number of nodes, pools and requests, under
  failing and late calls, restarts and every overlap the property does not name.

Every invariant and action property of the passing runs is stated by a theorem.
Only model-checked is all liveness (`EveryGenerationEnds`,
`CalmGenerationsSucceed`, `CalmCachesAreDropped`, `BusyEnds`, `EveryFlowStops`,
`CalmCoalitionsConnect`), which needs ENABLED and fairness, out of the prover's
reach. The hypotheses of `MeterIsLeftOff` and
`RecordsAreComplete` are weaker than what `PaymentMeter` fixes: its `Faults` and
its single payment pool satisfy both.

## 5. Not modelled, and what is left

Not modelled because it is numerical, stateless or presentation: the forward
pass itself, tokenisation, framing bytes, JWT and TEE signatures, wording of
responses, the PoolINFT gate and `/infer/verify` (reads only), the frontend, the
end-to-end demo, the one-off migration. The KeeperHub client is not called by
the present code; of its webhooks the four of the coalition pipeline are in
`CoalitionPipeline`, the two stream events set what `InferPayment`'s tasks set.
Abstracted: prices and balances in `InferPayment` (a refused settlement may
happen at any time; `UsdcWallet` has the reasons), signatures but for the name
they are made under, the encryption and upload of an iNFT (`PoolControl!Mint` is the transaction).

Left, in this order:

1. `PoolINFT.sol`: ownership, oracle proofs, clones and usage authorizations.
2. The lookup of the OpenAI-compatible API and the status check before a relay.
3. Registration of a worker with the orchestrator (a retry loop) and a liveness
   property for `_reconcile_pool_loaded`.
4. `InferPayment` as a refinement of an abstract pay-per-call specification,
   `UsdcWallet!MineTransfer` as that of its settlement.
