----------------------------- MODULE UsdcWallet -----------------------------
(***************************************************************************)
(* The USDC of the users' wallets: the faucet that mints it                *)
(* (orchestrator/api/faucet.py), the vouchers the facilitator verifies and *)
(* settles, and the MockUSDC contract in which they meet.                  *)
(*                                                                         *)
(* A claim is one POST to the faucet, a request one voucher that goes      *)
(* through /verify and /settle.  Both end in one transaction: the claims'  *)
(* are sent with the faucet's key, the requests' with the relayer's.       *)
(***************************************************************************)
EXTENDS Integers

CONSTANTS
  Wallets,
  Claims,     \* POSTs to /faucet/usdc-mint, each made once at most
  Requests,   \* paid requests, each made once at most
  Vouchers,   \* the vouchers they may present
  Price,      \* maxAmountRequired
  Topup,      \* the amount a claim asks for
  Window,     \* MINT_DEDUPE_WINDOW_S
  Skew,       \* how far a block's timestamp may be from the servers' clocks
  MaxTime,    \* bound: the clock stops there
  Faults,     \* what may go wrong, a subset of FaultKinds
  None

FaultKinds ==
  { "rpc",       \* a call to the chain's RPC node raises
    "timeout",   \* the receipt is not there in time
    "shared",    \* the faucet's key sends transactions of its own
    "restart" }  \* the orchestrator stops and starts again

\* The EIP-712 name a voucher is signed under: the one of the 402 challenge
\* (build_payment_requirements), or the one of MockUSDC, with which
\* deploy_mainnet and more_demo_txs sign.  Who verifies under another name
\* recovers another signer.
DomainNames == {"USDC", "USD Coin"}

ASSUME WalletAssumption ==
  /\ Vouchers \subseteq [from : Wallets, value : Nat, after : Nat, before : Nat, nonce : Nat,
                        domain : DomainNames]
  /\ {Price, Topup, Window, Skew, MaxTime} \subseteq Nat
  /\ Claims \cap Requests = {}
  /\ Faults \subseteq FaultKinds
  /\ None \notin Wallets \cup Claims \cup Requests \cup Vouchers

VARIABLES
  now,        \* the servers' clocks
  faults,     \* what may go wrong in this behaviour
  key,        \* whose key the faucet signs with: the owner's of the contract, or not
  domain,     \* the EIP-712 name of the contract at USDC_ADDRESS
  pc,         \* the await each claim and request is at
  wallet,     \* the wallet of each claim
  names,      \* the claim whose transaction a claim was answered with
  cache,      \* _RecentMintCache: for each wallet a claim and its time
  voucher,    \* the voucher of each request
  tx,         \* the transaction of each claim and request
  balance,    \* on chain: the USDC of each wallet,
  usedNonces, \*   and authorizationState
  startedAt,  \* history: when each claim was made, or each voucher's window checked
  answeredAt, \* history: when each claim was answered with its own mint
  seen        \* history: which were over when it started; for a request, paid

history == <<startedAt, answeredAt, seen>>
vars == <<now, faults, key, domain, pc, wallet, names, cache, voucher, tx, balance, usedNonces, history>>

Callers == Claims \cup Requests
Peers(t) == IF t \in Claims THEN Claims ELSE Requests   \* they share an account

ClaimEnds   == {"ok", "deduped", "failed"}
RequestEnds == {"paid", "rejected", "refused", "failed"}
Points == {"idle", "state", "balance", "nonce", "send", "wait", "gone"} \cup ClaimEnds \cup RequestEnds
\* "read": its nonce is the account's next one; "stale": it no longer is;
\* "lost": it was sent, and its nonce was used by another.
TxStates == {"none", "read", "stale", "pending", "lost", "mined", "reverted"}

TypeOK ==
  /\ now \in Nat
  /\ faults \subseteq Faults
  /\ key \in {"owner", "other", "none"}
  /\ domain \in DomainNames
  /\ pc \in [Callers -> Points]
  /\ wallet \in [Claims -> Wallets \cup {None}]
  /\ names \in [Claims -> Claims \cup {None}]
  /\ cache \in [Wallets -> [claim : Claims \cup {None}, at : Nat]]
  /\ voucher \in [Requests -> Vouchers \cup {None}]
  /\ tx \in [Callers -> TxStates]
  /\ balance \in [Wallets -> Nat]
  /\ usedNonces \subseteq Wallets \X Nat
  /\ startedAt \in [Callers -> Nat]
  /\ answeredAt \in [Claims -> Nat]
  /\ seen \in [Callers -> SUBSET Callers]

Init ==
  /\ now = 0
  /\ faults \in SUBSET Faults
  /\ key \in {"owner", "other", "none"}
  /\ domain \in DomainNames
  /\ pc = [t \in Callers |-> "idle"]
  /\ wallet = [c \in Claims |-> None]
  /\ names = [c \in Claims |-> None]
  /\ cache = [w \in Wallets |-> [claim |-> None, at |-> 0]]
  /\ voucher = [r \in Requests |-> None]
  /\ tx = [t \in Callers |-> "none"]
  /\ \E b \in {0, Topup} : balance = [w \in Wallets |-> b]
  /\ usedNonces = {}
  /\ startedAt = [t \in Callers |-> 0]
  /\ answeredAt = [c \in Claims |-> 0]
  /\ seen = [t \in Callers |-> {}]

Goto(t, p) == pc' = [pc EXCEPT ![t] = p]

-----------------------------------------------------------------------------
(* Sending a transaction: the nonce is the number of mined transactions.   *)

ReadNonce(t) ==
  /\ pc[t] = "nonce"
  /\ Goto(t, "send")
  /\ tx' = [tx EXCEPT ![t] = "read"]
  /\ UNCHANGED <<now, faults, key, domain, wallet, names, cache, voucher, balance, usedNonces, history>>

\* The network accepts one transaction for a nonce, and another in its place
\* if it pays more, which it does when the base fee has risen.
Rivals(t) == {u \in Peers(t) \ {t} : tx[u] = "pending"}

Send(t) ==
  /\ tx[t] = "read"
  /\ Goto(t, "wait")
  /\ tx' = [u \in Callers |-> IF u = t THEN "pending" ELSE IF u \in Rivals(t) THEN "lost" ELSE tx[u]]
  /\ UNCHANGED <<now, faults, key, domain, wallet, names, cache, voucher, balance, usedNonces, history>>

SendFails(t) ==
  /\ pc[t] = "send"
  /\ tx[t] = "stale" \/ Rivals(t) # {}
  /\ Goto(t, "failed")
  /\ tx' = [tx EXCEPT ![t] = "none"]
  /\ UNCHANGED <<now, faults, key, domain, wallet, names, cache, voucher, balance, usedNonces, history>>

RpcFails(t) ==
  /\ "rpc" \in faults
  /\ pc[t] \in {"state", "balance", "nonce", "send"}
  /\ Goto(t, "failed")
  /\ tx' = [tx EXCEPT ![t] = "none"]
  /\ UNCHANGED <<now, faults, key, domain, wallet, names, cache, voucher, balance, usedNonces, history>>

\* A transaction of the account is mined: the nonces read before are used up.
Used(S, state, t) ==
  [u \in Callers |->
     IF u = t THEN state
     ELSE CASE u \in S /\ tx[u] = "read" -> "stale"
            [] u \in S /\ tx[u] = "pending" -> "lost"
            [] OTHER -> tx[u]]

\* ORCHESTRATOR_PRIVATE_KEY is the faucet's fallback: the key has other uses.
OtherTransaction ==
  /\ "shared" \in faults
  /\ tx' = Used(Claims, "none", None)
  /\ UNCHANGED <<now, faults, key, domain, pc, wallet, names, cache, voucher, balance, usedNonces, history>>

-----------------------------------------------------------------------------
(* The faucet.                                                             *)

\* Mutant: a mint that is exactly as old as the window is no longer recent.
RecentOffByOne(w) == cache[w].claim # None /\ now - cache[w].at < Window

Recent(w) == cache[w].claim # None /\ now - cache[w].at <= Window

\* usdc_mint up to the nonce: get_recent, _resolve_faucet_key.
Claim(c, w) ==
  /\ pc[c] = "idle"
  /\ wallet' = [wallet EXCEPT ![c] = w]
  /\ names' = [names EXCEPT ![c] = IF Recent(w) THEN cache[w].claim ELSE None]
  /\ Goto(c, IF Recent(w) THEN "deduped" ELSE IF key = "none" THEN "failed" ELSE "nonce")
  /\ startedAt' = [startedAt EXCEPT ![c] = now]
  /\ seen' = [seen EXCEPT ![c] = {d \in Claims : pc[d] = "ok"}]
  /\ UNCHANGED <<now, faults, key, domain, cache, voucher, tx, balance, usedNonces, answeredAt>>

\* mint is onlyOwner.
MineMint(c) ==
  /\ tx[c] = "pending"
  /\ tx' = Used(Claims, IF key = "owner" THEN "mined" ELSE "reverted", c)
  /\ balance' = IF key = "owner" THEN [balance EXCEPT ![wallet[c]] = @ + Topup] ELSE balance
  /\ UNCHANGED <<now, faults, key, domain, pc, wallet, names, cache, voucher, usedNonces, history>>

\* Mutant: the mint is recorded when it is sent.
MintReceiptUnread(c) ==
  /\ pc[c] = "wait"
  /\ Goto(c, "ok")
  /\ names' = [names EXCEPT ![c] = c]
  /\ cache' = [cache EXCEPT ![wallet[c]] = [claim |-> c, at |-> now]]
  /\ answeredAt' = [answeredAt EXCEPT ![c] = now]
  /\ UNCHANGED <<now, faults, key, domain, wallet, voucher, tx, balance, usedNonces, startedAt, seen>>

\* The receipt, cache.set and the answer.
MintReceipt(c) ==
  /\ pc[c] = "wait" /\ tx[c] = "mined"
  /\ Goto(c, "ok")
  /\ names' = [names EXCEPT ![c] = c]
  /\ cache' = [cache EXCEPT ![wallet[c]] = [claim |-> c, at |-> now]]
  /\ answeredAt' = [answeredAt EXCEPT ![c] = now]
  /\ UNCHANGED <<now, faults, key, domain, wallet, voucher, tx, balance, usedNonces, startedAt, seen>>

\* A revert; or no receipt in 60 s: web3 raises its own TimeExhausted, which
\* is not the asyncio.TimeoutError of the wait_for around it, so that the claim
\* is answered with an error and not recorded.
MintFails(c) ==
  /\ pc[c] = "wait"
  /\ tx[c] \in {"reverted", "lost"} \/ "timeout" \in faults
  /\ Goto(c, "failed")
  /\ UNCHANGED <<now, faults, key, domain, wallet, names, cache, voucher, tx, balance, usedNonces, history>>

\* The cache is the process's; what was sent goes on.
Restart ==
  /\ "restart" \in faults
  /\ pc' = [t \in Callers |->
       IF t \in Claims /\ pc[t] # "idle" THEN "gone" ELSE pc[t]]
  /\ tx' = [t \in Callers |-> IF t \in Claims /\ tx[t] \in {"read", "stale"} THEN "none" ELSE tx[t]]
  /\ cache' = [w \in Wallets |-> [claim |-> None, at |-> 0]]
  /\ UNCHANGED <<now, faults, key, domain, wallet, names, voucher, balance, usedNonces, history>>

-----------------------------------------------------------------------------
(* The facilitator and transferWithAuthorization.                          *)

InWindow(v) == v.after <= now /\ now < v.before

\* verify, up to its first await: recover_signer under the name of the
\* challenge, which is "USDC" whatever the token's own is; the window; the value.
Verify(r, v) ==
  /\ pc[r] = "idle"
  /\ voucher' = [voucher EXCEPT ![r] = v]
  /\ Goto(r, IF v.domain = "USDC" /\ InWindow(v) /\ v.value >= Price THEN "state" ELSE "rejected")
  /\ startedAt' = [startedAt EXCEPT ![r] = now]
  /\ seen' = [seen EXCEPT ![r] = {q \in Requests : tx[q] = "mined"}]
  /\ UNCHANGED <<now, faults, key, domain, wallet, names, cache, tx, balance, usedNonces, answeredAt>>

VerifyNonce(r) ==
  /\ pc[r] = "state"
  /\ Goto(r, IF <<voucher[r].from, voucher[r].nonce>> \in usedNonces THEN "rejected" ELSE "balance")
  /\ UNCHANGED <<now, faults, key, domain, wallet, names, cache, voucher, tx, balance, usedNonces, history>>

\* Mutant: the balance is not compared.
VerifyBalanceNot(r) ==
  /\ pc[r] = "balance"
  /\ Goto(r, "nonce")
  /\ UNCHANGED <<now, faults, key, domain, wallet, names, cache, voucher, tx, balance, usedNonces, history>>

\* The last check; what comes before /settle is InferPayment.
VerifyBalance(r) ==
  /\ pc[r] = "balance"
  /\ Goto(r, IF balance[voucher[r].from] < voucher[r].value THEN "rejected" ELSE "nonce")
  /\ UNCHANGED <<now, faults, key, domain, wallet, names, cache, voucher, tx, balance, usedNonces, history>>

\* Block timestamps of the present.
BlockTimes == {b \in 0 .. MaxTime + Skew : now - Skew <= b /\ b <= now + Skew}

\* transferWithAuthorization does not revert in a block of time b: it recovers
\* the signer under its own name.
Transferable(v, b) ==
  /\ v.domain = domain
  /\ v.after < b /\ b < v.before
  /\ <<v.from, v.nonce>> \notin usedNonces
  /\ balance[v.from] >= v.value

MineTransfer(r) ==
  /\ tx[r] = "pending"
  /\ \E b \in BlockTimes : Transferable(voucher[r], b)
  /\ tx' = Used(Requests, "mined", r)
  /\ balance' = [balance EXCEPT ![voucher[r].from] = @ - voucher[r].value]
  /\ usedNonces' = usedNonces \cup {<<voucher[r].from, voucher[r].nonce>>}
  /\ UNCHANGED <<now, faults, key, domain, pc, wallet, names, cache, voucher, history>>

\* It reverts: in a block, or already when build_transaction estimates its gas.
TransferReverts(r) ==
  /\ \/ tx[r] = "pending" /\ tx' = Used(Requests, "reverted", r) /\ UNCHANGED pc
     \/ pc[r] = "send" /\ tx' = [tx EXCEPT ![r] = "reverted"] /\ Goto(r, "refused")
  /\ \E b \in BlockTimes : ~Transferable(voucher[r], b)
  /\ UNCHANGED <<now, faults, key, domain, wallet, names, cache, voucher, balance, usedNonces, history>>

SendTransfer(r) == pc[r] = "send" /\ (\E b \in BlockTimes : Transferable(voucher[r], b)) /\ Send(r)

SettleReceipt(r) ==
  /\ pc[r] = "wait"
  /\ \/ tx[r] = "mined" /\ Goto(r, "paid")
     \/ tx[r] = "reverted" /\ Goto(r, "refused")
     \/ (tx[r] = "lost" \/ "timeout" \in faults) /\ Goto(r, "failed")
  /\ UNCHANGED <<now, faults, key, domain, wallet, names, cache, voucher, tx, balance, usedNonces, history>>

-----------------------------------------------------------------------------

Tick ==
  /\ now < MaxTime
  /\ now' = now + 1
  /\ UNCHANGED <<faults, key, domain, pc, wallet, names, cache, voucher, tx, balance, usedNonces, history>>

ClaimStep(c) ==
  \/ ReadNonce(c) \/ (pc[c] = "send" /\ Send(c)) \/ SendFails(c)
  \/ MintReceipt(c) \/ MintFails(c)

Next ==
  \/ \E c \in Claims :
       \/ \E w \in Wallets : Claim(c, w)
       \/ ClaimStep(c) \/ MineMint(c) \/ RpcFails(c)
  \/ \E r \in Requests :
       \/ \E v \in Vouchers : Verify(r, v)
       \/ VerifyNonce(r) \/ VerifyBalance(r)
       \/ ReadNonce(r) \/ SendTransfer(r) \/ SendFails(r) \/ RpcFails(r)
       \/ MineTransfer(r) \/ TransferReverts(r) \/ SettleReceipt(r)
  \/ OtherTransaction
  \/ Restart
  \/ Tick

Spec == Init /\ [][Next]_vars

-----------------------------------------------------------------------------
(* What must hold.                                                         *)

\* The faucet says that a wallet was topped up, itself or by reference to an
\* earlier claim, only if that mint is mined and was for this wallet.
MintAnswersTrue ==
  \A c \in Claims : pc[c] \in {"ok", "deduped"} =>
    names[c] \in Claims /\ tx[names[c]] = "mined" /\ wallet[names[c]] = wallet[c]

\* A wallet gets a second mint within the window only from claims that
\* overlap, or after one that was answered with an error although its
\* transaction went through, or after a restart.
OneMintAWindow ==
  \A c, d \in Claims :
    /\ c # d /\ wallet[c] = wallet[d]
    /\ tx[c] = "mined" /\ tx[d] = "mined"
    /\ c \in seen[d] /\ pc[c] = "ok"
    => startedAt[d] > answeredAt[c] + Window

\* What /verify promises of /settle: a verified voucher is only refused if the
\* token's EIP-712 name is not the "USDC" that /verify goes by (as MockUSDC's is
\* not: each of its settlements is then refused, with AuthInvalidSig), if it has
\* expired, if it opened within Skew of the moment it was verified (/verify
\* accepts the very second in which the contract still reverts), or if another
\* request of its wallet was paid since.
RefusalsExplained ==
  [][\A r \in Requests :
       tx[r] # "reverted" /\ tx'[r] = "reverted" =>
         \/ domain # "USDC"
         \/ now + Skew >= voucher[r].before
         \/ voucher[r].after + Skew >= startedAt[r]
         \/ \E q \in Requests \ {r} :
              tx[q] = "mined" /\ q \notin seen[r] /\ voucher[q].from = voucher[r].from]_vars
=============================================================================
