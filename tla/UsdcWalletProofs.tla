-------------------------- MODULE UsdcWalletProofs --------------------------
(***************************************************************************)
(* What the faucet's answers and the facilitator's verdicts are worth, for *)
(* any number of wallets, claims, requests and vouchers, any window, and   *)
(* every fault.                                                            *)
(***************************************************************************)
EXTENDS UsdcWallet, TLAPS

USE WalletAssumption

\* A caller has a transaction from the nonce on, and its nonce is fresh or
\* stale until it is sent.
Sending ==
  \A t \in Callers :
    /\ pc[t] \in {"idle", "deduped", "state", "balance", "nonce"} => tx[t] = "none"
    /\ pc[t] = "send" <=> tx[t] \in {"read", "stale"}

\* Whoever has begun has a wallet or a voucher.
HasWallet  == \A c \in Claims : pc[c] # "idle" => wallet[c] \in Wallets
HasVoucher == \A r \in Requests : pc[r] # "idle" => voucher[r] \in Vouchers

TypeInv == TypeOK /\ Sending /\ HasWallet /\ HasVoucher

-----------------------------------------------------------------------------
(* Type correctness.                                                       *)

\* A transaction that is mined spends the nonces that were read before.
LEMMA UsedNonces ==
  ASSUME TypeInv, NEW S, NEW s \in {"none", "mined", "reverted"}, NEW t \in Callers \cup {None},
         t \in Callers => tx[t] = "pending",
         tx' = Used(S, s, t)
  PROVE  /\ tx' \in [Callers -> TxStates]
         /\ UNCHANGED pc => Sending'
         /\ \A u \in Callers \ {t} :
              \/ tx'[u] = tx[u]
              \/ u \in S /\ tx[u] = "read" /\ tx'[u] = "stale"
              \/ u \in S /\ tx[u] = "pending" /\ tx'[u] = "lost"
         /\ t \in Callers => tx'[t] = s
<1> USE DEF TypeInv, TypeOK
<1>1. tx' \in [Callers -> TxStates]
  BY DEF Used, TxStates
<1>2. \A u \in Callers \ {t} :
        \/ tx'[u] = tx[u]
        \/ u \in S /\ tx[u] = "read" /\ tx'[u] = "stale"
        \/ u \in S /\ tx[u] = "pending" /\ tx'[u] = "lost"
  BY DEF Used
<1>3. t \in Callers => tx'[t] = s
  BY DEF Used
<1>4. UNCHANGED pc => Sending'
  BY <1>1, <1>2, <1>3 DEF Sending, TxStates
<1> QED
  BY <1>1, <1>2, <1>3, <1>4

LEMMA TypeInit == Init => TypeInv
BY DEF Init, TypeInv, TypeOK, Sending, HasWallet, HasVoucher, Callers, Points, TxStates

LEMMA TypeStep ==
  ASSUME TypeInv, [Next]_vars
  PROVE  TypeInv'
<1> USE DEF TypeInv, TypeOK, Sending, HasWallet, HasVoucher, Callers, Points, ClaimEnds,
            RequestEnds, TxStates, history
<1>1. CASE UNCHANGED vars
  BY <1>1 DEF vars
<1> USE DEF Goto
<1>2. ASSUME NEW c \in Claims, NEW w \in Wallets, Claim(c, w) PROVE TypeInv'
  BY <1>2 DEF Claim, Recent
<1>3. ASSUME NEW t \in Callers, ReadNonce(t) PROVE TypeInv'
  BY <1>3 DEF ReadNonce
<1>4. ASSUME NEW t \in Callers, pc[t] = "send", Send(t) PROVE TypeInv'
  BY <1>4 DEF Send, Rivals
<1>5. ASSUME NEW t \in Callers, SendFails(t) PROVE TypeInv'
  BY <1>5 DEF SendFails
<1>6. ASSUME NEW t \in Callers, RpcFails(t) PROVE TypeInv'
  BY <1>6 DEF RpcFails
<1>7. ASSUME NEW c \in Claims, MineMint(c) PROVE TypeInv'
  <2>1. tx' = Used(Claims, "mined", c) \/ tx' = Used(Claims, "reverted", c)
    BY <1>7 DEF MineMint
  <2>2. tx[c] = "pending" /\ balance' \in [Wallets -> Nat]
    BY <1>7 DEF MineMint
  <2>3. UNCHANGED <<now, faults, key, domain, pc, wallet, names, cache, voucher, usedNonces, history>>
    BY <1>7 DEF MineMint
  <2>4. tx' \in [Callers -> TxStates] /\ Sending'
    BY <2>1, <2>2, <2>3, UsedNonces
  <2> QED
    BY <2>2, <2>3, <2>4
<1>8. ASSUME NEW c \in Claims, MintReceipt(c) PROVE TypeInv'
  BY <1>8 DEF MintReceipt
<1>9. ASSUME NEW c \in Claims, MintFails(c) PROVE TypeInv'
  BY <1>9 DEF MintFails
<1>10. ASSUME OtherTransaction PROVE TypeInv'
  <2>1. tx' = Used(Claims, "none", None)
    BY <1>10 DEF OtherTransaction
  <2>2. UNCHANGED <<now, faults, key, domain, pc, wallet, names, cache, voucher, balance, usedNonces, history>>
    BY <1>10 DEF OtherTransaction
  <2>3. tx' \in [Callers -> TxStates] /\ Sending'
    BY <2>1, <2>2, UsedNonces
  <2> QED
    BY <2>2, <2>3
<1>11. ASSUME Restart PROVE TypeInv'
  BY <1>11 DEF Restart
<1>12. ASSUME Tick PROVE TypeInv'
  BY <1>12 DEF Tick
<1>13. ASSUME NEW r \in Requests, NEW v \in Vouchers, Verify(r, v) PROVE TypeInv'
  BY <1>13 DEF Verify
<1>14. ASSUME NEW r \in Requests, VerifyNonce(r) PROVE TypeInv'
  BY <1>14 DEF VerifyNonce
<1>15. ASSUME NEW r \in Requests, VerifyBalance(r) PROVE TypeInv'
  BY <1>15 DEF VerifyBalance
<1>16. ASSUME NEW r \in Requests, MineTransfer(r) PROVE TypeInv'
  <2>1. tx' = Used(Requests, "mined", r) /\ tx[r] = "pending"
    BY <1>16 DEF MineTransfer
  <2>2. voucher[r] \in Vouchers
    BY <2>1
  <2>3. balance' \in [Wallets -> Nat] /\ usedNonces' \subseteq Wallets \X Nat
    BY <1>16, <2>2 DEF MineTransfer, Transferable
  <2>4. UNCHANGED <<now, faults, key, domain, pc, wallet, names, cache, voucher, history>>
    BY <1>16 DEF MineTransfer
  <2>5. tx' \in [Callers -> TxStates] /\ Sending'
    BY <2>1, <2>4, UsedNonces
  <2> QED
    BY <2>3, <2>4, <2>5
<1>17. ASSUME NEW r \in Requests, TransferReverts(r) PROVE TypeInv'
  <2>1. CASE tx[r] = "pending" /\ tx' = Used(Requests, "reverted", r) /\ UNCHANGED pc
    <3>1. tx' \in [Callers -> TxStates] /\ Sending'
      BY <2>1, UsedNonces
    <3>2. UNCHANGED <<now, faults, key, domain, pc, wallet, names, cache, voucher, balance, usedNonces, history>>
      BY <1>17, <2>1 DEF TransferReverts
    <3> QED
      BY <3>1, <3>2
  <2>2. CASE pc[r] = "send" /\ tx' = [tx EXCEPT ![r] = "reverted"] /\ Goto(r, "refused")
    BY <1>17, <2>2 DEF TransferReverts
  <2> QED
    BY <1>17, <2>1, <2>2 DEF TransferReverts
<1>18. ASSUME NEW r \in Requests, SettleReceipt(r) PROVE TypeInv'
  BY <1>18 DEF SettleReceipt
<1> QED
  BY <1>1, <1>2, <1>3, <1>4, <1>5, <1>6, <1>7, <1>8, <1>9, <1>10, <1>11, <1>12, <1>13, <1>14,
     <1>15, <1>16, <1>17, <1>18
     DEF Next, ClaimStep, SendTransfer

\* Type correctness of the model of the users' wallets.
THEOREM TypeCorrect == Spec => []TypeOK
<1>1. TypeInv => TypeOK
  BY DEF TypeInv
<1> QED
  BY <1>1, TypeInit, TypeStep, PTL DEF Spec

-----------------------------------------------------------------------------
(* The faucet's answers.                                                   *)

\* The cache names mined mints of the wallet it names them for.
CacheTrue ==
  \A w \in Wallets : cache[w].claim # None =>
    tx[cache[w].claim] = "mined" /\ wallet[cache[w].claim] = w

MintInv == TypeInv /\ MintAnswersTrue /\ CacheTrue

\* A mined transaction stays mined.
LEMMA MinedStays ==
  ASSUME TypeInv, [Next]_vars, NEW t \in Callers, tx[t] = "mined"
  PROVE  tx'[t] = "mined"
<1>0. ASSUME NEW S, NEW s \in {"none", "mined", "reverted"}, NEW u \in Callers \cup {None},
             u \in Callers => tx[u] = "pending", tx' = Used(S, s, u)
      PROVE  tx'[t] = "mined"
  <2>1. t \in Callers \ {u}
    BY <1>0
  <2>2. \/ tx'[t] = tx[t]
        \/ tx[t] = "read"
        \/ tx[t] = "pending"
    BY <1>0, <2>1 DEF Used, TypeInv, TypeOK
  <2> QED
    BY <2>2
<1> USE DEF TypeInv, TypeOK, Sending
<1>1. ASSUME NEW u \in Callers, ReadNonce(u) \/ SendFails(u) \/ RpcFails(u) PROVE tx'[t] = "mined"
  BY <1>1 DEF ReadNonce, SendFails, RpcFails, Callers
<1>2. ASSUME NEW u \in Callers, Send(u) PROVE tx'[t] = "mined"
  BY <1>2 DEF Send, Rivals
<1>3. ASSUME NEW c \in Claims, MineMint(c) PROVE tx'[t] = "mined"
  <2>1. c \in Callers /\ tx[c] = "pending"
    BY <1>3 DEF MineMint, Callers
  <2>2. tx' = Used(Claims, "mined", c) \/ tx' = Used(Claims, "reverted", c)
    BY <1>3 DEF MineMint
  <2> QED
    BY <1>0, <2>1, <2>2
<1>4. ASSUME OtherTransaction PROVE tx'[t] = "mined"
  <2>1. tx' = Used(Claims, "none", None) /\ None \notin Callers
    BY <1>4 DEF OtherTransaction, Callers
  <2> QED
    BY <1>0, <2>1
<1>5. ASSUME NEW r \in Requests, MineTransfer(r) \/ TransferReverts(r) PROVE tx'[t] = "mined"
  <2>1. CASE tx[r] = "pending" /\ (tx' = Used(Requests, "mined", r) \/ tx' = Used(Requests, "reverted", r))
    BY <1>0, <2>1 DEF Callers
  <2>2. CASE pc[r] = "send" /\ tx' = [tx EXCEPT ![r] = "reverted"]
    BY <2>2 DEF Callers
  <2> QED
    BY <1>5, <2>1, <2>2 DEF MineTransfer, TransferReverts
<1>6. ASSUME Restart PROVE tx'[t] = "mined"
  BY <1>6 DEF Restart
<1>7. CASE UNCHANGED tx
  BY <1>7
<1>8. \/ UNCHANGED tx
      \/ \E u \in Callers : ReadNonce(u) \/ SendFails(u) \/ RpcFails(u) \/ Send(u)
      \/ \E c \in Claims : MineMint(c)
      \/ OtherTransaction
      \/ \E r \in Requests : MineTransfer(r) \/ TransferReverts(r)
      \/ Restart
  BY DEF Next, vars, ClaimStep, SendTransfer, Callers, Claim, MintReceipt, MintFails, Verify,
         VerifyNonce, VerifyBalance, SettleReceipt, Tick
<1> QED
  BY <1>1, <1>2, <1>3, <1>4, <1>5, <1>6, <1>7, <1>8

\* What is not a claim's beginning or receipt leaves the answers alone.
Quiet ==
  /\ UNCHANGED <<wallet, names, cache, answeredAt>>
  /\ now' \in Nat /\ now' >= now
  /\ \A c \in Claims :
       /\ startedAt'[c] = startedAt[c] /\ seen'[c] = seen[c]
       /\ \/ pc'[c] = pc[c]
          \/ pc[c] \in {"state", "balance", "nonce", "send", "wait"}
             /\ pc'[c] \in {"send", "wait", "failed"}

LEMMA QuietSteps ==
  ASSUME TypeInv, [Next]_vars
  PROVE  \/ Quiet
         \/ \E c \in Claims : MintReceipt(c) \/ \E w \in Wallets : Claim(c, w)
         \/ Restart
<1> USE DEF TypeInv, TypeOK, Sending, Goto, Callers, Quiet, history
<1>1. ASSUME NEW t \in Callers, ReadNonce(t) \/ SendFails(t) \/ RpcFails(t) \/ Send(t) PROVE Quiet
  BY <1>1 DEF ReadNonce, SendFails, RpcFails, Send
<1>2. ASSUME NEW c \in Claims, MintFails(c) \/ MineMint(c) PROVE Quiet
  BY <1>2 DEF MintFails, MineMint
<1>3. ASSUME NEW r \in Requests, VerifyNonce(r) \/ VerifyBalance(r) \/ SettleReceipt(r) PROVE Quiet
  BY <1>3 DEF VerifyNonce, VerifyBalance, SettleReceipt
<1>4. ASSUME NEW r \in Requests, NEW v \in Vouchers, Verify(r, v) PROVE Quiet
  BY <1>4 DEF Verify
<1>5. ASSUME NEW r \in Requests, TransferReverts(r) \/ MineTransfer(r) PROVE Quiet
  BY <1>5 DEF TransferReverts, MineTransfer
<1>6. CASE UNCHANGED vars \/ OtherTransaction \/ Tick
  BY <1>6 DEF vars, OtherTransaction, Tick
<1> QED
  BY <1>1, <1>2, <1>3, <1>4, <1>5, <1>6 DEF Next, ClaimStep, SendTransfer

LEMMA MintStep ==
  ASSUME MintInv, [Next]_vars
  PROVE  MintAnswersTrue' /\ CacheTrue'
<1> USE DEF MintInv, TypeInv, TypeOK, Sending, HasWallet, MintAnswersTrue, CacheTrue
<1>1. \A c \in Claims : tx[c] = "mined" => tx'[c] = "mined"
  BY MinedStays DEF Callers
<1>2. CASE Quiet
  BY <1>1, <1>2 DEF Quiet
<1> USE DEF Callers
<1>3. ASSUME NEW c \in Claims, NEW w \in Wallets, Claim(c, w)
      PROVE  MintAnswersTrue' /\ CacheTrue'
  BY <1>1, <1>3 DEF Claim, Recent, Goto
<1>4. ASSUME NEW c \in Claims, MintReceipt(c)
      PROVE  MintAnswersTrue' /\ CacheTrue'
  BY <1>1, <1>4 DEF MintReceipt, Goto
<1>5. ASSUME Restart
      PROVE  MintAnswersTrue' /\ CacheTrue'
  BY <1>1, <1>5 DEF Restart
<1> QED
  BY <1>2, <1>3, <1>4, <1>5, QuietSteps

\* The faucet's answers are true: a claim that is told of a mint is told of
\* one of its own wallet that took place, whatever fails and is restarted.
THEOREM AnswersAreTrue == Spec => []MintAnswersTrue
<1>1. Init => MintInv
  BY TypeInit DEF Init, MintInv, MintAnswersTrue, CacheTrue, Callers
<1>2. MintInv /\ [Next]_vars => MintInv'
  BY TypeStep, MintStep DEF MintInv
<1>3. MintInv => MintAnswersTrue
  BY DEF MintInv
<1> QED
  BY <1>1, <1>2, <1>3, PTL DEF Spec

-----------------------------------------------------------------------------
(* One mint in a window.                                                   *)

\* The cache remembers the last mint of every wallet that was answered since
\* the orchestrator started.
Remembered ==
  \A c \in Claims : pc[c] = "ok" =>
    /\ cache[wallet[c]].claim # None
    /\ answeredAt[c] <= cache[wallet[c]].at
    /\ answeredAt[c] <= now

\* The claims that were over when another started.
SeenOver == \A d \in Claims : \A c \in seen[d] \cap Claims : pc[c] \in {"ok", "gone"}

\* Who was not referred to an earlier mint came after its window.
Apart ==
  \A c, d \in Claims :
    /\ wallet[c] = wallet[d] /\ c \in seen[d]
    /\ pc[c] = "ok" /\ pc[d] \notin {"idle", "deduped"}
    => startedAt[d] > answeredAt[c] + Window

WindowInv == TypeInv /\ Remembered /\ SeenOver /\ Apart

LEMMA WindowStep ==
  ASSUME WindowInv, [Next]_vars
  PROVE  Remembered' /\ SeenOver' /\ Apart'
<1> USE DEF WindowInv, TypeInv, TypeOK, HasWallet, Remembered, SeenOver, Apart
<1>1. CASE Quiet
  <2>1. UNCHANGED <<wallet, cache, answeredAt>> /\ now' \in Nat /\ now' >= now
    BY <1>1 DEF Quiet
  <2>2. \A c \in Claims : startedAt'[c] = startedAt[c] /\ seen'[c] = seen[c]
    BY <1>1 DEF Quiet
  <2>3. \A c \in Claims :
          /\ pc'[c] = "ok" <=> pc[c] = "ok"
          /\ pc'[c] = "gone" <=> pc[c] = "gone"
          /\ pc'[c] \in {"idle", "deduped"} <=> pc[c] \in {"idle", "deduped"}
    BY <1>1 DEF Quiet
  <2>4. Remembered'
    BY <2>1, <2>3
  <2>5. SeenOver'
    BY <2>2, <2>3
  <2>6. Apart'
    BY <2>1, <2>2, <2>3
  <2> QED
    BY <2>4, <2>5, <2>6
<1> USE DEF Callers
<1>2. ASSUME NEW d \in Claims, NEW w \in Wallets, Claim(d, w)
      PROVE  Remembered' /\ SeenOver' /\ Apart'
  <2>1. /\ pc[d] = "idle"
        /\ pc' = [pc EXCEPT ![d] = IF Recent(w) THEN "deduped" ELSE IF key = "none" THEN "failed" ELSE "nonce"]
        /\ wallet' = [wallet EXCEPT ![d] = w]
        /\ startedAt' = [startedAt EXCEPT ![d] = now]
        /\ seen' = [seen EXCEPT ![d] = {c \in Claims : pc[c] = "ok"}]
        /\ UNCHANGED <<now, cache, answeredAt>>
    BY <1>2 DEF Claim, Goto
  <2>2. Remembered'
    BY <2>1
  <2>3. SeenOver'
    BY <2>1
  <2>4. ASSUME NEW c \in Claims, c \in seen'[d], pc'[c] = "ok", wallet'[c] = w, ~Recent(w)
        PROVE  now > answeredAt[c] + Window
    <3>1. c # d /\ pc[c] = "ok" /\ wallet[c] = w
      BY <2>1, <2>4
    <3>2. answeredAt[c] <= cache[w].at /\ ~(now - cache[w].at <= Window)
      BY <2>4, <3>1 DEF Recent
    <3>3. answeredAt[c] \in Nat /\ cache[w].at \in Nat /\ now \in Nat /\ Window \in Nat
      OBVIOUS
    <3> QED
      BY <3>2, <3>3
  <2>5. ASSUME NEW c \in Claims, NEW e \in Claims, wallet'[c] = wallet'[e], c \in seen'[e],
               pc'[c] = "ok", pc'[e] \notin {"idle", "deduped"}
        PROVE  startedAt'[e] > answeredAt'[c] + Window
    <3>1. CASE e = d
      BY <2>1, <2>4, <2>5, <3>1
    <3>2. CASE e # d
      BY <2>1, <2>5, <3>2
    <3> QED
      BY <3>1, <3>2
  <2> QED
    BY <2>2, <2>3, <2>5
<1>3. ASSUME NEW c \in Claims, MintReceipt(c)
      PROVE  Remembered' /\ SeenOver' /\ Apart'
  <2>1. /\ pc[c] = "wait" /\ pc' = [pc EXCEPT ![c] = "ok"]
        /\ cache' = [cache EXCEPT ![wallet[c]] = [claim |-> c, at |-> now]]
        /\ answeredAt' = [answeredAt EXCEPT ![c] = now]
        /\ UNCHANGED <<now, wallet, startedAt, seen>>
    BY <1>3 DEF MintReceipt, Goto
  <2>2. wallet[c] \in Wallets
    BY <2>1
  <2>3. Remembered'
    BY <2>1, <2>2
  <2>4. SeenOver' /\ Apart'
    BY <2>1
  <2> QED
    BY <2>3, <2>4
<1>4. ASSUME Restart
      PROVE  Remembered' /\ SeenOver' /\ Apart'
  <2>1. /\ \A d \in Claims : pc'[d] \in {"idle", "gone"}
        /\ \A d \in Claims : pc[d] # "idle" => pc'[d] = "gone"
        /\ UNCHANGED seen
    BY <1>4 DEF Restart, history
  <2> QED
    BY <2>1
<1> QED
  BY <1>1, <1>2, <1>3, <1>4, QuietSteps

\* Between two mints of a wallet that were answered one after the other by one
\* process lies more than the window of MINT_DEDUPE_WINDOW_S.
THEOREM WindowIsKept == Spec => []OneMintAWindow
<1>1. Init => WindowInv
  BY TypeInit DEF Init, WindowInv, Remembered, SeenOver, Apart, Callers
<1>2. WindowInv /\ [Next]_vars => WindowInv'
  BY TypeStep, WindowStep DEF WindowInv
<1>3. WindowInv => OneMintAWindow
  BY DEF WindowInv, TypeInv, Sending, Apart, OneMintAWindow, Callers
<1> QED
  BY <1>1, <1>2, <1>3, PTL DEF Spec

-----------------------------------------------------------------------------
(* What a verified voucher is refused for.                                 *)

\* Another request of the wallet was paid since this one was made.
PaidSince(r) ==
  \E q \in Requests \ {r} :
    tx[q] = "mined" /\ q \notin seen[r] /\ voucher[q].from = voucher[r].from

\* Past /verify, and not yet mined or reverted.
Checked(r) == pc[r] = "nonce" \/ tx[r] \in {"read", "stale", "pending"}

Signed     == \A r \in Requests :
                pc[r] \in {"state", "balance"} \/ Checked(r) => voucher[r].domain = "USDC"
Begun      == \A r \in Requests : startedAt[r] <= now
SeenPaid   == \A r \in Requests : \A q \in seen[r] \cap Requests : tx[q] = "mined"
NonceFree  == \A r \in Requests :
                pc[r] = "balance" \/ Checked(r) =>
                  PaidSince(r) \/ <<voucher[r].from, voucher[r].nonce>> \notin usedNonces
CanPay     == \A r \in Requests :
                Checked(r) => PaidSince(r) \/ balance[voucher[r].from] >= voucher[r].value

VoucherInv == TypeInv /\ Signed /\ Begun /\ SeenPaid /\ NonceFree /\ CanPay

\* What was paid since stays so.
LEMMA PaidSinceStays ==
  ASSUME TypeInv, [Next]_vars, NEW r \in Requests, pc[r] # "idle", PaidSince(r),
         seen'[r] = seen[r], \A q \in Requests : pc[q] # "idle" => voucher'[q] = voucher[q]
  PROVE  PaidSince(r)'
<1>1. PICK q \in Requests \ {r} : tx[q] = "mined" /\ q \notin seen[r] /\ voucher[q].from = voucher[r].from
  BY DEF PaidSince
<1>2. tx'[q] = "mined" /\ pc[q] # "idle"
  BY <1>1, MinedStays DEF TypeInv, Sending, Callers
<1> QED
  BY <1>1, <1>2 DEF PaidSince

\* A step that neither begins a request nor mines or sends its transaction.
Passing ==
  /\ \A r \in Requests :
       /\ startedAt'[r] = startedAt[r] /\ seen'[r] = seen[r] /\ voucher'[r] = voucher[r]
       /\ Checked(r)' => Checked(r)
       /\ pc'[r] = "balance" => pc[r] = "balance"
       /\ pc'[r] = "state" => pc[r] = "state"
  /\ now' \in Nat /\ now' >= now
  /\ usedNonces' = usedNonces
  /\ \A w \in Wallets : balance'[w] >= balance[w]

LEMMA PassingSteps ==
  ASSUME TypeInv, [Next]_vars
  PROVE  \/ Passing
         \/ \E r \in Requests :
              VerifyNonce(r) \/ VerifyBalance(r) \/ MineTransfer(r) \/ \E v \in Vouchers : Verify(r, v)
<1> USE DEF TypeInv, TypeOK, Sending, Goto, Callers, Passing, Checked, history
<1>1. ASSUME NEW t \in Callers, ReadNonce(t) PROVE Passing
  BY <1>1 DEF ReadNonce
<1>2. ASSUME NEW t \in Callers, SendFails(t) PROVE Passing
  BY <1>2 DEF SendFails
<1>3. ASSUME NEW t \in Callers, RpcFails(t) PROVE Passing
  BY <1>3 DEF RpcFails
<1>4. ASSUME NEW t \in Callers, Send(t) PROVE Passing
  BY <1>4 DEF Send, Rivals
<1>5. ASSUME NEW c \in Claims, MintFails(c) \/ MintReceipt(c) PROVE Passing
  BY <1>5 DEF MintFails, MintReceipt
<1>6. ASSUME NEW c \in Claims, NEW w \in Wallets, Claim(c, w) PROVE Passing
  BY <1>6 DEF Claim
<1>7. ASSUME NEW S, NEW s \in {"none", "mined", "reverted"}, NEW t \in Callers \cup {None},
             tx' = Used(S, s, t), UNCHANGED pc, NEW r \in Requests, Checked(r)'
      PROVE  Checked(r)
  BY <1>7 DEF Used
<1>8. ASSUME NEW c \in Claims, MineMint(c) PROVE Passing
  <2>1. tx' = Used(Claims, "mined", c) \/ tx' = Used(Claims, "reverted", c)
    BY <1>8 DEF MineMint
  <2>2. UNCHANGED <<now, pc, voucher, usedNonces, history>>
    BY <1>8 DEF MineMint
  <2>3. \A w \in Wallets : balance'[w] >= balance[w]
    BY <1>8 DEF MineMint
  <2>4. \A r \in Requests : Checked(r)' => Checked(r)
    BY <2>1, <2>2, <1>7
  <2> QED
    BY <2>2, <2>3, <2>4
<1>9. ASSUME OtherTransaction PROVE Passing
  <2>1. tx' = Used(Claims, "none", None)
    BY <1>9 DEF OtherTransaction
  <2>2. UNCHANGED <<now, pc, voucher, balance, usedNonces, history>>
    BY <1>9 DEF OtherTransaction
  <2>3. \A r \in Requests : Checked(r)' => Checked(r)
    BY <2>1, <2>2, <1>7
  <2> QED
    BY <2>2, <2>3
<1>10. ASSUME Restart PROVE Passing
  BY <1>10 DEF Restart
<1>11. CASE UNCHANGED vars \/ Tick
  BY <1>11 DEF vars, Tick
<1>12. ASSUME NEW r \in Requests, TransferReverts(r) PROVE Passing
  <2>1. CASE tx' = Used(Requests, "reverted", r) /\ UNCHANGED pc
    <3>1. UNCHANGED <<now, voucher, balance, usedNonces, history>>
      BY <1>12 DEF TransferReverts
    <3>2. \A q \in Requests : Checked(q)' => Checked(q)
      BY <2>1, <1>7
    <3> QED
      BY <2>1, <3>1, <3>2
  <2>2. CASE tx' = [tx EXCEPT ![r] = "reverted"] /\ Goto(r, "refused")
    BY <1>12, <2>2 DEF TransferReverts
  <2> QED
    BY <1>12, <2>1, <2>2 DEF TransferReverts
<1>13. ASSUME NEW r \in Requests, SettleReceipt(r) PROVE Passing
  BY <1>13 DEF SettleReceipt
<1> QED
  BY <1>1, <1>2, <1>3, <1>4, <1>5, <1>6, <1>8, <1>9, <1>10, <1>11, <1>12, <1>13
     DEF Next, ClaimStep, SendTransfer

\* Whoever is past the first check of /verify has signed as the challenge says.
LEMMA SignedStep ==
  ASSUME TypeInv, Signed, [Next]_vars
  PROVE  Signed'
<1> USE DEF TypeInv, TypeOK, Sending, Callers, Goto, Checked
<1>1. CASE Passing
  BY <1>1 DEF Passing, Signed
<1>2. ASSUME NEW r \in Requests, NEW v \in Vouchers, Verify(r, v) PROVE Signed'
  <2>1. /\ pc[r] = "idle" /\ tx' = tx /\ voucher'[r] = v
        /\ pc'[r] = "state" \/ pc'[r] = "rejected"
        /\ pc'[r] = "state" => v.domain = "USDC"
        /\ \A q \in Requests \ {r} : pc'[q] = pc[q] /\ voucher'[q] = voucher[q]
    BY <1>2 DEF Verify
  <2>2. tx[r] = "none"
    BY <2>1
  <2> QED
    BY <2>1, <2>2 DEF Signed
<1>3. ASSUME NEW r \in Requests, VerifyNonce(r) \/ VerifyBalance(r) PROVE Signed'
  BY <1>3 DEF VerifyNonce, VerifyBalance, Signed
<1>4. ASSUME NEW r \in Requests, MineTransfer(r) PROVE Signed'
  BY <1>4 DEF MineTransfer, Used, Signed
<1> QED
  BY <1>1, <1>2, <1>3, <1>4, PassingSteps

LEMMA VoucherStep ==
  ASSUME VoucherInv, [Next]_vars
  PROVE  Begun' /\ SeenPaid' /\ NonceFree' /\ CanPay'
<1> USE DEF VoucherInv
<1>1. \A q \in Requests : tx[q] = "mined" => tx'[q] = "mined"
  BY MinedStays DEF Callers
<1>2. ASSUME NEW r \in Requests, pc[r] # "idle", PaidSince(r),
             seen'[r] = seen[r], \A q \in Requests : pc[q] # "idle" => voucher'[q] = voucher[q]
      PROVE  PaidSince(r)'
  BY <1>2, PaidSinceStays
<1>3. \A r \in Requests : pc[r] = "balance" \/ Checked(r) => pc[r] # "idle" /\ tx[r] # "mined"
  BY DEF TypeInv, TypeOK, Sending, Callers, Checked
<1>4. \A r \in Requests : pc[r] # "idle" =>
        voucher[r].from \in Wallets /\ voucher[r].value \in Nat
  BY DEF TypeInv, HasVoucher
<1>5. CASE Passing
  <2>1. Begun'
    BY <1>5 DEF Passing, Begun, TypeInv, TypeOK, Callers
  <2>2. SeenPaid'
    BY <1>1, <1>5 DEF Passing, SeenPaid
  <2>3. NonceFree'
    BY <1>2, <1>3, <1>5 DEF Passing, NonceFree
  <2>4. \A w \in Wallets : balance[w] \in Nat /\ balance'[w] \in Nat
    BY TypeStep DEF TypeInv, TypeOK
  <2>5. CanPay'
    BY <1>2, <1>3, <1>4, <1>5, <2>4 DEF Passing, CanPay
  <2> QED
    BY <2>1, <2>2, <2>3, <2>5
<1> USE DEF TypeInv, TypeOK, Callers, Goto, history
<1>6. ASSUME NEW r \in Requests, NEW v \in Vouchers, Verify(r, v)
      PROVE  Begun' /\ SeenPaid' /\ NonceFree' /\ CanPay'
  <2>1. /\ pc[r] = "idle" /\ UNCHANGED <<now, tx, balance, usedNonces>>
        /\ voucher' = [voucher EXCEPT ![r] = v]
        /\ startedAt' = [startedAt EXCEPT ![r] = now]
        /\ seen' = [seen EXCEPT ![r] = {q \in Requests : tx[q] = "mined"}]
        /\ pc'[r] \in {"state", "rejected"}
        /\ \A q \in Requests \ {r} : pc'[q] = pc[q]
    BY <1>6 DEF Verify
  <2>2. Begun' /\ SeenPaid'
    BY <2>1 DEF Begun, SeenPaid
  <2>3. tx[r] = "none"
    BY <2>1 DEF Sending
  <2>4. \A q \in Requests : (pc'[q] = "balance" => pc[q] = "balance" /\ q # r) /\ (Checked(q)' => Checked(q) /\ q # r)
    BY <2>1, <2>3 DEF Checked
  <2>5. \A q \in Requests \ {r} : seen'[q] = seen[q] /\ voucher'[q] = voucher[q]
    BY <2>1
  <2>6. NonceFree' /\ CanPay'
    BY <1>2, <1>3, <2>1, <2>4, <2>5 DEF NonceFree, CanPay
  <2> QED
    BY <2>2, <2>6
<1>7. ASSUME NEW r \in Requests, VerifyNonce(r) \/ VerifyBalance(r)
      PROVE  Begun' /\ SeenPaid' /\ NonceFree' /\ CanPay'
  <2>1. UNCHANGED <<now, voucher, tx, balance, usedNonces, startedAt, seen>>
    BY <1>7 DEF VerifyNonce, VerifyBalance
  <2>2. \A q \in Requests \ {r} : pc'[q] = pc[q]
    BY <1>7 DEF VerifyNonce, VerifyBalance
  <2>3. \A q \in Requests : PaidSince(q)' <=> PaidSince(q)
    BY <2>1 DEF PaidSince
  <2>4. CASE VerifyNonce(r)
    <3>1. /\ pc[r] = "state" /\ pc'[r] \in {"rejected", "balance"}
          /\ pc'[r] = "balance" => <<voucher[r].from, voucher[r].nonce>> \notin usedNonces
      BY <2>4 DEF VerifyNonce
    <3> QED
      BY <2>1, <2>2, <2>3, <3>1 DEF Begun, SeenPaid, NonceFree, CanPay, Checked
  <2>5. CASE VerifyBalance(r)
    <3>1. /\ pc[r] = "balance" /\ pc'[r] \in {"rejected", "nonce"}
          /\ pc'[r] = "nonce" => ~(balance[voucher[r].from] < voucher[r].value)
      BY <2>5 DEF VerifyBalance
    <3>2. balance[voucher[r].from] \in Nat
      BY <1>4, <3>1
    <3>3. pc'[r] = "nonce" => balance[voucher[r].from] >= voucher[r].value
      BY <1>4, <3>1, <3>2
    <3>4. NonceFree'
      BY <2>1, <2>2, <2>3, <3>1 DEF NonceFree, Checked
    <3>5. CanPay'
      BY <2>1, <2>2, <2>3, <3>1, <3>3 DEF CanPay, Checked
    <3> QED
      BY <2>1, <3>4, <3>5 DEF Begun, SeenPaid
  <2> QED
    BY <1>7, <2>4, <2>5
<1>8. ASSUME NEW r \in Requests, MineTransfer(r)
      PROVE  Begun' /\ SeenPaid' /\ NonceFree' /\ CanPay'
  <2>1. /\ tx[r] = "pending" /\ tx' = Used(Requests, "mined", r)
        /\ balance' = [balance EXCEPT ![voucher[r].from] = @ - voucher[r].value]
        /\ usedNonces' = usedNonces \cup {<<voucher[r].from, voucher[r].nonce>>}
        /\ UNCHANGED <<now, pc, voucher, startedAt, seen>>
    BY <1>8 DEF MineTransfer
  <2>2. tx'[r] = "mined"
    BY <2>1 DEF Used
  <2>3. \A q \in Requests : Checked(q)' => Checked(q) /\ q # r
    BY <2>1, <2>2 DEF Checked, Used, Sending
  <2>4. pc[r] # "balance"
    BY <2>1 DEF Sending
  <2>5. \A q \in Requests \ {r} : pc[q] # "idle" /\ voucher[q].from = voucher[r].from => PaidSince(q)'
    BY <2>1, <2>2 DEF SeenPaid, PaidSince
  <2>6. \A q \in Requests : pc[q] # "idle" /\ PaidSince(q) => PaidSince(q)'
    BY <1>2, <2>1
  <2>7. Begun' /\ SeenPaid'
    BY <1>1, <2>1 DEF Begun, SeenPaid
  <2>8. NonceFree'
    BY <1>3, <2>1, <2>3, <2>4, <2>5, <2>6 DEF NonceFree
  <2>9. \A q \in Requests : voucher[q].from # voucher[r].from => balance'[voucher[q].from] = balance[voucher[q].from]
    BY <2>1
  <2>10. CanPay'
    BY <1>3, <2>1, <2>3, <2>5, <2>6, <2>9 DEF CanPay
  <2> QED
    BY <2>7, <2>8, <2>10
<1> QED
  BY <1>5, <1>6, <1>7, <1>8, PassingSteps

\* The step that reverts a transfer finds it signed under another name than the
\* token's, expired, not yet open, or with a nonce or a balance that another
\* request has used.
LEMMA RefusalStep ==
  ASSUME VoucherInv, [Next]_vars, NEW r \in Requests, tx[r] # "reverted", tx'[r] = "reverted"
  PROVE  \/ domain # "USDC"
         \/ now + Skew >= voucher[r].before
         \/ voucher[r].after + Skew >= startedAt[r]
         \/ PaidSince(r)
<1> USE DEF VoucherInv, TypeInv, TypeOK, Sending, Callers, history
<1>1. TransferReverts(r)
  <2>1. ASSUME NEW t \in Callers, ReadNonce(t) \/ SendFails(t) \/ RpcFails(t) \/ Send(t) PROVE FALSE
    BY <2>1 DEF ReadNonce, SendFails, RpcFails, Send, Rivals
  <2>2. ASSUME NEW S, NEW s, NEW t \in Callers \cup {None}, tx' = Used(S, s, t)
        PROVE  t = r /\ s = "reverted"
    BY <2>2 DEF Used
  <2>3. ASSUME NEW c \in Claims, MineMint(c) PROVE FALSE
    <3>1. tx' = Used(Claims, "mined", c) \/ tx' = Used(Claims, "reverted", c)
      BY <2>3 DEF MineMint
    <3> QED
      BY <2>2, <3>1
  <2>4. ASSUME OtherTransaction PROVE FALSE
    BY <2>2, <2>4 DEF OtherTransaction
  <2>5. ASSUME NEW q \in Requests, MineTransfer(q) PROVE FALSE
    BY <2>2, <2>5 DEF MineTransfer
  <2>6. ASSUME NEW q \in Requests, TransferReverts(q) PROVE q = r
    <3>1. CASE tx' = Used(Requests, "reverted", q)
      BY <2>2, <3>1
    <3>2. CASE tx' = [tx EXCEPT ![q] = "reverted"]
      BY <3>2
    <3> QED
      BY <2>6, <3>1, <3>2 DEF TransferReverts
  <2>7. ASSUME Restart PROVE FALSE
    BY <2>7 DEF Restart
  <2>8. UNCHANGED tx => FALSE
    OBVIOUS
  <2>9. \/ UNCHANGED tx
        \/ \E t \in Callers : ReadNonce(t) \/ SendFails(t) \/ RpcFails(t) \/ Send(t)
        \/ \E c \in Claims : MineMint(c)
        \/ OtherTransaction
        \/ \E q \in Requests : MineTransfer(q) \/ TransferReverts(q)
        \/ Restart
    BY DEF Next, vars, ClaimStep, SendTransfer, Claim, MintReceipt, MintFails, Verify,
           VerifyNonce, VerifyBalance, SettleReceipt, Tick
  <2> QED
    BY <2>1, <2>3, <2>4, <2>5, <2>6, <2>7, <2>8, <2>9
<1>2. PICK b \in BlockTimes : ~Transferable(voucher[r], b)
  BY <1>1 DEF TransferReverts
<1>3. Checked(r) /\ pc[r] # "idle"
  BY <1>1 DEF TransferReverts, Checked
<1>4. /\ b \in Int /\ now - Skew <= b /\ b <= now + Skew
      /\ now \in Nat /\ Skew \in Nat /\ startedAt[r] \in Nat /\ startedAt[r] <= now
  BY <1>2 DEF BlockTimes, Begun
<1>5. voucher[r] \in Vouchers
  BY <1>3 DEF HasVoucher
<1>6. voucher[r].after \in Nat /\ voucher[r].before \in Nat
  BY <1>5
<1>7. \/ domain # "USDC"
      \/ PaidSince(r) \/ ~(voucher[r].after < b) \/ ~(b < voucher[r].before)
  BY <1>2, <1>3 DEF Transferable, Signed, NonceFree, CanPay
<1> QED
  BY <1>4, <1>6, <1>7

\* What a verified voucher is refused for, whatever fails and whoever else
\* claims and pays: /verify's promise to /settle.
THEOREM RefusalsAreExplained == Spec => RefusalsExplained
<1>1. Init => VoucherInv
  BY TypeInit DEF Init, VoucherInv, Signed, Begun, SeenPaid, NonceFree, CanPay, Checked, Callers
<1>2. VoucherInv /\ [Next]_vars => VoucherInv'
  BY TypeStep, SignedStep, VoucherStep DEF VoucherInv
<1>3. VoucherInv /\ [Next]_vars =>
        [\A r \in Requests :
           tx[r] # "reverted" /\ tx'[r] = "reverted" =>
             \/ domain # "USDC"
             \/ now + Skew >= voucher[r].before
             \/ voucher[r].after + Skew >= startedAt[r]
             \/ \E q \in Requests \ {r} :
                  tx[q] = "mined" /\ q \notin seen[r] /\ voucher[q].from = voucher[r].from]_vars
  BY RefusalStep DEF PaidSince
<1> QED
  BY <1>1, <1>2, <1>3, PTL DEF Spec, RefusalsExplained
=============================================================================
