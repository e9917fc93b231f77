-------------------------- MODULE InferPaymentProofs --------------------------
(***************************************************************************)
(* What a paid inference ensures for any number of requests, vouchers and  *)
(* payment pools.                                                          *)
(***************************************************************************)
EXTENDS InferPayment, TLAPS

USE PaymentAssumption

\* The handler that opens a flow has read a payment pool to open it in.
OpensInPool == \A r \in Requests : pc[r] = "open" => at[r] # 0


\* A handler past Ask has a voucher.
HasVoucher == \A r \in Requests : pc[r] # "idle" => voucher[r] \in Vouchers

TypeInv == TypeOK /\ OpensInPool /\ HasVoucher

LEMMA TypeInit == Init => TypeInv
BY DEF Init, TypeInv, TypeOK, OpensInPool, HasVoucher, Pools

LEMMA TypeStep ==
  ASSUME TypeInv, [Next]_vars
  PROVE  TypeInv'
<1> USE DEF TypeInv, TypeOK, OpensInPool, HasVoucher, Pools, Steps, PaymentStates
<1>1. CASE UNCHANGED vars
  BY <1>1 DEF vars, handlerVars, chainVars, moneyVars
<1> USE DEF handlerVars, chainVars, moneyVars, Goto, ReadPool
<1>2. ASSUME NEW r \in Requests, Ask(r) PROVE TypeInv'
  BY <1>2 DEF Ask
<1>3. ASSUME NEW r \in Requests, Verify(r) PROVE TypeInv'
  BY <1>3 DEF Verify
<1>4. ASSUME NEW r \in Requests, Record(r) PROVE TypeInv'
  BY <1>4 DEF Record
<1>5. ASSUME NEW r \in Requests, OpenFlow(r) PROVE TypeInv'
  <2>1. flow' \in [Pools -> Requests \cup {None}] /\ limbo' = {}
    BY <1>5 DEF OpenFlow, SetFlow
  <2>2. /\ tasks' = tasks \cup {[req |-> r, state |-> "streaming"]}
        /\ pc[r] = "open" /\ pc' = [pc EXCEPT ![r] = "infer"]
        /\ UNCHANGED <<kind, voucher, outcome, at, payment, pp, busy, used, paid>>
    BY <1>5 DEF OpenFlow, SetFlow, CreateTask
  <2> QED BY <2>1, <2>2
<1>6. ASSUME NEW r \in Requests, OpenFlowFails(r) PROVE TypeInv'
  <2>1. limbo' \subseteq [pool : Pools, rate : Requests \cup {None}]
    BY <1>6 DEF OpenFlowFails, SetFlowFails
  <2>2. /\ pc[r] # "idle" /\ pc' = [pc EXCEPT ![r] = "ended"]
        /\ UNCHANGED <<kind, voucher, outcome, at, payment, tasks, pp, flow, busy, used, paid>>
    BY <1>6 DEF OpenFlowFails, SetFlowFails
  <2> QED BY <2>1, <2>2
<1>7. ASSUME NEW r \in Requests, Post(r) PROVE TypeInv'
  <2>1. CASE busy = None
    BY <1>7, <2>1 DEF Post
  <2>2. CASE busy # None
    <3>1. /\ pc[r] = "infer" /\ pc' = [pc EXCEPT ![r] = "close"]
          /\ outcome' = [outcome EXCEPT ![r] = "raised"]
          /\ at' = [at EXCEPT ![r] = pp]
          /\ UNCHANGED <<kind, voucher, payment, tasks, pp, flow, limbo, busy, used, paid>>
      BY <1>7, <2>2 DEF Post, ToClose
    <3> QED BY <3>1
  <2> QED BY <2>1, <2>2
<1>8. ASSUME NEW r \in Requests, Generated(r) PROVE TypeInv'
  BY <1>8 DEF Generated, ToClose
<1>9. ASSUME NEW r \in Requests, GenerationFails(r) PROVE TypeInv'
  BY <1>9 DEF GenerationFails, ToClose
<1>10. ASSUME NEW r \in Requests, CloseFlow(r) PROVE TypeInv'
  <2>1. /\ flow' \in [Pools -> Requests \cup {None}]
        /\ limbo' \subseteq limbo
        /\ tasks' \subseteq tasks \cup {[req |-> r, state |-> "stopped"]}
    BY <1>10 DEF CloseFlow, SetFlow, CreateTask
  <2>2. AfterClose(r) \in {"settle", "markOrphaned", "ended"}
    BY DEF AfterClose
  <2>3. /\ pc[r] # "idle" /\ pc' = [pc EXCEPT ![r] = AfterClose(r)]
        /\ UNCHANGED <<kind, voucher, outcome, at, payment, pp, busy, used, paid>>
    BY <1>10 DEF CloseFlow, SetFlow
  <2> QED BY <2>1, <2>2, <2>3
<1>11. ASSUME NEW r \in Requests, CloseFlowFails(r) PROVE TypeInv'
  <2>1. limbo' \subseteq [pool : Pools, rate : Requests \cup {None}]
    BY <1>11 DEF CloseFlowFails, SetFlowFails
  <2>2. /\ pc[r] # "idle" /\ pc' = [pc EXCEPT ![r] = "ended"]
        /\ UNCHANGED <<kind, voucher, outcome, at, payment, tasks, pp, flow, busy, used, paid>>
    BY <1>11 DEF CloseFlowFails, SetFlowFails
  <2> QED BY <2>1, <2>2
<1>12. ASSUME NEW r \in Requests, Settle(r) PROVE TypeInv'
  <2>1. used' \subseteq Vouchers /\ paid' \subseteq Requests
    BY <1>12 DEF Settle, Transfer
  <2>2. /\ pc[r] # "idle"
        /\ \E s \in {"markSettled", "markOrphaned"} : pc' = [pc EXCEPT ![r] = s]
        /\ UNCHANGED <<kind, voucher, outcome, at, payment, tasks, pp, flow, limbo, busy>>
    BY <1>12 DEF Settle
  <2> QED BY <2>1, <2>2
<1>13. ASSUME NEW r \in Requests, SettleUnclear(r) PROVE TypeInv'
  <2>1. used' \subseteq Vouchers /\ paid' \subseteq Requests
    BY <1>13 DEF SettleUnclear, Transfer
  <2>2. /\ pc[r] # "idle"
        /\ \E s \in {"ended", "markOrphaned"} : pc' = [pc EXCEPT ![r] = s]
        /\ UNCHANGED <<kind, voucher, outcome, at, payment, tasks, pp, flow, limbo, busy>>
    BY <1>13 DEF SettleUnclear
  <2> QED BY <2>1, <2>2
<1>14. ASSUME NEW r \in Requests, MarkSettled(r) PROVE TypeInv'
  BY <1>14 DEF MarkSettled
<1>15. ASSUME NEW r \in Requests, MarkOrphaned(r) PROVE TypeInv'
  BY <1>15 DEF MarkOrphaned
<1>16. ASSUME NEW r \in Requests, Disconnect(r) PROVE TypeInv'
  <2>1. CASE DisconnectEarly(r)
    <3>1. UNCHANGED <<payment, limbo, used, paid>>
      BY <2>1 DEF DisconnectEarly
    <3>2. at' \in [Requests -> 0 .. MaxPools]
      <4>1. ReadPool(r) \/ at' = at
        BY <2>1 DEF DisconnectEarly
      <4>2. CASE at' = at
        BY <4>2
      <4>3. CASE ReadPool(r)
        BY <4>3
      <4> QED BY <4>1, <4>2, <4>3
    <3>3. /\ pc[r] # "idle"
          /\ \/ pc' = [pc EXCEPT ![r] = "close"]
             \/ pc' = [pc EXCEPT ![r] = "ended"]
          /\ outcome' = [outcome EXCEPT ![r] = "gone"]
          /\ busy' \in {busy, None}
      <4>1. pc[r] # "idle"
        BY <2>1 DEF DisconnectEarly
      <4>2. CASE Gone(r, "close")
        BY <4>1, <4>2 DEF Gone
      <4>3. CASE Gone(r, "ended")
        BY <4>1, <4>3 DEF Gone
      <4>4. Gone(r, "close") \/ Gone(r, "ended")
        BY <2>1 DEF DisconnectEarly
      <4> QED BY <4>2, <4>3, <4>4
    <3>4. UNCHANGED <<kind, voucher, tasks, pp, flow>>
      BY <1>16 DEF Disconnect
    <3>5. \A s \in Requests \ {r} : at'[s] = at[s]
      BY <2>1 DEF DisconnectEarly
    <3> QED BY <3>1, <3>2, <3>3, <3>4, <3>5
  <2>2. CASE DisconnectLate(r)
    <3>1. used' \subseteq Vouchers /\ paid' \subseteq Requests
      BY <2>2 DEF DisconnectLate, Transfer
    <3>2. limbo' \subseteq [pool : Pools, rate : Requests \cup {None}]
      BY <2>2 DEF DisconnectLate
    <3>3. payment' \in [Requests -> PaymentStates \cup {None}]
      BY <2>2 DEF DisconnectLate
    <3>4. /\ pc[r] # "idle" /\ pc' = [pc EXCEPT ![r] = "ended"]
          /\ UNCHANGED <<kind, voucher, outcome, at, tasks, pp, flow, busy>>
      BY <1>16, <2>2 DEF Disconnect, DisconnectLate
    <3> QED BY <3>1, <3>2, <3>3, <3>4
  <2> QED BY <1>16, <2>1, <2>2 DEF Disconnect
<1>17. ASSUME NEW t \in tasks, RunTask(t) PROVE TypeInv'
  BY <1>17 DEF RunTask
<1>18. ASSUME NEW t \in limbo, LimboMined(t) PROVE TypeInv'
  BY <1>18 DEF LimboMined
<1>19. ASSUME NEW t \in limbo, LimboDropped(t) PROVE TypeInv'
  BY <1>19 DEF LimboDropped
<1>20. CASE Provision
  BY <1>20 DEF Provision
<1> QED
  BY <1>1, <1>2, <1>3, <1>4, <1>5, <1>6, <1>7, <1>8, <1>9, <1>10, <1>11, <1>12,
     <1>13, <1>14, <1>15, <1>16, <1>17, <1>18, <1>19, <1>20 DEF Next, Handle

\* The variables take the values InferPayment says they take.
THEOREM TypeCorrect == Spec => []TypeOK
<1>1. Init => TypeInv
  BY TypeInit
<1>2. TypeInv /\ [Next]_vars => TypeInv'
  BY TypeStep
<1>3. TypeInv => TypeOK
  BY DEF TypeInv
<1> QED
  BY <1>1, <1>2, <1>3, PTL DEF Spec
-----------------------------------------------------------------------------
(* Vouchers and settlements.                                               *)

BeforeTransfer ==
  {"idle", "verify", "record", "open", "infer", "generate", "close", "settle"}

\* A request is paid only by its own transfer, which comes after these steps,
\* and the transfer uses its voucher up.
MoneyInv ==
  /\ \A r \in paid : voucher[r] \in used
  /\ \A r \in Requests : pc[r] \in BeforeTransfer => r \notin paid
  /\ \A r \in Requests : pc[r] = "markSettled" => r \in paid
  /\ SettledMeansPaid
  /\ VoucherPaysOnce

LEMMA MoneyInit == Init => MoneyInv
BY DEF Init, MoneyInv, SettledMeansPaid, VoucherPaysOnce, PaymentStates

\* A step that moves no USDC and records no settlement.
LEMMA NoTransfer ==
  ASSUME TypeInv, MoneyInv, NEW r \in Requests, NEW step \in Steps \cup {"ended"},
         pc[r] \in BeforeTransfer \/ step \notin BeforeTransfer,
         step # "markSettled",
         pc' = [pc EXCEPT ![r] = step],
         voucher' = voucher, used' = used, paid' = paid,
         \A s \in Requests : payment'[s] = "settled" => payment[s] = "settled"
  PROVE  MoneyInv'
<1> DEFINE Range == {"idle", "ended"} \cup Steps
<1>0. pc \in [Requests -> Range]
  BY DEF TypeInv, TypeOK
<1>1. /\ pc'[r] = step
      /\ \A s \in Requests \ {r} : pc'[s] = pc[s]
  <2> HIDE DEF Range
  <2> QED BY <1>0
<1>2. SettledMeansPaid' /\ VoucherPaysOnce'
  BY DEF MoneyInv, SettledMeansPaid, VoucherPaysOnce
<1>3. \A s \in Requests : pc'[s] \in BeforeTransfer => s \notin paid'
  BY <1>1 DEF MoneyInv
<1> QED
  BY <1>1, <1>2, <1>3 DEF MoneyInv

LEMMA TransferStep ==
  ASSUME TypeInv, MoneyInv, NEW r \in Requests, pc[r] = "settle", Transfer(r),
         NEW step \in {"markSettled", "markOrphaned", "ended"},
         pc' = [pc EXCEPT ![r] = step], voucher' = voucher, payment' = payment
  PROVE  MoneyInv'
BY DEF TypeInv, TypeOK, MoneyInv, BeforeTransfer, SettledMeansPaid, VoucherPaysOnce, Transfer

LEMMA MoneyStep ==
  ASSUME TypeInv, MoneyInv, [Next]_vars
  PROVE  MoneyInv'
<1> USE DEF Goto, handlerVars, chainVars, moneyVars
<1>1. CASE UNCHANGED vars
  BY <1>1 DEF vars, MoneyInv, BeforeTransfer, SettledMeansPaid, VoucherPaysOnce
<1>2. ASSUME NEW r \in Requests, Ask(r) PROVE MoneyInv'
  BY <1>2 DEF Ask, TypeInv, TypeOK, MoneyInv, BeforeTransfer, SettledMeansPaid, VoucherPaysOnce
<1>3. ASSUME NEW r \in Requests, Verify(r) PROVE MoneyInv'
  BY <1>3, NoTransfer DEF Verify, BeforeTransfer, Steps
<1>4. ASSUME NEW r \in Requests, Record(r) PROVE MoneyInv'
  <2>1. \A s \in Requests : payment'[s] = "settled" => payment[s] = "settled"
    BY <1>4 DEF Record, TypeInv, TypeOK
  <2> QED
    BY <1>4, <2>1, NoTransfer DEF Record, BeforeTransfer, Steps
<1>5. ASSUME NEW r \in Requests, OpenFlow(r) PROVE MoneyInv'
  BY <1>5, NoTransfer DEF OpenFlow, BeforeTransfer, Steps
<1>6. ASSUME NEW r \in Requests, OpenFlowFails(r) PROVE MoneyInv'
  BY <1>6, NoTransfer DEF OpenFlowFails, BeforeTransfer, Steps
<1>7. ASSUME NEW r \in Requests, Post(r) PROVE MoneyInv'
  BY <1>7, NoTransfer DEF Post, ToClose, BeforeTransfer, Steps
<1>8. ASSUME NEW r \in Requests, Generated(r) PROVE MoneyInv'
  BY <1>8, NoTransfer DEF Generated, ToClose, BeforeTransfer, Steps
<1>9. ASSUME NEW r \in Requests, GenerationFails(r) PROVE MoneyInv'
  BY <1>9, NoTransfer DEF GenerationFails, ToClose, BeforeTransfer, Steps
<1>10. ASSUME NEW r \in Requests, CloseFlow(r) PROVE MoneyInv'
  <2>1. AfterClose(r) \in {"settle", "markOrphaned", "ended"}
    BY DEF AfterClose
  <2> QED
    BY <1>10, <2>1, NoTransfer DEF CloseFlow, BeforeTransfer, Steps
<1>11. ASSUME NEW r \in Requests, CloseFlowFails(r) PROVE MoneyInv'
  BY <1>11, NoTransfer DEF CloseFlowFails, BeforeTransfer, Steps
<1>12. ASSUME NEW r \in Requests, Settle(r) PROVE MoneyInv'
  <2>1. CASE Transfer(r) /\ Goto(r, "markSettled")
    BY <1>12, <2>1, TransferStep DEF Settle
  <2>2. CASE Goto(r, "markOrphaned") /\ UNCHANGED moneyVars
    BY <1>12, <2>2, NoTransfer DEF Settle, BeforeTransfer, Steps
  <2> QED
    BY <1>12, <2>1, <2>2 DEF Settle
<1>13. ASSUME NEW r \in Requests, SettleUnclear(r) PROVE MoneyInv'
  <2>1. PICK step \in {"ended", "markOrphaned"} : Goto(r, step)
    BY <1>13 DEF SettleUnclear
  <2>2. CASE Transfer(r)
    BY <1>13, <2>1, <2>2, TransferStep DEF SettleUnclear
  <2>3. CASE UNCHANGED moneyVars
    BY <1>13, <2>1, <2>3, NoTransfer DEF SettleUnclear, BeforeTransfer, Steps
  <2> QED
    BY <1>13, <2>2, <2>3 DEF SettleUnclear
<1>14. ASSUME NEW r \in Requests, MarkSettled(r) PROVE MoneyInv'
  BY <1>14 DEF MarkSettled, TypeInv, TypeOK, MoneyInv, BeforeTransfer, SettledMeansPaid, VoucherPaysOnce
<1>15. ASSUME NEW r \in Requests, MarkOrphaned(r) PROVE MoneyInv'
  <2>1. \A s \in Requests : payment'[s] = "settled" => payment[s] = "settled"
    BY <1>15 DEF MarkOrphaned, TypeInv, TypeOK
  <2> QED
    BY <1>15, <2>1, NoTransfer DEF MarkOrphaned, BeforeTransfer, Steps
<1>16. ASSUME NEW r \in Requests, Disconnect(r) PROVE MoneyInv'
  <2>1. voucher' = voucher
    BY <1>16 DEF Disconnect
  <2>2. CASE DisconnectEarly(r)
    <3>1. PICK step \in {"close", "ended"} : Goto(r, step)
      BY <2>2 DEF DisconnectEarly, Gone
    <3> QED
      BY <2>1, <2>2, <3>1, NoTransfer DEF DisconnectEarly, BeforeTransfer, Steps
  <2>3. CASE DisconnectLate(r)
    <3>1. Goto(r, "ended")
      BY <2>3 DEF DisconnectLate
    <3>2. CASE pc[r] = "settle" /\ Transfer(r) /\ UNCHANGED payment
      BY <2>1, <3>1, <3>2, TransferStep
    <3>3. CASE UNCHANGED <<payment, used, paid>>
      BY <2>1, <3>1, <3>3, NoTransfer DEF BeforeTransfer, Steps
    <3>4. CASE pc[r] = "markSettled" /\ payment' = [payment EXCEPT ![r] = "settled"] /\ UNCHANGED moneyVars
      BY <2>1, <3>1, <3>4 DEF TypeInv, TypeOK, MoneyInv, BeforeTransfer, SettledMeansPaid, VoucherPaysOnce
    <3>5. CASE payment' = [payment EXCEPT ![r] = "orphaned"] /\ UNCHANGED moneyVars
      <4>1. \A s \in Requests : payment'[s] = "settled" => payment[s] = "settled"
        BY <3>5 DEF TypeInv, TypeOK
      <4> QED
        BY <2>1, <3>1, <3>5, <4>1, NoTransfer DEF BeforeTransfer, Steps
    <3> QED
      BY <2>3, <3>2, <3>3, <3>4, <3>5 DEF DisconnectLate
  <2> QED
    BY <1>16, <2>2, <2>3 DEF Disconnect
<1>17. ASSUME NEW t \in tasks, RunTask(t) PROVE MoneyInv'
  <2>1. t.req \in Requests /\ t.state # "settled"
    BY DEF TypeInv, TypeOK
  <2> QED
    BY <1>17, <2>1 DEF RunTask, TypeInv, TypeOK, MoneyInv, BeforeTransfer, SettledMeansPaid, VoucherPaysOnce
<1>18. ASSUME NEW t \in limbo, LimboMined(t) PROVE MoneyInv'
  BY <1>18 DEF LimboMined, MoneyInv, BeforeTransfer, SettledMeansPaid, VoucherPaysOnce
<1>19. ASSUME NEW t \in limbo, LimboDropped(t) PROVE MoneyInv'
  BY <1>19 DEF LimboDropped, MoneyInv, BeforeTransfer, SettledMeansPaid, VoucherPaysOnce
<1>20. CASE Provision
  BY <1>20 DEF Provision, MoneyInv, BeforeTransfer, SettledMeansPaid, VoucherPaysOnce
<1> QED
  BY <1>1, <1>2, <1>3, <1>4, <1>5, <1>6, <1>7, <1>8, <1>9, <1>10, <1>11, <1>12,
     <1>13, <1>14, <1>15, <1>16, <1>17, <1>18, <1>19, <1>20 DEF Next, Handle

LEMMA MoneyInvariant == Spec => [](TypeInv /\ MoneyInv)
<1>1. Init => TypeInv /\ MoneyInv
  BY TypeInit, MoneyInit
<1>2. (TypeInv /\ MoneyInv) /\ [Next]_vars => (TypeInv /\ MoneyInv)'
  BY TypeStep, MoneyStep
<1> QED
  BY <1>1, <1>2, PTL DEF Spec

\* However requests overlap and whatever fails, times out or is cut off, a
\* voucher is charged for one request at most.
THEOREM NoDoubleCharge == Spec => []VoucherPaysOnce
<1>1. TypeInv /\ MoneyInv => VoucherPaysOnce
  BY DEF MoneyInv
<1> QED
  BY <1>1, MoneyInvariant, PTL

\* No late task and no failure leaves SETTLED on a payment that was not made.
THEOREM SettledRecordsAreTrue == Spec => []SettledMeansPaid
<1>1. TypeInv /\ MoneyInv => SettledMeansPaid
  BY DEF MoneyInv
<1> QED
  BY <1>1, MoneyInvariant, PTL
-----------------------------------------------------------------------------
(* The plain route settles what was generated.                             *)

ServedInv ==
  /\ \A r \in Requests : outcome[r] = "swallowed" => kind[r] # "plain"
  /\ \A r \in Requests : pc[r] = "settle" /\ kind[r] = "plain" => outcome[r] = "done"
  /\ \A r \in Requests : pc[r] = "idle" => outcome[r] = "none"
  /\ PlainPaidMeansServed

LEMMA ServedStep ==
  ASSUME TypeInv, MoneyInv, ServedInv, [Next]_vars
  PROVE  ServedInv'
<1> USE DEF Goto, handlerVars, chainVars, moneyVars, ServedInv, PlainPaidMeansServed
<1>1. CASE UNCHANGED vars
  BY <1>1 DEF vars
<1> USE DEF TypeInv, TypeOK, MoneyInv, BeforeTransfer
<1>2. ASSUME NEW r \in Requests, Ask(r) PROVE ServedInv'
  BY <1>2 DEF Ask
<1>3. ASSUME NEW r \in Requests, Verify(r) PROVE ServedInv'
  BY <1>3 DEF Verify
<1>4. ASSUME NEW r \in Requests, Record(r) PROVE ServedInv'
  BY <1>4 DEF Record
<1>5. ASSUME NEW r \in Requests, OpenFlow(r) PROVE ServedInv'
  BY <1>5 DEF OpenFlow
<1>6. ASSUME NEW r \in Requests, OpenFlowFails(r) PROVE ServedInv'
  BY <1>6 DEF OpenFlowFails
<1>7. ASSUME NEW r \in Requests, Post(r) PROVE ServedInv'
  BY <1>7 DEF Post, ToClose
<1>8. ASSUME NEW r \in Requests, Generated(r) PROVE ServedInv'
  BY <1>8 DEF Generated, ToClose
<1>9. ASSUME NEW r \in Requests, GenerationFails(r) PROVE ServedInv'
  BY <1>9 DEF GenerationFails, ToClose
<1>10. ASSUME NEW r \in Requests, CloseFlow(r) PROVE ServedInv'
  <2>1. /\ AfterClose(r) = "settle" => outcome[r] \in {"done", "swallowed"}
        /\ AfterClose(r) # "idle"
    BY DEF AfterClose
  <2>2. pc' = [pc EXCEPT ![r] = AfterClose(r)] /\ UNCHANGED <<kind, outcome, paid>>
    BY <1>10 DEF CloseFlow
  <2> QED BY <2>1, <2>2
<1>11. ASSUME NEW r \in Requests, CloseFlowFails(r) PROVE ServedInv'
  BY <1>11 DEF CloseFlowFails
<1>12. ASSUME NEW r \in Requests, Settle(r) PROVE ServedInv'
  <2>1. paid' \subseteq paid \cup {r} /\ pc[r] = "settle" /\ UNCHANGED <<kind, outcome>>
    BY <1>12 DEF Settle, Transfer
  <2>2. \A s \in Requests : pc'[s] \in {"idle", "settle"} => pc'[s] = pc[s]
    BY <1>12 DEF Settle
  <2> QED BY <2>1, <2>2
<1>13. ASSUME NEW r \in Requests, SettleUnclear(r) PROVE ServedInv'
  <2>1. paid' \subseteq paid \cup {r} /\ pc[r] = "settle" /\ UNCHANGED <<kind, outcome>>
    BY <1>13 DEF SettleUnclear, Transfer
  <2>2. \A s \in Requests : pc'[s] \in {"idle", "settle"} => pc'[s] = pc[s]
    BY <1>13 DEF SettleUnclear
  <2> QED BY <2>1, <2>2
<1>14. ASSUME NEW r \in Requests, MarkSettled(r) PROVE ServedInv'
  BY <1>14 DEF MarkSettled
<1>15. ASSUME NEW r \in Requests, MarkOrphaned(r) PROVE ServedInv'
  BY <1>15 DEF MarkOrphaned
<1>16. ASSUME NEW r \in Requests, Disconnect(r) PROVE ServedInv'
  <2>1. kind[r] = "stream" /\ UNCHANGED kind
    BY <1>16 DEF Disconnect
  <2>2. CASE DisconnectEarly(r)
    <3>1. PICK step \in {"close", "ended"} :
            pc' = [pc EXCEPT ![r] = step] /\ outcome' = [outcome EXCEPT ![r] = "gone"]
      BY <2>2 DEF DisconnectEarly, Gone
    <3>2. UNCHANGED paid
      BY <2>2 DEF DisconnectEarly
    <3> QED BY <2>1, <3>1, <3>2
  <2>3. CASE DisconnectLate(r)
    <3>1. pc' = [pc EXCEPT ![r] = "ended"] /\ UNCHANGED outcome
      BY <2>3 DEF DisconnectLate
    <3>2. paid' \subseteq paid \cup {r}
      BY <2>3 DEF DisconnectLate, Transfer
    <3> QED BY <2>1, <3>1, <3>2
  <2> QED BY <1>16, <2>2, <2>3 DEF Disconnect
<1>17. ASSUME NEW t \in tasks, RunTask(t) PROVE ServedInv'
  BY <1>17 DEF RunTask
<1>18. ASSUME NEW t \in limbo, LimboMined(t) PROVE ServedInv'
  BY <1>18 DEF LimboMined
<1>19. ASSUME NEW t \in limbo, LimboDropped(t) PROVE ServedInv'
  BY <1>19 DEF LimboDropped
<1>20. CASE Provision
  BY <1>20 DEF Provision
<1> QED
  BY <1>1, <1>2, <1>3, <1>4, <1>5, <1>6, <1>7, <1>8, <1>9, <1>10, <1>11, <1>12,
     <1>13, <1>14, <1>15, <1>16, <1>17, <1>18, <1>19, <1>20 DEF Next, Handle

\* On /pools/{name}/infer nobody is charged for a generation that did not reach
\* its end.
THEOREM PlainChargesAreServed == Spec => []PlainPaidMeansServed
<1>1. Init => ServedInv
  BY DEF Init, ServedInv, PlainPaidMeansServed
<1>2. (TypeInv /\ MoneyInv) /\ ServedInv /\ [Next]_vars => ServedInv'
  BY ServedStep
<1>3. ServedInv => PlainPaidMeansServed
  BY DEF ServedInv
<1> QED
  BY <1>1, <1>2, <1>3, MoneyInvariant, PTL DEF Spec

-----------------------------------------------------------------------------
(* The meter of a payment pool.                                            *)

Metering(r) == pc[r] \in {"open", "infer", "generate", "close"} /\ at[r] # 0

\* While the flow of the contract runs, some request that knows the contract
\* has yet to stop it; one whose transaction clashes leaves it to the other.
MeterInv ==
  /\ limbo = {}
  /\ \A r \in Requests : at[r] # 0 => pp # 0
  /\ flow[1] # None => \E r \in Requests : Metering(r)

LEMMA MeterStep ==
  ASSUME MaxPools = 1, Faults \cap {"tx", "limbo", "disconnect"} = {},
         TypeInv, MeterInv, [Next]_vars
  PROVE  MeterInv'
<1> USE DEF Goto, handlerVars, chainVars, moneyVars, MeterInv, Metering
<1>1. CASE UNCHANGED vars
  BY <1>1 DEF vars
<1> USE DEF TypeInv, TypeOK, OpensInPool, Pools
<1>2. ASSUME NEW r \in Requests, Ask(r) PROVE MeterInv'
  BY <1>2 DEF Ask
<1>3. ASSUME NEW r \in Requests, Verify(r) PROVE MeterInv'
  BY <1>3 DEF Verify
<1>4. ASSUME NEW r \in Requests, Record(r) PROVE MeterInv'
  BY <1>4 DEF Record, ReadPool
<1>5. ASSUME NEW r \in Requests, OpenFlow(r) PROVE MeterInv'
  BY <1>5 DEF OpenFlow, SetFlow
<1>6. ASSUME NEW r \in Requests, OpenFlowFails(r) PROVE MeterInv'
  <2>1. NonceClash(r) /\ UNCHANGED <<limbo, flow, pp, at>>
    BY <1>6 DEF OpenFlowFails, SetFlowFails
  <2>2. pc' = [pc EXCEPT ![r] = "ended"]
    BY <1>6 DEF OpenFlowFails
  <2> QED
    BY <2>1, <2>2 DEF NonceClash
<1>7. ASSUME NEW r \in Requests, Post(r) PROVE MeterInv'
  BY <1>7 DEF Post, ToClose, ReadPool
<1>8. ASSUME NEW r \in Requests, Generated(r) PROVE MeterInv'
  BY <1>8 DEF Generated, ToClose, ReadPool
<1>9. ASSUME NEW r \in Requests, GenerationFails(r) PROVE MeterInv'
  BY <1>9 DEF GenerationFails, ToClose, ReadPool
<1>10. ASSUME NEW r \in Requests, CloseFlow(r) PROVE MeterInv'
  <2>1. pc' = [pc EXCEPT ![r] = AfterClose(r)] /\ UNCHANGED <<at, pp>>
    BY <1>10 DEF CloseFlow, SetFlow
  <2>2. CASE at[r] = 0
    BY <1>10, <2>1, <2>2 DEF CloseFlow
  <2>3. CASE at[r] # 0
    BY <1>10, <2>1, <2>3 DEF CloseFlow, SetFlow
  <2> QED BY <2>2, <2>3
<1>11. ASSUME NEW r \in Requests, CloseFlowFails(r) PROVE MeterInv'
  <2>1. NonceClash(r) /\ UNCHANGED <<limbo, flow, pp, at>>
    BY <1>11 DEF CloseFlowFails, SetFlowFails
  <2>2. pc' = [pc EXCEPT ![r] = "ended"]
    BY <1>11 DEF CloseFlowFails
  <2> QED
    BY <2>1, <2>2 DEF NonceClash
<1>12. ASSUME NEW r \in Requests, Settle(r) PROVE MeterInv'
  BY <1>12 DEF Settle
<1>13. ASSUME NEW r \in Requests, SettleUnclear(r) PROVE MeterInv'
  BY <1>13 DEF SettleUnclear
<1>14. ASSUME NEW r \in Requests, MarkSettled(r) PROVE MeterInv'
  BY <1>14 DEF MarkSettled
<1>15. ASSUME NEW r \in Requests, MarkOrphaned(r) PROVE MeterInv'
  BY <1>15 DEF MarkOrphaned
<1>16. ASSUME NEW r \in Requests, Disconnect(r) PROVE MeterInv'
  BY <1>16 DEF Disconnect
<1>17. ASSUME NEW t \in tasks, RunTask(t) PROVE MeterInv'
  BY <1>17 DEF RunTask
<1>18. ASSUME NEW t \in limbo, LimboMined(t) \/ LimboDropped(t) PROVE MeterInv'
  BY DEF MeterInv
<1>19. CASE Provision
  BY <1>19 DEF Provision
<1> QED
  BY <1>1, <1>2, <1>3, <1>4, <1>5, <1>6, <1>7, <1>8, <1>9, <1>10, <1>11, <1>12,
     <1>13, <1>14, <1>15, <1>16, <1>17, <1>18, <1>19 DEF Next, Handle

\* Where transactions themselves do not fail, no client goes away and the
\* payment pool stays the same, no flow is left running once all requests are
\* closed, although concurrent transactions of the orchestrator lose to each
\* other (nonces) and generations fail.
THEOREM MeterIsLeftOff ==
  ASSUME MaxPools = 1, Faults \cap {"tx", "limbo", "disconnect"} = {}
  PROVE  Spec => []MeterHalts
<1>1. Init => MeterInv
  BY DEF Init, MeterInv, Pools
<1>2. TypeInv /\ MeterInv /\ [Next]_vars => MeterInv'
  BY MeterStep
<1>3. MeterInv => MeterHalts
  BY DEF MeterInv, Metering, MeterHalts, AtRest, Pools
<1>4. Spec => []TypeInv
  BY TypeInit, TypeStep, PTL DEF Spec
<1> QED
  BY <1>1, <1>2, <1>3, <1>4, PTL DEF Spec

-----------------------------------------------------------------------------
(* The records of the payments.                                            *)

\* A request whose settlement moved USDC is about to be marked, or was marked
\* after the last of its tasks.
Recorded(r) ==
  \/ pc[r] = "markSettled"
  \/ /\ pc[r] = "ended"
     /\ payment[r] = "settled"
     /\ \A t \in tasks : t.req # r

RecordInv == \A r \in paid : Recorded(r)

\* A step of a request that has not paid.
LEMMA UnpaidMoves ==
  ASSUME RecordInv, NEW r \in Requests, r \notin paid, paid' = paid,
         \A s \in Requests \ {r} : pc'[s] = pc[s] /\ payment'[s] = payment[s],
         \A t \in tasks' : t \in tasks \/ t.req = r,
         paid \subseteq Requests
  PROVE  RecordInv'
BY DEF RecordInv, Recorded

LEMMA RecordStep ==
  ASSUME Faults \cap {"unreachable", "disconnect", "slowtask"} = {},
         TypeInv, MoneyInv, RecordInv, [Next]_vars
  PROVE  RecordInv'
<1> USE DEF Goto, handlerVars, chainVars, moneyVars
<1>1. CASE UNCHANGED <<pc, payment, tasks, paid>>
  BY <1>1 DEF RecordInv, Recorded
<1> USE DEF TypeInv, TypeOK
\* Every step of a handler but its settlement is such a step.
<1>2. ASSUME NEW r \in Requests, NEW step,
             pc[r] \in BeforeTransfer \cup {"markOrphaned"},
             pc' = [pc EXCEPT ![r] = step], paid' = paid,
             \A s \in Requests \ {r} : payment'[s] = payment[s],
             \A t \in tasks' : t \in tasks \/ t.req = r
      PROVE  RecordInv'
  <2>1. r \notin paid
    BY <1>2 DEF MoneyInv, RecordInv, Recorded, BeforeTransfer
  <2>2. \A s \in Requests \ {r} : pc'[s] = pc[s]
    BY <1>2
  <2> QED BY <1>2, <2>1, <2>2, UnpaidMoves
<1> USE DEF BeforeTransfer
<1>3. ASSUME NEW r \in Requests, Ask(r) PROVE RecordInv'
  BY <1>2, <1>3 DEF Ask
<1>4. ASSUME NEW r \in Requests, Verify(r) PROVE RecordInv'
  BY <1>2, <1>4 DEF Verify
<1>5. ASSUME NEW r \in Requests, Record(r) PROVE RecordInv'
  BY <1>2, <1>5 DEF Record
<1>6. ASSUME NEW r \in Requests, OpenFlow(r) PROVE RecordInv'
  <2>1. tasks' = tasks \cup {[req |-> r, state |-> "streaming"]}
    BY <1>6 DEF OpenFlow, CreateTask
  <2>2. \A t \in tasks' : t \in tasks \/ t.req = r
    BY <2>1
  <2>3. pc[r] = "open" /\ pc' = [pc EXCEPT ![r] = "infer"]
        /\ paid' = paid /\ payment' = payment
    BY <1>6 DEF OpenFlow
  <2> QED BY <1>2, <2>2, <2>3
<1>7. ASSUME NEW r \in Requests, OpenFlowFails(r) PROVE RecordInv'
  BY <1>2, <1>7 DEF OpenFlowFails
<1>8. ASSUME NEW r \in Requests, Post(r) PROVE RecordInv'
  BY <1>2, <1>8 DEF Post, ToClose
<1>9. ASSUME NEW r \in Requests, Generated(r) \/ GenerationFails(r) PROVE RecordInv'
  BY <1>2, <1>9 DEF Generated, GenerationFails, ToClose
<1>10. ASSUME NEW r \in Requests, CloseFlow(r) PROVE RecordInv'
  <2>1. tasks' \subseteq tasks \cup {[req |-> r, state |-> "stopped"]}
    BY <1>10 DEF CloseFlow, CreateTask
  <2>2. \A t \in tasks' : t \in tasks \/ t.req = r
    BY <2>1
  <2>3. pc[r] = "close" /\ pc' = [pc EXCEPT ![r] = AfterClose(r)]
        /\ paid' = paid /\ payment' = payment
    BY <1>10 DEF CloseFlow
  <2> QED BY <1>2, <2>2, <2>3
<1>11. ASSUME NEW r \in Requests, CloseFlowFails(r) PROVE RecordInv'
  BY <1>2, <1>11 DEF CloseFlowFails
<1>12. ASSUME NEW r \in Requests, Settle(r) PROVE RecordInv'
  <2>1. CASE Transfer(r) /\ Goto(r, "markSettled")
    <3>1. pc'[r] = "markSettled" /\ paid' = paid \cup {r}
          /\ \A s \in Requests \ {r} : pc'[s] = pc[s]
      BY <2>1 DEF Transfer
    <3>2. UNCHANGED <<payment, tasks>>
      BY <1>12 DEF Settle
    <3> QED BY <3>1, <3>2 DEF RecordInv, Recorded
  <2>2. CASE Goto(r, "markOrphaned") /\ UNCHANGED moneyVars
    BY <1>2, <1>12, <2>2 DEF Settle
  <2> QED BY <1>12, <2>1, <2>2 DEF Settle
<1>13. ASSUME NEW r \in Requests, MarkSettled(r) PROVE RecordInv'
  <2>1. \A t \in tasks : t.req # r
    BY <1>13 DEF MarkSettled, Prompt
  <2>2. /\ pc'[r] = "ended" /\ payment'[r] = "settled"
        /\ \A s \in Requests \ {r} : pc'[s] = pc[s] /\ payment'[s] = payment[s]
        /\ UNCHANGED <<tasks, paid>>
    BY <1>13 DEF MarkSettled
  <2> QED BY <2>1, <2>2 DEF RecordInv, Recorded
<1>14. ASSUME NEW r \in Requests, MarkOrphaned(r) PROVE RecordInv'
  BY <1>2, <1>14 DEF MarkOrphaned
<1>15. ASSUME NEW t \in tasks, RunTask(t) PROVE RecordInv'
  <2>1. /\ t.req \in Requests
        /\ \A s \in Requests \ {t.req} : payment'[s] = payment[s]
        /\ tasks' \subseteq tasks
        /\ UNCHANGED <<pc, paid>>
    BY <1>15 DEF RunTask
  <2> QED BY <2>1 DEF RecordInv, Recorded
<1>16. ASSUME NEW r \in Requests, SettleUnclear(r) \/ Disconnect(r) PROVE RecordInv'
  BY <1>16 DEF SettleUnclear, Disconnect
<1> QED
  BY <1>1, <1>3, <1>4, <1>5, <1>6, <1>7, <1>8, <1>9, <1>10, <1>11, <1>12, <1>13,
     <1>14, <1>15, <1>16
  DEF Next, Handle, LimboMined, LimboDropped, Provision, vars

\* Where /settle always answers, no client goes away and updates are not late,
\* the payments recorded as SETTLED are at rest exactly those that moved USDC,
\* although generations, settlements and flow transactions fail.
THEOREM RecordsAreComplete ==
  ASSUME Faults \cap {"unreachable", "disconnect", "slowtask"} = {}
  PROVE  Spec => []RecordsMatchChain
<1>1. Init => RecordInv
  BY DEF Init, RecordInv
<1>2. (TypeInv /\ MoneyInv) /\ RecordInv /\ [Next]_vars => RecordInv'
  BY RecordStep
<1>3. (TypeInv /\ MoneyInv) /\ RecordInv => RecordsMatchChain
  BY DEF TypeInv, TypeOK, MoneyInv, SettledMeansPaid, RecordInv, Recorded,
         RecordsMatchChain, AtRest
<1> QED BY <1>1, <1>2, <1>3, MoneyInvariant, PTL DEF Spec
=============================================================================
