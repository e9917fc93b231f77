----------------------- MODULE CoalitionPipelineProofs -----------------------
(***************************************************************************)
(* What a coalition and its payment pool rest on, for any number of        *)
(* initializations of the pool, in every overlap and under every fault.    *)
(***************************************************************************)
EXTENDS CoalitionPipeline, FiniteSetTheorems, TLAPS

USE CoalitionAssumption DEF Participants

Vias == Events \cup {"direct"}

\* A row of db.payment_pools.
Row == [pool : DOMAIN units, ready : BOOLEAN, count : Nat]

\* What a handler in progress may rely on.
JobOK(j) ==
  /\ j \in [ s : Sessions, via : Vias, pc : Steps, nonce : Nonces,
             pool : DOMAIN units \cup {None}, member : Participants \cup {None},
             ans : [Participants -> {"wait", "ok", "bad"}] ]
  /\ \A w \in Participants : j.ans[w] = "ok" => w \in signers[j.s]
  /\ j.pc = "activate" => signers[j.s] = Participants
  /\ j.pc \in {"inc", "reread", "ready"} => payPool \in Row
  /\ j.pc \in {"unitsA", "unitsB"} => j.pool \in DOMAIN units
  /\ j.pc = "insert" => j.pool = None
  /\ Without({"webhook"}) =>
       /\ j.pc \in {"propose", "record", "gather", "activate", "create"} => enabled
       /\ j.pc = "unitsB" => OpA \in units[j.pool]
       /\ j.pc = "upsert" /\ j.pool # None => units[j.pool] = Participants

CallOK(c) ==
  c \in [ s : Sessions, via : Vias, w : Participants, pc : {"check", "approve", "sign", "connect"},
          nonce : Nonces, pool : DOMAIN units \cup {None}, by : Participants \cup {None} ]

JobsOK  == \A j \in jobs : JobOK(j)
CallsOK == \A c \in calls : CallOK(c)

Typed ==
  /\ enabled \in BOOLEAN
  /\ signTxs \in [Sessions -> SUBSET Participants]
  /\ signers \in [Sessions -> SUBSET Participants]
  /\ DOMAIN units \subseteq Nat /\ IsFiniteSet(DOMAIN units)
  /\ \A p \in DOMAIN units : units[p] \subseteq Participants
  /\ payPool # None => payPool \in Row

Landed == \A s \in Sessions : signTxs[s] \subseteq signers[s]

Inv == Typed /\ JobsOK /\ CallsOK /\ Landed /\ RecordedPoolHasUnits

\* What only grows as the pipeline goes on.
Grows ==
  /\ enabled' = enabled
  /\ disturbed \subseteq disturbed'
  /\ \A s \in Sessions : signers[s] \subseteq signers'[s]
  /\ signers' \in [Sessions -> SUBSET Participants]
  /\ DOMAIN units \subseteq DOMAIN units' /\ DOMAIN units' \subseteq Nat /\ IsFiniteSet(DOMAIN units')
  /\ \A p \in DOMAIN units : units[p] \subseteq units'[p]
  /\ \A p \in DOMAIN units' : units'[p] \subseteq Participants
  /\ payPool \in Row => payPool' \in Row'

-----------------------------------------------------------------------------
(* What handlers and calls rely on is not taken away.                      *)

LEMMA JobKept ==
  ASSUME Typed, Grows, NEW j, JobOK(j)
  PROVE  JobOK(j)'
BY DEF Typed, Grows, JobOK, Without, Row

LEMMA CallKept ==
  ASSUME Grows, NEW c, CallOK(c)
  PROVE  CallOK(c)'
BY DEF Grows, CallOK

\* A used nonce changes nothing else of a handler or a call.
LEMMA StaleJobs ==
  ASSUME NEW S, \A j \in S : JobOK(j), NEW x \in Stale(S)
  PROVE  JobOK(x)
BY DEF Stale, JobOK, Nonces

LEMMA StaleCalls ==
  ASSUME NEW S, \A c \in S : CallOK(c), NEW w, NEW x \in StaleOf(w, S)
  PROVE  CallOK(x)
BY DEF StaleOf, Stale, CallOK, Nonces

LEMMA NoneNoRow ==
  ASSUME Typed
  PROVE  None \notin Row
BY DEF Typed, Row

LEMMA InvInit == Init => Inv
BY FS_EmptySet DEF Init, Inv, Typed, JobsOK, CallsOK, Landed, RecordedPoolHasUnits

\* A step keeps the invariant if what it adds is as it must be.
LEMMA Frame ==
  ASSUME Inv, Grows,
         \A j \in jobs' : JobOK(j) \/ JobOK(j)',
         \A c \in calls' : CallOK(c) \/ CallOK(c)',
         signTxs' \in [Sessions -> SUBSET Participants],
         \A s \in Sessions : signTxs'[s] \subseteq signers'[s],
         \/ payPool' = payPool
         \/ /\ payPool' # None => payPool' \in Row'
            /\ Without({"webhook"})' /\ payPool' # None => units'[payPool'.pool] = Participants
  PROVE  Inv'
<1>1. JobsOK' /\ CallsOK'
  BY JobKept, CallKept DEF Inv, JobsOK, CallsOK
<1>2. Landed'
  BY DEF Landed
<1>3. enabled' \in BOOLEAN /\ signers' \in [Sessions -> SUBSET Participants]
  BY DEF Inv, Typed, Grows
<1>4. Typed' /\ RecordedPoolHasUnits'
  <2>1. CASE payPool' = payPool
    <3>1. payPool' # None => payPool' \in Row'
      BY <2>1 DEF Inv, Typed, Grows
    <3>2. Without({"webhook"})' => Without({"webhook"})
      BY DEF Grows, Without
    <3>3. RecordedPoolHasUnits'
      BY <2>1, <3>2 DEF Inv, Typed, Grows, RecordedPoolHasUnits, Row
    <3> QED
      BY <1>3, <3>1, <3>3 DEF Typed, Grows
  <2>2. CASE payPool' # payPool
    BY <1>3, <2>2 DEF Typed, Grows, RecordedPoolHasUnits
  <2> QED
    BY <2>1, <2>2
<1> QED
  BY <1>1, <1>2, <1>4 DEF Inv

\* Nothing has to grow.
LEMMA Same ==
  ASSUME Inv, UNCHANGED <<enabled, signers, units>>, disturbed \subseteq disturbed',
         payPool' = payPool \/ payPool' \in Row'
  PROVE  Grows
BY DEF Grows, Inv, Typed, Row

-----------------------------------------------------------------------------
(* The handlers.                                                           *)

\* A handler that goes on to an await with nothing more to rely on.
LEMMA GoesOn ==
  ASSUME NEW j, JobOK(j), NEW pc \in Steps, NEW n \in Nonces,
         pc = "activate" => signers[j.s] = Participants,
         pc \in {"inc", "reread", "ready"} => payPool \in Row,
         pc \in {"unitsA", "unitsB"} => j.pool \in DOMAIN units,
         pc = "insert" => j.pool = None,
         Without({"webhook"}) =>
           /\ pc \in {"propose", "record", "gather", "activate", "create"} => enabled
           /\ pc = "unitsB" => OpA \in units[j.pool]
           /\ pc = "upsert" /\ j.pool # None => units[j.pool] = Participants
  PROVE  JobOK([j EXCEPT !.pc = pc, !.nonce = n])
BY DEF JobOK

LEMMA HandlerKeeps ==
  ASSUME Inv, NEW j \in jobs, HandlerStep(j), ~Submit(j)
  PROVE  Inv'
<1> USE DEF Inv, Landed, At, Goto, Become, Return, chainVars, docVars, Nonces, Steps, TxSteps
<1>1. JobOK(j) /\ \A i \in jobs : JobOK(i)
  BY DEF JobsOK
<1>2. \A c \in calls : CallOK(c)
  BY DEF CallsOK
<1>3. CASE SkipCoalition(j)
  <2>1. /\ jobs' = (jobs \ {j}) \cup {[j EXCEPT !.pc = "upsert", !.nonce = "none"]}
        /\ j.pc = "insert" /\ UNCHANGED <<enabled, signTxs, payPool, calls, signers, units, disturbed>>
    BY <1>3 DEF SkipCoalition
  <2>2. JobOK([j EXCEPT !.pc = "upsert", !.nonce = "none"])
    BY <1>1, <2>1 DEF JobOK
  <2> QED
    BY <1>1, <1>2, <2>1, <2>2, Same, Frame DEF Typed
<1>4. CASE ReadNonce(j)
  <2>1. /\ jobs' = (jobs \ {j}) \cup {[j EXCEPT !.nonce = "fresh"]}
        /\ UNCHANGED <<enabled, signTxs, payPool, calls, signers, units, disturbed>>
    BY <1>4 DEF ReadNonce
  <2>2. JobOK([j EXCEPT !.nonce = "fresh"])
    BY <1>1 DEF JobOK
  <2> QED
    BY <1>1, <1>2, <2>1, <2>2, Same, Frame DEF Typed
<1>5. CASE SubmitFails(j)
  <2>1. /\ disturbed \subseteq disturbed'
        /\ jobs' = jobs \ {j} \/ jobs' = Stale(jobs \ {j})
        /\ UNCHANGED <<enabled, signTxs, payPool, calls, signers, units>>
    BY <1>5 DEF SubmitFails
  <2>2. \A i \in jobs' : JobOK(i)
    BY <1>1, <2>1, StaleJobs
  <2> QED
    BY <1>2, <2>1, <2>2, Same, Frame DEF Typed
<1>6. CASE RecordProposed(j)
  <2>1. /\ jobs' = (jobs \ {j}) \cup {[j EXCEPT !.pc = "gather", !.nonce = "none"]} /\ j.pc = "record"
        /\ calls' = calls \cup
             {[s |-> j.s, via |-> j.via, w |-> w, pc |-> "check", nonce |-> "none",
               pool |-> None, by |-> None] : w \in Participants}
        /\ UNCHANGED <<enabled, signTxs, payPool, signers, units, disturbed>>
    BY <1>6 DEF RecordProposed
  <2>2. JobOK([j EXCEPT !.pc = "gather", !.nonce = "none"])
    BY <1>1, <2>1 DEF JobOK
  <2>3. \A c \in calls' : CallOK(c)
    BY <1>1, <1>2, <2>1 DEF CallOK, JobOK
  <2> QED
    BY <1>1, <2>1, <2>2, <2>3, Same, Frame DEF Typed
<1>7. CASE SignaturesIn(j)
  <2>1. /\ j.pc = "gather"
        /\ signTxs' = [signTxs EXCEPT ![j.s] = {w \in Participants : j.ans[w] = "ok"}]
        /\ UNCHANGED <<enabled, payPool, calls, signers, units, disturbed>>
    BY <1>7 DEF SignaturesIn
  <2>2. j.s \in Sessions /\ {w \in Participants : j.ans[w] = "ok"} \subseteq signers[j.s]
    BY <1>1 DEF JobOK
  <2>3. /\ signTxs' \in [Sessions -> SUBSET Participants]
        /\ \A s \in Sessions : signTxs'[s] \subseteq signers'[s]
    BY <2>1, <2>2 DEF Typed
  <2>4. \/ jobs' = (jobs \ {j}) \cup {}
        \/ /\ \A w \in Participants : j.ans[w] = "ok"
           /\ jobs' = (jobs \ {j}) \cup
                {[j EXCEPT !.pc = IF enabled THEN "activate" ELSE "create", !.nonce = "none"]}
    BY <1>7 DEF SignaturesIn
  <2>5. (\A w \in Participants : j.ans[w] = "ok") => signers[j.s] = Participants
    BY <2>2 DEF Typed
  <2>6. (\A w \in Participants : j.ans[w] = "ok") =>
          JobOK([j EXCEPT !.pc = IF enabled THEN "activate" ELSE "create", !.nonce = "none"])
    BY <1>1, <2>1, <2>5 DEF JobOK
  <2>7. \A i \in jobs' : JobOK(i)
    BY <1>1, <2>4, <2>6
  <2> QED
    BY <1>2, <2>1, <2>3, <2>7, Same, Frame
<1>8. CASE UpsertPaymentPool(j)
  <2>1. /\ j.pc = "upsert"
        /\ payPool' = IF j.pool = None THEN payPool ELSE [pool |-> j.pool, ready |-> FALSE, count |-> 0]
        /\ jobs' = (jobs \ {j}) \cup {} \/ jobs' = (jobs \ {j}) \cup {[j EXCEPT !.pc = "spawn", !.nonce = "none"]}
        /\ UNCHANGED <<enabled, signTxs, calls, signers, units, disturbed>>
    BY <1>8 DEF UpsertPaymentPool
  <2>2. JobOK([j EXCEPT !.pc = "spawn", !.nonce = "none"])
    BY <1>1 DEF JobOK
  <2>3. \A i \in jobs' : JobOK(i)
    BY <1>1, <2>1, <2>2
  <2>4. CASE j.pool = None
    BY <1>2, <2>1, <2>3, <2>4, Same, Frame DEF Typed
  <2>5. CASE j.pool # None
    <3>1. j.pool \in DOMAIN units /\ (Without({"webhook"}) => units[j.pool] = Participants)
      BY <1>1, <2>1, <2>5 DEF JobOK
    <3>2. payPool' \in Row' /\ payPool'.pool = j.pool
      BY <2>1, <2>5, <3>1 DEF Row
    <3>3. Grows
      <4>1. /\ \A s \in Sessions : signers[s] \subseteq signers'[s]
            /\ signers' \in [Sessions -> SUBSET Participants]
        BY <2>1 DEF Typed
      <4> QED
        BY <2>1, <3>2, <4>1, Same
    <3> QED
      BY <1>2, <2>1, <2>3, <3>1, <3>2, <3>3, Frame DEF Typed, Without
  <2> QED
    BY <2>4, <2>5
<1>9. CASE SpawnUnitsSet(j)
  <2>1. /\ jobs' = (jobs \ {j}) \cup {NewJob(j.s, j.via, "read", None, w) : w \in Participants}
        /\ UNCHANGED <<enabled, signTxs, payPool, calls, signers, units, disturbed>>
    BY <1>9 DEF SpawnUnitsSet
  <2>2. \A w \in Participants : JobOK(NewJob(j.s, j.via, "read", None, w))
    BY <1>1 DEF JobOK, NewJob, Waiting
  <2> QED
    BY <1>1, <1>2, <2>1, <2>2, Same, Frame DEF Typed
<1>10. CASE UnitsRead(j)
  <2>1. /\ jobs' = (jobs \ {j}) \cup (IF payPool = None THEN {}
                                      ELSE {[j EXCEPT !.pc = "inc", !.pool = payPool.pool]})
        /\ UNCHANGED <<enabled, signTxs, payPool, calls, signers, units, disturbed>>
    BY <1>10 DEF UnitsRead
  <2>2. payPool # None => JobOK([j EXCEPT !.pc = "inc", !.pool = payPool.pool])
    BY <1>1 DEF JobOK, Typed, Row
  <2> QED
    BY <1>1, <1>2, <2>1, <2>2, Same, Frame DEF Typed
<1>11. CASE UnitsIncrement(j)
  <2>1. /\ j.pc = "inc" /\ payPool' = [payPool EXCEPT !.count = @ + 1]
        /\ jobs' = (jobs \ {j}) \cup {[j EXCEPT !.pc = "reread", !.nonce = "none"]}
        /\ UNCHANGED <<enabled, signTxs, calls, signers, units, disturbed>>
    BY <1>11 DEF UnitsIncrement
  <2>2. payPool \in Row
    BY <1>1, <2>1 DEF JobOK
  <2>3. /\ payPool' \in Row'
        /\ payPool'.pool = payPool.pool
    BY <2>1, <2>2 DEF Row
  <2>4. JobOK([j EXCEPT !.pc = "reread", !.nonce = "none"])
    BY <1>1, <2>2 DEF JobOK
  <2>5. Grows
    BY <2>1, <2>3, Same
  <2>6. Without({"webhook"})' => units'[payPool'.pool] = Participants
    BY <2>1, <2>2, <2>3, NoneNoRow DEF RecordedPoolHasUnits, Without
  <2>7. \A i \in jobs' : JobOK(i)
    BY <1>1, <2>1, <2>4
  <2> QED
    BY <1>2, <2>1, <2>3, <2>5, <2>6, <2>7, Frame DEF Typed
<1>12. CASE UnitsReread(j)
  <2>1. /\ j.pc = "reread"
        /\ jobs' = (jobs \ {j}) \cup {} \/ jobs' = (jobs \ {j}) \cup {[j EXCEPT !.pc = "ready", !.nonce = "none"]}
        /\ UNCHANGED <<enabled, signTxs, payPool, calls, signers, units, disturbed>>
    BY <1>12 DEF UnitsReread
  <2>2. JobOK([j EXCEPT !.pc = "ready", !.nonce = "none"])
    BY <1>1, <2>1 DEF JobOK
  <2> QED
    BY <1>1, <1>2, <2>1, <2>2, Same, Frame DEF Typed
<1>13. CASE UnitsReady(j)
  <2>1. /\ j.pc = "ready" /\ payPool' = [payPool EXCEPT !.ready = TRUE]
        /\ jobs' = (jobs \ {j}) \cup {[j EXCEPT !.pc = "fanout", !.nonce = "none"]}
        /\ UNCHANGED <<enabled, signTxs, calls, signers, units, disturbed>>
    BY <1>13 DEF UnitsReady
  <2>2. payPool \in Row
    BY <1>1, <2>1 DEF JobOK
  <2>3. /\ payPool' \in Row'
        /\ payPool'.pool = payPool.pool
    BY <2>1, <2>2 DEF Row
  <2>4. JobOK([j EXCEPT !.pc = "fanout", !.nonce = "none"])
    BY <1>1, <2>2 DEF JobOK
  <2>5. Grows
    BY <2>1, <2>3, Same
  <2>6. Without({"webhook"})' => units'[payPool'.pool] = Participants
    BY <2>1, <2>2, <2>3, NoneNoRow DEF RecordedPoolHasUnits, Without
  <2>7. \A i \in jobs' : JobOK(i)
    BY <1>1, <2>1, <2>4
  <2> QED
    BY <1>2, <2>1, <2>3, <2>5, <2>6, <2>7, Frame DEF Typed
<1>14. CASE ConnectFanout(j)
  <2>1. /\ jobs' = (jobs \ {j}) \cup {}
        /\ calls' = calls \cup
             {[s |-> j.s, via |-> j.via, w |-> w, pc |-> "connect", nonce |-> "none",
               pool |-> j.pool, by |-> j.member] : w \in Participants}
        /\ UNCHANGED <<enabled, signTxs, payPool, signers, units, disturbed>>
    BY <1>14 DEF ConnectFanout
  <2>2. \A c \in calls' : CallOK(c)
    BY <1>1, <1>2, <2>1 DEF CallOK, JobOK
  <2> QED
    BY <1>1, <2>1, <2>2, Same, Frame DEF Typed
<1> QED
  BY <1>3, <1>4, <1>5, <1>6, <1>7, <1>8, <1>9, <1>10, <1>11, <1>12, <1>13, <1>14 DEF HandlerStep

-----------------------------------------------------------------------------
(* The transactions.                                                       *)

\* What is mined for a handler leaves the others' nonces stale.
LEMMA MinedKeeps ==
  ASSUME Inv, Grows, NEW j \in jobs, NEW pc, NEW pool, Mined(j, pc, pool),
         JobOK([j EXCEPT !.pc = pc, !.nonce = "none", !.pool = pool])',
         UNCHANGED <<signTxs, payPool, calls>>
  PROVE  Inv'
<1>1. \A i \in Stale(jobs \ {j}) : JobOK(i)
  BY StaleJobs DEF Inv, JobsOK
<1>2. \A i \in jobs' : JobOK(i) \/ JobOK(i)'
  BY <1>1 DEF Mined
<1>3. \A s \in Sessions : signTxs'[s] \subseteq signers'[s]
  BY DEF Inv, Landed, Grows
<1> QED
  BY <1>2, <1>3, Frame DEF Inv, Typed, CallsOK

LEMMA SubmitKeeps ==
  ASSUME Inv, NEW j \in jobs, Submit(j)
  PROVE  Inv'
<1>1. JobOK(j)
  BY DEF Inv, JobsOK
<1>2. UNCHANGED <<enabled, signTxs, payPool, calls, signers, disturbed>>
  BY DEF Submit, docVars
<1>3. ASSUME UNCHANGED units PROVE Grows
  BY <1>2, <1>3, Same
<1>4. CASE j.pc = "propose" /\ Propose(j)
  <2>1. Mined(j, "record", None) /\ UNCHANGED units
    BY <1>4 DEF Propose
  <2>2. JobOK([j EXCEPT !.pc = "record", !.nonce = "none", !.pool = None])'
    BY <1>1, <1>2, <1>4, <2>1 DEF JobOK, Without, Steps, TxSteps, Nonces
  <2> QED
    BY <1>2, <1>3, <2>1, <2>2, MinedKeeps
<1>5. CASE j.pc = "activate" /\ Activate(j)
  <2>1. Mined(j, "create", None) /\ UNCHANGED units
    BY <1>5 DEF Activate
  <2>2. JobOK([j EXCEPT !.pc = "create", !.nonce = "none", !.pool = None])'
    BY <1>1, <1>2, <1>5, <2>1 DEF JobOK, Without, Steps, TxSteps, Nonces
  <2> QED
    BY <1>2, <1>3, <2>1, <2>2, MinedKeeps
<1>6. CASE j.pc = "create" /\ CreatePool(j)
  <2>1. PICK n : n = Cardinality(DOMAIN units) + 1
    OBVIOUS
  <2>2. /\ units' = [p \in DOMAIN units \cup {n} |-> IF p \in DOMAIN units THEN units[p] ELSE {}]
        /\ Mined(j, IF enabled THEN "unitsA" ELSE "upsert", n)
    BY <1>6, <2>1 DEF CreatePool
  <2>3. n \in Nat /\ IsFiniteSet(DOMAIN units \cup {n})
    BY <2>1, FS_CardinalityType, FS_AddElement DEF Inv, Typed
  <2>4. DOMAIN units' = DOMAIN units \cup {n} /\ \A p \in DOMAIN units : units'[p] = units[p]
    BY <2>2
  <2>5. \A p \in DOMAIN units' : units'[p] \subseteq Participants
    BY <2>2 DEF Inv, Typed
  <2>6. Grows
    BY <1>2, <2>3, <2>4, <2>5 DEF Grows, Inv, Typed, Row
  <2>7. Without({"webhook"}) => enabled
    BY <1>1, <1>6 DEF JobOK
  <2>8. CASE enabled
    <3>1. Mined(j, "unitsA", n)
      BY <2>2, <2>8
    <3>2. JobOK([j EXCEPT !.pc = "unitsA", !.nonce = "none", !.pool = n])'
      BY <1>1, <1>2, <2>4, <2>8 DEF JobOK, Without, Steps, TxSteps, Nonces
    <3> QED
      BY <1>2, <2>6, <3>1, <3>2, MinedKeeps
  <2>9. CASE ~enabled
    <3>1. Mined(j, "upsert", n)
      BY <2>2, <2>9
    <3>2. ~Without({"webhook"})'
      BY <1>2, <2>7, <2>9 DEF Without
    <3>3. JobOK([j EXCEPT !.pc = "upsert", !.nonce = "none", !.pool = n])'
      BY <1>1, <1>2, <2>4, <2>9, <3>2 DEF JobOK, Without, Steps, TxSteps, Nonces
    <3> QED
      BY <1>2, <2>6, <3>1, <3>3, MinedKeeps
  <2> QED
    BY <2>8, <2>9
<1>7. ASSUME NEW member \in Participants, NEW next \in {"unitsB", "upsert"},
             UpdateMemberUnits(j, member, next), j.pc \in {"unitsA", "unitsB"},
             next = "unitsB" => j.pc = "unitsA" /\ member = OpA,
             next = "upsert" => j.pc = "unitsB" /\ member = OpB
      PROVE  Inv'
  <2>1. units' = [units EXCEPT ![j.pool] = @ \cup {member}] /\ Mined(j, next, j.pool)
    BY <1>7 DEF UpdateMemberUnits
  <2>2. j.pool \in DOMAIN units
    BY <1>1, <1>7 DEF JobOK
  <2>3. /\ DOMAIN units' = DOMAIN units
        /\ \A p \in DOMAIN units : units[p] \subseteq units'[p] /\ units'[p] \subseteq Participants
        /\ units'[j.pool] = units[j.pool] \cup {member}
    BY <2>1, <2>2 DEF Inv, Typed
  <2>4. Grows
    BY <1>2, <2>3 DEF Grows, Inv, Typed, Row
  <2>5. /\ next = "unitsB" => OpA \in units'[j.pool]
        /\ next = "upsert" /\ Without({"webhook"}) => units'[j.pool] = Participants
    BY <1>1, <1>7, <2>2, <2>3 DEF JobOK
  <2>7. JobOK([j EXCEPT !.pc = next, !.nonce = "none", !.pool = j.pool])'
    BY <1>1, <1>2, <1>7, <2>2, <2>3, <2>5 DEF JobOK, Without, Steps, TxSteps, Nonces
  <2> QED
    BY <1>2, <2>1, <2>4, <2>7, MinedKeeps
<1>8. CASE j.pc = "unitsA" /\ UpdateMemberUnits(j, OpA, "unitsB")
  BY <1>7, <1>8
<1>9. CASE j.pc = "unitsB" /\ UpdateMemberUnits(j, OpB, "upsert")
  BY <1>7, <1>9
<1> QED
  BY <1>4, <1>5, <1>6, <1>8, <1>9 DEF Submit

-----------------------------------------------------------------------------
(* The workers.                                                            *)

\* An answer that is right is all a handler relies on.
LEMMA AnswerKeeps ==
  ASSUME Inv, Grows, NEW c, CallOK(c), NEW a \in {"ok", "bad"}, Answer(c, a),
         a = "ok" => c.w \in signers'[c.s],
         \A d \in calls' : CallOK(d),
         UNCHANGED <<signTxs, payPool>>
  PROVE  Inv'
<1>1. ASSUME NEW j \in jobs
      PROVE  JobOK(IF j.pc = "gather" /\ j.s = c.s /\ j.via = c.via /\ j.ans[c.w] = "wait"
                     THEN [j EXCEPT !.ans[c.w] = a] ELSE j)'
  <2>1. JobOK(j) /\ JobOK(j)'
    BY JobKept DEF Inv, JobsOK
  <2>2. c.w \in Participants
    BY DEF CallOK
  <2>3. CASE j.pc = "gather" /\ j.s = c.s
    <3>1. [j EXCEPT !.ans[c.w] = a] = [j EXCEPT !.ans = [j.ans EXCEPT ![c.w] = a]]
      BY <2>1 DEF JobOK
    <3>2. [j.ans EXCEPT ![c.w] = a] \in [Participants -> {"wait", "ok", "bad"}]
      BY <2>1 DEF JobOK
    <3>3. \A w \in Participants : [j.ans EXCEPT ![c.w] = a][w] = "ok" => w \in signers'[j.s]
      BY <2>1, <2>3 DEF JobOK
    <3>4. JobOK([j EXCEPT !.ans = [j.ans EXCEPT ![c.w] = a]])'
      BY <2>1, <2>3, <3>2, <3>3 DEF JobOK
    <3> QED
      BY <2>1, <3>1, <3>4
  <2> QED
    BY <2>1, <2>3
<1>2. \A i \in jobs' : JobOK(i)'
  BY <1>1 DEF Answer
<1>3. \A s \in Sessions : signTxs'[s] \subseteq signers'[s]
  BY DEF Inv, Landed, Grows
<1> QED
  BY <1>2, <1>3, Frame DEF Inv, Typed

LEMMA CallKeeps ==
  ASSUME Inv, NEW c \in calls, CallStep(c)
  PROVE  Inv'
<1> USE DEF chainVars, docVars, Instead
<1>1. CallOK(c) /\ \A d \in calls : CallOK(d)
  BY DEF Inv, CallsOK
<1>2. \A S \in SUBSET calls : \A w : \A d \in StaleOf(w, S) : CallOK(d)
  BY <1>1, StaleCalls
<1>3. ASSUME UNCHANGED <<enabled, signTxs, payPool, jobs, signers, units, disturbed>>,
             \A d \in calls' : CallOK(d)
      PROVE  Inv'
  BY <1>3, Same, Frame DEF Inv, Typed, JobsOK, Landed
<1>4. CASE CheckAllowance(c)
  <2>1. CallOK([c EXCEPT !.pc = IF allowance[c.w] >= Stake THEN "sign" ELSE "approve"])
    BY <1>1 DEF CallOK
  <2> QED
    BY <1>1, <1>3, <1>4, <2>1 DEF CheckAllowance
<1>5. CASE WorkerReadNonce(c)
  <2>1. CallOK([c EXCEPT !.nonce = "fresh"])
    BY <1>1 DEF CallOK, Nonces
  <2> QED
    BY <1>1, <1>3, <1>5, <2>1 DEF WorkerReadNonce
<1>6. CASE Approve(c)
  <2>1. CallOK([c EXCEPT !.pc = "sign", !.nonce = "none"])
    BY <1>1 DEF CallOK, Nonces
  <2>2. calls' = StaleOf(c.w, calls \ {c}) \cup {[c EXCEPT !.pc = "sign", !.nonce = "none"]}
    BY <1>6 DEF Approve
  <2>3. \A d \in calls' : CallOK(d)
    BY <1>2, <2>1, <2>2
  <2> QED
    BY <1>3, <1>6, <2>3 DEF Approve
<1>7. CASE Sign(c)
  <2>1. /\ signers' = [signers EXCEPT ![c.s] = @ \cup {c.w}]
        /\ calls' = StaleOf(c.w, calls \ {c}) /\ Answer(c, "ok")
        /\ UNCHANGED <<enabled, signTxs, payPool, units, disturbed>>
    BY <1>7 DEF Sign
  <2>2. c.s \in Sessions /\ c.w \in Participants
    BY <1>1 DEF CallOK
  <2>3. /\ signers' \in [Sessions -> SUBSET Participants]
        /\ \A s \in Sessions : signers[s] \subseteq signers'[s]
        /\ c.w \in signers'[c.s]
    BY <2>1, <2>2 DEF Inv, Typed
  <2>4. Grows
    BY <2>1, <2>3 DEF Grows, Inv, Typed, Row
  <2>5. \A d \in calls' : CallOK(d)
    BY <1>2, <2>1
  <2> QED
    BY <1>1, <2>1, <2>3, <2>4, <2>5, AnswerKeeps
<1>8. CASE Connect(c)
  <2>1. calls' = StaleOf(c.w, calls \ {c})
    BY <1>8 DEF Connect
  <2>2. \A d \in calls' : CallOK(d)
    BY <1>2, <2>1
  <2> QED
    BY <1>3, <1>8, <2>2 DEF Connect
<1>9. CASE CallFails(c)
  <2>1. /\ calls' = (calls \ {c}) \cup {} \/ calls' = StaleOf(c.w, calls \ {c})
        /\ disturbed \subseteq disturbed' /\ Answer(c, "bad")
        /\ UNCHANGED <<enabled, signTxs, payPool, signers, units>>
    BY <1>9 DEF CallFails
  <2>2. \A d \in calls' : CallOK(d)
    BY <1>1, <1>2, <2>1
  <2>3. Grows
    BY <2>1, Same
  <2> QED
    BY <1>1, <2>1, <2>2, <2>3, AnswerKeeps
<1> QED
  BY <1>4, <1>5, <1>6, <1>7, <1>8, <1>9 DEF CallStep

-----------------------------------------------------------------------------
(* Everything together.                                                    *)

LEMMA Step ==
  ASSUME Inv, [Next]_vars
  PROVE  Inv'
<1> USE DEF chainVars, docVars
<1>1. ASSUME UNCHANGED <<enabled, signTxs, payPool, calls, signers, units>>,
             disturbed \subseteq disturbed', \A j \in jobs' : JobOK(j) \/ JobOK(j)'
      PROVE  Inv'
  BY <1>1, Same, Frame DEF Inv, Typed, CallsOK, Landed
<1>2. ASSUME NEW s \in Sessions, Initialize(s) PROVE Inv'
  <2>1. jobs' = jobs \cup {NewJob(s, "direct", IF enabled THEN "propose" ELSE "insert", None, None)}
        /\ disturbed \subseteq disturbed' /\ UNCHANGED <<enabled, signTxs, payPool, calls, signers, units>>
    BY <1>2 DEF Initialize
  <2>2. JobOK(NewJob(s, "direct", IF enabled THEN "propose" ELSE "insert", None, None))
    BY DEF JobOK, NewJob, Waiting, Vias, Steps, TxSteps, Nonces, Inv, Typed
  <2> QED
    BY <1>1, <2>1, <2>2 DEF Inv, JobsOK
<1>3. ASSUME NEW s \in Sessions, NEW via \in Events, NEW pc \in {"record", "upsert", "read"},
             NEW pool \in DOMAIN units \cup {None}, NEW m \in Participants \cup {None},
             jobs' = jobs \cup {NewJob(s, via, pc, pool, m)}, "webhook" \in disturbed',
             disturbed \subseteq disturbed',
             UNCHANGED <<enabled, signTxs, payPool, calls, signers, units>>
      PROVE  Inv'
  <2>1. JobOK(NewJob(s, via, pc, pool, m))'
    BY <1>3 DEF JobOK, NewJob, Waiting, Vias, Steps, TxSteps, Nonces, Without
  <2> QED
    BY <1>1, <1>3, <2>1 DEF Inv, JobsOK
<1>4. ASSUME NEW s \in Sessions, Webhook(s) PROVE Inv'
  <2>1. CASE WebhookProposed(s)
    BY <1>3, <2>1 DEF WebhookProposed, Deliver, Events
  <2>2. CASE WebhookActivated(s)
    <3>1. UNCHANGED <<enabled, signTxs, payPool, calls, signers, units, jobs>> /\ disturbed \subseteq disturbed'
      BY <2>2 DEF WebhookActivated, Deliver
    <3> QED
      BY <1>1, <3>1 DEF Inv, JobsOK
  <2>3. ASSUME NEW p \in DOMAIN units \cup {None}, WebhookPoolReady(s, p) PROVE Inv'
    BY <1>3, <2>3 DEF WebhookPoolReady, Deliver, Events
  <2>4. ASSUME NEW w \in Participants, WebhookUnitsSet(s, w) PROVE Inv'
    BY <1>3, <2>4 DEF WebhookUnitsSet, Deliver, Events
  <2> QED
    BY <1>4, <2>1, <2>2, <2>3, <2>4 DEF Webhook
<1>5. CASE Work
  BY <1>5, HandlerKeeps, SubmitKeeps, CallKeeps DEF Work
<1>6. ASSUME NEW c \in calls, SignTimeout(c) PROVE Inv'
  <2>1. /\ disturbed \subseteq disturbed' /\ Answer(c, "bad")
        /\ UNCHANGED <<enabled, signTxs, payPool, signers, units, calls>>
    BY <1>6 DEF SignTimeout
  <2>2. Grows
    BY <2>1, Same
  <2>3. CallOK(c) /\ \A d \in calls' : CallOK(d)
    BY <2>1 DEF Inv, CallsOK
  <2> QED
    BY <2>1, <2>2, <2>3, AnswerKeeps
<1>7. CASE Crash
  <2>1. jobs' = {} /\ disturbed \subseteq disturbed' /\ UNCHANGED <<enabled, signTxs, payPool, calls, signers, units>>
    BY <1>7 DEF Crash
  <2> QED
    BY <1>1, <2>1
<1>8. CASE UNCHANGED vars
  <2>1. UNCHANGED <<enabled, signTxs, payPool, calls, signers, units, jobs, disturbed>>
    BY <1>8 DEF vars
  <2> QED
    BY <1>1, <2>1 DEF Inv, JobsOK
<1> QED
  BY <1>2, <1>4, <1>5, <1>6, <1>7, <1>8 DEF Next

\* A coalition is only activated, and a signature only recorded, when the
\* operators' signatures are on chain.
THEOREM SignaturesHaveLanded == Spec => []SignaturesLanded
<1>1. Inv /\ [Next]_vars => Inv'
  BY Step
<1>2. Inv => SignaturesLanded
  BY DEF Inv, Landed, JobsOK, JobOK, SignaturesLanded
<1> QED BY InvInit, <1>1, <1>2, PTL DEF Spec

\* Without webhooks, the recorded payment pool has units for both operators.
THEOREM RecordedPoolsHaveUnits == Spec => []RecordedPoolHasUnits
<1>1. Inv /\ [Next]_vars => Inv'
  BY Step
<1>2. Inv => RecordedPoolHasUnits
  BY DEF Inv
<1> QED BY InvInit, <1>1, <1>2, PTL DEF Spec
-----------------------------------------------------------------------------
(* The fan-out to the operators.                                           *)

FanSteps == {"spawn", "read", "inc", "reread", "ready", "fanout"}

\* These steps send no transaction.
Steady == \A j \in jobs : j.pc \in FanSteps => j.nonce = "none"

\* A handler that will increment the row and then look at the pool it names.
Promising(j) == j.pc = "read" \/ (j.pc = "inc" /\ j.pool = payPool.pool)

\* One that has found the target reached, or will, for the pool the row names.
Reaching(j) ==
  /\ j.pool = payPool.pool
  /\ \/ j.pc = "reread" /\ payPool.count >= 2
     \/ j.pc = "ready"
     \/ j.pc = "fanout" /\ payPool.ready

\* Handlers of older pools may increment the row as well.  They cannot use up
\* what the handlers of the last pool have to do.
Promised ==
  \/ payPool.ready /\ payPool.pool \in fanned
  \/ \E j \in jobs : j.pc = "spawn"
  \/ \E a, b \in jobs :
       /\ a.member = OpA /\ Promising(a)
       /\ b.member = OpB /\ Promising(b)
  \/ payPool.count >= 1 /\ \E j \in jobs : Promising(j)
  \/ \E j \in jobs : Reaching(j)

FanInv == Steady /\ (Without({"crash"}) /\ payPool # None => Promised)

\* A step that leaves the handlers at these steps and the row alone.
LEMMA FanFrame ==
  ASSUME FanInv, Steady', \A i \in jobs : i.pc \in FanSteps => i \in jobs',
         payPool' = payPool, fanned \subseteq fanned', disturbed \subseteq disturbed'
  PROVE  FanInv'
<1>1. ASSUME Promised PROVE Promised'
  <2>1. \A i \in jobs : Promising(i) => i \in jobs' /\ Promising(i)'
    BY DEF Promising, FanSteps
  <2>2. \A i \in jobs : Reaching(i) => i \in jobs' /\ Reaching(i)'
    BY DEF Reaching, FanSteps
  <2>3. \A i \in jobs : i.pc = "spawn" => i \in jobs'
    BY DEF FanSteps
  <2> QED BY <1>1, <2>1, <2>2, <2>3 DEF Promised
<1>2. Without({"crash"})' => Without({"crash"})
  BY DEF Without
<1> QED BY <1>1, <1>2 DEF FanInv

\* A transaction that is mined or lost takes none of them away.
LEMMA StaleFan ==
  ASSUME NEW S, \A i \in S : JobOK(i) /\ (i.pc \in FanSteps => i.nonce = "none")
  PROVE  /\ \A i \in S : i.pc \in FanSteps => i \in Stale(S)
         /\ \A x \in Stale(S) : x.pc \in FanSteps => x.nonce = "none"
<1>1. ASSUME NEW i \in S, i.pc \in FanSteps
      PROVE  i \in Stale(S)
  <2>1. [i EXCEPT !.nonce = IF i.nonce = "fresh" THEN "stale" ELSE i.nonce] = i
    BY <1>1 DEF JobOK
  <2> QED BY <2>1 DEF Stale
<1>2. ASSUME NEW x \in Stale(S), x.pc \in FanSteps
      PROVE  x.nonce = "none"
  <2>1. PICK i \in S :
          x = [i EXCEPT !.nonce = IF i.nonce = "fresh" THEN "stale" ELSE i.nonce]
    BY DEF Stale
  <2>2. x.pc = i.pc /\ (i.nonce = "none" => x.nonce = "none")
    BY <2>1 DEF JobOK
  <2> QED BY <1>2, <2>2
<1> QED BY <1>1, <1>2

LEMMA TwoOperators == Cardinality(Participants) = 2
<1>1. IsFiniteSet({OpA}) /\ Cardinality({OpA}) = 1
  BY FS_Singleton
<1>2. Participants = {OpA} \cup {OpB} /\ OpB \notin {OpA}
  OBVIOUS
<1> QED BY <1>1, <1>2, FS_AddElement

\* A handler before the upsert goes on, returns or sends its transaction.
LEMMA FanEarlier ==
  ASSUME Inv, FanInv, NEW j \in jobs, HandlerStep(j), j.pc \notin FanSteps,
         ~UpsertPaymentPool(j)
  PROVE  FanInv'
<1> USE DEF At, Goto, Become, Return, docVars, chainVars
<1>1. \A i \in jobs : JobOK(i) /\ (i.pc \in FanSteps => i.nonce = "none")
  BY DEF Inv, JobsOK, FanInv, Steady
<1>2. UNCHANGED <<payPool, fanned>> /\ disturbed \subseteq disturbed'
  BY DEF HandlerStep, SkipCoalition, ReadNonce, Submit, SubmitFails, RecordProposed,
         SignaturesIn, SpawnUnitsSet, UnitsRead, UnitsIncrement, UnitsReread,
         UnitsReady, ConnectFanout, FanSteps
<1>3. ASSUME jobs \ {j} \subseteq jobs',
             \A x \in jobs' \ jobs : x.pc \in FanSteps => x.nonce = "none"
      PROVE  FanInv'
  <2>1. Steady'
    BY <1>1, <1>3 DEF Steady
  <2>2. \A i \in jobs : i.pc \in FanSteps => i \in jobs'
    BY <1>3
  <2> QED BY <1>2, <2>1, <2>2, FanFrame
<1>4. ASSUME Stale(jobs \ {j}) \subseteq jobs',
             \A x \in jobs' \ Stale(jobs \ {j}) : x.nonce = "none"
      PROVE  FanInv'
  <2>1. /\ \A i \in jobs \ {j} : i.pc \in FanSteps => i \in Stale(jobs \ {j})
        /\ \A x \in Stale(jobs \ {j}) : x.pc \in FanSteps => x.nonce = "none"
    BY <1>1, StaleFan
  <2>2. Steady'
    BY <1>4, <2>1 DEF Steady
  <2>3. \A i \in jobs : i.pc \in FanSteps => i \in jobs'
    BY <1>4, <2>1
  <2> QED BY <1>2, <2>2, <2>3, FanFrame
<1>5. ASSUME NEW pc, NEW pool
      PROVE  [j EXCEPT !.pc = pc, !.nonce = "none", !.pool = pool].nonce = "none"
             /\ [j EXCEPT !.pc = pc, !.nonce = "none"].nonce = "none"
  BY <1>1 DEF JobOK
<1>6. CASE SkipCoalition(j)
  <2>1. jobs' = (jobs \ {j}) \cup {[j EXCEPT !.pc = "upsert", !.nonce = "none"]}
    BY <1>6 DEF SkipCoalition
  <2> QED BY <1>3, <1>5, <2>1
<1>7. CASE ReadNonce(j)
  <2>1. [j EXCEPT !.nonce = "fresh"].pc = j.pc
    BY <1>1 DEF JobOK
  <2>2. jobs' = (jobs \ {j}) \cup {[j EXCEPT !.nonce = "fresh"]}
    BY <1>7 DEF ReadNonce
  <2> QED BY <1>3, <2>1, <2>2
<1>8. CASE Submit(j)
  <2>1. ASSUME NEW pc, NEW pool, Mined(j, pc, pool)
        PROVE  FanInv'
    <3>1. jobs' = Stale(jobs \ {j}) \cup
            {[j EXCEPT !.pc = pc, !.nonce = "none", !.pool = pool]}
      BY <2>1 DEF Mined
    <3> QED BY <1>4, <1>5, <3>1
  <2>2. \E pc, pool : Mined(j, pc, pool)
    BY <1>8 DEF Submit, Propose, Activate, CreatePool, UpdateMemberUnits
  <2> QED BY <2>1, <2>2
<1>9. CASE SubmitFails(j)
  <2>1. jobs' = jobs \ {j} \/ jobs' = Stale(jobs \ {j})
    BY <1>9 DEF SubmitFails
  <2> QED BY <1>3, <1>4, <2>1
<1>10. CASE RecordProposed(j)
  <2>1. jobs' = (jobs \ {j}) \cup {[j EXCEPT !.pc = "gather", !.nonce = "none"]}
    BY <1>10 DEF RecordProposed
  <2> QED BY <1>3, <1>5, <2>1
<1>11. CASE SignaturesIn(j)
  <2>1. CASE jobs' = jobs \ {j}
    BY <1>3, <2>1
  <2>2. ASSUME NEW pc, jobs' = (jobs \ {j}) \cup {[j EXCEPT !.pc = pc, !.nonce = "none"]}
        PROVE  FanInv'
    BY <1>3, <1>5, <2>2
  <2>3. \/ jobs' = jobs \ {j}
        \/ \E pc : jobs' = (jobs \ {j}) \cup {[j EXCEPT !.pc = pc, !.nonce = "none"]}
    BY <1>11 DEF SignaturesIn
  <2> QED BY <2>1, <2>2, <2>3
<1> QED
  BY <1>6, <1>7, <1>8, <1>9, <1>10, <1>11
  DEF HandlerStep, SpawnUnitsSet, UnitsRead, UnitsIncrement, UnitsReread,
      UnitsReady, ConnectFanout, FanSteps

\* The handlers that write the row or count for it.
LEMMA FanHandlers ==
  ASSUME Inv, FanInv, NEW j \in jobs, HandlerStep(j),
         j.pc \in FanSteps \/ UpsertPaymentPool(j)
  PROVE  FanInv'
<1> USE DEF At, Goto, Become, Return, docVars, chainVars
<1>1. JobOK(j) /\ \A i \in jobs : i.pc \in FanSteps => i.nonce = "none"
  BY DEF Inv, JobsOK, FanInv, Steady
<1>2. ASSUME \A x \in jobs' \ jobs : x.pc \in FanSteps => x.nonce = "none"
      PROVE  Steady'
  BY <1>1, <1>2 DEF Steady
<1>3. ASSUME NEW pc
      PROVE  /\ [j EXCEPT !.pc = pc, !.nonce = "none"].nonce = "none"
             /\ [j EXCEPT !.pc = pc, !.nonce = "none"].pc = pc
             /\ [j EXCEPT !.pc = pc, !.nonce = "none"].pool = j.pool
             /\ [j EXCEPT !.pc = pc, !.nonce = "none"].member = j.member
  BY <1>1 DEF JobOK
<1>4. CASE UpsertPaymentPool(j)
  <2>1. CASE j.pool = None
    <3>1. /\ jobs' = (jobs \ {j}) \cup {} /\ j.pc = "upsert"
          /\ UNCHANGED <<payPool, fanned, disturbed>>
      BY <1>4, <2>1 DEF UpsertPaymentPool
    <3>2. \A i \in jobs : i.pc \in FanSteps => i \in jobs'
      BY <3>1 DEF FanSteps
    <3>3. Steady'
      BY <1>2, <3>1
    <3> QED BY <3>1, <3>2, <3>3, FanFrame
  <2>2. CASE j.pool # None
    <3>1. jobs' = (jobs \ {j}) \cup {[j EXCEPT !.pc = "spawn", !.nonce = "none"]}
      BY <1>4, <2>2 DEF UpsertPaymentPool
    <3>2. Promised'
      BY <1>3, <3>1 DEF Promised
    <3>3. [j EXCEPT !.pc = "spawn", !.nonce = "none"].nonce = "none"
      BY <1>3
    <3>4. Steady'
      BY <1>2, <3>1, <3>3
    <3> QED BY <3>2, <3>4 DEF FanInv
  <2> QED BY <2>1, <2>2
<1>5. CASE SpawnUnitsSet(j)
  <2> DEFINE a == NewJob(j.s, j.via, "read", None, OpA)
             b == NewJob(j.s, j.via, "read", None, OpB)
  <2>1. jobs' = (jobs \ {j}) \cup {a, b}
    BY <1>5 DEF SpawnUnitsSet
  <2>2. /\ a.member = OpA /\ a.pc = "read" /\ a.nonce = "none"
        /\ b.member = OpB /\ b.pc = "read" /\ b.nonce = "none"
    BY DEF NewJob
  <2>3. a \in jobs' /\ b \in jobs'
    BY <2>1
  <2> HIDE DEF a, b
  <2>4. Promised'
    BY <2>2, <2>3 DEF Promised, Promising
  <2> QED BY <1>2, <2>1, <2>2, <2>4 DEF FanInv
<1>6. CASE UnitsRead(j)
  <2>1. CASE payPool = None
    <3>1. jobs' = (jobs \ {j}) \cup {} /\ payPool' = None
      BY <1>6, <2>1 DEF UnitsRead
    <3> QED BY <1>2, <3>1 DEF FanInv
  <2>2. CASE payPool # None
    <3> PICK k : k = [j EXCEPT !.pc = "inc", !.pool = payPool.pool]
      OBVIOUS
    <3>1. /\ jobs' = (jobs \ {j}) \cup {k} /\ j.pc = "read"
          /\ UNCHANGED <<payPool, fanned, disturbed>>
      BY <1>6, <2>2 DEF UnitsRead
    <3>2. /\ k.pc = "inc" /\ k.pool = payPool.pool
          /\ k.member = j.member /\ k.nonce = "none"
      <4>1. j.nonce = "none"
        BY <1>1, <3>1 DEF FanSteps
      <4> QED BY <1>1, <4>1 DEF JobOK
    <3>3. Promising(k)' /\ k \in jobs'
      BY <3>1, <3>2 DEF Promising
    <3>4. \A i \in jobs : Promising(i) => i = j \/ (i \in jobs' /\ Promising(i)')
      BY <3>1 DEF Promising
    <3>5. \A i \in jobs : Reaching(i) => i \in jobs' /\ Reaching(i)'
      BY <3>1 DEF Reaching
    <3>6. \A i \in jobs : i.pc = "spawn" => i \in jobs'
      BY <3>1
    <3>7. ASSUME Promised PROVE Promised'
      <4>1. \A i \in jobs : Promising(i) =>
              \E x \in jobs' : x.member = i.member /\ Promising(x)'
        BY <3>2, <3>3, <3>4
      <4>2. CASE \E a, b \in jobs :
                   /\ a.member = OpA /\ Promising(a)
                   /\ b.member = OpB /\ Promising(b)
        BY <4>1, <4>2 DEF Promised
      <4>3. CASE payPool.count >= 1 /\ \E i \in jobs : Promising(i)
        BY <3>1, <4>1, <4>3 DEF Promised
      <4> QED BY <3>1, <3>5, <3>6, <3>7, <4>2, <4>3 DEF Promised
    <3>8. Without({"crash"})' => Without({"crash"})
      BY <3>1 DEF Without
    <3> QED BY <1>2, <2>2, <3>1, <3>2, <3>7, <3>8 DEF FanInv
  <2> QED BY <2>1, <2>2
<1>7. CASE UnitsIncrement(j)
  <2> DEFINE k == [j EXCEPT !.pc = "reread", !.nonce = "none"]
  <2>1. /\ jobs' = (jobs \ {j}) \cup {k} /\ j.pc = "inc"
        /\ payPool' = [payPool EXCEPT !.count = @ + 1]
        /\ UNCHANGED <<fanned, disturbed>>
    BY <1>7 DEF UnitsIncrement
  <2>2. payPool \in Row
    BY <1>1, <2>1 DEF JobOK
  <2>3. /\ payPool'.count = payPool.count + 1 /\ payPool.count \in Nat
        /\ payPool'.pool = payPool.pool /\ payPool'.ready = payPool.ready
    BY <2>1, <2>2 DEF Row
  <2>4. k.nonce = "none" /\ k.pc = "reread" /\ k.pool = j.pool
    BY <1>3
  <2> HIDE DEF k
  <2>5. \A i \in jobs : Promising(i) => i = j \/ (i \in jobs' /\ Promising(i)')
    BY <2>1, <2>3 DEF Promising
  <2>6. \A i \in jobs : Reaching(i) => i \in jobs' /\ Reaching(i)'
    BY <2>1, <2>3 DEF Reaching
  <2>7. payPool.count >= 1 /\ Promising(j) => Reaching(k)' /\ k \in jobs'
    BY <2>1, <2>3, <2>4 DEF Promising, Reaching
  <2>8. \A i \in jobs : i.pc = "spawn" => i \in jobs'
    BY <2>1
  <2>9. payPool'.count >= 1
    BY <2>3
  <2>10. ASSUME Promised PROVE Promised'
    <3>1. CASE payPool.ready /\ payPool.pool \in fanned
      BY <2>1, <2>3, <3>1 DEF Promised
    <3>2. CASE \E i \in jobs : i.pc = "spawn"
      BY <2>8, <3>2 DEF Promised
    <3>3. ASSUME NEW a \in jobs, NEW b \in jobs,
                 a.member = OpA, Promising(a), b.member = OpB, Promising(b)
          PROVE  Promised'
      BY <2>5, <2>9, <3>3 DEF Promised
    <3>4. ASSUME payPool.count >= 1, NEW i \in jobs, Promising(i)
          PROVE  Promised'
      BY <2>5, <2>7, <2>9, <3>4 DEF Promised
    <3>5. CASE \E i \in jobs : Reaching(i)
      BY <2>6, <3>5 DEF Promised
    <3> QED BY <2>10, <3>1, <3>2, <3>3, <3>4, <3>5 DEF Promised
  <2>11. Without({"crash"})' => Without({"crash"})
    BY <2>1 DEF Without
  <2> QED BY <1>2, <2>1, <2>2, <2>4, <2>10, <2>11, NoneNoRow DEF FanInv, Inv
<1>8. CASE UnitsReread(j)
  <2>1. j.pc = "reread" /\ UNCHANGED <<payPool, fanned, disturbed>>
    BY <1>8 DEF UnitsReread
  <2>2. payPool \in Row /\ payPool.count \in Nat
    BY <1>1, <2>1 DEF JobOK, Row
  <2> DEFINE k == [j EXCEPT !.pc = "ready", !.nonce = "none"]
  <2>3. k.nonce = "none" /\ k.pc = "ready" /\ k.pool = j.pool
    BY <1>3
  <2>4. \/ payPool.count < 2 /\ jobs' = (jobs \ {j}) \cup {}
        \/ jobs' = (jobs \ {j}) \cup {k}
    BY <1>8, TwoOperators DEF UnitsReread
  <2> HIDE DEF k
  <2>5. Steady'
    BY <1>2, <2>3, <2>4
  <2>6. \A i \in jobs : Promising(i) => i \in jobs' /\ Promising(i)'
    BY <2>1, <2>4 DEF Promising
  <2>7. \A i \in jobs : Reaching(i) => \E x \in jobs' : Reaching(x)'
    BY <2>1, <2>2, <2>3, <2>4 DEF Reaching
  <2>8. \A i \in jobs : i.pc = "spawn" => i \in jobs'
    BY <2>1, <2>4
  <2>9. Promised => Promised'
    BY <2>1, <2>6, <2>7, <2>8 DEF Promised
  <2>10. Without({"crash"})' => Without({"crash"})
    BY <2>1 DEF Without
  <2> QED BY <2>1, <2>5, <2>9, <2>10 DEF FanInv
<1>9. CASE UnitsReady(j)
  <2> DEFINE k == [j EXCEPT !.pc = "fanout", !.nonce = "none"]
  <2>1. /\ jobs' = (jobs \ {j}) \cup {k} /\ j.pc = "ready"
        /\ payPool' = [payPool EXCEPT !.ready = TRUE]
        /\ UNCHANGED <<fanned, disturbed>>
    BY <1>9 DEF UnitsReady
  <2>2. payPool \in Row
    BY <1>1, <2>1 DEF JobOK
  <2>3. /\ payPool'.count = payPool.count /\ payPool'.ready
        /\ payPool'.pool = payPool.pool
    BY <2>1, <2>2 DEF Row
  <2>4. k.nonce = "none" /\ k.pc = "fanout" /\ k.pool = j.pool
    BY <1>3
  <2> HIDE DEF k
  <2>5. \A i \in jobs : Promising(i) => i \in jobs' /\ Promising(i)'
    BY <2>1, <2>3 DEF Promising
  <2>6. \A i \in jobs : Reaching(i) => \E x \in jobs' : Reaching(x)'
    BY <2>1, <2>3, <2>4 DEF Reaching
  <2>7. \A i \in jobs : i.pc = "spawn" => i \in jobs'
    BY <2>1
  <2>8. Promised => Promised'
    BY <2>1, <2>3, <2>5, <2>6, <2>7 DEF Promised
  <2>9. Without({"crash"})' => Without({"crash"})
    BY <2>1 DEF Without
  <2> QED BY <1>2, <2>1, <2>2, <2>4, <2>8, <2>9, NoneNoRow DEF FanInv, Inv
<1>10. CASE ConnectFanout(j)
  <2>1. /\ jobs' = (jobs \ {j}) \cup {} /\ j.pc = "fanout"
        /\ fanned' = fanned \cup {j.pool}
        /\ UNCHANGED <<payPool, disturbed>>
    BY <1>10 DEF ConnectFanout
  <2>2. \A i \in jobs : Promising(i) => i \in jobs' /\ Promising(i)'
    BY <2>1 DEF Promising
  <2>3. \A i \in jobs : Reaching(i) =>
          \/ i \in jobs' /\ Reaching(i)'
          \/ payPool'.ready /\ payPool'.pool \in fanned'
    BY <2>1 DEF Reaching
  <2>4. \A i \in jobs : i.pc = "spawn" => i \in jobs'
    BY <2>1
  <2>5. Promised => Promised'
    BY <2>1, <2>2, <2>3, <2>4 DEF Promised
  <2>6. Without({"crash"})' => Without({"crash"})
    BY <2>1 DEF Without
  <2> QED BY <1>2, <2>1, <2>5, <2>6 DEF FanInv
<1> QED
  BY <1>4, <1>5, <1>6, <1>7, <1>8, <1>9, <1>10
  DEF HandlerStep, SkipCoalition, ReadNonce, Submit, SubmitFails, RecordProposed,
      SignaturesIn, FanSteps, TxSteps, Steps

\* An answer changes only the handler that waits for it.
LEMMA FanAnswer ==
  ASSUME Inv, FanInv, NEW c, NEW a, Answer(c, a), payPool' = payPool,
         fanned' = fanned, disturbed \subseteq disturbed'
  PROVE  FanInv'
<1>1. \A i \in jobs : i.pc \in FanSteps => i \in jobs'
  BY DEF Answer, FanSteps
<1>2. ASSUME NEW x \in jobs', x.pc \in FanSteps
      PROVE  x.nonce = "none"
  <2>1. PICK i \in jobs :
          x = IF i.pc = "gather" /\ i.s = c.s /\ i.via = c.via /\ i.ans[c.w] = "wait"
                THEN [i EXCEPT !.ans[c.w] = a] ELSE i
    BY DEF Answer
  <2>2. JobOK(i)
    BY DEF Inv, JobsOK
  <2>3. [i EXCEPT !.ans[c.w] = a].pc = i.pc
    BY <2>2 DEF JobOK
  <2>4. x = i
    BY <1>2, <2>1, <2>3 DEF FanSteps
  <2> QED BY <1>2, <2>4 DEF FanInv, Steady
<1> QED BY <1>1, <1>2, FanFrame DEF Steady

LEMMA FanStep ==
  ASSUME Inv, FanInv, [Next]_vars
  PROVE  FanInv'
<1> USE DEF docVars, chainVars
<1>1. ASSUME UNCHANGED <<payPool, fanned>>, disturbed \subseteq disturbed',
             jobs \subseteq jobs',
             \A x \in jobs' \ jobs : x.nonce = "none"
      PROVE  FanInv'
  BY <1>1, FanFrame DEF FanInv, Steady
<1>2. ASSUME NEW s, NEW via, NEW pc, NEW pool, NEW m
      PROVE  NewJob(s, via, pc, pool, m).nonce = "none"
  BY DEF NewJob
<1>3. ASSUME NEW s \in Sessions, Initialize(s)
      PROVE  FanInv'
  BY <1>1, <1>2, <1>3 DEF Initialize
<1>4. ASSUME NEW s \in Sessions, Webhook(s)
      PROVE  FanInv'
  BY <1>1, <1>2, <1>4
  DEF Webhook, WebhookProposed, WebhookActivated, WebhookPoolReady,
      WebhookUnitsSet, Deliver
<1>5. ASSUME NEW j \in jobs, HandlerStep(j)
      PROVE  FanInv'
  BY <1>5, FanEarlier, FanHandlers
<1>6. ASSUME NEW c \in calls, CallStep(c)
      PROVE  FanInv'
  <2>1. \/ UNCHANGED jobs
        \/ \E a \in {"ok", "bad"} : Answer(c, a)
    BY <1>6 DEF CallStep, CheckAllowance, WorkerReadNonce, Approve, Sign, Connect, CallFails
  <2>2. UNCHANGED <<payPool, fanned>> /\ disturbed \subseteq disturbed'
    BY <1>6 DEF CallStep, CheckAllowance, WorkerReadNonce, Approve, Sign, Connect, CallFails
  <2> QED BY <1>1, <2>1, <2>2, FanAnswer
<1>7. ASSUME NEW c \in calls, SignTimeout(c)
      PROVE  FanInv'
  BY <1>7, FanAnswer DEF SignTimeout
<1>8. CASE Crash
  <2>1. jobs' = {} /\ ~Without({"crash"})'
    BY <1>8 DEF Crash, Without
  <2> QED BY <2>1 DEF FanInv, Steady
<1>9. CASE UNCHANGED vars
  BY <1>1, <1>9 DEF vars
<1> QED BY <1>3, <1>4, <1>5, <1>6, <1>7, <1>8, <1>9 DEF Next, Work

\* Unless the orchestrator stops in the middle, however many initializations,
\* webhooks and member handlers overlap, the last recorded payment pool ends up
\* ready and its operators asked to connect to it.
THEOREM LastPoolIsFannedOut == Spec => []LastPoolFannedOut
<1>1. Init => Inv /\ FanInv
  BY InvInit DEF Init, FanInv, Steady
<1>2. (Inv /\ FanInv) /\ [Next]_vars => (Inv /\ FanInv)'
  BY Step, FanStep
<1>3. Inv /\ FanInv => LastPoolFannedOut
  BY DEF FanInv, Promised, LastPoolFannedOut, Quiet
<1> QED BY <1>1, <1>2, <1>3, PTL DEF Spec
=============================================================================
