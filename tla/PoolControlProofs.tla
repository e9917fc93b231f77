------------------------- MODULE PoolControlProofs -------------------------
(***************************************************************************)
(* What the registry of nodes and pools keeps, for any number of nodes,    *)
(* pools and requests in progress, whatever fails.                         *)
(***************************************************************************)
EXTENDS PoolControl, TLAPS

USE PoolAssumption

Pcs == {"check", "nodes", "gather", "post", "pool", "node", "remint", "mint", "token"}

\* What a request was asked with, which stays until it returns.
ArgsOK(r) ==
  /\ r.op # "deleteNode" => r.doc \in Docs
  /\ r.op = "add" => r.snap \o r.nodes \in MemberLists
  /\ r.op = "remove" => \E n \in Listed(r.snap) : r.nodes = <<n>>
  /\ r.op = "deleteNode" => \E n \in Nodes : r.nodes = <<n>>
  /\ r.op = "initialize" => r.snap \in Pairs /\ r.model \in Models

TypeInv == TypeOK /\ \A h \in Handlers : req[h] # Idle => ArgsOK(req[h])

SameArgs(r, s) ==
  /\ s \in Requests
  /\ s.op = r.op /\ s.doc = r.doc /\ s.name = r.name
  /\ s.snap = r.snap /\ s.nodes = r.nodes /\ s.model = r.model

-----------------------------------------------------------------------------
(* Lists of members.                                                       *)

LEMMA PairTyped ==
  ASSUME NEW s \in Pairs
  PROVE  /\ s = <<s[1], s[2]>> /\ s[1] \in Nodes /\ s[2] \in Nodes /\ s[1] # s[2]
         /\ s \in Seq(Nodes) /\ Len(s) = 2 /\ Listed(s) = {s[1], s[2]}
<1>1. s = <<s[1], s[2]>> /\ s[1] \in Nodes /\ s[2] \in Nodes /\ s[1] # s[2]
  BY DEF Pairs
<1> DEFINE a == s[1]
<1> DEFINE b == s[2]
<1>2. s = <<a, b>> /\ a \in Nodes /\ b \in Nodes
  BY <1>1
<1> HIDE DEF a, b
<1>3. <<a, b>> \in Seq(Nodes) /\ Len(<<a, b>>) = 2 /\ DOMAIN <<a, b>> = 1 .. 2
  BY <1>2
<1>4. Listed(<<a, b>>) = {<<a, b>>[i] : i \in 1 .. 2}
  BY <1>3 DEF Listed
<1>5. {<<a, b>>[i] : i \in 1 .. 2} = {a, b}
  OBVIOUS
<1> QED
  BY <1>1, <1>2, <1>3, <1>4, <1>5 DEF a, b

LEMMA MemberListsTyped ==
  ASSUME NEW s \in MemberLists
  PROVE  s \in Seq(Nodes) /\ Listed(s) \subseteq Nodes /\ Len(s) \in {0, 1, 2}
<1>1. CASE s = <<>>
  BY <1>1 DEF Listed
<1>2. ASSUME NEW n \in Nodes, s = <<n>>
      PROVE  s \in Seq(Nodes) /\ Listed(s) \subseteq Nodes /\ Len(s) \in {0, 1, 2}
  BY <1>2 DEF Listed
<1>3. CASE s \in Pairs
  BY <1>3, PairTyped
<1> QED
  BY <1>1, <1>2, <1>3 DEF MemberLists

LEMMA ListedConcat ==
  ASSUME NEW s \in Seq(Nodes), NEW t \in Seq(Nodes)
  PROVE  Listed(s \o t) = Listed(s) \cup Listed(t)
<1>1. ASSUME NEW n \in Listed(s \o t) PROVE n \in Listed(s) \cup Listed(t)
  <2>1. PICK i \in 1 .. Len(s) + Len(t) : n = (s \o t)[i]
    BY <1>1 DEF Listed
  <2>2. CASE i <= Len(s)
    BY <2>1, <2>2 DEF Listed
  <2>3. CASE i > Len(s)
    <3>1. i - Len(s) \in 1 .. Len(t) /\ n = t[i - Len(s)]
      BY <2>1, <2>3
    <3> QED
      BY <3>1 DEF Listed
  <2> QED
    BY <2>1, <2>2, <2>3
<1>2. ASSUME NEW n \in Listed(s) PROVE n \in Listed(s \o t)
  BY <1>2 DEF Listed
<1>3. ASSUME NEW n \in Listed(t) PROVE n \in Listed(s \o t)
  <2>1. PICK i \in 1 .. Len(t) : n = t[i]
    BY <1>3 DEF Listed
  <2>2. Len(s) + i \in 1 .. Len(s) + Len(t) /\ (s \o t)[Len(s) + i] = n
    BY <2>1
  <2> QED
    BY <2>2 DEF Listed
<1> QED
  BY <1>1, <1>2, <1>3

\* Two members fit: the list of /pools/{name}/nodes stays a list of members.
LEMMA ConcatFits ==
  ASSUME NEW s \in MemberLists, NEW t \in MemberLists,
         Len(s) + Len(t) <= 2, Listed(s) \cap Listed(t) = {}
  PROVE  s \o t \in MemberLists
<1>1. CASE s = <<>>
  <2>1. s \o t = t
    BY <1>1, MemberListsTyped
  <2> QED
    BY <2>1
<1>2. CASE t = <<>>
  <2>1. s \o t = s
    BY <1>2, MemberListsTyped
  <2> QED
    BY <2>1
<1>3. ASSUME NEW n \in Nodes, NEW m \in Nodes, s = <<n>>, t = <<m>>
      PROVE  s \o t \in MemberLists
  <2>1. n # m
    BY <1>3 DEF Listed
  <2> DEFINE u == <<n>> \o <<m>>
  <2>2. u \in Seq(Nodes) /\ Len(u) = 2 /\ u[1] = n /\ u[2] = m
    OBVIOUS
  <2>3. <<n, m>> \in Seq(Nodes) /\ Len(<<n, m>>) = 2
    OBVIOUS
  <2>4. DOMAIN u = 1 .. 2 /\ DOMAIN <<n, m>> = 1 .. 2
    BY <2>2, <2>3
  <2> HIDE DEF u
  <2>5. \A i \in 1 .. 2 : u[i] = <<n, m>>[i]
    BY <2>2
  <2>6. u = <<n, m>>
    BY <2>2, <2>3, <2>4, <2>5
  <2>7. <<n, m>> \in MemberLists
    BY <2>1 DEF MemberLists, Pairs
  <2> QED
    BY <1>3, <2>6, <2>7 DEF u
<1>4. ASSUME NEW u \in MemberLists, u # <<>>, ~\E n \in Nodes : u = <<n>> PROVE Len(u) = 2
  BY <1>4, PairTyped DEF MemberLists
<1>5. \A n \in Nodes : Len(<<n>>) = 1
  OBVIOUS
<1>6. CASE ~\E n \in Nodes : s = <<n>>
  <2>1. s # <<>> => Len(s) = 2 /\ Len(t) \in {0, 1, 2}
    BY <1>4, <1>6, MemberListsTyped
  <2>2. Len(t) = 0 => t = <<>>
    BY MemberListsTyped
  <2> QED
    BY <1>1, <1>2, <2>1, <2>2
<1>7. CASE ~\E m \in Nodes : t = <<m>>
  <2>1. t # <<>> => Len(t) = 2 /\ Len(s) \in {0, 1, 2}
    BY <1>4, <1>7, MemberListsTyped
  <2>2. Len(s) = 0 => s = <<>>
    BY MemberListsTyped
  <2> QED
    BY <1>1, <1>2, <2>1, <2>2
<1> QED
  BY <1>3, <1>6, <1>7

\* Who is removed is removed.
LEMMA OthersTyped ==
  ASSUME NEW s \in MemberLists, NEW n \in Listed(s)
  PROVE  Others(s, n) \in MemberLists /\ Listed(Others(s, n)) = Listed(s) \ {n}
<1>1. \E t \in MemberLists : Listed(t) = Listed(s) \ {n}
  <2>1. Listed(<<>>) = {}
    BY DEF Listed
  <2>2. \A m \in Nodes : Listed(<<m>>) = {m}
    BY DEF Listed
  <2>3. CASE s \in Pairs
    <3>1. s = <<s[1], s[2]>> /\ s[1] \in Nodes /\ s[2] \in Nodes /\ s[1] # s[2]
      BY <2>3, PairTyped
    <3>2. Listed(s) = {s[1], s[2]}
      BY <2>3, PairTyped
    <3>3. n = s[1] => Listed(<<s[2]>>) = Listed(s) \ {n}
      BY <2>2, <3>1, <3>2
    <3>4. n = s[2] => Listed(<<s[1]>>) = Listed(s) \ {n}
      BY <2>2, <3>1, <3>2
    <3> QED
      BY <3>1, <3>2, <3>3, <3>4 DEF MemberLists
  <2>4. ASSUME NEW m \in Nodes, s = <<m>> PROVE Listed(<<>>) = Listed(s) \ {n}
    BY <2>1, <2>2, <2>4
  <2>5. s # <<>>
    BY <2>1
  <2> QED
    BY <2>3, <2>4, <2>5 DEF MemberLists
<1> QED
  BY <1>1 DEF Others

-----------------------------------------------------------------------------
(* Type correctness.                                                       *)

LEMMA Busy ==
  ASSUME TypeInv, NEW h \in Handlers, req[h] # Idle
  PROVE  req[h] \in Requests /\ ArgsOK(req[h])
BY DEF TypeInv, TypeOK

LEMMA OpIsBusy ==
  ASSUME NEW h \in Handlers, req[h].op # "none" \/ req[h].pc # "idle"
  PROVE  req[h] # Idle
BY DEF Idle

\* The requests stay as they must be if each is new and so, keeps its
\* arguments, or returns.
LEMMA RequestsTyped ==
  ASSUME TypeInv,
         req' \in [Handlers -> {Idle} \cup Requests],
         \A h \in Handlers : req'[h] # Idle =>
           ArgsOK(req'[h]) \/ (req[h] # Idle /\ SameArgs(req[h], req'[h]))
  PROVE  \A h \in Handlers : req'[h] # Idle => ArgsOK(req'[h])
BY DEF TypeInv, SameArgs, ArgsOK

LEMMA GotoTyped ==
  ASSUME TypeInv, NEW h \in Handlers, req[h] # Idle, NEW pc \in Pcs, Goto(h, pc)
  PROVE  /\ req' \in [Handlers -> {Idle} \cup Requests]
         /\ \A g \in Handlers : req'[g] # Idle => ArgsOK(req'[g])
<1>1. req[h] \in Requests /\ req \in [Handlers -> {Idle} \cup Requests]
  BY Busy DEF TypeInv, TypeOK
<1>2. req' = [req EXCEPT ![h] = [req[h] EXCEPT !.pc = pc]]
  BY DEF Goto
<1>3. [req[h] EXCEPT !.pc = pc] \in Requests /\ SameArgs(req[h], [req[h] EXCEPT !.pc = pc])
  BY <1>1 DEF Requests, SameArgs, Pcs
<1>4. req' \in [Handlers -> {Idle} \cup Requests]
  BY <1>1, <1>2, <1>3
<1>5. \A g \in Handlers : req'[g] # Idle =>
        ArgsOK(req'[g]) \/ (req[g] # Idle /\ SameArgs(req[g], req'[g]))
  BY <1>1, <1>2, <1>3 DEF TypeInv
<1> QED
  BY <1>4, <1>5, RequestsTyped

LEMMA ReturnTyped ==
  ASSUME TypeInv, NEW h \in Handlers, Return(h)
  PROVE  /\ req' \in [Handlers -> {Idle} \cup Requests]
         /\ \A g \in Handlers : req'[g] # Idle => ArgsOK(req'[g])
BY DEF TypeInv, TypeOK, Return

LEMMA HearTyped ==
  ASSUME TypeInv, NEW h \in Handlers, req[h] # Idle, NEW n, NEW e \in BOOLEAN, Hear(h, n, e)
  PROVE  /\ req' \in [Handlers -> {Idle} \cup Requests]
         /\ \A g \in Handlers : req'[g] # Idle => ArgsOK(req'[g])
<1> DEFINE s == [req[h] EXCEPT !.todo = @ \ {n}, !.failed = @ \/ e]
<1>1. req[h] \in Requests /\ req \in [Handlers -> {Idle} \cup Requests]
  BY Busy DEF TypeInv, TypeOK
<1>2. req' = [req EXCEPT ![h] = s]
  BY DEF Hear
<1>3. s \in Requests /\ SameArgs(req[h], s)
  BY <1>1 DEF Requests, SameArgs
<1> HIDE DEF s
<1>4. req' \in [Handlers -> {Idle} \cup Requests]
  BY <1>1, <1>2, <1>3
<1>5. \A g \in Handlers : req'[g] # Idle =>
        ArgsOK(req'[g]) \/ (req[g] # Idle /\ SameArgs(req[g], req'[g]))
  BY <1>1, <1>2, <1>3 DEF TypeInv
<1> QED
  BY <1>4, <1>5, RequestsTyped

LEMMA AskTyped ==
  ASSUME TypeInv, NEW h \in Handlers, NEW r \in Requests, ArgsOK(r), Ask(h, r)
  PROVE  /\ req' \in [Handlers -> {Idle} \cup Requests]
         /\ \A g \in Handlers : req'[g] # Idle => ArgsOK(req'[g])
         /\ disturbed' \subseteq Disturbances
<1>1. \A g \in Handlers : Overlap(r.op, req[g].op) \in OverlapKinds
  BY DEF Overlap, OverlapKinds
<1>2. disturbed' \subseteq Disturbances
  BY <1>1 DEF Ask, TypeInv, TypeOK, Disturbances
<1> QED
  BY <1>2 DEF TypeInv, TypeOK, Ask

\* The types of the requests, and of everything else.
ReqsOK ==
  /\ req \in [Handlers -> {Idle} \cup Requests]
  /\ \A h \in Handlers : req[h] # Idle => ArgsOK(req[h])

Rest ==
  /\ registered \subseteq Nodes
  /\ poolName \in [Nodes -> Names \cup {None}]
  /\ seenLoaded \subseteq Nodes
  /\ name \in [Docs -> Names \cup {None}]
  /\ members \in [Docs -> MemberLists]
  /\ {initialized, loaded, token} \subseteq SUBSET Docs
  /\ assigned \in [Docs -> Assignments \cup {None}]
  /\ minted \in [Docs -> 0 .. MaxMints]
  /\ config \in [Nodes -> Payloads \cup {None}]
  /\ running \in [Nodes -> Payloads \cup {None}]
  /\ late \subseteq LateCalls
  /\ missing \subseteq Docs
  /\ disturbed \subseteq Disturbances

LEMMA CallTyped ==
  ASSUME TypeInv, NEW h \in Handlers, req[h].pc = "post", NEW n \in req[h].todo
  PROVE  /\ n \in Nodes
         /\ req[h].op = "initialize" => Payload(Planned(h), n) \in Payloads
         /\ Call(h, n) \in LateCalls
<1>1. req[h] \in Requests /\ ArgsOK(req[h])
  BY Busy, OpIsBusy
<1>2. n \in Nodes
  BY <1>1 DEF Requests
<1>3. req[h].op = "initialize" => Payload(Planned(h), n) \in Payloads
  BY <1>1, <1>2, PairTyped DEF ArgsOK, Payload, Planned, Payloads, Role, Peer
<1>4. Call(h, n) \in LateCalls
  BY <1>2, <1>3 DEF Call, LateCalls
<1> QED
  BY <1>2, <1>3, <1>4

LEMMA SentTyped ==
  ASSUME TypeInv
  PROVE  SentCalls \subseteq LateCalls
BY CallTyped DEF SentCalls

LEMMA HandleTyped ==
  ASSUME TypeInv, NEW h \in Handlers, Handle(h)
  PROVE  Rest' /\ ReqsOK'
<1> USE DEF nodeVars, poolVars, workerVars, At
<1>1. Rest /\ ReqsOK
  BY DEF TypeInv, TypeOK, Rest, ReqsOK
<1>2. req[h] # Idle => req[h] \in Requests /\ ArgsOK(req[h])
  BY Busy
<1>3. ASSUME NEW pc \in Pcs, req[h] # Idle, Goto(h, pc) PROVE ReqsOK'
  BY <1>3, GotoTyped DEF ReqsOK
<1>4. ASSUME Return(h) PROVE ReqsOK'
  BY <1>4, ReturnTyped DEF ReqsOK
<1>5. CASE NodeDeleted(h)
  BY <1>1, <1>5 DEF NodeDeleted, Rest, ReqsOK
<1>6. CASE AddCheck(h)
  <2>1. req[h] \in Requests /\ req[h] # Idle
    BY <1>2, <1>6, OpIsBusy DEF AddCheck
  <2>2. ASSUME NEW n, NEW pc \in Pcs, req' = [req EXCEPT ![h] = [req[h] EXCEPT !.todo = @ \ {n}, !.pc = pc]]
        PROVE  ReqsOK'
    <3> DEFINE s == [req[h] EXCEPT !.todo = @ \ {n}, !.pc = pc]
    <3>1. s \in Requests /\ SameArgs(req[h], s)
      BY <2>1 DEF Requests, SameArgs, Pcs
    <3>2. req' = [req EXCEPT ![h] = s]
      BY <2>2
    <3> HIDE DEF s
    <3>3. req' \in [Handlers -> {Idle} \cup Requests]
      BY <1>1, <3>1, <3>2 DEF ReqsOK
    <3>4. \A g \in Handlers : req'[g] # Idle =>
            ArgsOK(req'[g]) \/ (req[g] # Idle /\ SameArgs(req[g], req'[g]))
      BY <1>1, <2>1, <3>1, <3>2 DEF ReqsOK
    <3> QED
      BY <3>3, <3>4, RequestsTyped DEF ReqsOK
  <2>3. CASE Return(h)
    BY <1>1, <1>4, <1>6, <2>3 DEF AddCheck, Rest
  <2>4. CASE ~Return(h)
    <3>1. PICK i \in DOMAIN req[h].nodes :
            req' = [req EXCEPT ![h].todo = @ \ {req[h].nodes[i]},
                               ![h].pc = IF i = Len(req[h].nodes) THEN "nodes" ELSE @]
      BY <1>6, <2>4 DEF AddCheck
    <3>2. req' = [req EXCEPT ![h] = [req[h] EXCEPT !.todo = @ \ {req[h].nodes[i]},
                                        !.pc = IF i = Len(req[h].nodes) THEN "nodes" ELSE "check"]]
      BY <1>1, <1>6, <2>1, <3>1 DEF AddCheck, ReqsOK, Requests
    <3>3. ReqsOK'
      BY <2>2, <3>2 DEF Pcs
    <3> QED
      BY <1>1, <1>6, <3>3 DEF AddCheck, Rest
  <2> QED
    BY <2>3, <2>4
<1>7. CASE AddNodes(h)
  BY <1>1, <1>2, <1>3, <1>7, OpIsBusy DEF AddNodes, Rest, Requests, Pcs
<1>8. ASSUME NEW ms \in MemberLists, SetMembers(req[h].doc, ms),
             UNCHANGED <<nodeVars, name, loaded, token, minted, workerVars, missing, disturbed>>
      PROVE  Rest'
  BY <1>1, <1>8 DEF SetMembers, Rest
<1>9. CASE AddPool(h)
  BY <1>2, <1>4, <1>8, <1>9, OpIsBusy DEF AddPool, ArgsOK
<1>10. CASE RemoveUnloaded(h)
  BY <1>1, <1>2, <1>3, <1>4, <1>10, OpIsBusy DEF RemoveUnloaded, Answered, SetLoaded, Rest, Pcs
<1>11. CASE RemovePool(h)
  <2>1. req[h] # Idle /\ req[h].snap \in MemberLists
    BY <1>2, <1>11, OpIsBusy DEF RemovePool, Requests
  <2>2. PICK n \in Listed(req[h].snap) : req[h].nodes = <<n>>
    BY <1>2, <1>11, <2>1 DEF RemovePool, ArgsOK
  <2>3. Others(req[h].snap, req[h].nodes[1]) \in MemberLists
    BY <2>1, <2>2, OthersTyped
  <2> QED
    BY <1>3, <1>8, <1>11, <2>1, <2>3 DEF RemovePool, Pcs
<1>12. CASE RemoveNode(h)
  BY <1>1, <1>4, <1>12 DEF RemoveNode, Rest
<1>13. CASE DeleteUnloaded(h)
  BY <1>1, <1>2, <1>3, <1>4, <1>13, OpIsBusy DEF DeleteUnloaded, Answered, Rest, Pcs, Disturbances
<1>14. CASE DeleteNodes(h)
  BY <1>1, <1>2, <1>3, <1>14, OpIsBusy DEF DeleteNodes, Rest, Pcs
<1>15. CASE DeletePool(h)
  BY <1>1, <1>4, <1>15 DEF DeletePool, Rest, MemberLists
<1>16. CASE Gather(h)
  <2>1. CASE Return(h)
    BY <1>1, <1>4, <1>16, <2>1 DEF Gather, Rest
  <2>2. CASE ~Return(h)
    <3> DEFINE found == Listed(req[h].snap) \cap registered
    <3> DEFINE s == [req[h] EXCEPT !.pc = "post", !.todo = found]
    <3>1. req[h] \in Requests /\ req[h] # Idle
      BY <1>2, <1>16, OpIsBusy DEF Gather
    <3>2. req' = [req EXCEPT ![h] = s]
      BY <1>1, <1>16, <2>2 DEF Gather, ReqsOK
    <3>3. found \subseteq Nodes
      BY <1>1 DEF Rest
    <3> HIDE DEF found
    <3>4. s \in Requests /\ SameArgs(req[h], s)
      BY <3>1, <3>3 DEF Requests, SameArgs
    <3> HIDE DEF s
    <3>5. req' \in [Handlers -> {Idle} \cup Requests]
      BY <1>1, <3>2, <3>4 DEF ReqsOK
    <3>6. \A g \in Handlers : req'[g] # Idle =>
            ArgsOK(req'[g]) \/ (req[g] # Idle /\ SameArgs(req[g], req'[g]))
      BY <1>1, <3>1, <3>2, <3>4 DEF ReqsOK
    <3>7. ReqsOK'
      BY <3>5, <3>6, RequestsTyped DEF ReqsOK
    <3> QED
      BY <1>1, <1>16, <3>7 DEF Gather, Rest
  <2> QED
    BY <2>1, <2>2
<1>17. CASE Post(h)
  <2>1. req[h] # Idle /\ req[h] \in Requests /\ ArgsOK(req[h])
    BY <1>2, <1>17, OpIsBusy DEF Post
  <2>2. PICK n \in req[h].todo, e \in BOOLEAN : Hear(h, n, e) /\ (Effect(h, n) \/ UNCHANGED workerVars)
    BY <1>17 DEF Post, Refuses
  <2>3. n \in Nodes /\ (req[h].op = "initialize" => Payload(Planned(h), n) \in Payloads)
    BY <1>17, <2>2, CallTyped DEF Post
  <2>4. ReqsOK'
    BY <2>1, <2>2, HearTyped DEF ReqsOK
  <2>5. /\ config' \in [Nodes -> Payloads \cup {None}] /\ running' \in [Nodes -> Payloads \cup {None}]
        /\ late' = late
    BY <1>1, <2>2, <2>3 DEF Effect, Configure, Load, Unload, Rest
  <2> QED
    BY <1>1, <1>17, <2>4, <2>5 DEF Post, Rest
<1>26. CASE GiveUp(h)
  <2>1. PICK n \in req[h].todo : late' = late \cup {Call(h, n)} /\ Hear(h, n, TRUE)
    BY <1>26 DEF GiveUp
  <2>2. req[h] # Idle /\ Call(h, n) \in LateCalls
    BY <1>26, <2>1, OpIsBusy, CallTyped DEF GiveUp
  <2>3. ReqsOK'
    BY <2>1, <2>2, HearTyped DEF ReqsOK
  <2> QED
    BY <1>1, <1>26, <2>1, <2>2, <2>3 DEF GiveUp, Rest
<1>18. CASE InitializeAnswered(h)
  BY <1>1, <1>2, <1>3, <1>4, <1>18, OpIsBusy DEF InitializeAnswered, Answered, Rest, Pcs, Disturbances
<1>19. CASE InitializePool(h)
  <2>1. Planned(h) \in Assignments /\ req[h].doc \in Docs
    BY <1>2, <1>19, OpIsBusy DEF InitializePool, ArgsOK, Planned, Assignments
  <2> QED
    BY <1>1, <1>4, <1>19, <2>1 DEF InitializePool, Rest
<1>20. CASE LoadFlag(h)
  <2>1. req[h] # Idle /\ req[h].doc \in Docs
    BY <1>2, <1>20, OpIsBusy DEF LoadFlag, Answered, ArgsOK
  <2> QED
    BY <1>1, <1>3, <1>4, <1>20, <2>1 DEF LoadFlag, SetLoaded, Rest, Pcs
<1>21. CASE LoadRead(h)
  BY <1>1, <1>2, <1>3, <1>4, <1>21, OpIsBusy DEF LoadRead, Rest, Pcs
<1>22. CASE Mint(h)
  <2>1. req[h] # Idle /\ req[h].doc \in Docs
    BY <1>2, <1>22, OpIsBusy DEF Mint, ArgsOK
  <2>2. minted' \in [Docs -> 0 .. MaxMints]
    BY <1>1, <1>22, <2>1 DEF Mint, Rest
  <2> QED
    BY <1>1, <1>3, <1>4, <1>22, <2>1, <2>2 DEF Mint, Rest, Pcs, Disturbances, FaultKinds
<1>23. CASE MintFails(h)
  BY <1>1, <1>4, <1>23 DEF MintFails, Rest
<1>24. CASE SaveToken(h)
  <2>1. req[h].doc \in Docs
    BY <1>2, <1>24, OpIsBusy DEF SaveToken, ArgsOK
  <2> QED
    BY <1>1, <1>4, <1>24, <2>1 DEF SaveToken, Rest
<1>25. CASE UnloadFlag(h)
  BY <1>1, <1>4, <1>25 DEF UnloadFlag, SetLoaded, Rest
<1> QED
  BY <1>5, <1>6, <1>7, <1>9, <1>10, <1>11, <1>12, <1>13, <1>14, <1>15, <1>16, <1>17, <1>18, <1>19,
     <1>20, <1>21, <1>22, <1>23, <1>24, <1>25, <1>26 DEF Handle

LEMMA LateTyped ==
  ASSUME TypeInv, NEW c \in late, LateCall(c)
  PROVE  TypeInv'
<1> USE DEF TypeInv, TypeOK, nodeVars, poolVars
<1>1. c.node \in Nodes /\ c.payload \in Payloads \cup {None} /\ late \subseteq LateCalls
  BY DEF LateCalls
<1>2. [node |-> c.node, call |-> "loading", payload |-> config[c.node]] \in LateCalls
  BY <1>1 DEF LateCalls
<1>3. disturbed \cup {"late"} \subseteq Disturbances
  BY DEF Disturbances, FaultKinds
<1> QED
  BY <1>1, <1>2, <1>3 DEF LateCall, LateConfigure, LateLoadBegins, LateLoadEnds, LateUnload, Done

\* One step of every kind keeps the types.
LEMMA TypeStep == TypeInv /\ [Next]_vars => TypeInv'
<1> SUFFICES ASSUME TypeInv, [Next]_vars PROVE TypeInv'
  OBVIOUS
<1>1. TypeOK
  BY DEF TypeInv
<1>2. CASE UNCHANGED vars
  BY <1>1, <1>2 DEF vars, nodeVars, poolVars, workerVars, TypeInv, TypeOK
<1>3. ASSUME NEW n \in Nodes, RegisterNode(n) \/ WorkerRestarts(n) \/ Poll(n) \/ PollFails(n) PROVE TypeInv'
  BY <1>1, <1>3 DEF RegisterNode, WorkerRestarts, Poll, PollFails, TypeInv, TypeOK, nodeVars, poolVars, workerVars,
     Disturbances, FaultKinds
<1>4. ASSUME NEW d \in Docs, NEW nm \in Names, CreatePool(d, nm) PROVE TypeInv'
  BY <1>1, <1>4 DEF CreatePool, TypeInv, TypeOK, nodeVars, workerVars, MemberLists
<1>5. ASSUME NEW d \in Docs, ReconcileRead(d) \/ ReconcileWrite(d) PROVE TypeInv'
  BY <1>1, <1>5 DEF ReconcileRead, ReconcileWrite, SetLoaded, TypeInv, TypeOK, nodeVars, poolVars, workerVars
<1>6. CASE Crash
  BY <1>1, <1>6, SentTyped DEF Crash, TypeInv, TypeOK, nodeVars, poolVars, workerVars, Disturbances, FaultKinds
<1>7. ASSUME NEW h \in Handlers, NEW n \in Nodes, AskDeleteNode(h, n) PROVE TypeInv'
  <2>1. DeleteNodeRequest(n) \in Requests /\ ArgsOK(DeleteNodeRequest(n))
    BY DEF DeleteNodeRequest, Requests, ArgsOK, MemberLists, Ops, Membership
  <2> QED
    BY <1>1, <1>7, <2>1, AskTyped DEF AskDeleteNode, TypeInv, TypeOK, nodeVars, poolVars, workerVars
<1>8. ASSUME NEW h \in Handlers, NEW d \in Docs,
             \/ \E ns \in MemberLists : AskAdd(h, d, ns)
             \/ \E n \in Nodes : AskRemove(h, d, n)
             \/ \E m \in Models : AskInitialize(h, d, m)
             \/ AskDelete(h, d) \/ AskLoad(h, d) \/ AskUnload(h, d)
      PROVE  TypeInv'
  <2>1. name[d] \in Names \cup {None} /\ members[d] \in MemberLists /\ \A n \in Present(d) : n \in Nodes
    BY <1>1, MemberListsTyped DEF TypeOK, Present, Listed
  <2>2. \A op \in Ops, pc \in Pcs : OnPool(op, pc, d) \in Requests
    BY <2>1 DEF OnPool, Requests, Pcs, MemberLists
  <2>3. ASSUME NEW r \in Requests, ArgsOK(r), Ask(h, r), UNCHANGED <<nodeVars, poolVars, minted, workerVars, missing>>
        PROVE  TypeInv'
    BY <1>1, <2>3, AskTyped DEF TypeInv, TypeOK, nodeVars, poolVars, workerVars
  <2>4. ASSUME NEW ns \in MemberLists, AskAdd(h, d, ns) PROVE TypeInv'
    <3> DEFINE r == [OnPool("add", "check", d) EXCEPT !.nodes = ns, !.todo = Listed(ns)]
    <3>1. r \in Requests
      <4>1. OnPool("add", "check", d) \in Requests
        BY <2>2 DEF Ops, Membership, Pcs
      <4>2. Listed(ns) \subseteq Nodes
        BY MemberListsTyped
      <4> QED
        BY <4>1, <4>2 DEF Requests
    <3>2. members[d] \o ns \in MemberLists
      BY <2>1, <2>4, ConcatFits DEF AskAdd, Listed, Present
    <3>3. ArgsOK(r)
      BY <3>2 DEF ArgsOK, OnPool
    <3> QED
      BY <2>3, <2>4, <3>1, <3>3 DEF AskAdd
  <2>5. ASSUME NEW n \in Nodes, AskRemove(h, d, n) PROVE TypeInv'
    <3> DEFINE r == [OnPool("remove", IF d \in loaded THEN "gather" ELSE "pool", d) EXCEPT !.nodes = <<n>>]
    <3>1. r \in Requests
      <4>1. \A pc \in {"gather", "pool"} : OnPool("remove", pc, d) \in Requests
        BY <2>2 DEF Ops, Membership, Pcs
      <4>2. <<n>> \in MemberLists
        BY DEF MemberLists
      <4> QED
        BY <4>1, <4>2 DEF Requests
    <3>2. ArgsOK(r)
      BY <2>5 DEF AskRemove, ArgsOK, OnPool, Present, Listed
    <3> QED
      BY <2>3, <2>5, <3>1, <3>2 DEF AskRemove
  <2>6. ASSUME NEW m \in Models, AskInitialize(h, d, m) PROVE TypeInv'
    <3> DEFINE r == [OnPool("initialize", "gather", d) EXCEPT !.model = m]
    <3>1. r \in Requests
      <4>1. OnPool("initialize", "gather", d) \in Requests
        BY <2>2 DEF Ops, Membership, Pcs
      <4> QED
        BY <4>1 DEF Requests
    <3>2. members[d] \in Pairs
      <4>1. members[d] \in MemberLists /\ Len(members[d]) = 2
        BY <2>1, <2>6 DEF AskInitialize
      <4>2. \A n \in Nodes : Len(<<n>>) = 1
        OBVIOUS
      <4> QED
        BY <4>1, <4>2 DEF MemberLists
    <3>3. ArgsOK(r)
      BY <3>2 DEF ArgsOK, OnPool
    <3> QED
      BY <2>3, <2>6, <3>1, <3>3 DEF AskInitialize
  <2>7. CASE AskDelete(h, d) \/ AskLoad(h, d) \/ AskUnload(h, d)
    <3>1. \A op \in {"delete", "load", "unload"}, pc \in Pcs : ArgsOK(OnPool(op, pc, d))
      BY DEF ArgsOK, OnPool
    <3>2. \E op \in {"delete", "load", "unload"}, pc \in Pcs : Ask(h, OnPool(op, pc, d))
      BY <2>7 DEF AskDelete, AskLoad, AskUnload, Pcs
    <3> QED
      BY <2>2, <2>3, <2>7, <3>1, <3>2 DEF AskDelete, AskLoad, AskUnload, Ops, Membership
  <2> QED
    BY <1>8, <2>4, <2>5, <2>6, <2>7
<1>9. ASSUME NEW h \in Handlers, Handle(h) PROVE TypeInv'
  <2>1. Rest /\ ReqsOK
    BY <1>1 DEF TypeInv, TypeOK, Rest, ReqsOK
  <2>2. Rest' /\ ReqsOK'
    BY <2>1, <1>9, HandleTyped
  <2> QED
    BY <2>2 DEF TypeInv, TypeOK, Rest, ReqsOK
<1>10. ASSUME NEW c \in late, LateCall(c) PROVE TypeInv'
  BY <1>10, LateTyped
<1> QED
  BY <1>2, <1>3, <1>4, <1>5, <1>6, <1>7, <1>8, <1>9, <1>10 DEF Next, Request, Health

LEMMA TypeInit == Init => TypeInv
BY DEF Init, TypeInv, TypeOK, MemberLists

\* Type correctness of the registry and the requests.
THEOREM TypeCorrect == Spec => []TypeOK
<1>1. TypeInv => TypeOK
  BY DEF TypeInv
<1> QED BY TypeInit, TypeStep, <1>1, PTL DEF Spec

-----------------------------------------------------------------------------
(* Nodes and pools agree on the membership.                                *)

InMembership(h) == req[h].op \in Membership

\* A pool has the node as a member, or is getting or losing it.
Half(h, d, n) ==
  /\ At(h, "add", "pool") \/ At(h, "remove", "node")
  /\ req[h].doc = d
  /\ n \in Listed(req[h].nodes)
Claims(d, n) ==
  /\ n \in Present(d) \/ \E h \in Handlers : Half(h, d, n)
  /\ ~\E h \in Handlers : At(h, "delete", "pool") /\ req[h].doc = d

\* What the one request that changes the membership may rely on.
MemberRequestOK(h) ==
  LET r == req[h] IN
  /\ r.op # "deleteNode" => name[r.doc] # None /\ r.name = name[r.doc]
  /\ r.op = "add" =>
       /\ r.snap = members[r.doc]
       /\ r.pc \in {"check", "nodes"} =>
            \A n \in Listed(r.nodes) \ r.todo : n \in registered /\ poolName[n] = None
       /\ r.pc = "nodes" => Listed(r.nodes) \cap r.todo = {}
  /\ r.op = "remove" =>
       IF r.pc = "node" THEN Listed(r.nodes) \cap Present(r.doc) = {}
                        ELSE r.snap = members[r.doc]
  /\ r.op = "delete" /\ r.pc # "pool" => r.snap = members[r.doc]
  /\ r.op = "deleteNode" => \A n \in Listed(r.nodes) : poolName[n] = None

OneAtATime == \A g, h \in Handlers : InMembership(g) /\ InMembership(h) => g = h
NamesDiffer == \A d, e \in Docs : name[d] # None /\ name[d] = name[e] => d = e
RowsNamePools ==
  \A n \in Nodes : poolName[n] # None => n \in registered /\ \E d \in Docs : name[d] = poolName[n]
RowsAgree == \A d \in Docs : Exists(d) => \A n \in Nodes : poolName[n] = name[d] <=> Claims(d, n)
RequestsOK == \A h \in Handlers : InMembership(h) => MemberRequestOK(h)

Core == OneAtATime /\ NamesDiffer /\ RowsNamePools /\ RowsAgree /\ RequestsOK

Calm == Without({"members", "crash"})

MemberInv == TypeInv /\ (Calm => Core)

LEMMA MemberInit == Init => MemberInv
<1> SUFFICES ASSUME Init PROVE Core
  BY TypeInit DEF MemberInv
<1>1. \A h \in Handlers : ~InMembership(h)
  BY DEF Init, Idle, InMembership, Membership
<1> QED
  BY <1>1 DEF Init, Core, OneAtATime, NamesDiffer, RowsNamePools, RowsAgree, RequestsOK, Exists

\* Steps that leave the membership and who changes it alone.
LEMMA Inert ==
  ASSUME Core, registered \subseteq registered', UNCHANGED <<poolName, name, members>>,
         \A h \in Handlers :
           \/ req'[h] = req[h]
           \/ req'[h].op \notin Membership /\ req[h].op \notin Membership
           \/ /\ req'[h].op = "none"
              /\ ~(At(h, "add", "pool") \/ At(h, "remove", "node") \/ At(h, "delete", "pool"))
           \/ /\ req'[h].op = req[h].op /\ req'[h].doc = req[h].doc /\ req'[h].name = req[h].name
              /\ req'[h].snap = req[h].snap /\ req'[h].nodes = req[h].nodes
              /\ req[h].op \in {"remove", "delete"}
              /\ req[h].pc \in {"gather", "post"}
              /\ req'[h].pc \in {"gather", "post"} \cup (IF req[h].op = "remove" THEN {"pool"} ELSE {"nodes"})
  PROVE  Core'
<1>1. \A h \in Handlers : InMembership(h)' => InMembership(h)
  BY DEF InMembership, Membership
<1>2. \A h \in Handlers : \A d, n : Half(h, d, n)' <=> Half(h, d, n)
  BY DEF Half, At, Membership
<1>3. \A h \in Handlers : \A d :
        (At(h, "delete", "pool") /\ req[h].doc = d)' <=> At(h, "delete", "pool") /\ req[h].doc = d
  BY DEF At, Membership
<1>4. \A d, n : Claims(d, n)' <=> Claims(d, n)
  BY <1>2, <1>3 DEF Claims, Present
<1>5. \A h \in Handlers : InMembership(h)' => MemberRequestOK(h)'
  BY <1>1 DEF Core, RequestsOK, MemberRequestOK, InMembership, Membership, Present
<1> QED
  BY <1>1, <1>4, <1>5 DEF Core, OneAtATime, NamesDiffer, RowsNamePools, RowsAgree, RequestsOK, Exists

\* With one request that changes the membership, it alone decides.
LEMMA ClaimsAlone ==
  ASSUME NEW h \in Handlers, \A g \in Handlers \ {h} : ~InMembership(g), NEW d, NEW n
  PROVE  Claims(d, n) <=>
           /\ n \in Present(d) \/ Half(h, d, n)
           /\ ~(At(h, "delete", "pool") /\ req[h].doc = d)
BY DEF Claims, Half, At, InMembership, Membership

LEMMA ClaimsAloneNext ==
  ASSUME NEW h \in Handlers, \A g \in Handlers \ {h} : ~InMembership(g)', NEW d, NEW n
  PROVE  Claims(d, n)' <=>
           /\ n \in Present(d)' \/ Half(h, d, n)'
           /\ ~(At(h, "delete", "pool") /\ req[h].doc = d)'
BY DEF Claims, Half, At, InMembership, Membership

\* The core for a step of the one such request h.
LEMMA CoreAlone ==
  ASSUME NEW h \in Handlers, \A g \in Handlers \ {h} : ~InMembership(g)',
         NamesDiffer', RowsNamePools',
         \A d \in Docs : name'[d] # None => \A n \in Nodes :
           poolName'[n] = name'[d] <=>
             /\ n \in Present(d)' \/ Half(h, d, n)'
             /\ ~(At(h, "delete", "pool") /\ req[h].doc = d)',
         InMembership(h)' => MemberRequestOK(h)'
  PROVE  Core'
<1>1. OneAtATime' /\ RequestsOK'
  BY DEF OneAtATime, RequestsOK
<1>2. RowsAgree'
  BY ClaimsAloneNext DEF RowsAgree, Exists
<1> QED
  BY <1>1, <1>2 DEF Core

LEMMA AskAlone ==
  ASSUME TypeInv, Calm', NEW h \in Handlers, NEW r, r.op \in Membership, Ask(h, r)
  PROVE  (\A g \in Handlers : ~InMembership(g)) /\ req' = [req EXCEPT ![h] = r]
<1>1. ASSUME NEW g \in Handlers, InMembership(g) PROVE FALSE
  <2>1. req[g] # Idle
    BY <1>1, OpIsBusy DEF InMembership, Membership
  <2>2. Overlap(r.op, req[g].op) = "members"
    BY <1>1 DEF Overlap, InMembership
  <2>3. "members" \in disturbed'
    BY <2>1, <2>2 DEF Ask
  <2> QED
    BY <2>3 DEF Calm, Without
<1> QED
  BY <1>1 DEF Ask

LEMMA AskKeeps ==
  ASSUME MemberInv, Calm', Core, NEW h \in Handlers, NEW r, r.op \in Membership, Ask(h, r),
         UNCHANGED <<nodeVars, poolVars>>,
         ~(r.op = "add" /\ r.pc = "pool"), ~(r.op = "remove" /\ r.pc = "node"),
         ~(r.op = "delete" /\ r.pc = "pool"),
         MemberRequestOK(h)'
  PROVE  Core'
<1>1. TypeInv /\ req \in [Handlers -> {Idle} \cup Requests]
  BY DEF MemberInv, TypeInv, TypeOK
<1>2. (\A g \in Handlers : ~InMembership(g)) /\ req' = [req EXCEPT ![h] = r]
  BY <1>1, AskAlone
<1>3. \A g \in Handlers \ {h} : ~InMembership(g)'
  BY <1>1, <1>2 DEF InMembership
<1>4. UNCHANGED <<registered, poolName, name, members>>
  BY DEF nodeVars, poolVars
<1>5. \A d, n : Claims(d, n) <=> n \in Present(d)
  BY <1>2 DEF Claims, Half, At, InMembership, Membership
<1>6. NamesDiffer' /\ RowsNamePools'
  BY <1>4 DEF Core, NamesDiffer, RowsNamePools
<1>7. req'[h] = r
  BY <1>1, <1>2
<1>8. \A d, n : ~Half(h, d, n)' /\ ~At(h, "delete", "pool")'
  BY <1>7 DEF Half, At
<1>9. \A d \in Docs : name'[d] # None => \A n \in Nodes : poolName'[n] = name'[d] <=> n \in Present(d)'
  BY <1>4, <1>5 DEF Core, RowsAgree, Exists, Present
<1> QED
  BY <1>3, <1>6, <1>8, <1>9, CoreAlone

\* The one request goes on: what it was asked with stays.
LEMMA MemberGoto ==
  ASSUME TypeInv, Core, NEW h \in Handlers, InMembership(h), NEW pc \in Pcs, Goto(h, pc)
  PROVE  /\ \A g \in Handlers \ {h} : ~InMembership(g)'
         /\ req[h] \in Requests /\ ArgsOK(req[h])
         /\ req'[h].op = req[h].op /\ req'[h].pc = pc /\ req'[h].doc = req[h].doc
         /\ req'[h].name = req[h].name /\ req'[h].snap = req[h].snap
         /\ req'[h].nodes = req[h].nodes /\ req'[h].todo = req[h].todo
<1>1. req[h] \in Requests /\ ArgsOK(req[h]) /\ req \in [Handlers -> {Idle} \cup Requests]
  BY Busy, OpIsBusy DEF TypeInv, TypeOK, InMembership, Membership
<1>2. req' = [req EXCEPT ![h] = [req[h] EXCEPT !.pc = pc]]
  BY DEF Goto
<1>3. req'[h] = [req[h] EXCEPT !.pc = pc]
  BY <1>1, <1>2
<1>4. \A g \in Handlers \ {h} : req'[g] = req[g]
  BY <1>1, <1>2
<1>5. \A g \in Handlers \ {h} : ~InMembership(g)
  BY DEF Core, OneAtATime
<1> QED
  BY <1>1, <1>3, <1>4, <1>5 DEF InMembership, Requests

LEMMA MemberReturn ==
  ASSUME TypeInv, Core, NEW h \in Handlers, InMembership(h), Return(h)
  PROVE  /\ \A g \in Handlers : ~InMembership(g)'
         /\ req[h] \in Requests /\ ArgsOK(req[h])
         /\ \A d, n : ~Half(h, d, n)' /\ ~At(h, "delete", "pool")'
<1>1. req[h] \in Requests /\ ArgsOK(req[h]) /\ req \in [Handlers -> {Idle} \cup Requests]
  BY Busy, OpIsBusy DEF TypeInv, TypeOK, InMembership, Membership
<1>2. req'[h].op = "none" /\ \A g \in Handlers \ {h} : req'[g] = req[g]
  BY <1>1 DEF Return, Idle
<1>3. \A g \in Handlers \ {h} : ~InMembership(g)
  BY DEF Core, OneAtATime
<1> QED
  BY <1>1, <1>2, <1>3 DEF InMembership, Membership, Half, At

\* The steps that change rows, members and names.
LEMMA MembershipSteps ==
  ASSUME TypeInv, Core, NEW h \in Handlers,
         \/ AddCheck(h) /\ ~Return(h)
         \/ AddNodes(h) \/ AddPool(h) \/ RemovePool(h) \/ RemoveNode(h)
         \/ DeleteNodes(h) \/ DeletePool(h) \/ NodeDeleted(h)
  PROVE  Core'
<1> USE DEF At
<1> DEFINE r == req[h]
<1>1. /\ InMembership(h)
      /\ \A g \in Handlers \ {h} : ~InMembership(g)
      /\ MemberRequestOK(h)
  BY DEF AddCheck, AddNodes, AddPool, RemovePool, RemoveNode, DeleteNodes, DeletePool, NodeDeleted,
     InMembership, Membership, Core, OneAtATime, RequestsOK
<1>2. r \in Requests /\ ArgsOK(r) /\ req \in [Handlers -> {Idle} \cup Requests]
  BY <1>1, Busy, OpIsBusy DEF TypeInv, TypeOK, InMembership, Membership
<1>3. \A d \in Docs : name[d] # None => \A n \in Nodes :
        poolName[n] = name[d] <=>
          (n \in Present(d) \/ Half(h, d, n)) /\ ~(At(h, "delete", "pool") /\ r.doc = d)
  BY <1>1, ClaimsAlone DEF Core, RowsAgree, Exists
<1>4. /\ \A d, e \in Docs : name[d] # None /\ name[d] = name[e] => d = e
      /\ \A n \in Nodes : poolName[n] # None => n \in registered /\ \E d \in Docs : name[d] = poolName[n]
  BY DEF Core, NamesDiffer, RowsNamePools
<1>5. /\ poolName \in [Nodes -> Names \cup {None}] /\ name \in [Docs -> Names \cup {None}]
      /\ members \in [Docs -> MemberLists]
  BY DEF TypeInv, TypeOK
<1>6. r.op # "deleteNode" => r.doc \in Docs /\ name[r.doc] # None /\ r.name = name[r.doc]
  BY <1>1, <1>2 DEF MemberRequestOK, ArgsOK
<1> HIDE DEF r
<1>7. CASE AddCheck(h) /\ ~Return(h)
  <2>1. PICK i \in DOMAIN r.nodes :
          /\ r.op = "add" /\ r.pc = "check"
          /\ \A j \in 1 .. i - 1 : r.nodes[j] \notin r.todo
          /\ Free(r.nodes[i])
          /\ req' = [req EXCEPT ![h].todo = @ \ {r.nodes[i]},
                                ![h].pc = IF i = Len(r.nodes) THEN "nodes" ELSE @]
          /\ UNCHANGED <<registered, poolName, name, members>>
    BY <1>7 DEF AddCheck, nodeVars, poolVars, r
  <2>2. /\ req'[h] = [r EXCEPT !.todo = @ \ {r.nodes[i]}, !.pc = IF i = Len(r.nodes) THEN "nodes" ELSE "check"]
        /\ \A g \in Handlers \ {h} : req'[g] = req[g]
    BY <1>2, <2>1 DEF r, Requests
  <2>3. r.nodes \in Seq(Nodes)
    BY <1>2, MemberListsTyped DEF Requests
  <2>4. \A g \in Handlers \ {h} : ~InMembership(g)'
    BY <1>1, <2>2 DEF InMembership
  <2>5. r.op = req'[h].op /\ r.doc = req'[h].doc /\ r.name = req'[h].name /\ r.snap = req'[h].snap
        /\ r.nodes = req'[h].nodes /\ req'[h].todo = r.todo \ {r.nodes[i]}
        /\ req'[h].pc = IF i = Len(r.nodes) THEN "nodes" ELSE "check"
    BY <1>2, <2>2 DEF Requests
  <2>6. i = Len(r.nodes) => Listed(r.nodes) \cap (r.todo \ {r.nodes[i]}) = {}
    BY <2>1, <2>3 DEF Listed
  <2>7. MemberRequestOK(h)'
    BY <1>1, <2>1, <2>5, <2>6 DEF MemberRequestOK, Free, Present, r
  <2>8. \A d, n : ~Half(h, d, n)' /\ ~Half(h, d, n) /\ Present(d)' = Present(d)
    <3>1. r.op = "add" /\ r.pc = "check" /\ members' = members
      BY <2>1
    <3>2. req'[h].op = "add" /\ req'[h].pc # "pool"
      BY <2>5, <3>1
    <3>3. req[h].op = "add" /\ req[h].pc # "pool"
      BY <3>1 DEF r
    <3> QED
      BY <3>1, <3>2, <3>3 DEF Half, Present
  <2>9. req[h].op = "add" /\ req'[h].op = "add" /\ UNCHANGED <<registered, poolName, name>>
    BY <2>1, <2>5 DEF r
  <2>10. NamesDiffer' /\ RowsNamePools'
    BY <1>4, <2>9 DEF NamesDiffer, RowsNamePools
  <2> QED
    BY <1>3, <2>4, <2>7, <2>8, <2>9, <2>10, CoreAlone
<1>8. CASE AddNodes(h)
  <2>1. /\ r.op = "add" /\ r.pc = "nodes" /\ Goto(h, "pool")
        /\ UNCHANGED <<registered, name, members>>
        /\ poolName' = [n \in Nodes |->
                         IF n \in registered /\ n \in Listed(r.nodes) THEN r.name ELSE poolName[n]]
    BY <1>8 DEF AddNodes, poolVars, r
  <2>2. \A n \in Listed(r.nodes) : n \in registered /\ poolName[n] = None
    BY <1>1, <2>1 DEF MemberRequestOK, r
  <2>3. /\ \A g \in Handlers \ {h} : ~InMembership(g)'
        /\ req'[h].op = r.op /\ req'[h].pc = "pool" /\ req'[h].doc = r.doc /\ req'[h].name = r.name
        /\ req'[h].snap = r.snap /\ req'[h].nodes = r.nodes
    BY <1>1, <2>1, MemberGoto DEF r, Pcs
  <2>4. MemberRequestOK(h)'
    BY <1>1, <2>1, <2>3 DEF MemberRequestOK, r
  <2>5. \A d, n : /\ Half(h, d, n)' <=> d = r.doc /\ n \in Listed(r.nodes)
                  /\ ~Half(h, d, n) /\ Present(d)' = Present(d)
    BY <2>1, <2>3 DEF Half, Present, r
  <2>6. \A n \in Nodes : poolName'[n] = IF n \in Listed(r.nodes) THEN name[r.doc] ELSE poolName[n]
    BY <1>6, <2>1, <2>2
  <2>7. RowsNamePools'
    BY <1>4, <1>6, <2>1, <2>2, <2>6 DEF RowsNamePools
  <2>8. ASSUME NEW d \in Docs, name[d] # None, NEW n \in Nodes
        PROVE  poolName'[n] = name[d] <=> n \in Present(d) \/ (d = r.doc /\ n \in Listed(r.nodes))
    BY <1>3, <1>4, <1>6, <2>1, <2>2, <2>5, <2>6, <2>8 DEF r
  <2> QED
    BY <1>4, <2>1, <2>3, <2>4, <2>5, <2>7, <2>8, CoreAlone DEF NamesDiffer, r
<1>9. CASE AddPool(h)
  <2>1. /\ r.op = "add" /\ r.pc = "pool" /\ Return(h)
        /\ UNCHANGED <<registered, poolName, name>>
        /\ members' = [members EXCEPT ![r.doc] = r.snap \o r.nodes]
    BY <1>6, <1>9 DEF AddPool, SetMembers, Exists, nodeVars, r
  <2>2. r.snap = members[r.doc]
    BY <1>1, <2>1 DEF MemberRequestOK, r
  <2>3. Listed(r.snap \o r.nodes) = Present(r.doc) \cup Listed(r.nodes)
    <3>1. r.snap \in Seq(Nodes) /\ r.nodes \in Seq(Nodes)
      BY <1>2, MemberListsTyped DEF Requests
    <3>2. Present(r.doc) = Listed(r.snap)
      BY <2>2 DEF Present, Listed
    <3> QED
      BY <3>1, <3>2, ListedConcat
  <2>4. /\ \A g \in Handlers : ~InMembership(g)'
        /\ \A d, n : ~Half(h, d, n)' /\ ~At(h, "delete", "pool")'
    BY <1>1, <2>1, MemberReturn
  <2>5. \A d \in Docs : Present(d)' = IF d = r.doc THEN Present(d) \cup Listed(r.nodes) ELSE Present(d)
    <3>1. \A d \in Docs : Present(d)' = Listed(members'[d]) /\ Present(d) = Listed(members[d])
      BY DEF Present, Listed
    <3>2. \A d \in Docs : members'[d] = IF d = r.doc THEN r.snap \o r.nodes ELSE members[d]
      BY <1>5, <1>6, <2>1
    <3> QED
      BY <2>3, <3>1, <3>2
  <2>6. \A d, n : Half(h, d, n) <=> d = r.doc /\ n \in Listed(r.nodes)
    BY <2>1 DEF Half, r
  <2> QED
    BY <1>3, <1>4, <2>1, <2>4, <2>5, <2>6, CoreAlone DEF NamesDiffer, RowsNamePools, r
<1>10. CASE RemovePool(h)
  <2>1. /\ r.op = "remove" /\ r.pc = "pool" /\ Goto(h, "node")
        /\ UNCHANGED <<registered, poolName, name>>
        /\ members' = [members EXCEPT ![r.doc] = Others(r.snap, r.nodes[1])]
    BY <1>6, <1>10 DEF RemovePool, SetMembers, Exists, nodeVars, r
  <2>2. r.snap = members[r.doc]
    BY <1>1, <2>1 DEF MemberRequestOK, r
  <2>3. PICK m \in Listed(r.snap) : r.nodes = <<m>>
    BY <1>2, <2>1 DEF ArgsOK
  <2>4. Listed(Others(r.snap, r.nodes[1])) = Listed(r.snap) \ {m} /\ Listed(r.nodes) = {m}
    <3>1. r.snap \in MemberLists
      BY <1>2 DEF Requests
    <3>2. Listed(<<m>>) = {m}
      BY DEF Listed
    <3> QED
      BY <2>3, <3>1, <3>2, OthersTyped
  <2>5. /\ \A g \in Handlers \ {h} : ~InMembership(g)'
        /\ req'[h].op = r.op /\ req'[h].pc = "node" /\ req'[h].doc = r.doc /\ req'[h].name = r.name
        /\ req'[h].snap = r.snap /\ req'[h].nodes = r.nodes
    BY <1>1, <2>1, MemberGoto DEF r, Pcs
  <2>6. \A d \in Docs : Present(d)' = IF d = r.doc THEN Present(d) \ {m} ELSE Present(d)
    BY <1>5, <1>6, <2>1, <2>2, <2>4 DEF Present, Listed
  <2>7. MemberRequestOK(h)'
    BY <1>1, <1>6, <2>1, <2>4, <2>5, <2>6 DEF MemberRequestOK, r
  <2>8. \A d, n : (Half(h, d, n)' <=> d = r.doc /\ n = m) /\ ~Half(h, d, n)
    BY <2>1, <2>4, <2>5 DEF Half, r
  <2>9. m \in Present(r.doc)
    BY <2>2, <2>3 DEF Present, Listed
  <2> QED
    BY <1>3, <1>4, <2>1, <2>5, <2>6, <2>7, <2>8, <2>9, CoreAlone DEF NamesDiffer, RowsNamePools, r
<1>11. CASE RemoveNode(h)
  <2>1. /\ r.op = "remove" /\ r.pc = "node" /\ Return(h)
        /\ UNCHANGED <<registered, name, members>>
        /\ poolName' = [poolName EXCEPT ![r.nodes[1]] = None]
    BY <1>11 DEF RemoveNode, poolVars, r
  <2>2. PICK m \in Nodes : r.nodes = <<m>>
    BY <1>2, <2>1, MemberListsTyped DEF ArgsOK, Requests
  <2>3. Listed(r.nodes) = {m} /\ r.nodes[1] = m
    BY <2>2 DEF Listed
  <2>4. m \notin Present(r.doc)
    BY <1>1, <2>1, <2>3 DEF MemberRequestOK, r
  <2>5. /\ \A g \in Handlers : ~InMembership(g)'
        /\ \A d, n : ~Half(h, d, n)' /\ ~At(h, "delete", "pool")'
    BY <1>1, <2>1, MemberReturn
  <2>6. \A d, n : (Half(h, d, n) <=> d = r.doc /\ n = m) /\ Present(d)' = Present(d)
    BY <2>1, <2>3 DEF Half, Present, r
  <2>7. \A n \in Nodes : poolName'[n] = IF n = m THEN None ELSE poolName[n]
    BY <1>5, <2>1, <2>2, <2>3
  <2>8. ASSUME NEW d \in Docs, name[d] # None, NEW n \in Nodes
        PROVE  poolName'[n] = name[d] <=> n \in Present(d)
    <3>1. poolName[m] = name[r.doc]
      BY <1>3, <1>6, <2>1, <2>2, <2>6 DEF r
    <3>2. n = m => n \notin Present(d)
      BY <1>3, <1>4, <1>6, <2>1, <2>4, <2>6, <2>8, <3>1 DEF r
    <3> QED
      BY <1>3, <2>1, <2>6, <2>7, <2>8, <3>2 DEF r
  <2> QED
    BY <1>4, <2>1, <2>5, <2>6, <2>7, <2>8, CoreAlone DEF NamesDiffer, RowsNamePools, r
<1>12. CASE DeleteNodes(h)
  <2>1. /\ r.op = "delete" /\ r.pc = "nodes" /\ Goto(h, "pool")
        /\ UNCHANGED <<registered, name, members>>
        /\ poolName' = [n \in Nodes |-> IF n \in Listed(r.snap) THEN None ELSE poolName[n]]
    BY <1>12 DEF DeleteNodes, poolVars, r
  <2>2. Listed(r.snap) = Present(r.doc)
    BY <1>1, <2>1 DEF MemberRequestOK, r, Listed, Present
  <2>3. /\ \A g \in Handlers \ {h} : ~InMembership(g)'
        /\ req'[h].op = r.op /\ req'[h].pc = "pool" /\ req'[h].doc = r.doc /\ req'[h].name = r.name
        /\ req'[h].snap = r.snap /\ req'[h].nodes = r.nodes
    BY <1>1, <2>1, MemberGoto DEF r, Pcs
  <2>4. MemberRequestOK(h)'
    BY <1>1, <2>1, <2>3 DEF MemberRequestOK, r
  <2>5. \A d, n : ~Half(h, d, n)' /\ ~Half(h, d, n) /\ Present(d)' = Present(d)
    BY <2>1, <2>3 DEF Half, Present, r
  <2>6. ASSUME NEW d \in Docs, name[d] # None, NEW n \in Nodes
        PROVE  poolName'[n] = name[d] <=> n \in Present(d) /\ d # r.doc
    <3>1. n \in Present(r.doc) => poolName[n] = name[r.doc]
      BY <1>3, <1>6, <2>1, <2>6, <2>5 DEF r
    <3>2. poolName[n] = name[d] <=> n \in Present(d)
      BY <1>3, <2>1, <2>5, <2>6 DEF r
    <3> QED
      BY <1>4, <1>6, <2>1, <2>2, <2>6, <3>1, <3>2
  <2>7. RowsNamePools'
    BY <1>4, <2>1 DEF RowsNamePools
  <2> QED
    BY <1>4, <2>1, <2>3, <2>4, <2>5, <2>6, <2>7, CoreAlone DEF NamesDiffer, r
<1>13. CASE DeletePool(h)
  <2>1. /\ r.op = "delete" /\ r.pc = "pool" /\ Return(h)
        /\ UNCHANGED <<registered, poolName>>
        /\ name' = [name EXCEPT ![r.doc] = None] /\ members' = [members EXCEPT ![r.doc] = <<>>]
    BY <1>13 DEF DeletePool, nodeVars, r
  <2>2. /\ \A g \in Handlers : ~InMembership(g)'
        /\ \A d, n : ~Half(h, d, n)' /\ ~At(h, "delete", "pool")'
    BY <1>1, <2>1, MemberReturn
  <2>3. \A d \in Docs \ {r.doc} : name'[d] = name[d] /\ Present(d)' = Present(d)
    BY <1>5, <2>1 DEF Present
  <2>4. name'[r.doc] = None
    BY <1>5, <1>6, <2>1
  <2>5. \A n \in Nodes : poolName[n] # name[r.doc]
    BY <1>3, <1>6, <2>1 DEF r
  <2>6. \A d, n : ~Half(h, d, n)
    BY <2>1 DEF Half, r
  <2>7. NamesDiffer' /\ RowsNamePools'
    BY <1>4, <1>6, <2>1, <2>3, <2>4, <2>5 DEF NamesDiffer, RowsNamePools
  <2> QED
    BY <1>3, <2>1, <2>2, <2>3, <2>4, <2>6, <2>7, CoreAlone DEF r
<1>14. CASE NodeDeleted(h)
  <2>1. PICK m \in Nodes :
          /\ r.op = "deleteNode" /\ r.pc = "node" /\ r.nodes = <<m>>
          /\ registered' = registered \ {m}
          /\ poolName' = [poolName EXCEPT ![m] = None]
          /\ UNCHANGED <<name, members>>
          /\ req' = [g \in Handlers |->
                      IF At(g, "deleteNode", "node") /\ req[g].nodes = <<m>> THEN Idle ELSE req[g]]
    BY <1>14 DEF NodeDeleted, poolVars, r
  <2>2. poolName[m] = None
    BY <1>1, <2>1 DEF MemberRequestOK, Listed, r
  <2>3. poolName' = poolName
    BY <1>5, <2>1, <2>2
  <2>4. req'[h] = Idle /\ \A g \in Handlers \ {h} : req'[g] \in {req[g], Idle}
    BY <2>1 DEF r
  <2>5. /\ \A g \in Handlers : ~InMembership(g)'
        /\ \A d, n : ~Half(h, d, n)' /\ ~At(h, "delete", "pool")'
    BY <1>1, <2>4 DEF InMembership, Membership, Half, Idle
  <2>6. \A d, n : ~Half(h, d, n) /\ Present(d)' = Present(d)
    BY <2>1 DEF Half, Present, r
  <2>7. NamesDiffer' /\ RowsNamePools'
    BY <1>4, <2>1, <2>2, <2>3 DEF NamesDiffer, RowsNamePools
  <2> QED
    BY <1>3, <2>1, <2>3, <2>5, <2>6, <2>7, CoreAlone DEF r
<1> QED
  BY <1>7, <1>8, <1>9, <1>10, <1>11, <1>12, <1>13, <1>14

\* The steps of /initialize, /load and /unload, and those of a membership
\* request before it changes anything or as it gives up.
LEMMA OtherSteps ==
  ASSUME TypeInv, Core, NEW h \in Handlers,
         \/ AddCheck(h) /\ Return(h)
         \/ RemoveUnloaded(h) \/ DeleteUnloaded(h) \/ Gather(h) \/ Post(h) \/ GiveUp(h)
         \/ InitializeAnswered(h) \/ InitializePool(h)
         \/ LoadFlag(h) \/ LoadRead(h) \/ Mint(h) \/ MintFails(h) \/ SaveToken(h) \/ UnloadFlag(h)
  PROVE  Core'
<1> USE DEF nodeVars, poolVars, At, Answered
<1>1. req \in [Handlers -> {Idle} \cup Requests]
  BY DEF TypeInv, TypeOK
<1>2. UNCHANGED <<registered, poolName, name, members>>
  BY DEF AddCheck, RemoveUnloaded, DeleteUnloaded, Gather, Post, GiveUp, InitializeAnswered, InitializePool,
     LoadFlag, LoadRead, Mint, MintFails, SaveToken, UnloadFlag
<1>3. req[h] \in Requests
  BY Busy, OpIsBusy DEF AddCheck, RemoveUnloaded, DeleteUnloaded, Gather, Post, GiveUp, InitializeAnswered,
     InitializePool, LoadFlag, LoadRead, Mint, MintFails, SaveToken, UnloadFlag
<1>4. ASSUME NEW pc, Goto(h, pc)
      PROVE  /\ \A g \in Handlers \ {h} : req'[g] = req[g]
             /\ req'[h].op = req[h].op /\ req'[h].pc = pc /\ req'[h].doc = req[h].doc
             /\ req'[h].name = req[h].name /\ req'[h].snap = req[h].snap /\ req'[h].nodes = req[h].nodes
  BY <1>1, <1>3, <1>4 DEF Goto, Requests
<1>5. ASSUME Return(h) PROVE req'[h].op = "none" /\ \A g \in Handlers \ {h} : req'[g] = req[g]
  BY <1>1, <1>5 DEF Return, Idle
<1>6. CASE Return(h) /\ ~(req[h].op \in {"add", "delete"} /\ req[h].pc = "pool")
                     /\ ~(req[h].op = "remove" /\ req[h].pc = "node")
  BY <1>2, <1>5, <1>6, Inert
<1>7. CASE /\ req[h].op \notin Membership
           /\ \A g \in Handlers \ {h} : req'[g] = req[g]
           /\ req'[h].op \notin Membership
  BY <1>2, <1>7, Inert
<1>8. CASE AddCheck(h) /\ Return(h)
  BY <1>6, <1>8 DEF AddCheck
<1>9. CASE RemoveUnloaded(h)
  <2>1. req[h].op = "remove" /\ req[h].pc = "post"
    BY <1>9 DEF RemoveUnloaded
  <2>2. CASE Goto(h, "pool")
    BY <1>2, <1>4, <2>1, <2>2, Inert
  <2> QED
    BY <1>6, <1>9, <2>1, <2>2 DEF RemoveUnloaded
<1>10. CASE DeleteUnloaded(h)
  <2>1. req[h].op = "delete" /\ req[h].pc = "post"
    BY <1>10 DEF DeleteUnloaded
  <2>2. CASE Goto(h, "nodes")
    BY <1>2, <1>4, <2>1, <2>2, Inert
  <2> QED
    BY <1>6, <1>10, <2>1, <2>2 DEF DeleteUnloaded
<1>11. CASE Gather(h) \/ Post(h) \/ GiveUp(h)
  <2>1. req[h].pc \in {"gather", "post"}
    BY <1>11 DEF Gather, Post, GiveUp
  <2>2. CASE Return(h)
    BY <1>6, <2>1, <2>2
  <2>3. CASE ~Return(h)
    <3>1. /\ \A g \in Handlers \ {h} : req'[g] = req[g]
          /\ req'[h].op = req[h].op /\ req'[h].pc \in {"gather", "post"} /\ req'[h].doc = req[h].doc
          /\ req'[h].name = req[h].name /\ req'[h].snap = req[h].snap /\ req'[h].nodes = req[h].nodes
      <4>1. CASE Gather(h)
        <5>1. req' = [req EXCEPT ![h] = [req[h] EXCEPT !.pc = "post", !.todo = Listed(req[h].snap) \cap registered]]
          BY <1>1, <2>3, <4>1 DEF Gather
        <5>2. req'[h] = [req[h] EXCEPT !.pc = "post", !.todo = Listed(req[h].snap) \cap registered]
          BY <1>1, <5>1
        <5> QED
          BY <1>1, <1>3, <5>1, <5>2 DEF Requests
      <4>2. CASE Post(h) \/ GiveUp(h)
        <5>1. PICK n, e : req' = [req EXCEPT ![h] = [req[h] EXCEPT !.todo = @ \ {n}, !.failed = @ \/ e]]
          <6>1. PICK n, e : Hear(h, n, e)
            BY <4>2 DEF Post, GiveUp
          <6> QED
            BY <6>1 DEF Hear
        <5>2. req'[h] = [req[h] EXCEPT !.todo = @ \ {n}, !.failed = @ \/ e] /\ req[h].pc = "post"
          BY <1>1, <4>2, <5>1 DEF Post, GiveUp
        <5> QED
          BY <1>1, <1>3, <5>1, <5>2 DEF Requests
      <4> QED
        BY <1>11, <4>1, <4>2
    <3>2. CASE req[h].op \in {"remove", "delete"}
      BY <1>2, <2>1, <3>1, <3>2, Inert
    <3>3. CASE req[h].op \notin Membership
      BY <1>7, <3>1, <3>3
    <3>4. CASE req[h].op \in {"add", "deleteNode"}
      <4>1. \A d, n : Half(h, d, n)' <=> Half(h, d, n)
        BY <2>1, <3>1, <3>4 DEF Half
      <4>2. InMembership(h) /\ \A g \in Handlers \ {h} : ~InMembership(g)' /\ ~InMembership(g)
        BY <3>1, <3>4 DEF InMembership, Membership, Core, OneAtATime
      <4>3. MemberRequestOK(h)'
        BY <1>2, <2>1, <3>1, <3>4, <4>2 DEF Core, RequestsOK, MemberRequestOK, Present
      <4>4. \A d \in Docs : name'[d] # None => \A n \in Nodes : poolName'[n] = name'[d] <=>
              /\ n \in Present(d)' \/ Half(h, d, n)'
              /\ ~(At(h, "delete", "pool") /\ req[h].doc = d)'
        BY <1>2, <3>1, <3>4, <4>1, <4>2, ClaimsAlone DEF Core, RowsAgree, Exists, Present
      <4>5. NamesDiffer' /\ RowsNamePools'
        BY <1>2 DEF Core, NamesDiffer, RowsNamePools
      <4> QED
        BY <4>2, <4>3, <4>4, <4>5, CoreAlone
    <3> QED
      BY <3>2, <3>3, <3>4 DEF Membership
  <2> QED
    BY <2>2, <2>3
<1>12. CASE InitializeAnswered(h) \/ InitializePool(h) \/ LoadFlag(h) \/ LoadRead(h) \/ Mint(h)
            \/ MintFails(h) \/ SaveToken(h) \/ UnloadFlag(h)
  <2>1. req[h].op \in {"initialize", "load", "unload"}
    BY <1>12 DEF InitializeAnswered, InitializePool, LoadFlag, LoadRead, Mint, MintFails, SaveToken, UnloadFlag
  <2>2. Return(h) \/ \E pc \in Pcs : Goto(h, pc)
    BY <1>12 DEF InitializeAnswered, InitializePool, LoadFlag, LoadRead, Mint, MintFails, SaveToken,
       UnloadFlag, Pcs
  <2>3. req'[h].op \in {"none", "initialize", "load", "unload"} /\ \A g \in Handlers \ {h} : req'[g] = req[g]
    BY <1>4, <1>5, <2>1, <2>2
  <2> QED
    BY <1>7, <2>1, <2>3 DEF Membership
<1> QED
  BY <1>8, <1>9, <1>10, <1>11, <1>12

LEMMA DisturbedGrows == Next => disturbed \subseteq disturbed'
<1> SUFFICES ASSUME Next PROVE disturbed \subseteq disturbed'
  OBVIOUS
<1>1. ASSUME NEW n \in Nodes, RegisterNode(n) \/ WorkerRestarts(n) PROVE disturbed \subseteq disturbed'
  BY <1>1 DEF RegisterNode, WorkerRestarts
<1>2. ASSUME NEW d \in Docs, NEW nm \in Names, CreatePool(d, nm) PROVE disturbed \subseteq disturbed'
  BY <1>2 DEF CreatePool
<1>3. ASSUME NEW h \in Handlers, Request(h) PROVE disturbed \subseteq disturbed'
  BY <1>3 DEF Request, AskDeleteNode, AskAdd, AskRemove, AskInitialize, AskDelete, AskLoad, AskUnload, Ask
<1>4. ASSUME NEW h \in Handlers, Handle(h) PROVE disturbed \subseteq disturbed'
  <2>1. CASE NodeDeleted(h) \/ AddCheck(h) \/ AddNodes(h) \/ AddPool(h) \/ RemoveUnloaded(h)
             \/ RemovePool(h) \/ RemoveNode(h) \/ DeleteNodes(h) \/ DeletePool(h) \/ Gather(h) \/ Post(h) \/ GiveUp(h)
    BY <2>1 DEF NodeDeleted, AddCheck, AddNodes, AddPool, RemoveUnloaded, RemovePool, RemoveNode,
       DeleteNodes, DeletePool, Gather, Post, GiveUp
  <2>2. CASE DeleteUnloaded(h) \/ InitializeAnswered(h) \/ InitializePool(h) \/ LoadFlag(h)
             \/ LoadRead(h) \/ Mint(h) \/ MintFails(h) \/ SaveToken(h) \/ UnloadFlag(h)
    BY <2>2 DEF DeleteUnloaded, InitializeAnswered, InitializePool, LoadFlag, LoadRead, Mint, MintFails,
       SaveToken, UnloadFlag
  <2> QED
    BY <1>4, <2>1, <2>2 DEF Handle
<1>5. CASE Health \/ Crash
  BY <1>5 DEF Health, Crash, Poll, PollFails, ReconcileRead, ReconcileWrite
<1>6. ASSUME NEW c \in late, LateCall(c) PROVE disturbed \subseteq disturbed'
  BY <1>6 DEF LateCall, LateConfigure, LateLoadBegins, LateLoadEnds, LateUnload, Done
<1> QED
  BY <1>1, <1>2, <1>3, <1>4, <1>5, <1>6 DEF Next

LEMMA CreatePoolKeeps ==
  ASSUME TypeInv, Core, NEW d \in Docs, NEW nm \in Names, CreatePool(d, nm)
  PROVE  Core'
<1>1. /\ name[d] = None /\ \A e \in Docs : name[e] # nm
      /\ name' = [name EXCEPT ![d] = nm] /\ members' = [members EXCEPT ![d] = <<>>]
      /\ UNCHANGED <<registered, poolName, req>>
      /\ \A h \in Handlers : req[h] # Idle => req[h].doc # d
  BY DEF CreatePool, Exists, nodeVars
<1>2. name \in [Docs -> Names \cup {None}] /\ members \in [Docs -> MemberLists]
  BY DEF TypeInv, TypeOK
<1>3. \A h \in Handlers : InMembership(h) => req[h].doc # d /\ ArgsOK(req[h])
  BY <1>1, Busy, OpIsBusy DEF InMembership, Membership
<1>4. \A e \in Docs \ {d} : name'[e] = name[e] /\ members'[e] = members[e] /\ Present(e)' = Present(e)
  BY <1>1, <1>2 DEF Present
<1>5. name'[d] = nm /\ nm # None /\ Present(d)' = {}
  BY <1>1, <1>2 DEF Present
<1>6. \A h \in Handlers : \A e, n : Half(h, e, n)' <=> Half(h, e, n)
  BY <1>1 DEF Half, At
<1>7. \A h \in Handlers : \A n : ~Half(h, d, n)
  BY <1>3 DEF Half, At, InMembership, Membership
<1>8. NamesDiffer' /\ RowsNamePools'
  BY <1>1, <1>4, <1>5 DEF Core, NamesDiffer, RowsNamePools
<1>9. OneAtATime'
  BY <1>1 DEF Core, OneAtATime, InMembership
<1>10. RequestsOK'
  BY <1>1, <1>3, <1>4 DEF Core, RequestsOK, MemberRequestOK, InMembership, ArgsOK
<1>11. RowsAgree'
  <2>1. ASSUME NEW e \in Docs \ {d}, NEW n PROVE Claims(e, n)' <=> Claims(e, n)
    BY <1>1, <1>4, <1>6 DEF Claims, At
  <2>2. \A n \in Nodes : ~Claims(d, n)' /\ poolName[n] # nm
    BY <1>1, <1>5, <1>6, <1>7 DEF Claims, Core, RowsNamePools
  <2> QED
    BY <1>1, <1>4, <1>5, <2>1, <2>2 DEF Core, RowsAgree, Exists
<1> QED
  BY <1>8, <1>9, <1>10, <1>11 DEF Core

LEMMA MemberStep == MemberInv /\ [Next]_vars => MemberInv'
<1> SUFFICES ASSUME MemberInv, [Next]_vars PROVE MemberInv'
  OBVIOUS
<1> USE DEF nodeVars, poolVars
<1>1. TypeInv /\ TypeInv'
  BY TypeStep DEF MemberInv
<1> SUFFICES ASSUME Calm' PROVE Core'
  BY <1>1 DEF MemberInv
<1>2. CASE UNCHANGED vars
  BY <1>2, Inert DEF vars, MemberInv, Calm, Without
<1>3. CASE Next
  <2>1. Core
    BY <1>3, DisturbedGrows DEF MemberInv, Calm, Without
  <2>2. req \in [Handlers -> {Idle} \cup Requests]
    BY <1>1 DEF TypeInv, TypeOK
  <2>3. ASSUME NEW n \in Nodes, RegisterNode(n) \/ WorkerRestarts(n) \/ Poll(n) \/ PollFails(n) PROVE Core'
    BY <2>1, <2>3, Inert DEF RegisterNode, WorkerRestarts, Poll, PollFails
  <2>4. ASSUME NEW d \in Docs, NEW nm \in Names, CreatePool(d, nm) PROVE Core'
    BY <1>1, <2>1, <2>4, CreatePoolKeeps
  <2>5. ASSUME NEW d \in Docs, ReconcileRead(d) \/ ReconcileWrite(d) PROVE Core'
    BY <2>1, <2>5, Inert DEF ReconcileRead, ReconcileWrite
  <2>6. ~Crash
    BY DEF Crash, Calm, Without
  <2>7. ASSUME NEW h \in Handlers, NEW n \in Nodes, AskDeleteNode(h, n) PROVE Core'
    <3>1. req'[h] = DeleteNodeRequest(n) /\ poolName[n] = None /\ UNCHANGED <<nodeVars, poolVars>>
      BY <2>2, <2>7 DEF AskDeleteNode, Ask
    <3>2. MemberRequestOK(h)'
      BY <3>1 DEF MemberRequestOK, DeleteNodeRequest, Listed
    <3> QED
      BY <2>1, <2>7, <3>1, <3>2, AskKeeps DEF AskDeleteNode, DeleteNodeRequest, Membership
  <2>8. ASSUME NEW h \in Handlers, NEW d \in Docs, NEW ns \in MemberLists, AskAdd(h, d, ns) PROVE Core'
    <3> DEFINE r == [OnPool("add", "check", d) EXCEPT !.nodes = ns, !.todo = Listed(ns)]
    <3>1. req'[h] = r /\ name[d] # None /\ UNCHANGED <<nodeVars, poolVars>>
      BY <2>2, <2>8 DEF AskAdd, Ask, Exists
    <3>2. r.op = "add" /\ r.pc = "check" /\ r.doc = d /\ r.name = name[d] /\ r.snap = members[d]
          /\ r.nodes = ns /\ r.todo = Listed(ns)
      BY DEF OnPool
    <3>3. Ask(h, r)
      BY <2>8 DEF AskAdd
    <3> HIDE DEF r
    <3>4. MemberRequestOK(h)'
      BY <3>1, <3>2 DEF MemberRequestOK
    <3> QED
      BY <2>1, <3>1, <3>2, <3>3, <3>4, AskKeeps DEF Membership
  <2>9. ASSUME NEW h \in Handlers, NEW d \in Docs, NEW n \in Nodes, AskRemove(h, d, n) PROVE Core'
    <3> DEFINE r == [OnPool("remove", IF d \in loaded THEN "gather" ELSE "pool", d) EXCEPT !.nodes = <<n>>]
    <3>1. req'[h] = r /\ name[d] # None /\ UNCHANGED <<nodeVars, poolVars>>
      BY <2>2, <2>9 DEF AskRemove, Ask, Exists
    <3>2. r.op = "remove" /\ r.pc \in {"gather", "pool"} /\ r.doc = d /\ r.name = name[d]
          /\ r.snap = members[d]
      BY DEF OnPool
    <3>3. Ask(h, r)
      BY <2>9 DEF AskRemove
    <3> HIDE DEF r
    <3>4. MemberRequestOK(h)'
      BY <3>1, <3>2 DEF MemberRequestOK
    <3> QED
      BY <2>1, <3>1, <3>2, <3>3, <3>4, AskKeeps DEF Membership
  <2>10. ASSUME NEW h \in Handlers, NEW d \in Docs, AskDelete(h, d) PROVE Core'
    <3> DEFINE r == OnPool("delete", IF d \in loaded THEN "gather" ELSE "nodes", d)
    <3>1. req'[h] = r /\ name[d] # None /\ UNCHANGED <<nodeVars, poolVars>>
      BY <2>2, <2>10 DEF AskDelete, Ask, Exists
    <3>2. r.op = "delete" /\ r.pc \in {"gather", "nodes"} /\ r.doc = d /\ r.name = name[d]
          /\ r.snap = members[d]
      BY DEF OnPool
    <3>3. Ask(h, r)
      BY <2>10 DEF AskDelete
    <3> HIDE DEF r
    <3>4. MemberRequestOK(h)'
      BY <3>1, <3>2 DEF MemberRequestOK
    <3> QED
      BY <2>1, <3>1, <3>2, <3>3, <3>4, AskKeeps DEF Membership
  <2>11. ASSUME NEW h \in Handlers, NEW d \in Docs,
                (\E m \in Models : AskInitialize(h, d, m)) \/ AskLoad(h, d) \/ AskUnload(h, d)
         PROVE  Core'
    <3>1. PICK r : /\ req[h] = Idle /\ req' = [req EXCEPT ![h] = r]
                   /\ r.op \in {"initialize", "load", "unload"}
                   /\ UNCHANGED <<registered, poolName, name, members>>
      BY <2>11 DEF AskInitialize, AskLoad, AskUnload, Ask, OnPool
    <3>2. \A g \in Handlers : IF g = h THEN req'[g].op \notin Membership /\ req[g].op \notin Membership
                                       ELSE req'[g] = req[g]
      BY <2>2, <3>1 DEF Idle, Membership
    <3> QED
      BY <2>1, <3>1, <3>2, Inert
  <2>12. ASSUME NEW h \in Handlers, Handle(h) PROVE Core'
    BY <1>1, <2>1, <2>12, MembershipSteps, OtherSteps DEF Handle
  <2>13. ASSUME NEW c \in late, LateCall(c) PROVE Core'
    BY <2>1, <2>13, Inert DEF LateCall, LateConfigure, LateLoadBegins, LateLoadEnds, LateUnload, Done
  <2> QED
    BY <1>3, <2>3, <2>4, <2>5, <2>6, <2>7, <2>8, <2>9, <2>10, <2>11, <2>12, <2>13 DEF Next, Request, Health
<1> QED
  BY <1>2, <1>3

\* Whenever no request is in progress, nodes and pools agree on who is a
\* member, unless membership requests overlapped or the orchestrator stopped.
THEOREM NodesAndPoolsAgree == Spec => []MembershipAgrees
<1>1. MemberInv => MembershipAgrees
  <2> SUFFICES ASSUME MemberInv, Calm, IdleNow PROVE MembershipAgrees
    BY DEF MembershipAgrees, Calm
  <2>1. Core
    BY DEF MemberInv
  <2>2. \A d, n : Claims(d, n) <=> n \in Present(d)
    BY DEF IdleNow, Idle, Claims, Half, At
  <2>3. \A d \in Docs : Exists(d) => \A n \in Nodes : poolName[n] = name[d] <=> n \in Present(d)
    BY <2>1, <2>2 DEF Core, RowsAgree
  <2>4. \A n \in Nodes : poolName[n] # None => n \in registered /\ \E d \in Docs : name[d] = poolName[n]
    BY <2>1 DEF Core, RowsNamePools
  <2>5. registered \subseteq Nodes
    BY DEF MemberInv, TypeInv, TypeOK
  <2> QED
    BY <2>3, <2>4, <2>5 DEF MembershipAgrees, Exists
<1> QED BY MemberInit, MemberStep, <1>1, PTL DEF Spec

-----------------------------------------------------------------------------
(* Assignments and mints.                                                  *)

\* In a step of one handler every request keeps its arguments or returns, and
\* only LoadRead and Mint bring a request to "mint" and "token".
Kept(h, g) ==
  \/ req'[g] = req[g]
  \/ req'[g] = Idle
  \/ /\ g = h /\ req'[h].op = req[h].op /\ req'[h].doc = req[h].doc /\ req'[h].snap = req[h].snap
     /\ req'[h].pc = "mint" => LoadRead(h)
     /\ req'[h].pc = "token" => Mint(h)

LEMMA HandleKeepsArgs ==
  ASSUME TypeInv, NEW h \in Handlers, Handle(h), NEW g \in Handlers
  PROVE  Kept(h, g)
<1>1. req \in [Handlers -> {Idle} \cup Requests]
  BY DEF TypeInv, TypeOK
<1>2. req[h] # Idle => req[h] \in Requests
  BY <1>1
<1>3. ASSUME NEW pc \in Pcs, req[h] # Idle, Goto(h, pc),
             pc = "mint" => LoadRead(h), pc = "token" => Mint(h)
      PROVE  Kept(h, g)
  BY <1>1, <1>2, <1>3 DEF Goto, Requests, Kept
<1>4. ASSUME Return(h) PROVE Kept(h, g)
  BY <1>1, <1>4 DEF Return, Kept
<1>5. CASE NodeDeleted(h)
  BY <1>1, <1>5 DEF NodeDeleted, Kept
<1>6. CASE AddCheck(h)
  <2>1. req[h] # Idle /\ req[h] \in Requests /\ req[h].op = "add" /\ req[h].pc = "check"
    BY <1>2, <1>6, OpIsBusy DEF AddCheck, At
  <2>2. PICK i : \/ req' = [req EXCEPT ![h] = [req[h] EXCEPT !.todo = @ \ {req[h].nodes[i]},
                                        !.pc = IF i = Len(req[h].nodes) THEN "nodes" ELSE @]]
                 \/ Return(h)
    BY <1>1, <1>6 DEF AddCheck
  <2> DEFINE s == [req[h] EXCEPT !.todo = @ \ {req[h].nodes[i]},
                                 !.pc = IF i = Len(req[h].nodes) THEN "nodes" ELSE @]
  <2>3. s.op = req[h].op /\ s.doc = req[h].doc /\ s.snap = req[h].snap /\ s.pc \in {"nodes", "check"}
    BY <2>1 DEF Requests
  <2> HIDE DEF s
  <2>4. req' = [req EXCEPT ![h] = s] \/ Return(h)
    BY <2>2 DEF s
  <2>5. CASE req' = [req EXCEPT ![h] = s]
    BY <1>1, <2>3, <2>5 DEF Kept
  <2> QED
    BY <1>4, <2>4, <2>5
<1>7. CASE AddNodes(h) \/ RemoveUnloaded(h) \/ RemovePool(h) \/ DeleteUnloaded(h) \/ DeleteNodes(h)
           \/ InitializeAnswered(h) \/ LoadFlag(h) \/ LoadRead(h) \/ Mint(h)
  <2>1. req[h] # Idle
    BY <1>7, OpIsBusy DEF AddNodes, RemoveUnloaded, RemovePool, DeleteUnloaded, DeleteNodes,
       InitializeAnswered, LoadFlag, LoadRead, Mint, Answered, At
  <2>2. Return(h) \/ \E pc \in Pcs : /\ Goto(h, pc)
                                     /\ pc = "mint" => LoadRead(h)
                                     /\ pc = "token" => Mint(h)
    BY <1>7 DEF AddNodes, RemoveUnloaded, RemovePool, DeleteUnloaded, DeleteNodes,
       InitializeAnswered, LoadFlag, LoadRead, Mint, Pcs
  <2> QED
    BY <1>3, <1>4, <2>1, <2>2
<1>8. CASE AddPool(h) \/ RemoveNode(h) \/ DeletePool(h) \/ InitializePool(h) \/ MintFails(h)
           \/ SaveToken(h) \/ UnloadFlag(h)
  BY <1>4, <1>8 DEF AddPool, RemoveNode, DeletePool, InitializePool, MintFails, SaveToken, UnloadFlag
<1>9. CASE Gather(h) \/ Post(h) \/ GiveUp(h)
  <2>1. req[h] # Idle /\ req[h] \in Requests /\ req[h].pc \in {"gather", "post"}
    BY <1>2, <1>9, OpIsBusy DEF Gather, Post, GiveUp
  <2>2. ASSUME NEW r, r.op = req[h].op, r.doc = req[h].doc, r.snap = req[h].snap, r.pc = "post",
               req' = [req EXCEPT ![h] = r]
        PROVE  Kept(h, g)
    BY <1>1, <2>2 DEF Kept
  <2>3. CASE Gather(h)
    <3> DEFINE r == [req[h] EXCEPT !.pc = "post", !.todo = Listed(req[h].snap) \cap registered]
    <3>1. Return(h) \/ req' = [req EXCEPT ![h] = r]
      BY <1>1, <2>3 DEF Gather
    <3>2. r.op = req[h].op /\ r.doc = req[h].doc /\ r.snap = req[h].snap /\ r.pc = "post"
      BY <2>1 DEF Requests
    <3> HIDE DEF r
    <3> QED
      BY <1>4, <2>2, <3>1, <3>2
  <2>4. CASE Post(h) \/ GiveUp(h)
    <3>1. PICK n, e : req' = [req EXCEPT ![h] = [req[h] EXCEPT !.todo = @ \ {n}, !.failed = @ \/ e]]
      <4>1. PICK n, e : Hear(h, n, e)
        BY <2>4 DEF Post, GiveUp
      <4> QED
        BY <1>1, <4>1 DEF Hear
    <3> DEFINE r == [req[h] EXCEPT !.todo = @ \ {n}, !.failed = @ \/ e]
    <3>2. r.op = req[h].op /\ r.doc = req[h].doc /\ r.snap = req[h].snap /\ r.pc = "post"
      BY <2>1, <2>4 DEF Requests, Post, GiveUp
    <3>3. req' = [req EXCEPT ![h] = r]
      BY <3>1
    <3> HIDE DEF r
    <3> QED
      BY <2>2, <3>2, <3>3
  <2> QED
    BY <1>9, <2>3, <2>4
<1> QED
  BY <1>5, <1>6, <1>7, <1>8, <1>9 DEF Handle


\* No /initialize overlaps a request that changes the membership, so what one
\* has read is what the pool has.
PlanOK ==
  /\ \A h, g \in Handlers : InMembership(h) => req[g].op # "initialize"
  /\ \A h \in Handlers : req[h].op = "initialize" => req[h].snap = members[req[h].doc]
  /\ \A d \in initialized : assigned[d].nodes = members[d]

PlanInv == TypeInv /\ (Without({"plan"}) => PlanOK)

LEMMA AskKeepsPlan ==
  ASSUME TypeInv, PlanOK, Without({"plan"})', NEW h \in Handlers, NEW r, r.op \in Ops, Ask(h, r),
         r.op = "initialize" => r.snap = members[r.doc],
         UNCHANGED <<members, initialized, assigned>>
  PROVE  PlanOK'
<1>1. req' = [req EXCEPT ![h] = r] /\ req \in [Handlers -> {Idle} \cup Requests]
  BY DEF Ask, TypeInv, TypeOK
<1>2. ASSUME NEW g \in Handlers, req[g] # Idle PROVE Overlap(r.op, req[g].op) # "plan"
  BY <1>2 DEF Ask, Without
<1>3. ASSUME NEW g \in Handlers \ {h}, req[g].op \in Ops
      PROVE  /\ ~(r.op = "initialize" /\ req[g].op \in Membership)
             /\ ~(r.op \in Membership /\ req[g].op = "initialize")
  BY <1>2, <1>3 DEF Overlap, Membership, Idle, Ops
<1>4. \A g, k \in Handlers : InMembership(g)' => req'[k].op # "initialize"
  BY <1>1, <1>3 DEF PlanOK, InMembership, Ops, Membership
<1>5. \A g \in Handlers : req'[g].op = "initialize" => req'[g].snap = members'[req'[g].doc]
  BY <1>1 DEF PlanOK
<1> QED
  BY <1>4, <1>5 DEF PlanOK

LEMMA HandleKeepsPlan ==
  ASSUME TypeInv, PlanOK, NEW h \in Handlers, Handle(h)
  PROVE  PlanOK'
<1> USE DEF nodeVars, poolVars, At
<1>1. \A g \in Handlers : \/ req'[g] = Idle
                          \/ req'[g].op = req[g].op /\ req'[g].doc = req[g].doc /\ req'[g].snap = req[g].snap
  BY HandleKeepsArgs DEF Kept
<1>2. \A g, k \in Handlers : InMembership(g)' => req'[k].op # "initialize"
  BY <1>1 DEF PlanOK, InMembership, Idle, Membership
<1>3. CASE UNCHANGED <<members, initialized, assigned>>
  BY <1>1, <1>2, <1>3 DEF PlanOK, Idle
<1>4. ASSUME InMembership(h),
             \A d \in initialized' : assigned'[d].nodes = members'[d]
      PROVE  PlanOK'
  <2>1. \A g \in Handlers : req'[g].op # "initialize"
    BY <1>1, <1>4 DEF PlanOK, Idle
  <2> QED
    BY <1>2, <1>4, <2>1 DEF PlanOK
<1>5. members \in [Docs -> MemberLists] /\ initialized \subseteq Docs
      /\ assigned \in [Docs -> Assignments \cup {None}]
  BY DEF TypeInv, TypeOK
<1>6. ASSUME NEW d, NEW ms, SetMembers(d, ms)
      PROVE  \A e \in initialized' : assigned'[e].nodes = members'[e]
  BY <1>5, <1>6 DEF SetMembers, PlanOK
<1>7. CASE AddPool(h) \/ RemovePool(h)
  <2>1. InMembership(h) /\ \E d, ms : SetMembers(d, ms)
    BY <1>7 DEF AddPool, RemovePool, InMembership, Membership
  <2> QED
    BY <1>4, <1>6, <2>1
<1>8. CASE DeletePool(h)
  <2>1. InMembership(h) /\ \A d \in initialized' : assigned'[d].nodes = members'[d]
    BY <1>5, <1>8 DEF DeletePool, InMembership, Membership, PlanOK
  <2> QED
    BY <1>4, <2>1
<1>9. CASE InitializePool(h)
  <2>1. req[h].op = "initialize" /\ req[h].snap = members[req[h].doc] /\ members' = members
    BY <1>9 DEF InitializePool, PlanOK
  <2>2. Planned(h).nodes = members[req[h].doc]
    BY <2>1 DEF Planned
  <2>3. \A d \in initialized' : assigned'[d].nodes = members'[d]
    <3>1. CASE Exists(req[h].doc)
      <4>1. req[h].doc \in Docs
        BY <2>1, Busy, OpIsBusy DEF ArgsOK
      <4>2. initialized' = initialized \cup {req[h].doc} /\ assigned' = [assigned EXCEPT ![req[h].doc] = Planned(h)]
        BY <1>9, <3>1 DEF InitializePool
      <4> QED
        BY <1>5, <2>1, <2>2, <4>1, <4>2 DEF PlanOK
    <3>2. CASE ~Exists(req[h].doc)
      BY <1>9, <2>1, <3>2 DEF InitializePool, PlanOK
    <3> QED
      BY <3>1, <3>2
  <2> QED
    BY <1>1, <1>2, <2>1, <2>3 DEF PlanOK, Idle
<1>10. CASE UNCHANGED <<members, initialized, assigned>> \/ AddPool(h) \/ RemovePool(h) \/ DeletePool(h)
            \/ InitializePool(h)
  BY <1>3, <1>7, <1>8, <1>9, <1>10
<1>11. CASE NodeDeleted(h) \/ AddCheck(h) \/ AddNodes(h) \/ RemoveUnloaded(h) \/ RemoveNode(h) \/ DeleteUnloaded(h)
            \/ DeleteNodes(h) \/ Gather(h) \/ Post(h) \/ GiveUp(h) \/ InitializeAnswered(h)
  BY <1>3, <1>11 DEF NodeDeleted, AddCheck, AddNodes, RemoveUnloaded, RemoveNode, DeleteUnloaded, DeleteNodes,
     Gather, Post, GiveUp, InitializeAnswered
<1>12. CASE LoadFlag(h) \/ LoadRead(h) \/ Mint(h) \/ MintFails(h) \/ SaveToken(h) \/ UnloadFlag(h)
  BY <1>3, <1>12 DEF LoadFlag, LoadRead, Mint, MintFails, SaveToken, UnloadFlag
<1> QED
  BY <1>10, <1>11, <1>12 DEF Handle

LEMMA PlanStep == PlanInv /\ [Next]_vars => PlanInv'
<1> SUFFICES ASSUME PlanInv, [Next]_vars PROVE PlanInv'
  OBVIOUS
<1> USE DEF nodeVars, poolVars
<1>1. TypeInv /\ TypeInv'
  BY TypeStep DEF PlanInv
<1> SUFFICES ASSUME Without({"plan"})' PROVE PlanOK'
  BY <1>1 DEF PlanInv
<1>2. CASE UNCHANGED vars
  BY <1>2 DEF vars, PlanInv, PlanOK, Without, InMembership
<1>3. CASE Next
  <2>1. PlanOK
    BY <1>3, DisturbedGrows DEF PlanInv, Without
  <2>2. ASSUME UNCHANGED <<members, initialized, assigned, req>> PROVE PlanOK'
    BY <2>1, <2>2 DEF PlanOK, InMembership
  <2>3. ASSUME NEW n \in Nodes, RegisterNode(n) \/ WorkerRestarts(n) \/ Poll(n) \/ PollFails(n) PROVE PlanOK'
    BY <2>2, <2>3 DEF RegisterNode, WorkerRestarts, Poll, PollFails
  <2>4. ASSUME NEW d \in Docs, ReconcileRead(d) \/ ReconcileWrite(d) PROVE PlanOK'
    BY <2>2, <2>4 DEF ReconcileRead, ReconcileWrite
  <2>5. ASSUME NEW d \in Docs, NEW nm \in Names, CreatePool(d, nm) PROVE PlanOK'
    <3>1. \A h \in Handlers : req[h].op = "initialize" => req[h].doc # d
      BY <2>5, OpIsBusy DEF CreatePool
    <3>2. members' = [members EXCEPT ![d] = <<>>] /\ initialized' = initialized \ {d}
          /\ assigned' = [assigned EXCEPT ![d] = None] /\ req' = req
      BY <2>5 DEF CreatePool
    <3>3. members \in [Docs -> MemberLists] /\ initialized \subseteq Docs
          /\ assigned \in [Docs -> Assignments \cup {None}]
      BY <1>1 DEF TypeInv, TypeOK
    <3>4. \A h \in Handlers : req[h].op = "initialize" => members'[req[h].doc] = members[req[h].doc]
      BY <3>1, <3>2, <3>3, Busy, OpIsBusy DEF ArgsOK
    <3> QED
      BY <2>1, <3>2, <3>3, <3>4 DEF PlanOK, InMembership
  <2>6. CASE Crash
    BY <2>1, <2>6 DEF Crash, PlanOK, InMembership, Idle, Membership
  <2>7. ASSUME NEW h \in Handlers, Request(h) PROVE PlanOK'
    <3>1. PICK r : /\ Ask(h, r) /\ r.op \in Ops
                   /\ r.op = "initialize" => r.snap = members[r.doc]
                   /\ UNCHANGED <<members, initialized, assigned>>
      <4>1. CASE \E n \in Nodes : AskDeleteNode(h, n)
        BY <4>1 DEF AskDeleteNode, DeleteNodeRequest, Ops, Membership
      <4>2. ASSUME NEW d \in Docs, NEW ns \in MemberLists, AskAdd(h, d, ns)
            PROVE  \E r : /\ Ask(h, r) /\ r.op \in Ops
                          /\ r.op = "initialize" => r.snap = members[r.doc]
                          /\ UNCHANGED <<members, initialized, assigned>>
        BY <4>2 DEF AskAdd, OnPool, Ops, Membership
      <4>3. ASSUME NEW d \in Docs, NEW n \in Nodes, AskRemove(h, d, n)
            PROVE  \E r : /\ Ask(h, r) /\ r.op \in Ops
                          /\ r.op = "initialize" => r.snap = members[r.doc]
                          /\ UNCHANGED <<members, initialized, assigned>>
        BY <4>3 DEF AskRemove, OnPool, Ops, Membership
      <4>4. ASSUME NEW d \in Docs, NEW m \in Models, AskInitialize(h, d, m)
            PROVE  \E r : /\ Ask(h, r) /\ r.op \in Ops
                          /\ r.op = "initialize" => r.snap = members[r.doc]
                          /\ UNCHANGED <<members, initialized, assigned>>
        <5> DEFINE r == [OnPool("initialize", "gather", d) EXCEPT !.model = m]
        <5>1. r.op = "initialize" /\ r.snap = members[r.doc]
          BY DEF OnPool
        <5> QED
          BY <4>4, <5>1 DEF AskInitialize, Ops
      <4>5. ASSUME NEW d \in Docs, AskDelete(h, d) \/ AskLoad(h, d) \/ AskUnload(h, d)
            PROVE  \E r : /\ Ask(h, r) /\ r.op \in Ops
                          /\ r.op = "initialize" => r.snap = members[r.doc]
                          /\ UNCHANGED <<members, initialized, assigned>>
        BY <4>5 DEF AskDelete, AskLoad, AskUnload, OnPool, Ops, Membership
      <4> QED
        BY <2>7, <4>1, <4>2, <4>3, <4>4, <4>5 DEF Request
    <3> QED
      BY <1>1, <2>1, <3>1, AskKeepsPlan
  <2>8. ASSUME NEW h \in Handlers, Handle(h) PROVE PlanOK'
    BY <1>1, <2>1, <2>8, HandleKeepsPlan
  <2>9. ASSUME NEW c \in late, LateCall(c) PROVE PlanOK'
    BY <2>2, <2>9 DEF LateCall, LateConfigure, LateLoadBegins, LateLoadEnds, LateUnload, Done
  <2> QED
    BY <1>3, <2>3, <2>4, <2>5, <2>6, <2>7, <2>8, <2>9 DEF Next, Health
<1> QED
  BY <1>2, <1>3

\* A pool is initialized for the members it has, unless an /initialize
\* overlapped a request that changes the membership.
THEOREM AssignmentsFit == Spec => []AssignedAreMembers
<1>1. Init => PlanInv
  BY TypeInit DEF Init, PlanInv, PlanOK, InMembership, Idle, Membership
<1>2. PlanInv => AssignedAreMembers
  BY DEF PlanInv, PlanOK, AssignedAreMembers
<1> QED BY <1>1, PlanStep, <1>2, PTL DEF Spec


\* One load at a time; while it mints there is no token, and a token that is
\* minted and not saved is that of the load about to save it.
MintOK ==
  /\ \A h, g \in Handlers : req[h].op = "load" /\ req[g].op = "load" => h = g
  /\ \A h \in Handlers : At(h, "load", "mint") => minted[req[h].doc] = 0
  /\ \A h \in Handlers : At(h, "load", "token") => minted[req[h].doc] = 1
  /\ \A d \in Docs : minted[d] <= 1 /\ (d \in token => minted[d] = 1)
  /\ \A d \in Docs : Exists(d) /\ d \notin token /\ minted[d] # 0 =>
       \E h \in Handlers : At(h, "load", "token") /\ req[h].doc = d

MintCalm == Without({"loads", "crash", "mint"})

MintInv == TypeInv /\ (MintCalm => MintOK)

\* A step that mints nothing and brings no load to "mint" or "token", nor a
\* load from "token" to its end.
LEMMA MintInert ==
  ASSUME TypeInv, MintOK,
         \A d \in Docs : Exists(d)' => Exists(d),
         \A d \in Docs : Exists(d)' => (d \in token' <=> d \in token),
         token' \subseteq token, minted' = minted,
         \A h \in Handlers : req'[h].op = "load" =>
           req[h].op = "load" /\ req'[h].doc = req[h].doc,
         \A h \in Handlers : req'[h].pc \in {"mint", "token"} => req'[h].pc = req[h].pc \/ req'[h].op # "load",
         \A h \in Handlers : At(h, "load", "token") => req'[h] = req[h]
  PROVE  MintOK'
<1>1. \A h, g \in Handlers : req'[h].op = "load" /\ req'[g].op = "load" => h = g
  BY DEF MintOK
<1>2. \A h \in Handlers : At(h, "load", "mint")' => minted'[req'[h].doc] = 0
  BY DEF MintOK, At
<1>3. \A h \in Handlers : At(h, "load", "token")' => minted'[req'[h].doc] = 1
  BY DEF MintOK, At
<1>4. \A d \in Docs : minted'[d] <= 1 /\ (d \in token' => minted'[d] = 1)
  BY DEF MintOK
<1>5. ASSUME NEW d \in Docs, Exists(d)', d \notin token', minted'[d] # 0
      PROVE  \E h \in Handlers : At(h, "load", "token")' /\ req'[h].doc = d
  <2>1. PICK h \in Handlers : At(h, "load", "token") /\ req[h].doc = d
    BY <1>5 DEF MintOK
  <2> QED
    BY <2>1 DEF At
<1> QED
  BY <1>1, <1>2, <1>3, <1>4, <1>5 DEF MintOK, Exists

LEMMA AskKeepsMint ==
  ASSUME TypeInv, MintOK, MintCalm', NEW h \in Handlers, NEW r, r.pc \notin {"mint", "token"}, Ask(h, r),
         UNCHANGED <<name, token, minted>>
  PROVE  MintOK'
<1>1. req' = [req EXCEPT ![h] = r] /\ req \in [Handlers -> {Idle} \cup Requests] /\ req[h] = Idle
  BY DEF Ask, TypeInv, TypeOK
<1>2. ASSUME NEW g \in Handlers, req[g] # Idle PROVE Overlap(r.op, req[g].op) # "loads"
  BY <1>2 DEF Ask, MintCalm, Without
<1>3. ASSUME NEW g \in Handlers, req[g].op = "load" PROVE r.op # "load"
  BY <1>2, <1>3 DEF Overlap, Membership, Idle
<1>4. \A g, k \in Handlers : req'[g].op = "load" /\ req'[k].op = "load" => g = k
  BY <1>1, <1>3 DEF MintOK
<1>5. \A g \in Handlers : At(g, "load", "mint")' \/ At(g, "load", "token")' => g # h /\ req'[g] = req[g]
  BY <1>1 DEF At
<1>6. \A g \in Handlers : At(g, "load", "token") => g # h /\ req'[g] = req[g]
  BY <1>1 DEF At, Idle
<1>7. \A g \in Handlers : At(g, "load", "mint")' => minted'[req'[g].doc] = 0
  BY <1>5 DEF MintOK, At
<1>8. \A g \in Handlers : At(g, "load", "token")' => minted'[req'[g].doc] = 1
  BY <1>5 DEF MintOK, At
<1>9. ASSUME NEW d \in Docs, Exists(d)', d \notin token', minted'[d] # 0
      PROVE  \E g \in Handlers : At(g, "load", "token")' /\ req'[g].doc = d
  <2>1. PICK g \in Handlers : At(g, "load", "token") /\ req[g].doc = d
    BY <1>9 DEF MintOK, Exists
  <2> QED
    BY <1>6, <2>1 DEF At
<1> QED
  BY <1>4, <1>7, <1>8, <1>9 DEF MintOK

LEMMA HandleKeepsMint ==
  ASSUME TypeInv, MintOK, MintCalm', NEW h \in Handlers, Handle(h)
  PROVE  MintOK'
<1> USE DEF nodeVars, poolVars
<1>1. req \in [Handlers -> {Idle} \cup Requests] /\ name \in [Docs -> Names \cup {None}]
      /\ minted \in [Docs -> 0 .. MaxMints] /\ token \subseteq Docs
  BY DEF TypeInv, TypeOK
<1>2. \A g \in Handlers : req'[g].op = "load" => req[g].op = "load" /\ req'[g].doc = req[g].doc
  BY HandleKeepsArgs DEF Kept, Idle
<1>3. \A g \in Handlers : req'[g].pc \in {"mint", "token"} => req'[g].pc = req[g].pc \/ LoadRead(h) \/ Mint(h)
  BY HandleKeepsArgs DEF Kept, Idle
<1>4. \A g, k \in Handlers : req'[g].op = "load" /\ req'[k].op = "load" => g = k
  BY <1>2 DEF MintOK
<1>5. ASSUME \A d \in Docs : Exists(d)' => Exists(d),
             \A d \in Docs : Exists(d)' => (d \in token' <=> d \in token),
             token' \subseteq token, minted' = minted,
             ~LoadRead(h), ~Mint(h), ~At(h, "load", "token"), ~NodeDeleted(h)
      PROVE  MintOK'
  <2>1. \A g \in Handlers \ {h} : req'[g] = req[g]
    BY <1>1, <1>5 DEF Handle, AddCheck, AddNodes, AddPool, RemoveUnloaded, RemovePool, RemoveNode, DeleteUnloaded,
       DeleteNodes, DeletePool, Gather, Post, GiveUp, Hear, InitializeAnswered, InitializePool, LoadFlag, MintFails,
       SaveToken, UnloadFlag, Goto, Return
  <2> QED
    BY <1>2, <1>3, <1>5, <2>1, MintInert
<1>6. CASE NodeDeleted(h)
  <2>1. UNCHANGED <<name, token, minted>> /\ \A g \in Handlers : At(g, "load", "token") => req'[g] = req[g]
    BY <1>6 DEF NodeDeleted, At
  <2>2. ~LoadRead(h) /\ ~Mint(h)
    BY <1>6 DEF NodeDeleted, LoadRead, Mint, At
  <2> QED
    BY <1>2, <1>3, <2>1, <2>2, MintInert DEF Exists
<1>7. CASE UNCHANGED <<name, token, minted>> /\ ~LoadRead(h) /\ ~Mint(h) /\ ~At(h, "load", "token") /\ ~NodeDeleted(h)
  BY <1>5, <1>7 DEF Exists
<1>8. CASE AddCheck(h) \/ AddNodes(h) \/ AddPool(h) \/ RemoveUnloaded(h) \/ RemovePool(h) \/ RemoveNode(h)
           \/ DeleteUnloaded(h) \/ DeleteNodes(h)
  BY <1>7, <1>8 DEF AddCheck, AddNodes, AddPool, RemoveUnloaded, RemovePool, RemoveNode, DeleteUnloaded,
     DeleteNodes, Answered, At, LoadRead, Mint, NodeDeleted
<1>9. CASE Gather(h) \/ Post(h) \/ GiveUp(h) \/ InitializeAnswered(h) \/ InitializePool(h) \/ LoadFlag(h) \/ UnloadFlag(h)
  BY <1>7, <1>9 DEF Gather, Post, GiveUp, InitializeAnswered, InitializePool, LoadFlag, UnloadFlag,
     Answered, At, LoadRead, Mint, NodeDeleted
<1>10. CASE DeletePool(h)
  <2>1. /\ name' = [name EXCEPT ![req[h].doc] = None] /\ token' = token \ {req[h].doc} /\ minted' = minted
        /\ At(h, "delete", "pool")
    BY <1>10 DEF DeletePool
  <2>2. \A d \in Docs : Exists(d)' => Exists(d) /\ d # req[h].doc
    BY <1>1, <2>1 DEF Exists
  <2> QED
    BY <1>5, <2>1, <2>2 DEF At, LoadRead, Mint, NodeDeleted
<1>11. ASSUME At(h, "load", "remint") \/ At(h, "load", "mint") \/ At(h, "load", "token")
       PROVE  /\ req[h] # Idle /\ req[h] \in Requests /\ req[h].op = "load" /\ req[h].doc \in Docs
              /\ \A g \in Handlers \ {h} : req[g].op # "load"
  BY <1>11, Busy, OpIsBusy DEF At, ArgsOK, MintOK
<1>12. CASE LoadRead(h)
  <2>1. At(h, "load", "remint") /\ UNCHANGED <<name, token, minted>> /\ h \in Handlers
    BY <1>12 DEF LoadRead
  <2>2. \A g \in Handlers : ~At(g, "load", "token") /\ ~At(g, "load", "mint")
    BY <1>11, <2>1 DEF At
  <2>3. \A d \in Docs : Exists(d) /\ d \notin token => minted[d] = 0
    BY <2>2 DEF MintOK
  <2>4. \A g \in Handlers \ {h} : ~At(g, "load", "token")' /\ ~At(g, "load", "mint")'
    BY <1>2, <1>11, <2>1 DEF At
  <2>5. CASE Return(h)
    <3>1. req'[h] = Idle
      BY <1>1, <2>5 DEF Return
    <3> QED
      BY <1>4, <2>1, <2>3, <2>4, <3>1 DEF MintOK, Idle, At, Exists
  <2>6. CASE Exists(req[h].doc) /\ req[h].doc \notin token /\ Goto(h, "mint")
    <3>1. req'[h].pc = "mint" /\ req'[h].doc = req[h].doc
      BY <1>1, <1>11, <2>1, <2>6 DEF Goto, Requests
    <3>2. minted[req[h].doc] = 0
      BY <1>11, <2>1, <2>3, <2>6
    <3> QED
      BY <1>4, <2>1, <2>3, <2>4, <3>1, <3>2 DEF MintOK, At, Exists
  <2> QED
    BY <1>12, <2>5, <2>6 DEF LoadRead
<1>13. CASE Mint(h)
  <2>1. At(h, "load", "mint") /\ UNCHANGED <<name, token>> /\ Goto(h, "token")
        /\ minted' = [minted EXCEPT ![req[h].doc] = @ + 1]
    BY <1>13 DEF Mint, MintCalm, Without
  <2>2. req[h].doc \in Docs /\ minted[req[h].doc] = 0 /\ req[h].doc \notin token
    BY <1>11, <2>1 DEF MintOK
  <2>3. minted'[req[h].doc] = 1 /\ \A d \in Docs \ {req[h].doc} : minted'[d] = minted[d]
    BY <1>1, <2>1, <2>2
  <2>4. At(h, "load", "token")' /\ req'[h].doc = req[h].doc
    BY <1>1, <1>11, <2>1 DEF Goto, Requests, At
  <2>5. \A g \in Handlers \ {h} : ~At(g, "load", "token")' /\ ~At(g, "load", "mint")' /\ ~At(g, "load", "token")
    BY <1>2, <1>11, <2>1 DEF At
  <2>6. ~At(h, "load", "token") /\ ~At(h, "load", "mint")'
    BY <2>1, <2>4 DEF At
  <2>7. \A d \in Docs : Exists(d)' /\ d \notin token' /\ minted'[d] # 0 => d = req[h].doc
    BY <2>1, <2>3, <2>5, <2>6 DEF MintOK, Exists
  <2>8. \A d \in Docs : minted'[d] <= 1 /\ (d \in token' => minted'[d] = 1)
    BY <2>1, <2>2, <2>3 DEF MintOK
  <2>9. \A g \in Handlers : At(g, "load", "token")' => minted'[req'[g].doc] = 1
    BY <2>3, <2>4, <2>5
  <2>10. \A g \in Handlers : ~At(g, "load", "mint")'
    BY <2>5, <2>6
  <2> QED
    BY <1>4, <2>4, <2>7, <2>8, <2>9, <2>10 DEF MintOK
<1>14. CASE SaveToken(h)
  <2>1. At(h, "load", "token") /\ UNCHANGED <<name, minted>> /\ Return(h)
        /\ token' = IF Exists(req[h].doc) THEN token \cup {req[h].doc} ELSE token
    BY <1>14 DEF SaveToken
  <2>2. req'[h] = Idle
    BY <1>1, <2>1 DEF Return
  <2>3. minted[req[h].doc] = 1 /\ req[h].doc \in Docs
    BY <1>11, <2>1 DEF MintOK
  <2>4. \A g \in Handlers : ~At(g, "load", "token")' /\ ~At(g, "load", "mint")'
    BY <1>2, <1>11, <2>1, <2>2 DEF At, Idle
  <2>5. \A d \in Docs : Exists(d) /\ d \notin token /\ minted[d] # 0 => d = req[h].doc
    BY <1>11, <2>1 DEF MintOK, At
  <2>6. \A d \in Docs : ~(Exists(d)' /\ d \notin token' /\ minted'[d] # 0)
    BY <2>1, <2>5 DEF Exists
  <2>7. \A d \in Docs : minted'[d] <= 1 /\ (d \in token' => minted'[d] = 1)
    BY <2>1, <2>3 DEF MintOK
  <2> QED
    BY <1>4, <2>4, <2>6, <2>7 DEF MintOK
<1>15. CASE MintFails(h)
  <2>1. At(h, "load", "mint") /\ UNCHANGED <<name, token, minted>> /\ Return(h)
    BY <1>15 DEF MintFails
  <2>2. req'[h] = Idle /\ \A g \in Handlers \ {h} : req'[g] = req[g]
    BY <1>1, <2>1 DEF Return
  <2> QED
    BY <1>2, <2>1, <2>2, MintInert DEF At, Idle, Exists
<1> QED
  BY <1>6, <1>8, <1>9, <1>10, <1>12, <1>13, <1>14, <1>15 DEF Handle

LEMMA MintStep == MintInv /\ [Next]_vars => MintInv'
<1> SUFFICES ASSUME MintInv, [Next]_vars PROVE MintInv'
  OBVIOUS
<1> USE DEF nodeVars, poolVars
<1>1. TypeInv /\ TypeInv'
  BY TypeStep DEF MintInv
<1> SUFFICES ASSUME MintCalm' PROVE MintOK'
  BY <1>1 DEF MintInv
<1>2. CASE UNCHANGED vars
  BY <1>2 DEF vars, MintInv, MintCalm, MintOK, Without, At, Exists
<1>3. CASE Next
  <2>1. MintOK
    BY <1>3, DisturbedGrows DEF MintInv, MintCalm, Without
  <2>2. ASSUME UNCHANGED <<name, token, minted, req>> PROVE MintOK'
    BY <2>1, <2>2 DEF MintOK, At, Exists
  <2>3. ASSUME NEW n \in Nodes, RegisterNode(n) \/ WorkerRestarts(n) \/ Poll(n) \/ PollFails(n) PROVE MintOK'
    BY <2>2, <2>3 DEF RegisterNode, WorkerRestarts, Poll, PollFails
  <2>4. ASSUME NEW d \in Docs, ReconcileRead(d) \/ ReconcileWrite(d) PROVE MintOK'
    BY <2>2, <2>4 DEF ReconcileRead, ReconcileWrite
  <2>5. ASSUME NEW d \in Docs, NEW nm \in Names, CreatePool(d, nm) PROVE MintOK'
    <3>1. \A h \in Handlers : req[h].op = "load" => req[h].doc # d /\ req[h].doc \in Docs
      BY <1>1, <2>5, Busy, OpIsBusy DEF CreatePool, ArgsOK
    <3>2. name' = [name EXCEPT ![d] = nm] /\ token' = token \ {d} /\ minted' = [minted EXCEPT ![d] = 0]
          /\ req' = req
      BY <2>5 DEF CreatePool
    <3>3. name \in [Docs -> Names \cup {None}] /\ minted \in [Docs -> 0 .. MaxMints] /\ token \subseteq Docs
      BY <1>1 DEF TypeInv, TypeOK
    <3>4. minted'[d] = 0 /\ \A e \in Docs \ {d} : minted'[e] = minted[e] /\ (Exists(e)' <=> Exists(e))
      BY <3>2, <3>3 DEF Exists
    <3>5. \A h \in Handlers : req[h].op = "load" => minted'[req[h].doc] = minted[req[h].doc]
      BY <3>1, <3>4
    <3>6. \A e \in Docs : minted'[e] <= 1 /\ (e \in token' => minted'[e] = 1)
      BY <2>1, <3>2, <3>4 DEF MintOK
    <3>7. \A e \in Docs : Exists(e)' /\ e \notin token' /\ minted'[e] # 0 =>
            \E h \in Handlers : At(h, "load", "token")' /\ req'[h].doc = e
      BY <2>1, <3>2, <3>4 DEF MintOK, At
    <3> QED
      BY <2>1, <3>2, <3>5, <3>6, <3>7 DEF MintOK, At
  <2>6. ~Crash
    BY DEF Crash, MintCalm, Without
  <2>7. ASSUME NEW h \in Handlers, Request(h) PROVE MintOK'
    <3>1. PICK r : Ask(h, r) /\ r.pc \notin {"mint", "token"} /\ UNCHANGED <<name, token, minted>>
      <4> DEFINE Asks(r) == Ask(h, r) /\ r.pc \notin {"mint", "token"} /\ UNCHANGED <<name, token, minted>>
      <4>1. ASSUME NEW n \in Nodes, AskDeleteNode(h, n) PROVE \E r : Asks(r)
        <5>1. Asks(DeleteNodeRequest(n))
          BY <4>1 DEF AskDeleteNode, DeleteNodeRequest
        <5> QED
          BY <5>1
      <4>2. ASSUME NEW d \in Docs, NEW ns \in MemberLists, AskAdd(h, d, ns) PROVE \E r : Asks(r)
        BY <4>2 DEF AskAdd, OnPool
      <4>3. ASSUME NEW d \in Docs, NEW n \in Nodes, AskRemove(h, d, n) PROVE \E r : Asks(r)
        BY <4>3 DEF AskRemove, OnPool
      <4>4. ASSUME NEW d \in Docs, NEW m \in Models, AskInitialize(h, d, m) PROVE \E r : Asks(r)
        BY <4>4 DEF AskInitialize, OnPool
      <4>5. ASSUME NEW d \in Docs, AskDelete(h, d) \/ AskLoad(h, d) \/ AskUnload(h, d)
            PROVE  \E r : Asks(r)
        BY <4>5 DEF AskDelete, AskLoad, AskUnload, OnPool
      <4> HIDE DEF Asks
      <4>6. \E r : Asks(r)
        BY <2>7, <4>1, <4>2, <4>3, <4>4, <4>5 DEF Request
      <4> QED
        BY <4>6 DEF Asks
    <3> QED
      BY <1>1, <2>1, <3>1, AskKeepsMint
  <2>8. ASSUME NEW h \in Handlers, Handle(h) PROVE MintOK'
    BY <1>1, <2>1, <2>8, HandleKeepsMint
  <2>9. ASSUME NEW c \in late, LateCall(c) PROVE MintOK'
    BY <2>2, <2>9 DEF LateCall, LateConfigure, LateLoadBegins, LateLoadEnds, LateUnload, Done
  <2> QED
    BY <1>3, <2>3, <2>4, <2>5, <2>6, <2>7, <2>8, <2>9 DEF Next, Health
<1> QED
  BY <1>2, <1>3

\* No pool is minted twice, unless two loads overlap or a mint is cut off
\* before its token is saved.
THEOREM OneTokenPerPool == Spec => []MintedOnce
<1>1. Init => MintInv
  BY TypeInit DEF Init, MintInv, MintOK, Idle, At
<1>2. MintInv => MintedOnce
  BY DEF MintInv, MintCalm, MintOK, MintedOnce
<1> QED BY <1>1, MintStep, <1>2, PTL DEF Spec
-----------------------------------------------------------------------------
(* What runs on the workers of a loaded pool.                              *)

\* The calls to the workers come one request at a time and end as they began,
\* and none takes effect after it was given up on.
Serial == Without(OverlapKinds \cup {"crash", "restart", "late", "halfInit", "halfDelete"})

Alone == \A g, h \in Handlers : req[g] # Idle /\ req[h] # Idle => g = h

\* A request is writing the configurations of the pool's members, or is
\* unloading their models.
Configures(h, d) == HalfInit(h) /\ req[h].doc = d
Unloads(h, d) ==
  /\ req[h].op \in {"remove", "delete", "unload"}
  /\ req[h].pc # "gather"
  /\ req[h].doc = d

\* The members of an initialized pool have the configuration it says, and
\* those of a loaded pool their model, but for a request that is at it.
ConfiguredOK ==
  \A d \in initialized :
    /\ Exists(d)
    /\ \/ \E h \in Handlers : Configures(h, d)
       \/ \A n \in Present(d) : config[n] = Payload(assigned[d], n)
LoadedOK ==
  \A d \in loaded :
    /\ d \in initialized
    /\ (\E h \in Handlers : Unloads(h, d)) \/ Present(d) \subseteq up

\* What a request that calls the workers has heard: without an error so far,
\* who has answered has done as told.
CallOK(h) ==
  LET r == req[h] IN
  /\ r.pc \in {"gather", "post"} =>
       /\ r.op \in {"initialize", "load", "unload", "remove", "delete"}
       /\ Exists(r.doc) /\ r.snap = members[r.doc]
  /\ r.pc = "post" => r.todo \subseteq Listed(r.snap)
  /\ r.op = "add" \/ (r.op = "remove" /\ r.pc \in {"pool", "node"}) => r.doc \notin loaded
  /\ r.op = "initialize" =>
       /\ r.doc \notin loaded /\ Exists(r.doc) /\ r.snap = members[r.doc]
       /\ (r.pc = "post" /\ ~r.failed) \/ r.pc = "pool" =>
            \A n \in Listed(r.snap) \ r.todo : config[n] = Payload(Planned(h), n)
       /\ r.pc = "pool" => r.todo = {}
  /\ r.op = "load" /\ r.pc \in {"gather", "post"} => r.doc \in initialized
  /\ r.op = "load" /\ r.pc = "post" /\ ~r.failed => Listed(r.snap) \ r.todo \subseteq up

LoadCore == Alone /\ ConfiguredOK /\ LoadedOK /\ \A h \in Handlers : req[h] # Idle => CallOK(h)

\* A model is built from the configuration its worker still has.
BuiltOK == \A n \in Nodes : running[n] \in {None, config[n]}

LoadInv == MemberInv /\ (Serial => LoadCore /\ BuiltOK)

LEMMA UpStays == UNCHANGED running => UNCHANGED up
BY DEF up

\* While the only request calls the workers, every member of a pool is
\* registered, and a member of one pool only.
LEMMA MembersApart ==
  ASSUME TypeInv, Core, NEW h \in Handlers, req[h].pc \in {"gather", "post"},
         \A g \in Handlers \ {h} : req[g] = Idle
  PROVE  /\ \A d \in Docs : Exists(d) => Present(d) \subseteq registered
         /\ \A d, e \in Docs : Exists(d) /\ Exists(e) /\ Present(d) \cap Present(e) # {} => d = e
<1>1. \A d, n : Claims(d, n) <=> n \in Present(d)
  BY DEF Claims, Half, At, Idle
<1>2. \A d \in Docs : Present(d) = Listed(members[d]) /\ Present(d) \subseteq Nodes
  <2>1. \A d \in Docs : members[d] \in MemberLists /\ Present(d) = Listed(members[d])
    BY DEF TypeInv, TypeOK, Present, Listed
  <2> QED
    BY <2>1, MemberListsTyped
<1>3. \A d \in Docs : Exists(d) => \A n \in Present(d) : poolName[n] = name[d] /\ n \in Nodes
  BY <1>1, <1>2 DEF Core, RowsAgree
<1>4. \A d \in Docs : Exists(d) => Present(d) \subseteq registered
  BY <1>3 DEF Core, RowsNamePools, Exists
<1>5. ASSUME NEW d \in Docs, NEW e \in Docs, Exists(d), Exists(e), NEW n \in Present(d) \cap Present(e)
      PROVE  d = e
  BY <1>3, <1>5 DEF Core, NamesDiffer, Exists
<1> QED
  BY <1>4, <1>5

\* Steps that take no configuration and no model away.
LEMMA LoadFrame ==
  ASSUME LoadCore, NEW h \in Handlers,
         \A g \in Handlers \ {h} : req[g] = Idle /\ req'[g] = Idle,
         UNCHANGED <<name, members, initialized, assigned, config>>,
         loaded' \subseteq loaded, up \subseteq up',
         \A d : Configures(h, d) => Configures(h, d)',
         \A d : Unloads(h, d) => d \notin loaded' \/ Unloads(h, d)',
         req'[h] # Idle => CallOK(h)'
  PROVE  LoadCore'
<1>1. \A g \in Handlers \ {h} : \A d : ~Configures(g, d) /\ ~Unloads(g, d)
  BY DEF Configures, HalfInit, Unloads, Idle
<1>2. \A d : Present(d)' = Present(d) /\ (Exists(d)' <=> Exists(d))
  BY DEF Present, Exists
<1>3. Alone' /\ \A g \in Handlers : req'[g] # Idle => CallOK(g)'
  BY DEF Alone
<1>4. ConfiguredOK'
  BY <1>1, <1>2 DEF ConfiguredOK, LoadCore
<1>5. LoadedOK'
  BY <1>1, <1>2 DEF LoadedOK, LoadCore
<1> QED
  BY <1>3, <1>4, <1>5 DEF LoadCore

\* Steps of the one request that change more: what it leaves must be right.
LEMMA LoadAlone ==
  ASSUME NEW h \in Handlers, \A g \in Handlers \ {h} : req'[g] = Idle,
         \A d \in initialized' :
           /\ Exists(d)'
           /\ Configures(h, d)' \/ \A n \in Present(d)' : config'[n] = Payload(assigned'[d], n),
         \A d \in loaded' : d \in initialized' /\ (Unloads(h, d)' \/ Present(d)' \subseteq up'),
         req'[h] # Idle => CallOK(h)'
  PROVE  LoadCore'
<1>1. Alone' /\ \A g \in Handlers : req'[g] # Idle => CallOK(g)'
  BY DEF Alone
<1>2. ConfiguredOK'
  BY DEF ConfiguredOK
<1>3. LoadedOK'
  BY DEF LoadedOK
<1> QED
  BY <1>1, <1>2, <1>3 DEF LoadCore

\* What the one request finds.
LEMMA LoadFound ==
  ASSUME LoadCore, NEW h \in Handlers, req[h] # Idle
  PROVE  /\ \A g \in Handlers \ {h} : req[g] = Idle
         /\ CallOK(h)
         /\ \A d \in initialized :
              /\ Exists(d)
              /\ Configures(h, d) \/ \A n \in Present(d) : config[n] = Payload(assigned[d], n)
         /\ \A d \in loaded : d \in initialized /\ (Unloads(h, d) \/ Present(d) \subseteq up)
<1>1. \A g \in Handlers \ {h} : req[g] = Idle
  BY DEF LoadCore, Alone
<1>2. \A g \in Handlers \ {h} : \A d : ~Configures(g, d) /\ ~Unloads(g, d)
  BY <1>1 DEF Configures, HalfInit, Unloads, Idle
<1> QED
  BY <1>1, <1>2 DEF LoadCore, ConfiguredOK, LoadedOK

LEMMA LoadGoto ==
  ASSUME TypeInv, NEW h \in Handlers, req[h] # Idle, NEW pc \in Pcs, Goto(h, pc)
  PROVE  /\ req'[h].op = req[h].op /\ req'[h].pc = pc /\ req'[h].doc = req[h].doc
         /\ req'[h].snap = req[h].snap /\ req'[h].model = req[h].model
         /\ req'[h].todo = req[h].todo /\ req'[h].failed = req[h].failed
         /\ Planned(h)' = Planned(h)
<1>1. req[h] \in Requests /\ req \in [Handlers -> {Idle} \cup Requests]
  BY Busy DEF TypeInv, TypeOK
<1> DEFINE s == [req[h] EXCEPT !.pc = pc]
<1>2. req'[h] = s
  BY <1>1 DEF Goto
<1>3. /\ s.op = req[h].op /\ s.pc = pc /\ s.doc = req[h].doc /\ s.snap = req[h].snap
      /\ s.model = req[h].model /\ s.todo = req[h].todo /\ s.failed = req[h].failed
  BY <1>1 DEF Requests
<1> HIDE DEF s
<1> QED
  BY <1>2, <1>3 DEF Planned

\* A request that starts, alone.
LEMMA AskKeepsLoad ==
  ASSUME TypeInv, LoadCore, Serial', NEW h \in Handlers, NEW r, Ask(h, r),
         UNCHANGED <<poolVars, workerVars>>,
         CallOK(h)'
  PROVE  LoadCore'
<1>1. req' = [req EXCEPT ![h] = r] /\ req \in [Handlers -> {Idle} \cup Requests] /\ req[h] = Idle
  BY DEF Ask, TypeInv, TypeOK
<1>2. ASSUME NEW g \in Handlers, req[g] # Idle PROVE FALSE
  <2>1. Overlap(r.op, req[g].op) \in OverlapKinds /\ Overlap(r.op, req[g].op) \in disturbed'
    BY <1>2 DEF Ask, Overlap, OverlapKinds
  <2> QED
    BY <2>1 DEF Serial, Without
<1>3. \A g \in Handlers \ {h} : req[g] = Idle /\ req'[g] = Idle
  BY <1>1, <1>2
<1>4. \A d : ~Configures(h, d) /\ ~Unloads(h, d)
  BY <1>1 DEF Configures, HalfInit, Unloads, Idle
<1> QED
  BY <1>3, <1>4, UpStays, LoadFrame DEF poolVars, workerVars

\* The one request changes rows, awaits or mints, or takes its pool off the
\* loaded ones.
LEMMA QuietKeepsLoad ==
  ASSUME TypeInv, LoadCore, Serial', NEW h \in Handlers,
         \/ NodeDeleted(h) \/ AddCheck(h) \/ AddNodes(h) \/ RemoveUnloaded(h) \/ RemoveNode(h)
         \/ DeleteUnloaded(h) \/ DeleteNodes(h) \/ InitializeAnswered(h)
         \/ LoadRead(h) \/ Mint(h) \/ MintFails(h) \/ SaveToken(h) \/ UnloadFlag(h)
  PROVE  LoadCore'
<1> USE DEF nodeVars, poolVars, workerVars, At
<1>1. Handle(h) /\ req[h] # Idle /\ req[h] \in Requests
  <2>1. Handle(h)
    BY DEF Handle
  <2>2. req[h] # Idle
    BY OpIsBusy DEF NodeDeleted, AddCheck, AddNodes, RemoveUnloaded, RemoveNode, DeleteUnloaded,
       DeleteNodes, InitializeAnswered, LoadRead, Mint, MintFails, SaveToken, UnloadFlag, Answered
  <2> QED
    BY <2>1, <2>2, Busy
<1>2. CallOK(h) /\ \A g \in Handlers \ {h} : req[g] = Idle
  BY <1>1, LoadFound
<1>3. \A g \in Handlers \ {h} : req[g] = Idle /\ req'[g] = Idle
  BY <1>1, <1>2, HandleKeepsArgs DEF Kept
<1>4. ASSUME Return(h), UNCHANGED <<name, members, initialized, assigned, config, up>>, loaded' \subseteq loaded,
             \A d : Configures(h, d) => FALSE,
             \A d : Unloads(h, d) => d \notin loaded'
      PROVE  LoadCore'
  <2>1. req'[h] = Idle
    BY <1>4 DEF Return, TypeInv, TypeOK
  <2> QED
    BY <1>3, <1>4, <2>1, LoadFrame
<1>5. ASSUME NEW pc \in {"nodes", "pool", "remint", "mint", "token"}, Goto(h, pc),
             UNCHANGED <<name, members, initialized, assigned, config, up>>, loaded' \subseteq loaded,
             req[h].op = "initialize" => pc = "pool" /\ req[h].pc = "post" /\ ~req[h].failed /\ req[h].todo = {},
             req[h].op = "remove" => req[h].doc \notin loaded'
      PROVE  LoadCore'
  <2>1. /\ req'[h].op = req[h].op /\ req'[h].pc = pc /\ req'[h].doc = req[h].doc
        /\ req'[h].snap = req[h].snap /\ req'[h].model = req[h].model
        /\ req'[h].todo = req[h].todo /\ req'[h].failed = req[h].failed
        /\ Planned(h)' = Planned(h)
    BY <1>1, <1>5, LoadGoto DEF Pcs
  <2>2. CallOK(h)'
    BY <1>2, <1>5, <2>1 DEF CallOK, Exists
  <2>3. \A d : Configures(h, d) => Configures(h, d)'
    BY <1>5, <2>1 DEF Configures, HalfInit
  <2>4. \A d : Unloads(h, d) => Unloads(h, d)'
    BY <1>5, <2>1 DEF Unloads
  <2> QED
    BY <1>3, <1>5, <2>2, <2>3, <2>4, LoadFrame
<1>6. CASE NodeDeleted(h)
  <2>1. req'[h] = Idle /\ UNCHANGED <<name, members, initialized, assigned, config, up, loaded>>
        /\ req[h].op = "deleteNode"
    BY <1>6, UpStays DEF NodeDeleted, TypeInv, TypeOK
  <2>2. \A d : ~Configures(h, d) /\ ~Unloads(h, d)
    BY <2>1 DEF Configures, HalfInit, Unloads
  <2> QED
    BY <1>3, <2>1, <2>2, LoadFrame
<1>7. CASE AddCheck(h)
  <2>1. req[h].op = "add" /\ req[h].pc = "check" /\ UNCHANGED <<name, members, initialized, assigned, config, up, loaded>>
    BY <1>7, UpStays DEF AddCheck
  <2>2. \A d : ~Configures(h, d) /\ ~Unloads(h, d)
    BY <2>1 DEF Configures, HalfInit, Unloads
  <2>3. CASE Return(h)
    BY <1>4, <2>1, <2>2, <2>3
  <2>4. CASE ~Return(h)
    <3>1. PICK i \in DOMAIN req[h].nodes :
            req' = [req EXCEPT ![h] = [req[h] EXCEPT !.todo = @ \ {req[h].nodes[i]},
                                        !.pc = IF i = Len(req[h].nodes) THEN "nodes" ELSE @]]
      BY <1>7, <2>4 DEF AddCheck, TypeInv, TypeOK
    <3> DEFINE s == [req[h] EXCEPT !.todo = @ \ {req[h].nodes[i]},
                                   !.pc = IF i = Len(req[h].nodes) THEN "nodes" ELSE @]
    <3>2. s.op = "add" /\ s.pc \in {"nodes", "check"} /\ s.doc = req[h].doc
      BY <1>1, <2>1 DEF Requests
    <3>3. req'[h] = s
      BY <3>1 DEF TypeInv, TypeOK
    <3> HIDE DEF s
    <3>4. CallOK(h)'
      BY <1>2, <2>1, <3>2, <3>3 DEF CallOK
    <3> QED
      BY <1>3, <2>1, <2>2, <3>4, LoadFrame
  <2> QED
    BY <2>3, <2>4
<1>8. CASE AddNodes(h) \/ DeleteNodes(h) \/ RemoveNode(h)
  BY <1>2, <1>4, <1>5, <1>8, UpStays DEF AddNodes, DeleteNodes, RemoveNode, CallOK, Configures, HalfInit, Unloads
<1>9. CASE RemoveUnloaded(h)
  <2>1. req[h].op = "remove" /\ loaded' = loaded \ {req[h].doc}
        /\ UNCHANGED <<name, members, initialized, assigned, config, up>>
        /\ (Return(h) \/ Goto(h, "pool"))
    BY <1>9, UpStays DEF RemoveUnloaded, Answered, SetLoaded
  <2> QED
    BY <1>4, <1>5, <2>1 DEF Configures, HalfInit, Unloads
<1>10. CASE DeleteUnloaded(h) \/ InitializeAnswered(h)
  <2>1. /\ Goto(h, IF req[h].op = "delete" THEN "nodes" ELSE "pool")
        /\ UNCHANGED <<name, members, initialized, assigned, config, up, loaded>>
        /\ ~req[h].failed /\ req[h].todo = {} /\ req[h].pc = "post" /\ req[h].op \in {"delete", "initialize"}
    BY <1>10, UpStays DEF DeleteUnloaded, InitializeAnswered, Answered, Serial, Without
  <2> QED
    BY <1>5, <2>1
<1>11. CASE LoadRead(h) \/ Mint(h) \/ MintFails(h) \/ SaveToken(h)
  <2>1. /\ req[h].op = "load" /\ UNCHANGED <<name, members, initialized, assigned, config, up, loaded>>
        /\ Return(h) \/ Goto(h, "mint") \/ Goto(h, "token")
    BY <1>11, UpStays DEF LoadRead, Mint, MintFails, SaveToken
  <2> QED
    BY <1>4, <1>5, <2>1 DEF Configures, HalfInit, Unloads
<1>12. CASE UnloadFlag(h)
  <2>1. req[h].op = "unload" /\ loaded' = loaded \ {req[h].doc} /\ Return(h)
        /\ UNCHANGED <<name, members, initialized, assigned, config, up>>
    BY <1>12, UpStays DEF UnloadFlag, Answered, SetLoaded
  <2> QED
    BY <1>4, <2>1 DEF Configures, HalfInit, Unloads
<1> QED
  BY <1>6, <1>7, <1>8, <1>9, <1>10, <1>11, <1>12

\* The one request writes its pool document.
LEMMA PoolWritesKeepLoad ==
  ASSUME TypeInv, LoadCore, NEW h \in Handlers,
         AddPool(h) \/ RemovePool(h) \/ DeletePool(h) \/ InitializePool(h) \/ LoadFlag(h)
  PROVE  LoadCore'
<1> USE DEF nodeVars, poolVars, workerVars, At
<1> DEFINE d == req[h].doc
<1>1. Handle(h) /\ req[h] # Idle /\ req[h] \in Requests /\ d \in Docs
  <2>1. Handle(h)
    BY DEF Handle
  <2>2. req[h] # Idle /\ req[h].op # "deleteNode"
    BY OpIsBusy DEF AddPool, RemovePool, DeletePool, InitializePool, LoadFlag, Answered
  <2> QED
    BY <2>1, <2>2, Busy DEF ArgsOK
<1>2. /\ CallOK(h)
      /\ \A g \in Handlers \ {h} : req[g] = Idle
      /\ \A e \in initialized :
           Exists(e) /\ (Configures(h, e) \/ \A n \in Present(e) : config[n] = Payload(assigned[e], n))
      /\ \A e \in loaded : e \in initialized /\ (Unloads(h, e) \/ Present(e) \subseteq up)
  BY <1>1, LoadFound
<1>3. \A g \in Handlers \ {h} : req'[g] = Idle
  BY <1>1, <1>2, HandleKeepsArgs DEF Kept
<1>4. /\ members \in [Docs -> MemberLists] /\ name \in [Docs -> Names \cup {None}]
      /\ assigned \in [Docs -> Assignments \cup {None}]
      /\ initialized \subseteq Docs /\ loaded \subseteq Docs
  BY DEF TypeInv, TypeOK
<1>5. ASSUME Return(h) PROVE req'[h] = Idle
  BY <1>5 DEF Return, TypeInv, TypeOK
<1>6. CASE AddPool(h) \/ RemovePool(h)
  <2>1. PICK ms : SetMembers(d, ms) /\ UNCHANGED <<name, loaded, config, up>>
    BY <1>6, UpStays DEF AddPool, RemovePool
  <2>2. d \notin loaded /\ \A e : ~Configures(h, e)
    BY <1>2, <1>6 DEF AddPool, RemovePool, CallOK, Configures, HalfInit
  <2>3. \A e : e # d => ~Unloads(h, e)
    BY DEF Unloads
  <2>4. \A e \in Docs \ {d} : /\ Present(e)' = Present(e) /\ assigned'[e] = assigned[e]
                              /\ e \in initialized' <=> e \in initialized
    BY <1>4, <2>1 DEF SetMembers, Present
  <2>5. d \in initialized' => ~Exists(d) /\ d \in initialized
    BY <2>1 DEF SetMembers
  <2>6. req'[h] # Idle => CallOK(h)'
    <3>1. CASE AddPool(h)
      BY <1>5, <3>1 DEF AddPool
    <3>2. CASE RemovePool(h)
      <4>1. req'[h].op = "remove" /\ req'[h].pc = "node" /\ req'[h].doc = d
        BY <1>1, <3>2, LoadGoto DEF RemovePool, Pcs
      <4> QED
        BY <2>1, <2>2, <4>1 DEF CallOK
    <3> QED
      BY <1>6, <3>1, <3>2
  <2>7. \A e \in initialized' :
          Exists(e)' /\ \A n \in Present(e)' : config'[n] = Payload(assigned'[e], n)
    <3>1. ASSUME NEW e \in initialized' PROVE e \in initialized /\ e # d /\ e \in Docs
      BY <1>2, <1>4, <2>1, <2>4, <2>5, <3>1 DEF SetMembers
    <3> QED
      BY <1>2, <2>1, <2>2, <2>4, <3>1 DEF Exists
  <2>8. \A e \in loaded' : e \in initialized' /\ Present(e)' \subseteq up'
    BY <1>2, <1>4, <2>1, <2>2, <2>3, <2>4
  <2> QED
    BY <1>3, <2>6, <2>7, <2>8, LoadAlone
<1>7. CASE DeletePool(h)
  <2>1. /\ name' = [name EXCEPT ![d] = None] /\ members' = [members EXCEPT ![d] = <<>>]
        /\ initialized' = initialized \ {d} /\ loaded' = loaded \ {d}
        /\ assigned' = [assigned EXCEPT ![d] = None]
        /\ UNCHANGED <<config, up>> /\ req[h].op = "delete" /\ Return(h)
    BY <1>7, UpStays DEF DeletePool
  <2>2. \A e : ~Configures(h, e) /\ (e # d => ~Unloads(h, e))
    BY <2>1 DEF Configures, HalfInit, Unloads
  <2>3. \A e \in Docs \ {d} : /\ Present(e)' = Present(e) /\ assigned'[e] = assigned[e]
                              /\ Exists(e)' <=> Exists(e)
    BY <1>4, <2>1 DEF Present, Exists
  <2>4. \A e \in initialized' :
          Exists(e)' /\ \A n \in Present(e)' : config'[n] = Payload(assigned'[e], n)
    BY <1>2, <1>4, <2>1, <2>2, <2>3
  <2>5. \A e \in loaded' : e \in initialized' /\ Present(e)' \subseteq up'
    BY <1>2, <1>4, <2>1, <2>2, <2>3
  <2> QED
    BY <1>3, <1>5, <2>1, <2>4, <2>5, LoadAlone
<1>8. CASE InitializePool(h)
  <2>1. /\ Exists(d) /\ d \notin loaded /\ req[h].snap = members[d]
        /\ \A n \in Listed(req[h].snap) : config[n] = Payload(Planned(h), n)
    BY <1>2, <1>8 DEF InitializePool, CallOK
  <2>2. /\ initialized' = initialized \cup {d} /\ assigned' = [assigned EXCEPT ![d] = Planned(h)]
        /\ UNCHANGED <<name, members, loaded, config, up>> /\ req[h].op = "initialize" /\ Return(h)
    BY <1>8, <2>1, UpStays DEF InitializePool
  <2>3. \A e : (e # d => ~Configures(h, e)) /\ ~Unloads(h, e)
    BY <2>2 DEF Configures, HalfInit, Unloads
  <2>4. \A e \in Docs : Present(e)' = Present(e) /\ (Exists(e)' <=> Exists(e)) /\ (e # d => assigned'[e] = assigned[e])
    BY <1>4, <2>2 DEF Present, Exists
  <2>5. assigned'[d] = Planned(h) /\ Present(d) = Listed(members[d])
    BY <1>1, <1>4, <2>2 DEF Present, Listed
  <2>6. \A e \in initialized' :
          Exists(e)' /\ \A n \in Present(e)' : config'[n] = Payload(assigned'[e], n)
    BY <1>1, <1>2, <1>4, <2>1, <2>2, <2>3, <2>4, <2>5
  <2>7. \A e \in loaded' : e \in initialized' /\ Present(e)' \subseteq up'
    BY <1>2, <1>4, <2>2, <2>3, <2>4
  <2> QED
    BY <1>3, <1>5, <2>2, <2>6, <2>7, LoadAlone
<1>9. CASE LoadFlag(h)
  <2>1. /\ d \in initialized /\ req[h].snap = members[d] /\ req[h].op = "load" /\ Exists(d)
        /\ ~req[h].failed => Listed(req[h].snap) \subseteq up
    BY <1>2, <1>9 DEF LoadFlag, CallOK, Answered
  <2>2. /\ UNCHANGED <<name, members, initialized, assigned, config, up>>
        /\ \/ Return(h) /\ loaded' = loaded
           \/ ~req[h].failed /\ loaded' = loaded \cup {d} /\ Goto(h, "remint")
    BY <1>9, <2>1, UpStays DEF LoadFlag, SetLoaded
  <2>3. \A e : ~Configures(h, e) /\ ~Unloads(h, e)
    BY <2>1 DEF Configures, HalfInit, Unloads
  <2>4. \A e : Present(e)' = Present(e) /\ (Exists(e)' <=> Exists(e))
    BY <2>2 DEF Present, Exists
  <2>5. Present(d) = Listed(members[d])
    BY DEF Present, Listed
  <2>6. req'[h] # Idle => CallOK(h)'
    <3>1. CASE Return(h)
      BY <1>5, <3>1
    <3>2. CASE Goto(h, "remint")
      <4>1. req'[h].op = "load" /\ req'[h].pc = "remint"
        BY <1>1, <2>1, <3>2, LoadGoto DEF Pcs
      <4> QED
        BY <4>1 DEF CallOK
    <3> QED
      BY <2>2, <3>1, <3>2
  <2>7. \A e \in initialized' :
          Exists(e)' /\ \A n \in Present(e)' : config'[n] = Payload(assigned'[e], n)
    BY <1>2, <2>2, <2>3, <2>4
  <2>8. \A e \in loaded' : e \in initialized' /\ Present(e)' \subseteq up'
    BY <1>2, <2>1, <2>2, <2>3, <2>4, <2>5
  <2> QED
    BY <1>3, <2>6, <2>7, <2>8, LoadAlone
<1> QED
  BY <1>6, <1>7, <1>8, <1>9

\* The one request reads the rows of the members and calls their workers.
LEMMA CallsKeepLoad ==
  ASSUME TypeInv, Core, LoadCore, NEW h \in Handlers, Gather(h) \/ Post(h) \/ GiveUp(h)
  PROVE  LoadCore'
<1> USE DEF nodeVars, poolVars, workerVars, At
<1> DEFINE d == req[h].doc
<1>1. Handle(h) /\ req[h] # Idle /\ req[h] \in Requests /\ req[h].pc \in {"gather", "post"}
  <2>1. Handle(h) /\ req[h].pc \in {"gather", "post"}
    BY DEF Handle, Gather, Post, GiveUp
  <2>2. req[h] # Idle
    BY <2>1, OpIsBusy
  <2> QED
    BY <2>1, <2>2, Busy
<1>2. /\ CallOK(h)
      /\ \A g \in Handlers \ {h} : req[g] = Idle
      /\ \A e \in initialized :
           Exists(e) /\ (Configures(h, e) \/ \A n \in Present(e) : config[n] = Payload(assigned[e], n))
      /\ \A e \in loaded : e \in initialized /\ (Unloads(h, e) \/ Present(e) \subseteq up)
  BY <1>1, LoadFound
<1>3. \A g \in Handlers \ {h} : req[g] = Idle /\ req'[g] = Idle
  BY <1>1, <1>2, HandleKeepsArgs DEF Kept
<1>4. /\ Exists(d) /\ d \in Docs /\ req[h].snap = members[d] /\ Listed(req[h].snap) = Present(d)
      /\ req[h].op \in {"initialize", "load", "unload", "remove", "delete"}
  <2>1. /\ Exists(d) /\ req[h].snap = members[d]
        /\ req[h].op \in {"initialize", "load", "unload", "remove", "delete"}
    BY <1>1, <1>2 DEF CallOK
  <2> QED
    BY <1>1, <2>1, Busy DEF ArgsOK, Listed, Present
<1>5. /\ \A e \in Docs : Exists(e) => Present(e) \subseteq registered
      /\ \A e, f \in Docs : Exists(e) /\ Exists(f) /\ Present(e) \cap Present(f) # {} => e = f
  BY <1>1, <1>2, MembersApart
<1>6. /\ initialized \subseteq Docs /\ loaded \subseteq Docs /\ req \in [Handlers -> {Idle} \cup Requests]
      /\ config \in [Nodes -> Payloads \cup {None}] /\ members \in [Docs -> MemberLists]
      /\ running \in [Nodes -> Payloads \cup {None}]
  BY DEF TypeInv, TypeOK
<1>7. \A e \in Docs : Present(e) \subseteq Nodes
  <2>1. \A e \in Docs : members[e] \in MemberLists /\ Present(e) = Listed(members[e])
    BY <1>6 DEF Present, Listed
  <2> QED
    BY <2>1, MemberListsTyped
<1>8. UNCHANGED <<name, members, initialized, assigned, loaded>>
  BY DEF Gather, Post, GiveUp
<1>9. \A e : Present(e)' = Present(e) /\ (Exists(e)' <=> Exists(e))
  BY <1>8 DEF Present, Exists
<1>10. CASE Gather(h)
  <2>1. req[h].pc = "gather" /\ UNCHANGED <<config, up>>
    BY <1>10, UpStays DEF Gather
  <2>2. \A e : ~Configures(h, e) /\ ~Unloads(h, e)
    BY <2>1 DEF Configures, HalfInit, Unloads
  <2>3. CASE Return(h)
    <3>1. req'[h] = Idle
      BY <1>6, <2>3 DEF Return
    <3> QED
      BY <1>3, <1>8, <2>1, <2>2, <3>1, LoadFrame
  <2>4. CASE ~Return(h)
    <3> DEFINE s == [req[h] EXCEPT !.pc = "post", !.todo = Listed(req[h].snap) \cap registered]
    <3>1. req'[h] = s
      BY <1>6, <1>10, <2>4 DEF Gather
    <3>2. /\ s.op = req[h].op /\ s.pc = "post" /\ s.doc = d /\ s.snap = req[h].snap
          /\ s.todo = Listed(req[h].snap) \cap registered
      BY <1>1 DEF Requests
    <3>3. Listed(req[h].snap) \cap registered = Listed(req[h].snap)
      BY <1>4, <1>5
    <3> HIDE DEF s
    <3>4. CallOK(h)'
      BY <1>2, <1>4, <1>8, <1>9, <2>1, <3>1, <3>2, <3>3 DEF CallOK
    <3> QED
      BY <1>3, <1>8, <2>1, <2>2, <3>4, LoadFrame
  <2> QED
    BY <2>3, <2>4
<1>11. CASE Post(h) \/ GiveUp(h)
  <2>1. req[h].pc = "post" /\ req[h].todo \subseteq Present(d)
    BY <1>2, <1>4, <1>11 DEF Post, GiveUp, CallOK
  <2>2. PICK n \in req[h].todo : \E e \in BOOLEAN :
          /\ Hear(h, n, e)
          /\ \/ Effect(h, n) /\ e = Refuses(h, n)
             \/ UNCHANGED <<config, up>> /\ e = TRUE
             \/ Effect(h, n) /\ e = TRUE
    BY <1>11, UpStays DEF Post, GiveUp, Refuses
  <2>3. PICK e \in BOOLEAN :
          /\ Hear(h, n, e)
          /\ \/ Effect(h, n) /\ e = Refuses(h, n)
             \/ UNCHANGED <<config, up>> /\ e = TRUE
             \/ Effect(h, n) /\ e = TRUE
    BY <2>2
  <2> DEFINE s == [req[h] EXCEPT !.todo = @ \ {n}, !.failed = @ \/ e]
  <2>4. req'[h] = s
    BY <1>6, <2>3 DEF Hear
  <2>5. /\ s.op = req[h].op /\ s.pc = "post" /\ s.doc = d /\ s.snap = req[h].snap /\ s.model = req[h].model
        /\ s.todo = req[h].todo \ {n}
    BY <1>1, <2>1 DEF Requests
  <2>6. ~s.failed => ~req[h].failed /\ ~e
    BY <1>1 DEF Requests
  <2> HIDE DEF s
  <2>7. n \in Present(d) /\ n \in Nodes /\ \A f \in Docs : Exists(f) /\ n \in Present(f) => f = d
    BY <1>4, <1>5, <1>7, <2>1, <2>2
  <2>8. Planned(h)' = Planned(h)
    BY <2>4, <2>5 DEF Planned
  <2>9. \A f : (Configures(h, f) <=> Configures(h, f)') /\ (Unloads(h, f) <=> Unloads(h, f)')
    BY <2>1, <2>4, <2>5 DEF Configures, HalfInit, Unloads
  <2>10. CASE req[h].op = "initialize"
    <3>1. /\ up' = up
          /\ config' = config \/ config' = [config EXCEPT ![n] = Payload(Planned(h), n)]
          /\ ~e => config' = [config EXCEPT ![n] = Payload(Planned(h), n)]
      BY <2>3, <2>10, UpStays DEF Effect, Configure, Refuses
    <3>2. \A m \in Nodes : m # n => config'[m] = config[m]
      BY <1>6, <3>1
    <3>3. ~e => config'[n] = Payload(Planned(h), n)
      BY <1>6, <2>7, <3>1
    <3>4. \A f : f = d => Configures(h, f)'
      BY <2>4, <2>5, <2>10 DEF Configures, HalfInit
    <3>5. \A f : ~Unloads(h, f)
      BY <2>10 DEF Unloads
    <3>6. CallOK(h)'
      <4>1. /\ d \notin loaded
            /\ ~req[h].failed =>
                 \A m \in Listed(req[h].snap) \ req[h].todo : config[m] = Payload(Planned(h), m)
        BY <1>2, <2>1, <2>10 DEF CallOK
      <4>2. ~s.failed =>
              \A m \in Listed(req[h].snap) \ (req[h].todo \ {n}) : config'[m] = Payload(Planned(h), m)
        BY <1>4, <1>7, <2>6, <3>2, <3>3, <4>1
      <4> QED
        BY <1>4, <1>8, <1>9, <2>1, <2>4, <2>5, <2>8, <2>10, <4>1, <4>2 DEF CallOK
    <3>7. \A f \in initialized' :
            Exists(f)' /\ (Configures(h, f)' \/ \A m \in Present(f)' : config'[m] = Payload(assigned'[f], m))
      <4>1. ASSUME NEW f \in initialized, f # d
            PROVE  Exists(f) /\ \A m \in Present(f) : config'[m] = Payload(assigned[f], m)
        <5>1. ~Configures(h, f) /\ Exists(f) /\ f \in Docs
          BY <1>2, <1>6, <4>1 DEF Configures
        <5>2. n \notin Present(f) /\ Present(f) \subseteq Nodes
          BY <1>7, <2>7, <4>1, <5>1
        <5>3. \A m \in Present(f) : config[m] = Payload(assigned[f], m)
          BY <1>2, <5>1
        <5> QED
          BY <3>2, <5>1, <5>2, <5>3
      <4>2. ASSUME NEW f \in initialized'
            PROVE  Exists(f)' /\ (Configures(h, f)' \/ \A m \in Present(f)' : config'[m] = Payload(assigned'[f], m))
        <5>1. f \in initialized /\ Present(f)' = Present(f) /\ (Exists(f)' <=> Exists(f)) /\ assigned' = assigned
          BY <1>8, <1>9, <4>2
        <5>2. CASE f = d
          BY <1>4, <3>4, <5>1, <5>2
        <5>3. CASE f # d
          BY <4>1, <5>1, <5>3
        <5> QED
          BY <5>2, <5>3
      <4> QED
        BY <4>2
    <3>8. \A f \in loaded' : f \in initialized' /\ Present(f)' \subseteq up'
      BY <1>2, <1>8, <1>9, <3>1, <3>5
    <3> QED
      BY <1>3, <3>6, <3>7, <3>8, LoadAlone
  <2>11. CASE req[h].op = "load"
    <3>1. config' = config /\ up \subseteq up' /\ (~e => n \in up')
      BY <1>6, <2>3, <2>7, <2>11 DEF Effect, Load, Refuses, up
    <3>2. CallOK(h)'
      <4>1. d \in initialized /\ (~req[h].failed => Listed(req[h].snap) \ req[h].todo \subseteq up)
        BY <1>2, <2>1, <2>11 DEF CallOK
      <4>2. ~s.failed => Listed(req[h].snap) \ (req[h].todo \ {n}) \subseteq up'
        BY <2>6, <3>1, <4>1
      <4> QED
        BY <1>4, <1>8, <1>9, <2>1, <2>4, <2>5, <2>11, <4>1, <4>2 DEF CallOK
    <3> QED
      BY <1>3, <1>8, <2>9, <3>1, <3>2, LoadFrame
  <2>12. CASE req[h].op \in {"unload", "remove", "delete"}
    <3>1. config' = config /\ up \ {n} \subseteq up'
      BY <1>6, <2>3, <2>7, <2>12 DEF Effect, Unload, up
    <3>2. \A f : (f = d => Unloads(h, f)') /\ ~Configures(h, f)
      BY <2>4, <2>5, <2>12 DEF Unloads, Configures, HalfInit
    <3>3. CallOK(h)'
      BY <1>4, <1>8, <1>9, <2>1, <2>4, <2>5, <2>12 DEF CallOK
    <3>4. \A f \in initialized' :
            Exists(f)' /\ \A m \in Present(f)' : config'[m] = Payload(assigned'[f], m)
      BY <1>2, <1>8, <1>9, <3>1, <3>2
    <3>5. \A f \in loaded' : f \in initialized' /\ (Unloads(h, f)' \/ Present(f)' \subseteq up')
      <4>1. ASSUME NEW f \in loaded, f # d PROVE Present(f) \subseteq up'
        <5>1. ~Unloads(h, f) /\ f \in initialized /\ f \in Docs
          BY <1>2, <1>6, <4>1 DEF Unloads
        <5>2. n \notin Present(f) /\ Present(f) \subseteq up
          BY <1>2, <2>7, <4>1, <5>1
        <5> QED
          BY <3>1, <5>2
      <4>2. ASSUME NEW f \in loaded'
            PROVE  f \in initialized' /\ (Unloads(h, f)' \/ Present(f)' \subseteq up')
        <5>1. f \in loaded /\ Present(f)' = Present(f) /\ initialized' = initialized
          BY <1>8, <1>9, <4>2
        <5>2. f \in initialized'
          BY <1>2, <5>1
        <5>3. CASE f = d
          BY <3>2, <5>2, <5>3
        <5>4. CASE f # d
          BY <4>1, <5>1, <5>2, <5>4
        <5> QED
          BY <5>3, <5>4
      <4> QED
        BY <4>2
    <3> QED
      BY <1>3, <3>3, <3>4, <3>5, LoadAlone
  <2> QED
    BY <1>4, <2>10, <2>11, <2>12
<1> QED
  BY <1>10, <1>11

\* Alone among the calls that take effect, /load builds from the configuration
\* and /configure leaves a worker with a model alone.
LEMMA BuiltStep ==
  ASSUME TypeInv, BuiltOK, Next, Serial'
  PROVE  BuiltOK'
<1>1. /\ config \in [Nodes -> Payloads \cup {None}] /\ running \in [Nodes -> Payloads \cup {None}]
      /\ req \in [Handlers -> {Idle} \cup Requests]
  BY DEF TypeInv, TypeOK
<1>2. ASSUME UNCHANGED <<config, running>> PROVE BuiltOK'
  BY <1>2 DEF BuiltOK
<1>3. ASSUME NEW h \in Handlers, NEW n \in Nodes, Effect(h, n) PROVE BuiltOK'
  <2>1. CASE Configure(n, Payload(Planned(h), n))
    BY <1>1, <2>1 DEF BuiltOK, Configure, up
  <2>2. CASE Load(n)
    BY <1>1, <2>2 DEF BuiltOK, Load, up
  <2>3. CASE Unload(n)
    BY <1>1, <2>3 DEF BuiltOK, Unload
  <2> QED
    BY <1>3, <2>1, <2>2, <2>3 DEF Effect
<1>4. ASSUME NEW h \in Handlers, Post(h) PROVE BuiltOK'
  <2>1. PICK n \in req[h].todo : Effect(h, n) \/ UNCHANGED workerVars
    BY <1>4 DEF Post
  <2>2. n \in Nodes
    BY <1>1, <1>4, <2>1, OpIsBusy DEF Post, Requests
  <2> QED
    BY <1>2, <1>3, <2>1, <2>2 DEF workerVars
<1>5. ASSUME NEW h \in Handlers, Handle(h), ~Post(h) PROVE BuiltOK'
  <2>1. UNCHANGED <<config, running>>
    BY <1>5 DEF Handle, workerVars, NodeDeleted, AddCheck, AddNodes, AddPool, RemoveUnloaded, RemovePool,
       RemoveNode, DeleteUnloaded, DeleteNodes, DeletePool, Gather, GiveUp, InitializeAnswered,
       InitializePool, LoadFlag, LoadRead, Mint, MintFails, SaveToken, UnloadFlag
  <2> QED
    BY <1>2, <2>1
<1>6. ASSUME NEW h \in Handlers, Request(h) PROVE BuiltOK'
  BY <1>2, <1>6 DEF Request, workerVars, AskDeleteNode, AskAdd, AskRemove, AskInitialize, AskDelete,
     AskLoad, AskUnload
<1>7. ASSUME NEW c, LateCall(c) PROVE BuiltOK'
  BY <1>2, <1>7 DEF LateCall, LateConfigure, LateLoadBegins, LateLoadEnds, LateUnload, Done, Serial, Without
<1>8. Health => BuiltOK'
  BY <1>2 DEF Health, workerVars, Poll, PollFails, ReconcileRead, ReconcileWrite
<1>9. ~Crash /\ \A n \in Nodes : ~WorkerRestarts(n)
  BY DEF Crash, WorkerRestarts, Serial, Without
<1>10. ASSUME NEW n \in Nodes, RegisterNode(n) PROVE BuiltOK'
  BY <1>2, <1>10 DEF RegisterNode, workerVars
<1>11. ASSUME NEW d \in Docs, NEW nm \in Names, CreatePool(d, nm) PROVE BuiltOK'
  BY <1>2, <1>11 DEF CreatePool, workerVars
<1> QED
  BY <1>4, <1>5, <1>6, <1>7, <1>8, <1>9, <1>10, <1>11 DEF Next

LEMMA LoadInit == Init => LoadInv
BY MemberInit DEF Init, LoadInv, LoadCore, Alone, ConfiguredOK, LoadedOK, BuiltOK, Idle

LEMMA LoadStep == LoadInv /\ [Next]_vars => LoadInv'
<1> SUFFICES ASSUME LoadInv, [Next]_vars PROVE LoadInv'
  OBVIOUS
<1>1. MemberInv /\ MemberInv' /\ TypeInv
  BY MemberStep DEF LoadInv, MemberInv
<1> SUFFICES ASSUME Serial' PROVE LoadCore' /\ BuiltOK'
  BY <1>1 DEF LoadInv
<1>2. ASSUME LoadCore, UNCHANGED <<name, members, initialized, assigned, config, up, req>>,
             loaded' \subseteq loaded
      PROVE  LoadCore'
  <2>1. /\ \A d : Present(d)' = Present(d) /\ (Exists(d)' <=> Exists(d))
        /\ \A h \in Handlers : \A d : (Configures(h, d)' <=> Configures(h, d)) /\ (Unloads(h, d)' <=> Unloads(h, d))
        /\ \A h \in Handlers : Planned(h)' = Planned(h)
    BY <1>2 DEF Present, Exists, Configures, HalfInit, Unloads, Planned
  <2>2. Alone'
    BY <1>2 DEF LoadCore, Alone
  <2>3. ConfiguredOK'
    BY <1>2, <2>1 DEF LoadCore, ConfiguredOK
  <2>4. LoadedOK'
    BY <1>2, <2>1 DEF LoadCore, LoadedOK
  <2>5. \A h \in Handlers : req'[h] # Idle => CallOK(h)'
    <3> SUFFICES ASSUME NEW h \in Handlers, req[h] # Idle PROVE CallOK(h)'
      BY <1>2
    <3>1. CallOK(h)
      BY <1>2 DEF LoadCore
    <3> QED
      BY <1>2, <2>1, <3>1 DEF CallOK
  <2> QED
    BY <2>2, <2>3, <2>4, <2>5 DEF LoadCore
<1>3. CASE UNCHANGED vars
  <2>1. LoadCore /\ BuiltOK
    BY <1>3 DEF vars, LoadInv, Serial, Without
  <2> QED
    BY <1>2, <1>3, <2>1, UpStays DEF vars, poolVars, workerVars, BuiltOK
<1>4. CASE Next
  <2>1. LoadCore /\ BuiltOK /\ Serial
    BY <1>4, DisturbedGrows DEF LoadInv, Serial, Without
  <2>2. Core
    BY <1>1, <2>1 DEF MemberInv, Calm, Serial, Without, OverlapKinds
  <2>3. /\ members \in [Docs -> MemberLists] /\ name \in [Docs -> Names \cup {None}]
        /\ assigned \in [Docs -> Assignments \cup {None}] /\ initialized \subseteq Docs
        /\ loaded \subseteq Docs /\ req \in [Handlers -> {Idle} \cup Requests]
    BY <1>1 DEF TypeInv, TypeOK
  <2>4. ASSUME NEW n \in Nodes, RegisterNode(n) \/ Poll(n) \/ PollFails(n) PROVE LoadCore'
    BY <1>2, <2>1, <2>4, UpStays DEF RegisterNode, Poll, PollFails, poolVars, workerVars
  <2>5. ASSUME NEW d \in Docs, ReconcileRead(d) \/ ReconcileWrite(d) PROVE LoadCore'
    BY <1>2, <2>1, <2>5, UpStays DEF ReconcileRead, ReconcileWrite, SetLoaded, poolVars, workerVars
  <2>6. ~Crash /\ \A n \in Nodes : ~WorkerRestarts(n)
    BY DEF Crash, WorkerRestarts, Serial, Without
  <2>7. ASSUME NEW d \in Docs, NEW nm \in Names, CreatePool(d, nm) PROVE LoadCore'
    <3>1. /\ name' = [name EXCEPT ![d] = nm] /\ members' = [members EXCEPT ![d] = <<>>]
          /\ initialized' = initialized \ {d} /\ loaded' = loaded \ {d}
          /\ assigned' = [assigned EXCEPT ![d] = None]
          /\ UNCHANGED <<config, up, req>>
          /\ \A h \in Handlers : req[h] # Idle => req[h].doc # d
      BY <2>7, UpStays DEF CreatePool, workerVars
    <3>2. \A e \in Docs \ {d} : /\ Present(e)' = Present(e) /\ assigned'[e] = assigned[e]
                                /\ members'[e] = members[e]
                                /\ Exists(e)' <=> Exists(e)
      BY <2>3, <3>1 DEF Present, Exists
    <3>3. /\ \A h \in Handlers : \A e : (Configures(h, e)' <=> Configures(h, e)) /\ (Unloads(h, e)' <=> Unloads(h, e))
          /\ \A h \in Handlers : Planned(h)' = Planned(h)
      BY <3>1 DEF Configures, HalfInit, Unloads, Planned
    <3>4. Alone'
      BY <2>1, <3>1 DEF LoadCore, Alone
    <3>5. ConfiguredOK'
      BY <2>1, <2>3, <3>1, <3>2, <3>3 DEF LoadCore, ConfiguredOK
    <3>6. LoadedOK'
      BY <2>1, <2>3, <3>1, <3>2, <3>3 DEF LoadCore, LoadedOK
    <3>7. ASSUME NEW h \in Handlers, req[h] # Idle PROVE CallOK(h)'
      <4>1. CallOK(h) /\ ArgsOK(req[h]) /\ req[h] \in Requests /\ req[h].doc # d
        BY <1>1, <2>1, <3>1, <3>7, Busy DEF LoadCore
      <4>2. req[h].pc \in {"gather", "post"} \/ req[h].op = "initialize" => req[h].doc \in Docs \ {d}
        BY <4>1 DEF CallOK, ArgsOK
      <4> QED
        BY <3>1, <3>2, <3>3, <4>1, <4>2 DEF CallOK
    <3> QED
      BY <3>1, <3>4, <3>5, <3>6, <3>7 DEF LoadCore
  <2>8. ASSUME NEW h \in Handlers, Request(h) PROVE LoadCore'
    <3>1. PICK r : /\ Ask(h, r) /\ UNCHANGED <<poolVars, workerVars>> /\ CallOK(h)'
      <4>1. ASSUME NEW r, Ask(h, r) PROVE req'[h] = r
        BY <2>3, <4>1 DEF Ask
      <4>2. ASSUME UNCHANGED <<poolVars, workerVars>>
            PROVE  UNCHANGED <<name, members, initialized, loaded, assigned, config, up>>
        BY <4>2, UpStays DEF poolVars, workerVars
      <4>3. ASSUME NEW n \in Nodes, AskDeleteNode(h, n)
            PROVE  \E r : Ask(h, r) /\ UNCHANGED <<poolVars, workerVars>> /\ CallOK(h)'
        BY <4>1, <4>2, <4>3 DEF AskDeleteNode, DeleteNodeRequest, CallOK
      <4>4. ASSUME NEW d \in Docs, NEW ns \in MemberLists, AskAdd(h, d, ns)
            PROVE  \E r : Ask(h, r) /\ UNCHANGED <<poolVars, workerVars>> /\ CallOK(h)'
        <5> DEFINE r == [OnPool("add", "check", d) EXCEPT !.nodes = ns, !.todo = Listed(ns)]
        <5>1. r.op = "add" /\ r.pc = "check" /\ r.doc = d
          BY DEF OnPool
        <5>2. Ask(h, r) /\ UNCHANGED <<poolVars, workerVars>> /\ d \notin loaded
          BY <4>4 DEF AskAdd
        <5> HIDE DEF r
        <5> QED
          BY <4>1, <4>2, <5>1, <5>2 DEF CallOK
      <4>5. ASSUME NEW d \in Docs, NEW n \in Nodes, AskRemove(h, d, n)
            PROVE  \E r : Ask(h, r) /\ UNCHANGED <<poolVars, workerVars>> /\ CallOK(h)'
        <5> DEFINE r == [OnPool("remove", IF d \in loaded THEN "gather" ELSE "pool", d) EXCEPT !.nodes = <<n>>]
        <5>1. r.op = "remove" /\ r.pc = (IF d \in loaded THEN "gather" ELSE "pool") /\ r.doc = d
              /\ r.snap = members[d]
          BY DEF OnPool
        <5>2. Ask(h, r) /\ UNCHANGED <<poolVars, workerVars>> /\ Exists(d)
          BY <4>5 DEF AskRemove
        <5> HIDE DEF r
        <5> QED
          BY <4>1, <4>2, <5>1, <5>2 DEF CallOK, Exists
      <4>6. ASSUME NEW d \in Docs, NEW m \in Models, AskInitialize(h, d, m)
            PROVE  \E r : Ask(h, r) /\ UNCHANGED <<poolVars, workerVars>> /\ CallOK(h)'
        <5> DEFINE r == [OnPool("initialize", "gather", d) EXCEPT !.model = m]
        <5>1. r.op = "initialize" /\ r.pc = "gather" /\ r.doc = d /\ r.snap = members[d]
          BY DEF OnPool
        <5>2. Ask(h, r) /\ UNCHANGED <<poolVars, workerVars>> /\ Exists(d) /\ d \notin loaded
          BY <4>6 DEF AskInitialize
        <5> HIDE DEF r
        <5> QED
          BY <4>1, <4>2, <5>1, <5>2 DEF CallOK, Exists
      <4>7. ASSUME NEW d \in Docs, AskDelete(h, d) \/ AskLoad(h, d) \/ AskUnload(h, d)
            PROVE  \E r : Ask(h, r) /\ UNCHANGED <<poolVars, workerVars>> /\ CallOK(h)'
        <5>1. PICK r : /\ Ask(h, r) /\ UNCHANGED <<poolVars, workerVars>> /\ Exists(d)
                       /\ r.op \in {"delete", "load", "unload"} /\ r.pc \in {"gather", "nodes"}
                       /\ r.doc = d /\ r.snap = members[d]
                       /\ r.op = "load" => d \in initialized
          BY <4>7 DEF AskDelete, AskLoad, AskUnload, OnPool
        <5> QED
          BY <4>1, <4>2, <5>1 DEF CallOK, Exists
      <4> QED
        BY <2>8, <4>3, <4>4, <4>5, <4>6, <4>7 DEF Request
    <3> QED
      BY <1>1, <2>1, <3>1, AskKeepsLoad
  <2>9. ASSUME NEW h \in Handlers, Handle(h) PROVE LoadCore'
    BY <1>1, <2>1, <2>2, <2>9, QuietKeepsLoad, PoolWritesKeepLoad, CallsKeepLoad DEF Handle
  <2>10. ASSUME NEW c \in late, LateCall(c) PROVE LoadCore'
    <3>1. LateLoadBegins(c)
      BY <2>10 DEF LateCall, LateConfigure, LateLoadEnds, LateUnload, Done, Serial, Without
    <3> QED
      BY <1>2, <2>1, <3>1, UpStays DEF LateLoadBegins, poolVars
  <2>11. LoadCore'
    BY <1>4, <2>4, <2>5, <2>6, <2>7, <2>8, <2>9, <2>10 DEF Next, Health
  <2> QED
    BY <1>1, <1>4, <2>1, <2>11, BuiltStep
<1> QED
  BY <1>3, <1>4

\* When no request is in progress, both workers of a loaded pool run the part
\* that its assignments give them, whatever calls to workers have failed, at once
\* or after they took effect: unless a call took effect after it was given up
\* on, requests overlapped, the orchestrator or a worker stopped, or an
\* /initialize or a delete ended half-way.
THEOREM LoadedPoolsRun == Spec => []LoadedAsAssigned
<1>1. LoadInv => LoadedAsAssigned
  <2> SUFFICES ASSUME LoadInv, Serial, IdleNow PROVE LoadedAsAssigned
    BY DEF LoadedAsAssigned, Serial
  <2>1. \A h \in Handlers : \A d : ~Configures(h, d) /\ ~Unloads(h, d)
    BY DEF IdleNow, Idle, Configures, HalfInit, Unloads
  <2>2. \A d \in loaded : d \in initialized /\ Present(d) \subseteq up
    BY <2>1 DEF LoadInv, LoadCore, LoadedOK
  <2>3. \A d \in initialized : \A n \in Present(d) : config[n] = Payload(assigned[d], n)
    BY <2>1 DEF LoadInv, LoadCore, ConfiguredOK
  <2>4. \A n \in up : running[n] = config[n]
    BY DEF LoadInv, BuiltOK, up
  <2> QED
    BY <2>2, <2>3, <2>4 DEF LoadedAsAssigned
<1> QED BY LoadInit, LoadStep, <1>1, PTL DEF Spec
=============================================================================
