-------------------------- MODULE TokenLoopProofs --------------------------
(***************************************************************************)
(* Proofs about TokenLoop, for every set of requests, every MaxTokens,     *)
(* every number of send attempts and every set of faults.                  *)
(***************************************************************************)
EXTENDS TokenLoop, SequenceTheorems, TLAPS

\* A generator that goes on has consumed one token per chunk after the
\* prompt, none of them EOS, and has not reached max_tokens.
CountOf(r) ==
  /\ pc[r] \in {"idle", "forward", "send", "wait"} =>
       /\ Len(generated[r]) = seqc[r]
       /\ \A n \in 1 .. Len(generated[r]) : ~generated[r][n].eos
  /\ pc[r] = "idle" => seqc[r] = 0
  /\ pc[r] \in {"forward", "send"} => seqc[r] < maxTokens[r] \/ seqc[r] = 0
  /\ pc[r] = "wait" => seqc[r] < maxTokens[r]

Counting == \A r \in Requests : CountOf(r)

CountInv == TypeOK /\ Counting /\ StopsExactly

\* The places where the answer to the current chunk of r can be.
HiddenOf(r)  == {f \in toExit : f.kind = "hidden" /\ f.req = r}
EndsOf(r)    == {f \in toExit : f.kind = "end" /\ f.req = r}
TokensOf(r)  == {f \in toEntry : f.token.req = r}
Computing(r) == job # None /\ job.req = r
Replying(r)  == reply # None /\ reply.token.req = r

NoHidden(r) == HiddenOf(r) = {} /\ ~Computing(r)
NoToken(r)  == ~Replying(r) /\ TokensOf(r) = {} /\ queue[r] = <<>>
Quiet(r)    == NoHidden(r) /\ NoToken(r)

AtMostOne(S) == \A x, y \in S : x = y

\* Without reloads, the exit worker's cache of r holds exactly n chunks.
NoReload   == "restart" \notin Faults
Seen(r, n) == NoReload => kv[r] = Prefix(n)

\* While r waits, its chunk is on its way to the exit worker, ...
ChunkSent(r) ==
  /\ NoToken(r)
  /\ Seen(r, seqc[r])
  /\ ~Computing(r)
  /\ AtMostOne(HiddenOf(r))
  /\ \A f \in HiddenOf(r) : f.seq = seqc[r]

\* ... or the exit worker computes the token, ...
ChunkComputed(r) ==
  /\ NoToken(r)
  /\ Seen(r, seqc[r])
  /\ HiddenOf(r) = {}
  /\ Computing(r)
  /\ job.seq = seqc[r]

\* ... or sends it, ...
Answers(token, r) == NoReload => token.ctx = Prefix(seqc[r] + 1)

TokenReplied(r) ==
  /\ NoHidden(r)
  /\ Seen(r, seqc[r] + 1)
  /\ Replying(r)
  /\ Answers(reply.token, r)
  /\ TokensOf(r) = {}
  /\ queue[r] = <<>>

\* ... or the token is on its way back, ...
TokenSent(r) ==
  /\ NoHidden(r)
  /\ Seen(r, seqc[r] + 1)
  /\ ~Replying(r)
  /\ AtMostOne(TokensOf(r))
  /\ \A f \in TokensOf(r) : Answers(f.token, r)
  /\ queue[r] = <<>>

\* ... or it is in the queue, ...
TokenQueued(r) ==
  /\ NoHidden(r)
  /\ Seen(r, seqc[r] + 1)
  /\ ~Replying(r)
  /\ TokensOf(r) = {}
  /\ Len(queue[r]) = 1
  /\ Answers(queue[r][1], r)

\* ... or all of it is gone for good (Quiet).
BatonOf(r) ==
  /\ pc[r] \in {"idle", "forward", "send"} => Quiet(r) /\ Seen(r, seqc[r])
  /\ pc[r] = "wait" =>
       \/ ChunkSent(r)
       \/ ChunkComputed(r)
       \/ TokenReplied(r)
       \/ TokenSent(r)
       \/ TokenQueued(r)
       \/ Quiet(r)
  /\ pc[r] \in {"idle", "forward", "send", "wait"} => EndsOf(r) = {}
  /\ pc[r] \in {"sendEnd", "done"} /\ maxTokens[r] > 0 => NoHidden(r)

Baton ==
  /\ job = None \/ reply = None
  /\ \A r \in Requests : BatonOf(r)

LoopInv == CountInv /\ ("duplicate" \notin Faults => Baton) /\ ContextExact

\* The other invariant: seq_counter never falls behind what is under way.
TokenBehind(token) ==
  /\ token.seq <= seqc[token.req] + 1
  /\ \A i \in DOMAIN token.ctx : token.ctx[i] <= seqc[token.req]

ChunksBehind ==
  /\ \A f \in toExit : f.kind = "hidden" => f.seq <= seqc[f.req]
  /\ job # None => job.seq <= seqc[job.req]
  /\ \A r \in Requests : \A i \in DOMAIN kv[r] : kv[r][i] <= seqc[r]

TokensBehind ==
  /\ reply # None => TokenBehind(reply.token)
  /\ \A f \in toEntry : TokenBehind(f.token)
  /\ \A r \in Requests : \A i \in DOMAIN queue[r] :
       queue[r][i].req = r /\ TokenBehind(queue[r][i])

BehindInv == CountInv /\ ChunksBehind /\ TokensBehind /\ NeverAhead

-----------------------------------------------------------------------------
USE DEF Attempts, Ended, Running

LEMMA PrefixType ==
  ASSUME NEW n \in 0 .. MaxTokens + 1
  PROVE  Prefix(n) \in Context
BY TokenLoopAssumption DEF Prefix, Context

LEMMA CountInit == Init => CountInv
BY TokenLoopAssumption DEF Init, CountInv, TypeOK, Counting, CountOf, StopsExactly, StopsAt, Context

\* One lemma per part of the invariant; each step of the proof is an action.
LEMMA TypeStep ==
  ASSUME CountInv, [Next]_vars
  PROVE  TypeOK'
<1> USE TokenLoopAssumption DEF CountInv, TypeOK, Finish
<1>1. ASSUME NEW r \in Requests, Start(r) PROVE TypeOK'
  BY <1>1 DEF Start, exitVars
<1>2. ASSUME NEW r \in Requests, ForwardEntry(r) PROVE TypeOK'
  BY <1>2 DEF ForwardEntry, exitVars
<1>3. ASSUME NEW r \in Requests, ForwardEntryFails(r) PROVE TypeOK'
  BY <1>3 DEF ForwardEntryFails, exitVars
<1>4. ASSUME NEW r \in Requests, SendHidden(r) PROVE TypeOK'
  <2>1. HiddenFrame(r, attempt[r]) \in Hidden
    BY DEF HiddenFrame, Hidden
  <2> QED BY <1>4, <2>1 DEF SendHidden, exitVars
<1>5. ASSUME NEW r \in Requests, SendHiddenFails(r) PROVE TypeOK'
  <2>1. HiddenFrame(r, attempt[r]) \in Hidden
    BY DEF HiddenFrame, Hidden
  <2>2. toExit' \subseteq Hidden \cup EndFrame
    BY <1>5, <2>1 DEF SendHiddenFails, MaybeAccepted
  <2>3. attempt' \in [Requests -> Attempts]
    <3>1. 1 \in Attempts /\ (attempt[r] < MaxAttempts => attempt[r] + 1 \in Attempts)
      OBVIOUS
    <3>2. CASE attempt' = attempt
      BY <3>2
    <3>3. CASE attempt[r] < MaxAttempts /\ attempt' = [attempt EXCEPT ![r] = @ + 1]
      BY <3>1, <3>3
    <3>4. CASE attempt' = [attempt EXCEPT ![r] = 1]
      BY <3>1, <3>4
    <3> QED BY <1>5, <3>2, <3>3, <3>4 DEF SendHiddenFails
  <2>4. /\ pc' \in [Requests -> {"idle"} \cup Running \cup Ended]
        /\ pending' \subseteq Requests
    BY <1>5 DEF SendHiddenFails
  <2> QED BY <1>5, <2>2, <2>3, <2>4 DEF SendHiddenFails, exitVars
<1>6. ASSUME NEW r \in Requests, GetToken(r) PROVE TypeOK'
  <2>1. Head(queue[r]) \in Token /\ Tail(queue[r]) \in Seq(Token)
    BY <1>6 DEF GetToken
  <2>2. Append(generated[r], Head(queue[r])) \in Seq(Token)
    BY <2>1
  <2>3. seqc[r] + 1 \in 0 .. MaxTokens
    BY <1>6 DEF GetToken, Counting, CountOf
  <2>4. seqc' \in [Requests -> 0 .. MaxTokens]
    BY <1>6, <2>3 DEF GetToken
  <2>5. pc' \in [Requests -> {"idle"} \cup Running \cup Ended]
    BY <1>6 DEF GetToken
  <2>6. /\ generated' \in [Requests -> Seq(Token)]
        /\ queue' \in [Requests -> Seq(Token)]
    BY <1>6, <2>1, <2>2 DEF GetToken
  <2> QED BY <1>6, <2>4, <2>5, <2>6 DEF GetToken, exitVars
<1>7. ASSUME NEW r \in Requests, Timeout(r) PROVE TypeOK'
  BY <1>7 DEF Timeout, exitVars
<1>8. ASSUME NEW r \in Requests, SendEnd(r) PROVE TypeOK'
  <2>1. ControlEnd(r, attempt[r]) \in EndFrame
    BY DEF ControlEnd, EndFrame
  <2> QED BY <1>8, <2>1 DEF SendEnd, exitVars
<1>9. ASSUME NEW r \in Requests, SendEndFails(r) PROVE TypeOK'
  <2>1. ControlEnd(r, attempt[r]) \in EndFrame
    BY DEF ControlEnd, EndFrame
  <2>2. toExit' \subseteq Hidden \cup EndFrame
    BY <1>9, <2>1 DEF SendEndFails, MaybeAccepted
  <2>3. attempt' \in [Requests -> Attempts]
    <3>1. 1 \in Attempts /\ (attempt[r] < MaxAttempts => attempt[r] + 1 \in Attempts)
      OBVIOUS
    <3>2. CASE attempt' = attempt
      BY <3>2
    <3>3. CASE attempt[r] < MaxAttempts /\ attempt' = [attempt EXCEPT ![r] = @ + 1]
      BY <3>1, <3>3
    <3>4. CASE attempt' = [attempt EXCEPT ![r] = 1]
      BY <3>1, <3>4
    <3> QED BY <1>9, <3>2, <3>3, <3>4 DEF SendEndFails
  <2>4. /\ pc' \in [Requests -> {"idle"} \cup Running \cup Ended]
        /\ pending' \subseteq Requests
    BY <1>9 DEF SendEndFails
  <2> QED BY <1>9, <2>2, <2>3, <2>4 DEF SendEndFails, exitVars
<1>10. ASSUME NEW r \in Requests, Cancel(r) PROVE TypeOK'
  <2>1. HiddenFrame(r, attempt[r]) \in Hidden /\ ControlEnd(r, attempt[r]) \in EndFrame
    BY DEF HiddenFrame, Hidden, ControlEnd, EndFrame
  <2> QED BY <1>10, <2>1 DEF Cancel, exitVars
<1>11. ASSUME NEW f \in toEntry, Dispatch(f) PROVE TypeOK'
  <2>1. f.token \in Token /\ f.token.req \in Requests
    BY DEF TokenFrame, Token
  <2>2. Append(queue[f.token.req], f.token) \in Seq(Token)
    BY <2>1
  <2> QED BY <1>11, <2>1, <2>2 DEF Dispatch, exitVars
<1>12. ASSUME EntryReload PROVE TypeOK'
  BY <1>12 DEF EntryReload, exitVars
<1>13. ASSUME NEW f \in toExit, ExitRecvEnd(f) PROVE TypeOK'
  <2>1. f.req \in Requests /\ <<>> \in Context
    BY DEF Hidden, EndFrame, Context
  <2> QED BY <1>13, <2>1 DEF ExitRecvEnd, entryVars
<1>14. ASSUME NEW f \in toExit, ExitRecvHidden(f) PROVE TypeOK'
  <2>1. f \in Hidden /\ f.req \in Requests
    BY <1>14 DEF ExitRecvHidden, Hidden, EndFrame
  <2> QED BY <1>14, <2>1 DEF ExitRecvHidden, entryVars
<1>15. ASSUME ExitForward PROVE TypeOK'
  <2>1. job \in Hidden /\ job.req \in Requests /\ job.seq \in 0 .. MaxTokens
    BY <1>15 DEF ExitForward, Hidden
  <2>2. Append(kv[job.req], job.seq) \in Context
    BY <2>1 DEF Context
  <2>3. kv' \in [Requests -> Context] /\ kv'[job.req] \in Context
    BY <1>15, <2>1, <2>2 DEF ExitForward
  <2>4. PICK eos \in BOOLEAN :
          reply' = [token |-> [req |-> job.req, seq |-> job.seq + 1,
                               ctx |-> kv'[job.req], eos |-> eos],
                    of    |-> job.copy]
    BY <1>15 DEF ExitForward
  <2>5. reply' \in Reply
    BY <2>1, <2>3, <2>4 DEF Reply, Token, Hidden
  <2> QED BY <1>15, <2>3, <2>5 DEF ExitForward, entryVars
<1>16. ASSUME ExitForwardFails PROVE TypeOK'
  <2>1. job \in Hidden /\ job.req \in Requests /\ job.seq \in 0 .. MaxTokens
    BY <1>16 DEF ExitForwardFails, Hidden
  <2>2. Append(kv[job.req], job.seq) \in Context
    BY <2>1 DEF Context
  <2> QED BY <1>16, <2>1, <2>2 DEF ExitForwardFails, entryVars
<1>17. reply # None => ReplyFrame \in TokenFrame
  BY DEF ReplyFrame, TokenFrame, Reply
<1>18. ASSUME SendToken PROVE TypeOK'
  BY <1>17, <1>18 DEF SendToken, entryVars
<1>19. ASSUME SendTokenFails PROVE TypeOK'
  BY <1>17, <1>19 DEF SendTokenFails, MaybeAccepted, entryVars
<1>20. ASSUME ExitReload PROVE TypeOK'
  BY <1>17, <1>20 DEF ExitReload, entryVars, Context
<1>21. ASSUME LoseFrame PROVE TypeOK'
  BY <1>21 DEF LoseFrame, entryVars, exitVars
<1>22. ASSUME UNCHANGED vars PROVE TypeOK'
  BY <1>22 DEF vars, entryVars, exitVars
<1> QED
  BY <1>1, <1>2, <1>3, <1>4, <1>5, <1>6, <1>7, <1>8, <1>9, <1>10, <1>11, <1>12,
     <1>13, <1>14, <1>15, <1>16, <1>18, <1>19, <1>20, <1>21, <1>22
  DEF Next, EntryStep, ExitStep

LEMMA CountStep ==
  ASSUME CountInv, [Next]_vars
  PROVE  Counting' /\ StopsExactly'
<1> USE TokenLoopAssumption DEF CountInv, TypeOK, Finish
\* It is enough to look at the request whose generator takes the step.
<1>1. ASSUME NEW r \in Requests, CountOf(r)', StopsAt(r)',
             \A q \in Requests : q # r =>
               /\ pc'[q] = pc[q]
               /\ seqc'[q] = seqc[q]
               /\ maxTokens'[q] = maxTokens[q]
               /\ generated'[q] = generated[q]
      PROVE  Counting' /\ StopsExactly'
  <2>1. ASSUME NEW q \in Requests, q # r
        PROVE  CountOf(q)' /\ StopsAt(q)'
    <3>1. /\ pc'[q] = pc[q]
          /\ seqc'[q] = seqc[q]
          /\ maxTokens'[q] = maxTokens[q]
          /\ generated'[q] = generated[q]
      BY <1>1, <2>1
    <3>2. CountOf(q)'
      BY <3>1 DEF Counting, CountOf
    <3>3. StopsAt(q)'
      BY <3>1 DEF StopsExactly, StopsAt
    <3> QED BY <3>2, <3>3
  <2>2. \A q \in Requests : CountOf(q)' /\ StopsAt(q)'
    BY <1>1, <2>1
  <2> QED BY <2>2 DEF Counting, StopsExactly
<1>2. CASE UNCHANGED <<pc, maxTokens, seqc, generated>>
  BY <1>2 DEF Counting, StopsExactly, CountOf, StopsAt
<1>3. ASSUME NEW r \in Requests, Start(r)
      PROVE  Counting' /\ StopsExactly'
  <2>1. seqc[r] = 0 /\ generated[r] \in Seq(Token) /\ Len(generated[r]) = 0
    BY <1>3 DEF Start, Counting, CountOf
  <2>2. pc'[r] = "forward" /\ maxTokens'[r] \in 0 .. MaxTokens
        /\ UNCHANGED <<seqc, generated>>
    BY <1>3 DEF Start
  <2>3. CountOf(r)' /\ StopsAt(r)'
    BY <2>1, <2>2 DEF CountOf, StopsAt
  <2> QED BY <1>1, <1>3, <2>3 DEF Start
<1>4. ASSUME NEW r \in Requests, NEW v,
             pc' = [pc EXCEPT ![r] = v],
             UNCHANGED <<maxTokens, seqc, generated>>,
             \/ pc[r] = "forward" /\ v = "send"
             \/ pc[r] = "send" /\ v = (IF maxTokens[r] = 0 THEN "sendEnd" ELSE "wait")
             \/ pc[r] = "sendEnd" /\ v = "done"
             \/ v = "failed"
      PROVE  Counting' /\ StopsExactly'
  <2>1. pc'[r] = v
    BY <1>4
  <2>2. CountOf(r) /\ StopsAt(r) /\ maxTokens[r] \in Nat /\ seqc[r] \in Nat
    BY DEF Counting, StopsExactly
  <2>3. CountOf(r)'
    BY <1>4, <2>1, <2>2 DEF CountOf
  <2>4. StopsAt(r)'
    BY <1>4, <2>1, <2>2 DEF CountOf, StopsAt
  <2> QED BY <1>1, <1>4, <2>3, <2>4
<1>5. ASSUME NEW r \in Requests, GetToken(r)
      PROVE  Counting' /\ StopsExactly'
  <2> DEFINE t == Head(queue[r])
             g == generated[r]
  <2>1. queue[r] \in Seq(Token) /\ queue[r] # <<>>
    BY <1>5 DEF GetToken
  <2>2. t \in Token
    BY <2>1
  <2>3. g \in Seq(Token) /\ Len(g) \in Nat /\ maxTokens[r] \in Nat
    OBVIOUS
  <2>4. CountOf(r)
    BY DEF Counting
  <2>5. /\ Len(g) = seqc[r] /\ seqc[r] < maxTokens[r]
        /\ \A n \in 1 .. Len(g) : ~g[n].eos
    BY <1>5, <2>4 DEF GetToken, CountOf
  <2>6. generated'[r] = Append(g, t) /\ maxTokens' = maxTokens
    BY <1>5 DEF GetToken
  <2>7. /\ Len(generated'[r]) = Len(g) + 1
        /\ generated'[r][Len(g) + 1] = t
        /\ \A n \in 1 .. Len(g) : generated'[r][n] = g[n]
    BY <2>2, <2>3, <2>6
  <2>8. /\ Len(generated'[r]) <= maxTokens[r]
        /\ \A n \in 1 .. Len(generated'[r]) - 1 : ~generated'[r][n].eos
    BY <2>3, <2>5, <2>7
  <2>9. CASE IsLast(r, t)
    <3>1. pc'[r] = "sendEnd"
      BY <1>5, <2>9 DEF GetToken
    <3>2. CountOf(r)'
      BY <3>1 DEF CountOf
    <3>3. t.eos \/ Len(generated'[r]) = maxTokens[r]
      BY <2>3, <2>7, <2>9 DEF IsLast
    <3>4. Len(generated'[r]) < maxTokens[r] =>
            generated'[r] # <<>> /\ generated'[r][Len(generated'[r])].eos
      BY <2>3, <2>7, <3>3
    <3>5. StopsAt(r)'
      BY <2>6, <2>8, <3>4 DEF StopsAt
    <3> QED BY <1>1, <1>5, <3>2, <3>5 DEF GetToken
  <2>10. CASE ~IsLast(r, t)
    <3>1. pc'[r] \in {"forward", "failed"} /\ seqc'[r] = seqc[r] + 1
      BY <1>5, <2>10 DEF GetToken
    <3>2. ~t.eos /\ Len(g) # maxTokens[r] - 1
      BY <2>10 DEF IsLast
    <3>3. Len(generated'[r]) = seqc'[r] /\ seqc'[r] < maxTokens[r]
      BY <2>3, <2>5, <2>7, <3>1, <3>2
    <3>4. ASSUME NEW n \in 1 .. Len(generated'[r])
          PROVE  ~generated'[r][n].eos
      <4>1. n \in 1 .. Len(g) \/ n = Len(g) + 1
        BY <2>3, <2>7
      <4> QED BY <2>5, <2>7, <3>2, <4>1
    <3>5. CountOf(r)'
      BY <2>6, <3>1, <3>3, <3>4 DEF CountOf
    <3>6. StopsAt(r)'
      BY <2>6, <2>8, <3>1 DEF StopsAt
    <3> QED BY <1>1, <1>5, <3>5, <3>6 DEF GetToken
  <2> QED BY <2>9, <2>10
<1>6. ASSUME NEW r \in Requests, EntryStep(r)
      PROVE  Counting' /\ StopsExactly'
  <2>1. CASE ForwardEntry(r)
    BY <2>1, <1>4 DEF ForwardEntry
  <2>2. CASE ForwardEntryFails(r)
    BY <2>2, <1>4 DEF ForwardEntryFails
  <2>3. CASE SendHidden(r)
    BY <2>3, <1>4 DEF SendHidden
  <2>4. CASE SendHiddenFails(r)
    BY <2>4, <1>2, <1>4 DEF SendHiddenFails
  <2>5. CASE Timeout(r)
    BY <2>5, <1>4 DEF Timeout
  <2>6. CASE SendEnd(r)
    BY <2>6, <1>4 DEF SendEnd
  <2>7. CASE SendEndFails(r)
    BY <2>7, <1>2, <1>4 DEF SendEndFails
  <2>8. CASE Cancel(r)
    BY <2>8, <1>4 DEF Cancel
  <2> QED BY <1>3, <1>5, <1>6, <2>1, <2>2, <2>3, <2>4, <2>5, <2>6, <2>7, <2>8
          DEF EntryStep
<1>7. ASSUME NEW f \in toEntry, Dispatch(f)
      PROVE  Counting' /\ StopsExactly'
  BY <1>7, <1>2 DEF Dispatch
<1>8. CASE EntryReload
  BY <1>8, <1>2 DEF EntryReload
<1>9. CASE ExitStep \/ ExitReload \/ LoseFrame
  <2>1. UNCHANGED entryVars
    BY <1>9 DEF ExitStep, ExitReload, LoseFrame, ExitRecvEnd, ExitRecvHidden,
                ExitForward, ExitForwardFails, SendToken, SendTokenFails
  <2> QED BY <2>1, <1>2 DEF entryVars
<1>10. CASE UNCHANGED vars
  BY <1>10, <1>2 DEF vars, entryVars
<1> QED BY <1>6, <1>7, <1>8, <1>9, <1>10 DEF Next

LEMMA CountInvariant == Spec => []CountInv
<1>1. CountInv /\ [Next]_vars => CountInv'
  BY TypeStep, CountStep DEF CountInv
<1> QED BY CountInit, <1>1, PTL DEF Spec

\* Every variable keeps its type, for every set of faults.
THEOREM TypeCorrect == Spec => []TypeOK
<1>1. CountInv => TypeOK
  BY DEF CountInv
<1> QED BY CountInvariant, <1>1, PTL

\* No fault makes a generation run past EOS or max_tokens, or report "done"
\* before it reached one of them.
THEOREM GenerationStopsExactly == Spec => []StopsExactly
<1>1. CountInv => StopsExactly
  BY DEF CountInv
<1> QED BY CountInvariant, <1>1, PTL

-----------------------------------------------------------------------------
\* Appending the next chunk to an exact prefix gives the next exact prefix.
LEMMA PrefixAppend ==
  ASSUME NEW n \in Nat
  PROVE  Append(Prefix(n), n) = Prefix(n + 1)
BY DEF Prefix

LEMMA BatonInit == Init => Baton
<1> SUFFICES ASSUME Init PROVE Baton
  OBVIOUS
<1>1. Prefix(0) = <<>>
  BY DEF Prefix
<1>2. ASSUME NEW r \in Requests PROVE BatonOf(r)
  BY <1>1 DEF Init, BatonOf, Quiet, NoHidden, NoToken, Seen, HiddenOf, EndsOf,
              TokensOf, Computing, Replying
<1> QED BY <1>2 DEF Init, Baton

\* A step that touches nothing of q keeps its part of the invariant.
LEMMA BatonFrame ==
  ASSUME NEW q \in Requests, BatonOf(q),
         HiddenOf(q)' = HiddenOf(q), EndsOf(q)' = EndsOf(q),
         TokensOf(q)' = TokensOf(q),
         Computing(q)' <=> Computing(q), Computing(q) => job' = job,
         Replying(q)' <=> Replying(q), Replying(q) => reply' = reply,
         pc'[q] = pc[q], seqc'[q] = seqc[q], maxTokens'[q] = maxTokens[q],
         queue'[q] = queue[q], kv'[q] = kv[q]
  PROVE  BatonOf(q)'
<1>1. /\ NoHidden(q)' <=> NoHidden(q)
      /\ NoToken(q)' <=> NoToken(q)
  BY DEF NoHidden, NoToken
<1>2. /\ Seen(q, seqc[q])' <=> Seen(q, seqc[q])
      /\ Seen(q, seqc[q] + 1)' <=> Seen(q, seqc[q] + 1)
  BY DEF Seen, NoReload
<1>3. /\ ChunkSent(q) => ChunkSent(q)'
      /\ ChunkComputed(q) => ChunkComputed(q)'
      /\ Quiet(q) => Quiet(q)'
  BY <1>1, <1>2 DEF ChunkSent, ChunkComputed, Quiet, AtMostOne
<1>4. TokenReplied(q) => TokenReplied(q)'
  BY <1>1, <1>2 DEF TokenReplied, Answers
<1>5. TokenSent(q) => TokenSent(q)'
  BY <1>1, <1>2 DEF TokenSent, AtMostOne, Answers
<1>6. TokenQueued(q) => TokenQueued(q)'
  BY <1>1, <1>2 DEF TokenQueued, Answers
<1> QED BY <1>1, <1>2, <1>3, <1>4, <1>5, <1>6 DEF BatonOf

\* The places of r that a step of a generator can reach.
LEMMA OwnFrames ==
  ASSUME NEW r \in Requests, NEW q \in Requests, q # r, NEW n,
         \/ toExit' = toExit
         \/ toExit' = toExit \cup {HiddenFrame(r, n)}
         \/ toExit' = toExit \cup {ControlEnd(r, n)}
  PROVE  HiddenOf(q)' = HiddenOf(q) /\ EndsOf(q)' = EndsOf(q)
BY DEF HiddenOf, EndsOf, HiddenFrame, ControlEnd

LEMMA BatonEntry ==
  ASSUME TypeOK, Counting, Baton, "duplicate" \notin Faults,
         NEW r \in Requests, EntryStep(r)
  PROVE  Baton'
<1> USE DEF TypeOK, Finish
<1>1. UNCHANGED exitVars /\ toEntry' = toEntry
  BY DEF EntryStep, Start, ForwardEntry, ForwardEntryFails, SendHidden,
         SendHiddenFails, GetToken, Timeout, SendEnd, SendEndFails, Cancel
<1>2. \A q \in Requests : q # r =>
        /\ pc'[q] = pc[q] /\ seqc'[q] = seqc[q] /\ maxTokens'[q] = maxTokens[q]
        /\ queue'[q] = queue[q]
  BY DEF EntryStep, Start, ForwardEntry, ForwardEntryFails, SendHidden,
         SendHiddenFails, GetToken, Timeout, SendEnd, SendEndFails, Cancel
<1>3. \/ toExit' = toExit
      \/ toExit' = toExit \cup {HiddenFrame(r, attempt[r])}
      \/ toExit' = toExit \cup {ControlEnd(r, attempt[r])}
  BY DEF EntryStep, Start, ForwardEntry, ForwardEntryFails, SendHidden, MaybeAccepted,
         SendHiddenFails, GetToken, Timeout, SendEnd, SendEndFails, Cancel
<1>4. ASSUME NEW q \in Requests, q # r PROVE BatonOf(q)'
  <2>1. HiddenOf(q)' = HiddenOf(q) /\ EndsOf(q)' = EndsOf(q)
    BY <1>3, <1>4, OwnFrames
  <2>2. /\ TokensOf(q)' = TokensOf(q)
        /\ Computing(q)' <=> Computing(q)
        /\ Replying(q)' <=> Replying(q)
    BY <1>1 DEF TokensOf, Computing, Replying, exitVars
  <2>3. BatonOf(q)
    BY DEF Baton
  <2> QED BY <1>1, <1>2, <1>4, <2>1, <2>2, <2>3, BatonFrame DEF exitVars
<1>5. /\ TokensOf(r)' = TokensOf(r)
      /\ Computing(r)' <=> Computing(r)
      /\ Replying(r)' <=> Replying(r)
      /\ kv' = kv /\ job' = job /\ reply' = reply
  BY <1>1 DEF TokensOf, Computing, Replying, exitVars
<1>6. BatonOf(r)
  BY DEF Baton
<1>7. SUFFICES BatonOf(r)'
  BY <1>4, <1>5 DEF Baton
<1>8. CASE pc'[r] = "failed"
  BY <1>8 DEF BatonOf
<1>9. ASSUME toExit' = toExit
      PROVE  HiddenOf(r)' = HiddenOf(r) /\ EndsOf(r)' = EndsOf(r)
  BY <1>9 DEF HiddenOf, EndsOf
<1>10. CASE Start(r) \/ ForwardEntry(r)
  <2>1. /\ pc[r] \in {"idle", "forward"} /\ pc'[r] \in {"forward", "send"}
        /\ UNCHANGED <<toExit, queue, seqc>>
    BY <1>10 DEF Start, ForwardEntry
  <2>2. Quiet(r) /\ Seen(r, seqc[r]) /\ EndsOf(r) = {}
    BY <1>6, <2>1 DEF BatonOf
  <2>3. Quiet(r)' /\ Seen(r, seqc[r])'
    BY <1>5, <1>9, <2>1, <2>2 DEF Quiet, NoHidden, NoToken, Seen, NoReload
  <2> QED BY <1>9, <2>1, <2>2, <2>3 DEF BatonOf
<1>11. CASE SendHidden(r)
  <2> DEFINE f == HiddenFrame(r, attempt[r])
  <2>1. /\ pc[r] = "send" /\ UNCHANGED <<queue, seqc, maxTokens>>
        /\ toExit' = toExit \cup {f}
        /\ pc'[r] = IF maxTokens[r] = 0 THEN "sendEnd" ELSE "wait"
    BY <1>11 DEF SendHidden
  <2>2. Quiet(r) /\ Seen(r, seqc[r]) /\ EndsOf(r) = {}
    BY <1>6, <2>1 DEF BatonOf
  <2>3. /\ HiddenOf(r)' = {f} /\ f.seq = seqc[r]
        /\ EndsOf(r)' = {}
    BY <2>1, <2>2 DEF Quiet, NoHidden, HiddenOf, EndsOf, HiddenFrame
  <2>4. NoToken(r)' /\ Seen(r, seqc[r])' /\ ~Computing(r)'
    BY <1>5, <2>1, <2>2 DEF Quiet, NoHidden, NoToken, Seen, NoReload
  <2>5. ChunkSent(r)'
    BY <2>1, <2>3, <2>4 DEF ChunkSent, AtMostOne
  <2> QED BY <2>1, <2>3, <2>5 DEF BatonOf
<1>12. CASE GetToken(r)
  <2>1. /\ pc[r] = "wait" /\ queue[r] # <<>> /\ queue'[r] = Tail(queue[r])
        /\ UNCHANGED <<toExit, maxTokens>>
        /\ \/ pc'[r] = "sendEnd" /\ seqc' = seqc
           \/ pc'[r] = "forward" /\ seqc'[r] = seqc[r] + 1
           \/ pc'[r] = "failed"
    BY <1>12 DEF GetToken
  <2>2. TokenQueued(r) /\ EndsOf(r) = {}
    BY <1>6, <2>1 DEF BatonOf, ChunkSent, ChunkComputed, TokenReplied, TokenSent,
                     Quiet, NoToken
  <2>3. queue'[r] = <<>>
    <3>1. queue[r] \in Seq(Token) /\ Len(queue[r]) = 1
      BY <2>2 DEF TokenQueued
    <3>2. Tail(queue[r]) \in Seq(Token) /\ Len(Tail(queue[r])) = 0
      BY <2>1, <3>1
    <3> QED BY <2>1, <3>2, EmptySeq
  <2>4. Quiet(r)'
    BY <1>5, <1>9, <2>1, <2>2, <2>3 DEF TokenQueued, Quiet, NoHidden, NoToken
  <2>5. pc'[r] = "forward" => Seen(r, seqc[r])'
    BY <1>5, <2>1, <2>2 DEF TokenQueued, Seen, NoReload
  <2> QED BY <1>9, <2>1, <2>2, <2>4, <2>5 DEF BatonOf, Quiet
<1>13. CASE SendEnd(r) \/ SendEndFails(r)
  <2>1. /\ pc[r] = "sendEnd" /\ pc'[r] \in {"sendEnd", "done"}
        /\ toExit' = toExit \/ toExit' = toExit \cup {ControlEnd(r, attempt[r])}
        /\ maxTokens' = maxTokens
    BY <1>13 DEF SendEnd, SendEndFails, MaybeAccepted
  <2>2. HiddenOf(r)' = HiddenOf(r)
    BY <2>1 DEF HiddenOf, ControlEnd
  <2> QED BY <1>5, <1>6, <2>1, <2>2 DEF BatonOf, NoHidden
<1>14. CASE SendHiddenFails(r) /\ UNCHANGED pc
  <2>1. UNCHANGED <<toExit, queue, seqc, maxTokens>>
    BY <1>14 DEF SendHiddenFails, MaybeAccepted
  <2> QED BY <1>5, <1>6, <1>9, <1>14, <2>1, BatonFrame
<1>15. CASE ForwardEntryFails(r) \/ Timeout(r) \/ Cancel(r)
  <2>1. pc'[r] = "failed"
    BY <1>15 DEF ForwardEntryFails, Timeout, Cancel
  <2> QED BY <1>8, <2>1
<1>16. CASE SendHiddenFails(r)
  <2>1. \/ UNCHANGED pc
        \/ pc' = [pc EXCEPT ![r] = "failed"]
    BY <1>16 DEF SendHiddenFails
  <2>2. CASE pc' = [pc EXCEPT ![r] = "failed"]
    <3>1. pc'[r] = "failed"
      BY <2>2
    <3> QED BY <1>8, <3>1
  <2> QED BY <1>14, <1>16, <2>1, <2>2
<1> QED
  BY <1>10, <1>11, <1>12, <1>13, <1>15, <1>16 DEF EntryStep

LEMMA BatonDispatch ==
  ASSUME TypeOK, Baton, NEW f \in toEntry, Dispatch(f)
  PROVE  Baton'
<1> DEFINE r == f.token.req
<1> USE DEF TypeOK
<1>1. r \in Requests /\ f.token \in Token
  BY DEF TokenFrame, Token
<1>2. /\ toEntry' = toEntry \ {f}
      /\ UNCHANGED <<pc, seqc, maxTokens, toExit, job, reply, kv>>
      /\ \A q \in Requests : q # r => queue'[q] = queue[q]
      /\ queue'[r] = IF r \in pending THEN Append(queue[r], f.token) ELSE queue[r]
  BY <1>1 DEF Dispatch, exitVars
<1>3. \A q \in Requests :
        /\ HiddenOf(q)' = HiddenOf(q) /\ EndsOf(q)' = EndsOf(q)
        /\ Computing(q)' <=> Computing(q)
        /\ Replying(q)' <=> Replying(q)
        /\ BatonOf(q)
  BY <1>2 DEF HiddenOf, EndsOf, Computing, Replying, Baton
<1>4. ASSUME NEW q \in Requests, q # r PROVE BatonOf(q)'
  <2>1. TokensOf(q)' = TokensOf(q)
    BY <1>2, <1>4 DEF TokensOf
  <2> QED BY <1>2, <1>3, <1>4, <2>1, BatonFrame
<1>5. f \in TokensOf(r) /\ TokensOf(r)' = TokensOf(r) \ {f}
  BY <1>2 DEF TokensOf
<1>6. NoHidden(r)' <=> NoHidden(r)
  BY <1>1, <1>3 DEF NoHidden
<1>7. BatonOf(r)'
  <2>1. pc[r] \notin {"idle", "forward", "send"}
    BY <1>1, <1>3, <1>5 DEF BatonOf, Quiet, NoToken
  <2>2. CASE pc[r] = "wait"
    <3>1. TokenSent(r)
      BY <1>1, <1>3, <1>5, <2>2 DEF BatonOf, ChunkSent, ChunkComputed, TokenReplied,
                                   TokenQueued, Quiet, NoToken
    <3>2. TokensOf(r)' = {}
      BY <1>5, <3>1 DEF TokenSent, AtMostOne
    <3>3. CASE r \notin pending
      BY <1>1, <1>2, <1>3, <1>6, <2>2, <3>1, <3>2, <3>3
         DEF BatonOf, TokenSent, Quiet, NoToken
    <3>4. CASE r \in pending
      <4>1. queue'[r] = <<f.token>>
        BY <1>1, <1>2, <3>1, <3>4 DEF TokenSent
      <4>2. Len(queue'[r]) = 1 /\ queue'[r][1] = f.token
        BY <4>1
      <4>3. Answers(f.token, r) /\ Seen(r, seqc[r] + 1)
        BY <1>5, <3>1 DEF TokenSent
      <4>4. Answers(queue[r][1], r)' /\ Seen(r, seqc[r] + 1)'
        BY <1>2, <4>2, <4>3 DEF Answers, Seen, NoReload
      <4>5. TokenQueued(r)'
        BY <1>1, <1>3, <1>6, <3>1, <3>2, <4>2, <4>4 DEF TokenQueued, TokenSent
      <4> QED BY <1>1, <1>2, <1>3, <2>2, <4>5 DEF BatonOf
    <3> QED BY <3>3, <3>4
  <2>3. CASE pc[r] # "wait"
    BY <1>1, <1>2, <1>3, <1>6, <2>1, <2>3 DEF BatonOf
  <2> QED BY <2>2, <2>3
<1> QED BY <1>2, <1>4, <1>7 DEF Baton

LEMMA BatonExit ==
  ASSUME TypeOK, Baton, "duplicate" \notin Faults, ExitStep
  PROVE  Baton'
<1> USE DEF TypeOK
<1>1. UNCHANGED entryVars
  BY DEF ExitStep, ExitRecvEnd, ExitRecvHidden, ExitForward, ExitForwardFails,
         SendToken, SendTokenFails
<1>2. \A q \in Requests : BatonOf(q)
  BY DEF Baton
<1>3. ASSUME NEW f \in toExit, ExitRecvEnd(f) PROVE Baton'
  <2>1. /\ f.kind = "end" /\ f.req \in Requests
        /\ toExit' = toExit \ {f}
        /\ UNCHANGED <<toEntry, job, reply>>
        /\ \A q \in Requests : q # f.req => kv'[q] = kv[q]
    BY <1>3 DEF ExitRecvEnd, Hidden, EndFrame
  <2>2. \A q \in Requests :
          /\ HiddenOf(q)' = HiddenOf(q)
          /\ TokensOf(q)' = TokensOf(q)
          /\ Computing(q)' <=> Computing(q)
          /\ Replying(q)' <=> Replying(q)
    BY <2>1 DEF HiddenOf, TokensOf, Computing, Replying
  <2>3. ASSUME NEW q \in Requests, q # f.req PROVE BatonOf(q)'
    <3>1. EndsOf(q)' = EndsOf(q)
      BY <2>1, <2>3 DEF EndsOf
    <3> QED BY <1>1, <1>2, <2>1, <2>2, <2>3, <3>1, BatonFrame DEF entryVars
  <2>4. BatonOf(f.req)'
    <3>1. f \in EndsOf(f.req)
      BY <2>1 DEF EndsOf
    <3>2. pc[f.req] \notin {"idle", "forward", "send", "wait"}
      BY <1>2, <2>1, <3>1 DEF BatonOf
    <3> QED BY <1>1, <1>2, <2>1, <2>2, <3>2 DEF BatonOf, NoHidden, entryVars
  <2> QED BY <2>1, <2>3, <2>4 DEF Baton
<1>4. ASSUME NEW f \in toExit, ExitRecvHidden(f) PROVE Baton'
  <2> DEFINE r == f.req
  <2>1. /\ f.kind = "hidden" /\ r \in Requests /\ f \in Hidden /\ f # None
        /\ job = None /\ reply = None /\ job' = f
        /\ toExit' = toExit \ {f}
        /\ UNCHANGED <<toEntry, reply, kv>>
    BY <1>4, NoneAssumption DEF ExitRecvHidden, ExitIdle, Hidden, EndFrame
  <2>2. \A q \in Requests :
          /\ EndsOf(q)' = EndsOf(q)
          /\ TokensOf(q)' = TokensOf(q)
          /\ Replying(q)' <=> Replying(q)
          /\ ~Computing(q)
    BY <2>1 DEF EndsOf, TokensOf, Computing, Replying
  <2>3. ASSUME NEW q \in Requests, q # r PROVE BatonOf(q)'
    <3>1. HiddenOf(q)' = HiddenOf(q) /\ ~Computing(q)'
      BY <2>1, <2>3 DEF HiddenOf, Computing
    <3> QED BY <1>1, <1>2, <2>1, <2>2, <2>3, <3>1, BatonFrame DEF entryVars
  <2>4. f \in HiddenOf(r) /\ HiddenOf(r)' = HiddenOf(r) \ {f}
    BY <2>1 DEF HiddenOf
  <2>5. BatonOf(r)'
    <3>1. pc[r] \notin {"idle", "forward", "send"}
      BY <1>2, <2>1, <2>4 DEF BatonOf, Quiet, NoHidden
    <3>2. pc[r] \in {"sendEnd", "done"} => ~(maxTokens[r] > 0)
      BY <1>2, <2>1, <2>4 DEF BatonOf, NoHidden
    <3>3. CASE pc[r] = "wait"
      <4>1. ChunkSent(r)
        BY <1>2, <2>1, <2>2, <2>4, <3>3
        DEF BatonOf, ChunkComputed, TokenReplied, TokenSent, TokenQueued, Quiet, NoHidden
      <4>2. HiddenOf(r)' = {} /\ f.seq = seqc[r]
        BY <2>4, <4>1 DEF ChunkSent, AtMostOne
      <4>3. NoToken(r)' /\ Seen(r, seqc[r])'
        BY <1>1, <2>1, <2>2, <4>1 DEF ChunkSent, NoToken, Seen, NoReload, entryVars
      <4>4. Computing(r)' /\ job'.seq = seqc'[r]
        BY <1>1, <2>1, <4>2 DEF Computing, entryVars
      <4>5. ChunkComputed(r)'
        BY <4>2, <4>3, <4>4 DEF ChunkComputed
      <4> QED BY <1>1, <1>2, <2>1, <2>2, <3>3, <4>5 DEF BatonOf, entryVars
    <3> QED BY <1>1, <1>2, <2>1, <3>1, <3>2, <3>3 DEF BatonOf, entryVars
  <2> QED BY <2>1, <2>3, <2>5 DEF Baton
<1>5. ASSUME ExitForward \/ ExitForwardFails PROVE Baton'
  <2> PICK r \in Requests : r = job.req
    BY <1>5 DEF ExitForward, ExitForwardFails, Hidden
  <2>1. /\ job # None /\ job \in Hidden /\ job.seq \in Nat
        /\ job' = None
        /\ reply = None
        /\ UNCHANGED <<toExit, toEntry>>
        /\ \A q \in Requests : q # r => kv'[q] = kv[q]
    BY <1>5 DEF ExitForward, ExitForwardFails, Hidden, Baton
  <2>2. /\ \A q \in Requests : ~Replying(q) /\ ~Computing(q)'
        /\ Computing(r)
        /\ \A q \in Requests : q # r => ~Computing(q) /\ ~Replying(q)'
    <3>1. \A q \in Requests : q # r => ~Replying(q)'
      <4>1. CASE reply' = reply
        BY <2>1, <4>1 DEF Replying
      <4>2. CASE reply'.token.req = job.req
        BY <4>2 DEF Replying
      <4> QED BY <1>5, <4>1, <4>2 DEF ExitForward, ExitForwardFails
    <3>2. \A q \in Requests : ~Replying(q) /\ ~Computing(q)'
      BY <2>1 DEF Replying, Computing
    <3>3. Computing(r) /\ \A q \in Requests : q # r => ~Computing(q)
      BY <2>1 DEF Computing
    <3> QED BY <3>1, <3>2, <3>3
  <2>3. \A q \in Requests : HiddenOf(q)' = HiddenOf(q) /\ EndsOf(q)' = EndsOf(q)
                            /\ TokensOf(q)' = TokensOf(q)
    BY <2>1 DEF HiddenOf, EndsOf, TokensOf
  <2>4. ASSUME NEW q \in Requests, q # r PROVE BatonOf(q)'
    BY <1>1, <1>2, <2>1, <2>2, <2>3, <2>4, BatonFrame DEF entryVars
  <2>5. BatonOf(r)'
    <3>1. pc[r] \notin {"idle", "forward", "send"}
          /\ (pc[r] \in {"sendEnd", "done"} => ~(maxTokens[r] > 0))
      BY <1>2, <2>1, <2>2 DEF BatonOf, Quiet, NoHidden
    <3>2. CASE pc[r] = "wait"
      <4>1. ChunkComputed(r)
        BY <1>2, <2>1, <2>2, <3>2
        DEF BatonOf, ChunkSent, TokenReplied, TokenSent, TokenQueued, Quiet, NoHidden
      <4>2. NoHidden(r)' /\ TokensOf(r)' = {} /\ queue'[r] = <<>>
        BY <1>1, <2>1, <2>2, <2>3, <4>1 DEF ChunkComputed, NoHidden, NoToken, entryVars
      <4>3. CASE ~Replying(r)'
        <5>1. Quiet(r)'
          BY <4>2, <4>3 DEF Quiet, NoToken
        <5> QED BY <1>1, <1>2, <2>1, <2>3, <3>2, <5>1 DEF BatonOf, entryVars
      <4>4. CASE Replying(r)'
        <5>1. ExitForward
          BY <1>5, <2>1, <4>4 DEF Replying, ExitForwardFails
        <5>2. /\ kv'[r] = Append(kv[r], job.seq)
              /\ reply'.token.ctx = kv'[r]
          BY <2>1, <5>1 DEF ExitForward
        <5>3. NoReload => kv'[r] = Prefix(seqc[r] + 1)
          BY <2>1, <4>1, <5>2, PrefixAppend DEF ChunkComputed, Seen
        <5>4. TokenReplied(r)'
          BY <1>1, <4>2, <4>4, <5>2, <5>3
          DEF TokenReplied, Seen, Answers, NoReload, entryVars
        <5> QED BY <1>1, <1>2, <2>1, <2>3, <3>2, <5>4 DEF BatonOf, entryVars
      <4> QED BY <4>3, <4>4
    <3> QED BY <1>1, <1>2, <2>1, <3>1, <3>2 DEF BatonOf, entryVars
  <2> QED BY <2>1, <2>4, <2>5 DEF Baton
<1>6. ASSUME SendToken \/ SendTokenFails PROVE Baton'
  <2> PICK r \in Requests : r = reply.token.req
    BY <1>6 DEF SendToken, SendTokenFails, Reply, Token
  <2>1. /\ reply # None /\ reply \in Reply
        /\ job = None
        /\ UNCHANGED <<toExit, job, kv>>
        /\ \/ toEntry' = toEntry \cup {ReplyFrame} /\ reply' = None
           \/ toEntry' = toEntry /\ (reply' = reply \/ reply' = None)
    BY <1>6 DEF SendToken, SendTokenFails, MaybeAccepted, Reply, Token, Baton
  <2>2. /\ \A q \in Requests : HiddenOf(q)' = HiddenOf(q) /\ EndsOf(q)' = EndsOf(q)
        /\ \A q \in Requests : ~Computing(q) /\ ~Computing(q)'
        /\ Replying(r)
    BY <2>1 DEF HiddenOf, EndsOf, Computing, Replying
  <2>3. ASSUME NEW q \in Requests, q # r PROVE BatonOf(q)'
    <3>1. TokensOf(q)' = TokensOf(q) /\ ~Replying(q) /\ ~Replying(q)'
      BY <2>1, <2>3 DEF TokensOf, ReplyFrame, Replying
    <3> QED BY <1>1, <1>2, <2>1, <2>2, <2>3, <3>1, BatonFrame DEF entryVars
  <2>4. BatonOf(r)'
    <3>1. pc[r] \notin {"idle", "forward", "send"}
      BY <1>2, <2>1, <2>2 DEF BatonOf, Quiet, NoToken
    <3>2. NoHidden(r)' <=> NoHidden(r)
      BY <2>1, <2>2 DEF NoHidden
    <3>3. CASE pc[r] = "wait"
      <4>1. TokenReplied(r)
        BY <1>2, <2>1, <2>2, <3>3
        DEF BatonOf, ChunkSent, ChunkComputed, TokenSent, TokenQueued, Quiet, NoToken
      <4>2. CASE reply' = reply /\ toEntry' = toEntry
        <5>1. TokensOf(r)' = TokensOf(r) /\ (Replying(r)' <=> Replying(r))
          BY <4>2 DEF TokensOf, Replying
        <5> QED BY <1>1, <1>2, <2>1, <2>2, <4>2, <5>1, BatonFrame DEF entryVars
      <4>3. CASE reply' = None /\ toEntry' = toEntry
        <5>1. Quiet(r)'
          BY <1>1, <3>2, <4>1, <4>3
          DEF TokenReplied, Quiet, NoToken, TokensOf, Replying, entryVars
        <5> QED BY <1>1, <1>2, <2>1, <2>2, <3>3, <5>1 DEF BatonOf, entryVars
      <4>4. CASE reply' = None /\ toEntry' = toEntry \cup {ReplyFrame}
        <5>1. TokensOf(r)' = {ReplyFrame}
          BY <4>1, <4>4 DEF TokenReplied, TokensOf, ReplyFrame
        <5>2. Answers(ReplyFrame.token, r) /\ Seen(r, seqc[r] + 1)
          BY <4>1 DEF TokenReplied, ReplyFrame
        <5>3. /\ Seen(r, seqc[r] + 1)' /\ ~Replying(r)'
              /\ \A f \in TokensOf(r)' : Answers(f.token, r)'
          BY <1>1, <2>1, <4>4, <5>1, <5>2 DEF Answers, Seen, NoReload, Replying, entryVars
        <5>4. TokenSent(r)'
          BY <1>1, <3>2, <4>1, <5>1, <5>3
          DEF TokenSent, TokenReplied, AtMostOne, entryVars
        <5> QED BY <1>1, <1>2, <2>1, <2>2, <3>3, <5>4 DEF BatonOf, entryVars
      <4> QED BY <2>1, <4>2, <4>3, <4>4
    <3> QED BY <1>1, <1>2, <2>1, <3>1, <3>2, <3>3 DEF BatonOf, entryVars
  <2> QED BY <2>1, <2>3, <2>4 DEF Baton
<1> QED BY <1>3, <1>4, <1>5, <1>6 DEF ExitStep

LEMMA BatonReload ==
  ASSUME TypeOK, Baton, ExitReload
  PROVE  Baton'
<1> USE DEF TypeOK
<1>1. /\ ~NoReload /\ UNCHANGED entryVars /\ toExit' = toExit
      /\ job' = None /\ reply' = None
      /\ toEntry' = toEntry \/ (reply # None /\ toEntry' = toEntry \cup {ReplyFrame})
  BY DEF ExitReload, NoReload
<1>2. ASSUME NEW r \in Requests PROVE BatonOf(r)'
  <2>1. BatonOf(r)
    BY DEF Baton
  <2>2. /\ HiddenOf(r)' = HiddenOf(r) /\ EndsOf(r)' = EndsOf(r)
        /\ ~Computing(r)' /\ ~Replying(r)'
        /\ ~Replying(r) => TokensOf(r)' = TokensOf(r)
        /\ TokensOf(r)' = TokensOf(r) \/ TokensOf(r)' = TokensOf(r) \cup {ReplyFrame}
    BY <1>1 DEF HiddenOf, EndsOf, TokensOf, Computing, Replying, ReplyFrame
  <2>3. NoHidden(r) => NoHidden(r)'
    BY <2>2 DEF NoHidden
  <2>4. NoToken(r) => NoToken(r)'
    BY <1>1, <2>2 DEF NoToken, entryVars
  <2>5. \A n : Seen(r, n)' /\ \A t : Answers(t, r)'
    BY <1>1 DEF Seen, Answers, NoReload
  <2>6. Quiet(r) => Quiet(r)'
    BY <2>3, <2>4 DEF Quiet
  <2>7. ChunkSent(r) => ChunkSent(r)'
    BY <1>1, <2>2, <2>4, <2>5 DEF ChunkSent, AtMostOne, entryVars
  <2>8. ChunkComputed(r) => Quiet(r)'
    BY <2>2, <2>4 DEF ChunkComputed, Quiet, NoHidden
  <2>9. TokenReplied(r) => TokenSent(r)'
    BY <1>1, <2>2, <2>3, <2>5 DEF TokenReplied, TokenSent, AtMostOne, entryVars
  <2>10. TokenSent(r) => TokenSent(r)'
    BY <1>1, <2>2, <2>3, <2>5 DEF TokenSent, AtMostOne, entryVars
  <2>11. TokenQueued(r) => TokenQueued(r)'
    BY <1>1, <2>2, <2>3, <2>5 DEF TokenQueued, entryVars
  <2>12. pc' = pc /\ maxTokens' = maxTokens /\ seqc' = seqc
    BY <1>1 DEF entryVars
  <2> QED BY <2>1, <2>2, <2>3, <2>5, <2>6, <2>7, <2>8, <2>9, <2>10, <2>11, <2>12
          DEF BatonOf
<1> QED BY <1>1, <1>2 DEF Baton

LEMMA BatonLose ==
  ASSUME TypeOK, Baton, LoseFrame
  PROVE  Baton'
<1>1. /\ UNCHANGED entryVars /\ UNCHANGED exitVars
      /\ toExit' \subseteq toExit /\ toEntry' \subseteq toEntry
  BY DEF LoseFrame
<1>2. ASSUME NEW r \in Requests PROVE BatonOf(r)'
  <2>1. BatonOf(r)
    BY DEF Baton
  <2>2. /\ HiddenOf(r)' \subseteq HiddenOf(r)
        /\ EndsOf(r)' \subseteq EndsOf(r)
        /\ TokensOf(r)' \subseteq TokensOf(r)
        /\ Computing(r)' <=> Computing(r)
        /\ Replying(r)' <=> Replying(r)
    BY <1>1 DEF HiddenOf, EndsOf, TokensOf, Computing, Replying, exitVars
  <2>3. /\ pc' = pc /\ maxTokens' = maxTokens /\ seqc' = seqc /\ queue' = queue
        /\ kv' = kv /\ job' = job /\ reply' = reply
    BY <1>1 DEF entryVars, exitVars
  <2>4. /\ NoHidden(r) => NoHidden(r)'
        /\ NoToken(r) => NoToken(r)'
    BY <2>2, <2>3 DEF NoHidden, NoToken
  <2>5. /\ Seen(r, seqc[r])' <=> Seen(r, seqc[r])
        /\ Seen(r, seqc[r] + 1)' <=> Seen(r, seqc[r] + 1)
        /\ \A t : Answers(t, r)' <=> Answers(t, r)
    BY <2>3 DEF Seen, Answers, NoReload
  <2>6. /\ Quiet(r) => Quiet(r)'
        /\ ChunkSent(r) => ChunkSent(r)'
        /\ ChunkComputed(r) => ChunkComputed(r)'
    BY <2>2, <2>3, <2>4, <2>5 DEF Quiet, ChunkSent, ChunkComputed, AtMostOne
  <2>7. TokenReplied(r) => TokenReplied(r)'
    BY <2>2, <2>3, <2>4, <2>5 DEF TokenReplied, Answers
  <2>8. TokenSent(r) => TokenSent(r)'
    BY <2>2, <2>3, <2>4, <2>5 DEF TokenSent, AtMostOne
  <2>9. TokenQueued(r) => TokenQueued(r)'
    BY <2>2, <2>3, <2>4, <2>5 DEF TokenQueued, Answers
  <2> QED BY <2>1, <2>2, <2>3, <2>4, <2>5, <2>6, <2>7, <2>8, <2>9 DEF BatonOf
<1> QED BY <1>1, <1>2 DEF Baton, exitVars

LEMMA BatonStep ==
  ASSUME CountInv, Baton, "duplicate" \notin Faults, [Next]_vars
  PROVE  Baton'
<1> USE DEF CountInv
<1>1. ASSUME UNCHANGED <<pc, seqc, maxTokens, queue, toExit, toEntry, exitVars>>
      PROVE  Baton'
  <2>1. ASSUME NEW r \in Requests PROVE BatonOf(r)'
    <3>1. /\ HiddenOf(r)' = HiddenOf(r) /\ EndsOf(r)' = EndsOf(r)
          /\ TokensOf(r)' = TokensOf(r)
          /\ Computing(r)' <=> Computing(r)
          /\ Replying(r)' <=> Replying(r)
          /\ BatonOf(r)
      BY <1>1 DEF HiddenOf, EndsOf, TokensOf, Computing, Replying, exitVars, Baton
    <3> QED BY <1>1, <3>1, BatonFrame DEF exitVars
  <2> QED BY <1>1, <2>1 DEF Baton, exitVars
<1>2. CASE EntryReload
  BY <1>1, <1>2 DEF EntryReload
<1>3. CASE UNCHANGED vars
  BY <1>1, <1>3 DEF vars, entryVars
<1>4. CASE \E r \in Requests : EntryStep(r)
  BY <1>4, BatonEntry
<1>5. CASE \E f \in toEntry : Dispatch(f)
  BY <1>5, BatonDispatch
<1>6. CASE ExitStep
  BY <1>6, BatonExit
<1>7. CASE ExitReload
  BY <1>7, BatonReload
<1>8. CASE LoseFrame
  BY <1>8, BatonLose
<1> QED BY <1>2, <1>3, <1>4, <1>5, <1>6, <1>7, <1>8 DEF Next

\* Only GetToken adds a token, and the baton says which one.
LEMMA ExactStep ==
  ASSUME CountInv, Lockstep => Baton, ContextExact, [Next]_vars
  PROVE  ContextExact'
<1> USE DEF CountInv, TypeOK
<1>1. CASE UNCHANGED generated
  BY <1>1 DEF ContextExact, Lockstep
<1>2. ASSUME NEW r \in Requests, GetToken(r), Lockstep
      PROVE  \A q \in Requests : \A n \in DOMAIN generated'[q] :
               generated'[q][n].ctx = Prefix(n)
  <2> DEFINE g == generated[r]
             t == Head(queue[r])
  <2>1. NoReload /\ BatonOf(r) /\ pc[r] = "wait" /\ queue[r] # <<>>
    BY <1>2 DEF Lockstep, NoReload, Baton, GetToken
  <2>2. TokenQueued(r)
    BY <2>1 DEF BatonOf, ChunkSent, ChunkComputed, TokenReplied, TokenSent,
                Quiet, NoToken
  <2>3. /\ queue[r] \in Seq(Token) /\ t = queue[r][1] /\ t \in Token
        /\ t.ctx = Prefix(seqc[r] + 1)
    BY <2>1, <2>2 DEF TokenQueued, Answers
  <2>4. g \in Seq(Token) /\ Len(g) = seqc[r]
    BY <2>1 DEF Counting, CountOf
  <2>5. /\ generated'[r] = Append(g, t)
        /\ \A q \in Requests : q # r => generated'[q] = generated[q]
    BY <1>2 DEF GetToken
  <2>6. \A n \in DOMAIN g : g[n].ctx = Prefix(n)
    BY <1>2 DEF ContextExact
  <2>7. ASSUME NEW n \in DOMAIN generated'[r]
        PROVE  generated'[r][n].ctx = Prefix(n)
    <3>1. n \in 1 .. Len(g) + 1 /\ DOMAIN g = 1 .. Len(g) /\ Len(g) \in Nat
      BY <2>3, <2>4, <2>5
    <3>2. CASE n = Len(g) + 1
      <4>1. generated'[r][n] = t
        BY <2>3, <2>4, <2>5, <3>1, <3>2
      <4> QED BY <2>3, <2>4, <3>2, <4>1
    <3>3. CASE n \in 1 .. Len(g)
      <4>1. generated'[r][n] = g[n]
        BY <2>3, <2>4, <2>5, <3>1, <3>3
      <4> QED BY <2>6, <3>1, <3>3, <4>1
    <3> QED BY <3>1, <3>2, <3>3
  <2> QED BY <1>2, <2>5, <2>7 DEF ContextExact
<1>3. CASE \E r \in Requests : GetToken(r)
  BY <1>2, <1>3 DEF ContextExact, Lockstep
<1>4. (\E r \in Requests : GetToken(r)) \/ UNCHANGED generated
  BY DEF Next, EntryStep, ExitStep, vars, entryVars, Start, ForwardEntry,
         ForwardEntryFails, SendHidden, SendHiddenFails, Timeout, SendEnd,
         SendEndFails, Cancel, Dispatch, EntryReload, ExitRecvEnd,
         ExitRecvHidden, ExitForward, ExitForwardFails, SendToken,
         SendTokenFails, ExitReload, LoseFrame
<1> QED BY <1>1, <1>3, <1>4

LEMMA LoopInvariant == Spec => []LoopInv
<1>1. Init => LoopInv
  <2>1. Init => ContextExact
    BY DEF Init, ContextExact
  <2> QED BY <2>1, CountInit, BatonInit DEF LoopInv
<1>2. LoopInv /\ [Next]_vars => LoopInv'
  <2> SUFFICES ASSUME LoopInv, [Next]_vars PROVE LoopInv'
    OBVIOUS
  <2>1. CountInv'
    BY TypeStep, CountStep DEF LoopInv, CountInv
  <2>2. "duplicate" \notin Faults => Baton'
    BY BatonStep DEF LoopInv
  <2>3. Lockstep => "duplicate" \notin Faults
    BY DEF Lockstep
  <2>4. ContextExact'
    BY <2>3, ExactStep DEF LoopInv
  <2> QED BY <2>1, <2>2, <2>4 DEF LoopInv
<1> QED BY <1>1, <1>2, PTL DEF Spec

\* Without duplicated frames and reloads, every token a generator yields was
\* sampled from exactly the prompt and the tokens before it, whatever is lost,
\* late, cancelled or raised in any number of concurrent requests.
THEOREM EveryTokenHasItsContext == Spec => []ContextExact
<1>1. LoopInv => ContextExact
  BY DEF LoopInv
<1> QED BY LoopInvariant, <1>1, PTL

\* A cache that the exit worker dropped after a finished generation is not
\* created again by frames of that generation that arrive late.
THEOREM FinishedRequestsStayForgotten == Spec => ForgottenForGood
<1> DEFINE Step(r) ==
       /\ "duplicate" \notin Faults
       /\ pc[r] = "done"
       /\ maxTokens[r] > 0
       /\ r \notin caches
       => r \notin caches'
<1>1. ASSUME LoopInv, [Next]_vars, NEW r \in Requests
      PROVE  Step(r)
  <2> SUFFICES ASSUME "duplicate" \notin Faults, pc[r] = "done",
                      maxTokens[r] > 0, r \notin caches
               PROVE  r \notin caches'
    OBVIOUS
  <2>1. NoHidden(r)
    BY <1>1 DEF LoopInv, Baton, BatonOf
  <2>2. ASSUME NEW f \in toExit, ExitRecvHidden(f)
        PROVE  r \notin caches'
    BY <2>1, <2>2 DEF ExitRecvHidden, NoHidden, HiddenOf
  <2>3. ASSUME NEW f \in toExit, ExitRecvEnd(f)
        PROVE  r \notin caches'
    BY <2>3 DEF ExitRecvEnd
  <2>4. ASSUME NEW q \in Requests, EntryStep(q)
        PROVE  r \notin caches'
    BY <2>4 DEF EntryStep, exitVars, Start, ForwardEntry, ForwardEntryFails,
                SendHidden, SendHiddenFails, GetToken, Timeout, SendEnd,
                SendEndFails, Cancel
  <2>5. ASSUME NEW f \in toEntry, Dispatch(f)
        PROVE  r \notin caches'
    BY <2>5 DEF Dispatch, exitVars
  <2>6. CASE EntryReload \/ ExitReload \/ LoseFrame \/ UNCHANGED vars
    BY <2>6 DEF EntryReload, ExitReload, LoseFrame, vars, exitVars
  <2>7. CASE ExitForward \/ ExitForwardFails \/ SendToken \/ SendTokenFails
    BY <2>7 DEF ExitForward, ExitForwardFails, SendToken, SendTokenFails
  <2> QED BY <1>1, <2>2, <2>3, <2>4, <2>5, <2>6, <2>7 DEF Next, ExitStep
<1>2. LoopInv /\ [Next]_vars => [\A r \in Requests : Step(r)]_vars
  BY <1>1
<1>3. QED BY LoopInvariant, <1>2, PTL DEF Spec, ForgottenForGood

-----------------------------------------------------------------------------
(* NeverAhead, whatever goes wrong.                                        *)

LEMMA SeqcGrows ==
  ASSUME CountInv, [Next]_vars, NEW r \in Requests
  PROVE  seqc[r] \in Nat /\ seqc'[r] \in Nat /\ seqc[r] <= seqc'[r]
<1> USE DEF CountInv, TypeOK
<1>1. seqc[r] \in Nat
  BY TokenLoopAssumption
<1>2. CASE UNCHANGED seqc
  BY <1>1, <1>2
<1>3. ASSUME NEW q \in Requests, GetToken(q)
      PROVE  seqc'[r] = seqc[r] \/ seqc'[r] = seqc[r] + 1
  BY <1>3 DEF GetToken
<1>4. (\E q \in Requests : GetToken(q)) \/ UNCHANGED seqc
  BY DEF Next, EntryStep, ExitStep, vars, entryVars, Start, ForwardEntry,
         ForwardEntryFails, SendHidden, SendHiddenFails, Timeout, SendEnd,
         SendEndFails, Cancel, Dispatch, EntryReload, ExitRecvEnd,
         ExitRecvHidden, ExitForward, ExitForwardFails, SendToken,
         SendTokenFails, ExitReload, LoseFrame
<1> QED BY <1>1, <1>2, <1>3, <1>4

\* What was not ahead of a seq_counter is not ahead of a later one.
LEMMA TokenStaysBehind ==
  ASSUME CountInv, [Next]_vars, NEW token \in Token, TokenBehind(token)
  PROVE  TokenBehind(token)'
<1>1. token.req \in Requests /\ token.seq \in Nat
      /\ \A i \in DOMAIN token.ctx : token.ctx[i] \in Nat
  BY TokenLoopAssumption DEF Token, Context
<1>2. /\ seqc[token.req] \in Nat /\ seqc'[token.req] \in Nat
      /\ seqc[token.req] <= seqc'[token.req]
  BY <1>1, SeqcGrows
<1> QED BY <1>1, <1>2 DEF TokenBehind

LEMMA ChunksStayBehind ==
  ASSUME CountInv, ChunksBehind, [Next]_vars
  PROVE  ChunksBehind'
<1> USE DEF CountInv, TypeOK
<1>1. \A r \in Requests :
        seqc[r] \in Nat /\ seqc'[r] \in Nat /\ seqc[r] <= seqc'[r]
  BY SeqcGrows
\* The frames in flight.
<1>2. ASSUME NEW f \in toExit', f.kind = "hidden"
      PROVE  f.seq <= seqc'[f.req]
  <2>1. CASE f \in toExit
    <3>1. f \in Hidden /\ f.req \in Requests /\ f.seq \in Nat /\ f.seq <= seqc[f.req]
      BY <1>2, <2>1 DEF Hidden, EndFrame, ChunksBehind
    <3> QED BY <1>1, <3>1
  <2>2. CASE \E r \in Requests : f = HiddenFrame(r, attempt[r])
    <3>1. PICK r \in Requests : f = HiddenFrame(r, attempt[r])
      BY <2>2
    <3>2. f.req = r /\ f.seq = seqc[r]
      BY <3>1 DEF HiddenFrame
    <3> QED BY <1>1, <3>2
  <2>3. ASSUME NEW r \in Requests, NEW n
        PROVE  f # ControlEnd(r, n)
    BY <1>2 DEF ControlEnd
  <2>4. ASSUME NEW r \in Requests, EntryStep(r)
        PROVE  f \in toExit \/ f = HiddenFrame(r, attempt[r])
    BY <2>3, <2>4, <1>2
    DEF EntryStep, Start, ForwardEntry, ForwardEntryFails, SendHidden,
        SendHiddenFails, GetToken, Timeout, SendEnd, SendEndFails, Cancel,
        MaybeAccepted
  <2>5. (\E r \in Requests : EntryStep(r)) \/ toExit' \subseteq toExit
    BY DEF Next, ExitStep, vars, Dispatch, EntryReload, ExitRecvEnd,
           ExitRecvHidden, ExitForward, ExitForwardFails, SendToken,
           SendTokenFails, ExitReload, LoseFrame
  <2> QED BY <1>2, <2>1, <2>2, <2>4, <2>5
\* The frame exit_loop computes.
<1>3. ASSUME job' # None
      PROVE  job'.seq <= seqc'[job'.req]
  <2>1. CASE job' = job
    <3>1. job.req \in Requests /\ job.seq \in Nat /\ job.seq <= seqc[job.req]
      BY <1>3, <2>1, TokenLoopAssumption DEF Hidden, ChunksBehind
    <3> QED BY <1>1, <2>1, <3>1
  <2>2. ASSUME NEW f \in toExit, ExitRecvHidden(f)
        PROVE  job'.seq <= seqc'[job'.req]
    <3>1. f.req \in Requests /\ f.seq \in Nat /\ f.seq <= seqc[f.req] /\ job' = f
      BY <2>2, TokenLoopAssumption DEF ExitRecvHidden, Hidden, EndFrame, ChunksBehind
    <3> QED BY <1>1, <3>1
  <2>3. (\E f \in toExit : ExitRecvHidden(f)) \/ job' \in {job, None}
    BY DEF Next, EntryStep, ExitStep, vars, exitVars, Start, ForwardEntry,
           ForwardEntryFails, SendHidden, SendHiddenFails, GetToken, Timeout,
           SendEnd, SendEndFails, Cancel, Dispatch, EntryReload, ExitRecvEnd,
           ExitForward, ExitForwardFails, SendToken, SendTokenFails,
           ExitReload, LoseFrame
  <2> QED BY <1>3, <2>1, <2>2, <2>3
\* The caches.
<1>4. ASSUME NEW r \in Requests, NEW i \in DOMAIN kv'[r]
      PROVE  kv'[r][i] <= seqc'[r]
  <2>1. kv[r] \in Context /\ \A k \in DOMAIN kv[r] : kv[r][k] \in Nat
    BY TokenLoopAssumption DEF Context
  <2>2. CASE kv'[r] = kv[r]
    <3>1. kv[r][i] \in Nat /\ kv[r][i] <= seqc[r]
      BY <1>4, <2>1, <2>2 DEF ChunksBehind
    <3> QED BY <1>1, <2>2, <3>1
  <2>3. CASE kv'[r] = <<>>
    BY <1>4, <2>3
  <2>4. CASE job # None /\ kv' = [kv EXCEPT ![job.req] = Append(@, job.seq)]
    <3>1. job.req \in Requests /\ job.seq \in Nat /\ job.seq <= seqc[job.req]
      BY <2>4, TokenLoopAssumption DEF Hidden, ChunksBehind
    <3>2. CASE r = job.req
      <4>1. kv[r] \in Seq(Nat) /\ kv'[r] = Append(kv[r], job.seq)
        <5>1. kv[r] \in Seq(Nat)
          BY <2>1, TokenLoopAssumption DEF Context
        <5>2. kv'[r] = Append(kv[r], job.seq)
          BY <2>4, <3>1, <3>2, Zenon
        <5> QED BY <5>1, <5>2
      <4>2. /\ DOMAIN kv'[r] = 1 .. Len(kv[r]) + 1
            /\ \A k \in 1 .. Len(kv[r]) : kv'[r][k] = kv[r][k]
            /\ kv'[r][Len(kv[r]) + 1] = job.seq
            /\ DOMAIN kv[r] = 1 .. Len(kv[r]) /\ Len(kv[r]) \in Nat
        <5>1. kv[r] \in Seq(Nat) /\ job.seq \in Nat /\ Append(kv[r], job.seq) \in Seq(Nat)
          BY <3>1, <4>1, AppendProperties
        <5>2. /\ Len(Append(kv[r], job.seq)) = Len(kv[r]) + 1
              /\ \A k \in 1 .. Len(kv[r]) : Append(kv[r], job.seq)[k] = kv[r][k]
              /\ Append(kv[r], job.seq)[Len(kv[r]) + 1] = job.seq
          BY <5>1, AppendProperties
        <5>3. \A q \in Seq(Nat) : DOMAIN q = 1 .. Len(q) /\ Len(q) \in Nat
          OBVIOUS
        <5> QED BY <4>1, <5>1, <5>2, <5>3, Zenon
      <4>3. CASE i = Len(kv[r]) + 1
        <5>1. kv'[r][i] = job.seq
          BY <4>2, <4>3
        <5> QED BY <1>1, <3>1, <3>2, <5>1
      <4>4. CASE i \in 1 .. Len(kv[r])
        <5>1. kv'[r][i] = kv[r][i] /\ i \in DOMAIN kv[r]
          BY <4>2, <4>4
        <5>2. kv[r][i] \in Nat /\ kv[r][i] <= seqc[r]
          BY <2>1, <5>1 DEF ChunksBehind
        <5> QED BY <1>1, <5>1, <5>2
      <4> QED BY <4>1, <4>2, <4>3, <4>4
    <3>3. CASE r # job.req
      BY <2>2, <2>4, <3>3
    <3> QED BY <3>2, <3>3
  <2>5. \/ kv'[r] = kv[r]
        \/ kv'[r] = <<>>
        \/ job # None /\ kv' = [kv EXCEPT ![job.req] = Append(@, job.seq)]
    BY DEF Next, EntryStep, ExitStep, vars, exitVars, Start, ForwardEntry,
           ForwardEntryFails, SendHidden, SendHiddenFails, GetToken, Timeout,
           SendEnd, SendEndFails, Cancel, Dispatch, EntryReload, ExitRecvEnd,
           ExitRecvHidden, ExitForward, ExitForwardFails, SendToken,
           SendTokenFails, ExitReload, LoseFrame
  <2> QED BY <2>2, <2>3, <2>4, <2>5
<1> QED BY <1>2, <1>3, <1>4 DEF ChunksBehind

LEMMA TokensStayBehind ==
  ASSUME CountInv, ChunksBehind, TokensBehind, [Next]_vars, ChunksBehind'
  PROVE  TokensBehind'
<1> USE DEF CountInv, TypeOK
\* The token exit_loop sends: sampled from a cache that is not ahead.
<1>1. ASSUME reply' # None
      PROVE  TokenBehind(reply.token)'
  <2>1. CASE reply' = reply
    <3>1. reply.token \in Token /\ TokenBehind(reply.token)
      BY <1>1, <2>1 DEF Reply, TokensBehind
    <3>2. PICK token \in Token : token = reply.token
      BY <3>1
    <3>3. TokenBehind(token)'
      BY <3>1, <3>2, TokenStaysBehind
    <3> QED BY <2>1, <3>2, <3>3 DEF TokenBehind
  <2>2. CASE ExitForward
    <3>1. /\ job # None /\ job \in Hidden /\ job.req \in Requests
          /\ job.seq <= seqc[job.req]
          /\ UNCHANGED seqc
      BY <2>2 DEF ExitForward, ChunksBehind, Hidden, entryVars
    <3>2. PICK r \in Requests, n \in 0 .. MaxTokens : r = job.req /\ n = job.seq
      BY <3>1 DEF Hidden
    <3>3. reply'.token.req = r /\ reply'.token.seq = n + 1 /\ reply'.token.ctx = kv'[r]
      BY <2>2, <3>2 DEF ExitForward
    <3>4. \A i \in DOMAIN kv'[r] : kv'[r][i] <= seqc'[r]
      BY DEF ChunksBehind
    <3>5. seqc'[r] \in Nat /\ n <= seqc'[r]
      BY <3>1, <3>2, TokenLoopAssumption
    <3>6. n + 1 <= seqc'[r] + 1
      BY <3>5
    <3> QED BY <3>3, <3>4, <3>6 DEF TokenBehind
  <2>3. ExitForward \/ reply' \in {reply, None}
    BY DEF Next, EntryStep, ExitStep, vars, exitVars, Start, ForwardEntry,
           ForwardEntryFails, SendHidden, SendHiddenFails, GetToken, Timeout,
           SendEnd, SendEndFails, Cancel, Dispatch, EntryReload, ExitRecvEnd,
           ExitRecvHidden, ExitForwardFails, SendToken,
           SendTokenFails, ExitReload, LoseFrame
  <2> QED BY <1>1, <2>1, <2>2, <2>3
\* The tokens on their way back.
<1>2. ASSUME NEW f \in toEntry'
      PROVE  TokenBehind(f.token)'
  <2>1. PICK token \in Token : token = f.token /\ TokenBehind(token)
    <3>1. f \in toEntry \/ (reply # None /\ f = ReplyFrame)
      BY <1>2 DEF Next, EntryStep, ExitStep, vars, Start, ForwardEntry,
           ForwardEntryFails, SendHidden, SendHiddenFails, GetToken, Timeout,
           SendEnd, SendEndFails, Cancel, Dispatch, EntryReload, ExitRecvEnd,
           ExitRecvHidden, ExitForward, ExitForwardFails, SendToken,
           SendTokenFails, ExitReload, LoseFrame, MaybeAccepted
    <3> QED BY <3>1 DEF ReplyFrame, Reply, TokenFrame, TokensBehind
  <2>2. TokenBehind(token)'
    BY <2>1, TokenStaysBehind
  <2> QED BY <2>1, <2>2
\* The tokens the dispatcher has handed over.
<1>3. ASSUME NEW r \in Requests, NEW i \in DOMAIN queue'[r]
      PROVE  (queue[r][i].req = r /\ TokenBehind(queue[r][i]))'
  <2>1. queue[r] \in Seq(Token)
    OBVIOUS
  <2>2. PICK token \in Token :
          token = queue'[r][i] /\ token.req = r /\ TokenBehind(token)
    <3>1. CASE queue'[r] = queue[r]
      BY <1>3, <2>1, <3>1 DEF TokensBehind
    <3>2. CASE queue[r] # <<>> /\ queue'[r] = Tail(queue[r])
      <4>1. i + 1 \in DOMAIN queue[r] /\ queue'[r][i] = queue[r][i + 1]
        BY <1>3, <2>1, <3>2
      <4> QED BY <2>1, <4>1 DEF TokensBehind
    <3>3. ASSUME NEW f \in toEntry, f.token.req = r,
                 queue'[r] = Append(queue[r], f.token)
          PROVE  \E token \in Token :
                   token = queue'[r][i] /\ token.req = r /\ TokenBehind(token)
      <4>1. f.token \in Token /\ TokenBehind(f.token)
        BY DEF TokenFrame, TokensBehind
      <4>2. CASE i = Len(queue[r]) + 1
        BY <2>1, <3>3, <4>1, <4>2
      <4>3. CASE i \in 1 .. Len(queue[r])
        <5>1. queue'[r][i] = queue[r][i] /\ i \in DOMAIN queue[r]
          BY <2>1, <3>3, <4>1, <4>3
        <5> QED BY <2>1, <5>1 DEF TokensBehind
      <4> QED BY <1>3, <2>1, <3>3, <4>1, <4>2, <4>3
    <3>4. ASSUME NEW q \in Requests, GetToken(q)
          PROVE  queue'[r] = queue[r] \/ (queue[r] # <<>> /\ queue'[r] = Tail(queue[r]))
      BY <3>4 DEF GetToken
    <3>5. ASSUME NEW f \in toEntry, Dispatch(f)
          PROVE  queue'[r] = queue[r]
                 \/ (f.token.req = r /\ queue'[r] = Append(queue[r], f.token))
      BY <3>5 DEF Dispatch
    <3>6. \/ \E q \in Requests : GetToken(q)
          \/ \E f \in toEntry : Dispatch(f)
          \/ queue' = queue
      BY DEF Next, EntryStep, ExitStep, vars, entryVars, Start, ForwardEntry,
             ForwardEntryFails, SendHidden, SendHiddenFails, Timeout, SendEnd,
             SendEndFails, Cancel, EntryReload, ExitRecvEnd,
             ExitRecvHidden, ExitForward, ExitForwardFails, SendToken,
             SendTokenFails, ExitReload, LoseFrame
    <3> QED BY <3>1, <3>2, <3>3, <3>4, <3>5, <3>6
  <2>3. TokenBehind(token)'
    BY <2>2, TokenStaysBehind
  <2> QED BY <2>2, <2>3 DEF TokenBehind
<1> QED BY <1>1, <1>2, <1>3 DEF TokensBehind

LEMMA NeverAheadStep ==
  ASSUME CountInv, TokensBehind, NeverAhead, [Next]_vars
  PROVE  NeverAhead'
<1> USE DEF CountInv, TypeOK
<1>1. CASE UNCHANGED generated
  BY <1>1 DEF NeverAhead
<1>2. ASSUME NEW r \in Requests, GetToken(r)
      PROVE  NeverAhead'
  <2> DEFINE g == generated[r]
             t == Head(queue[r])
  <2>1. queue[r] \in Seq(Token) /\ queue[r] # <<>> /\ t = queue[r][1] /\ t \in Token
    BY <1>2 DEF GetToken
  <2>2. 1 \in DOMAIN queue[r]
    BY <2>1
  <2>3. t.req = r /\ t.seq <= seqc[r] + 1 /\ \A i \in DOMAIN t.ctx : t.ctx[i] <= seqc[r]
    BY <2>1, <2>2 DEF TokensBehind, TokenBehind
  <2>4. g \in Seq(Token) /\ Len(g) = seqc[r] /\ seqc[r] \in Nat
    BY <1>2, TokenLoopAssumption DEF GetToken, Counting, CountOf
  <2>5. /\ generated'[r] = Append(g, t)
        /\ \A q \in Requests : q # r => generated'[q] = generated[q]
    BY <1>2 DEF GetToken
  <2>6. \A i \in DOMAIN t.ctx : t.ctx[i] \in Nat
    <3>1. t.ctx \in Seq(0 .. MaxTokens)
      BY <2>1 DEF Token, Context
    <3> HIDE DEF t
    <3> QED BY <3>1, TokenLoopAssumption
  <2>7. ASSUME NEW n \in DOMAIN generated'[r]
        PROVE  /\ generated'[r][n].req = r
               /\ generated'[r][n].seq <= n
               /\ \A i \in DOMAIN generated'[r][n].ctx : generated'[r][n].ctx[i] < n
    <3>1. n \in 1 .. Len(g) \/ n = Len(g) + 1
      BY <2>1, <2>4, <2>5
    <3>2. CASE n \in 1 .. Len(g)
      <4>1. generated'[r][n] = g[n] /\ n \in DOMAIN g
        BY <2>1, <2>4, <2>5, <3>2
      <4> QED BY <4>1 DEF NeverAhead
    <3>3. CASE n = Len(g) + 1
      <4>1. generated'[r][n] = t
        BY <2>1, <2>4, <2>5, <3>3
      <4>2. \A i \in DOMAIN t.ctx : t.ctx[i] < n
        BY <2>3, <2>4, <2>6, <3>3
      <4> QED BY <2>3, <2>4, <3>3, <4>1, <4>2
    <3> QED BY <3>1, <3>2, <3>3
  <2> QED BY <2>5, <2>7 DEF NeverAhead
<1>3. (\E r \in Requests : GetToken(r)) \/ UNCHANGED generated
  BY DEF Next, EntryStep, ExitStep, vars, entryVars, Start, ForwardEntry,
         ForwardEntryFails, SendHidden, SendHiddenFails, Timeout, SendEnd,
         SendEndFails, Cancel, Dispatch, EntryReload, ExitRecvEnd,
         ExitRecvHidden, ExitForward, ExitForwardFails, SendToken,
         SendTokenFails, ExitReload, LoseFrame
<1> QED BY <1>1, <1>2, <1>3

\* Whatever is lost, duplicated, late, raised or reloaded, the n-th token of a
\* generation is a token of that request, and the exit worker's cache held no
\* chunk past n - 1 when it was sampled.
THEOREM NoStreamRunsAhead == Spec => []NeverAhead
<1>1. Init => BehindInv
  <2>1. Init => ChunksBehind /\ TokensBehind /\ NeverAhead
    BY DEF Init, ChunksBehind, TokensBehind, NeverAhead
  <2> QED BY <2>1, CountInit DEF BehindInv
<1>2. BehindInv /\ [Next]_vars => BehindInv'
  <2> SUFFICES ASSUME BehindInv, [Next]_vars PROVE BehindInv'
    OBVIOUS
  <2>1. CountInv'
    BY TypeStep, CountStep DEF BehindInv, CountInv
  <2>2. ChunksBehind'
    BY ChunksStayBehind DEF BehindInv
  <2>3. TokensBehind'
    BY <2>2, TokensStayBehind DEF BehindInv
  <2>4. NeverAhead'
    BY NeverAheadStep DEF BehindInv
  <2> QED BY <2>1, <2>2, <2>3, <2>4 DEF BehindInv
<1>3. BehindInv => NeverAhead
  BY DEF BehindInv
<1> QED BY <1>1, <1>2, <1>3, PTL DEF Spec

-----------------------------------------------------------------------------
(* TokenLoop implements TokenStream while the workers stay in lockstep.    *)

PhaseMap == [r \in Requests |-> Phase(r)]
OutMap   == [r \in Requests |-> Shown(r)]

View(token) == [ctx |-> token.ctx, eos |-> token.eos]

LEMMA PhaseOf ==
  ASSUME TypeOK, NEW r \in Requests
  PROVE  /\ pc[r] = "idle" => Phase(r) = "idle"
         /\ pc[r] \in Running => Phase(r) = "open"
         /\ pc[r] = "done" => Phase(r) = "done"
         /\ pc[r] = "failed" => Phase(r) = "failed"
BY DEF TypeOK, Phase

\* What the caller sees of a generator that moves from one place to another.
LEMMA PhaseMoves ==
  ASSUME TypeOK, TypeOK', NEW r \in Requests, NEW v,
         pc' = [pc EXCEPT ![r] = v]
  PROVE  /\ v \in Running /\ pc[r] \in Running => PhaseMap' = PhaseMap
         /\ v \in Running => PhaseMap' = [PhaseMap EXCEPT ![r] = "open"]
         /\ v \in Ended => PhaseMap' = [PhaseMap EXCEPT ![r] = v]
<1>1. pc'[r] = v /\ \A q \in Requests : q # r => pc'[q] = pc[q]
  BY DEF TypeOK
<1>2. \A q \in Requests : q # r => Phase(q)' = Phase(q)
  BY <1>1 DEF Phase
<1>3. v \in Running => Phase(r)' = "open"
  BY <1>1 DEF Phase
<1>4. v \in Ended => Phase(r)' = v
  BY <1>1 DEF Phase
<1>5. pc[r] \in Running => Phase(r) = "open"
  BY PhaseOf
<1> QED BY <1>2, <1>3, <1>4, <1>5 DEF PhaseMap

LEMMA ShownOf ==
  ASSUME TypeOK, NEW r \in Requests
  PROVE  /\ DOMAIN Shown(r) = 1 .. Len(generated[r])
         /\ Len(Shown(r)) = Len(generated[r])
         /\ Len(generated[r]) \in Nat
         /\ Shown(r) \in Seq([ctx : Context, eos : BOOLEAN])
         /\ \A n \in 1 .. Len(generated[r]) : Shown(r)[n] = View(generated[r][n])
<1> DEFINE g == generated[r]
<1>1. g \in Seq(Token) /\ Len(g) \in Nat /\ DOMAIN g = 1 .. Len(g)
  BY DEF TypeOK
<1>2. Shown(r) = [n \in 1 .. Len(g) |-> View(g[n])]
  BY <1>1 DEF Shown, View
<1>3. \A n \in 1 .. Len(g) : View(g[n]) \in [ctx : Context, eos : BOOLEAN]
  <2>1. \A t \in Token : View(t) \in [ctx : Context, eos : BOOLEAN]
    BY DEF View, Token
  <2>2. \A n \in 1 .. Len(g) : g[n] \in Token
    BY <1>1
  <2> QED BY <2>1, <2>2
<1>4. Shown(r) \in Seq([ctx : Context, eos : BOOLEAN])
  <2> DEFINE S == [ctx : Context, eos : BOOLEAN]
  <2>1. \A n \in 1 .. Len(g) : View(g[n]) \in S
    BY <1>3
  <2> HIDE DEF S
  <2>2. [n \in 1 .. Len(g) |-> View(g[n])] \in [1 .. Len(g) -> S]
    BY <2>1
  <2>3. [n \in 1 .. Len(g) |-> View(g[n])] \in Seq(S)
    BY <1>1, <2>2
  <2> QED BY <1>2, <2>3 DEF S
<1>5. Len(Shown(r)) = Len(g)
  BY <1>1, <1>2, <1>4
<1> QED BY <1>1, <1>2, <1>4, <1>5

LEMMA ShownGrows ==
  ASSUME TypeOK, TypeOK', NEW r \in Requests, NEW token \in Token,
         generated' = [generated EXCEPT ![r] = Append(@, token)]
  PROVE  OutMap' = [OutMap EXCEPT ![r] = Append(@, View(token))]
<1> DEFINE g == generated[r]
           h == Append(g, token)
           s == Shown(r)
<1>1. g \in Seq(Token) /\ Len(g) \in Nat
  BY DEF TypeOK
<1>2. generated'[r] = h /\ \A q \in Requests : q # r => generated'[q] = generated[q]
  BY DEF TypeOK
<1>3. /\ DOMAIN h = 1 .. Len(g) + 1 /\ h[Len(g) + 1] = token
      /\ \A n \in 1 .. Len(g) : h[n] = g[n]
  BY <1>1
<1>4. /\ s \in Seq([ctx : Context, eos : BOOLEAN]) /\ Len(s) = Len(g)
      /\ \A n \in 1 .. Len(g) : s[n] = View(g[n])
  BY ShownOf
<1>5. View(token) \in [ctx : Context, eos : BOOLEAN]
  BY DEF View, Token
<1>6. Shown(r)' = [n \in 1 .. Len(g) + 1 |-> View(h[n])]
  BY <1>2, <1>3 DEF Shown, View
<1>7. Append(s, View(token)) = [n \in 1 .. Len(g) + 1 |-> View(h[n])]
  <2> DEFINE S == [ctx : Context, eos : BOOLEAN]
             t == [n \in 1 .. Len(g) + 1 |-> View(h[n])]
  <2>1. /\ Append(s, View(token)) \in Seq(S)
        /\ Len(Append(s, View(token))) = Len(g) + 1
        /\ \A n \in 1 .. Len(g) : Append(s, View(token))[n] = View(g[n])
        /\ Append(s, View(token))[Len(g) + 1] = View(token)
    BY <1>4, <1>5, AppendProperties
  <2>2. \A n \in 1 .. Len(g) + 1 :
          n \in 1 .. Len(g) \/ n = Len(g) + 1
    BY <1>1
  <2>3. \A n \in 1 .. Len(g) + 1 : Append(s, View(token))[n] = View(h[n])
    BY <1>3, <2>1, <2>2
  <2>4. \A n \in 1 .. Len(g) + 1 : View(h[n]) \in S
    <3>1. \A n \in 1 .. Len(g) + 1 : h[n] \in Token
      BY <1>1, <1>3, <2>2
    <3> QED BY <3>1 DEF View, Token
  <2>5. t \in Seq(S) /\ Len(t) = Len(g) + 1
    BY <1>1, <2>4
  <2> HIDE DEF s, h, S
  <2>6. \A n \in 1 .. Len(g) + 1 : Append(s, View(token))[n] = t[n]
    BY <2>3
  <2> HIDE DEF t
  <2>7. Append(s, View(token)) = t
    BY <2>1, <2>5, <2>6, SeqEqual
  <2> QED BY <2>7 DEF t
<1>8. Shown(r)' = Append(s, View(token))
  BY <1>6, <1>7
<1>9. \A q \in Requests : q # r => Shown(q)' = Shown(q)
  BY <1>2 DEF Shown
<1> HIDE DEF s
<1> QED BY <1>8, <1>9 DEF OutMap, s

\* Each step of the loop is a step of TokenStream or changes nothing the
\* caller can see.
LEMMA StreamStep ==
  ASSUME LoopInv, LoopInv', Lockstep, [Next]_vars
  PROVE  [Promise!Next]_(Promise!streamVars)
<1> USE DEF LoopInv, CountInv
<1> DEFINE Stutter == PhaseMap' = PhaseMap /\ maxTokens' = maxTokens /\ OutMap' = OutMap
<1>1. ASSUME Stutter
      PROVE  [Promise!Next]_(Promise!streamVars)
  BY <1>1 DEF Promise!streamVars, PhaseMap, OutMap
<1>2. ASSUME NEW r \in Requests,
             \/ Promise!Open(r)
             \/ Promise!Emit(r)
             \/ Promise!Close(r)
             \/ Promise!Fail(r)
      PROVE  [Promise!Next]_(Promise!streamVars)
  BY <1>2 DEF Promise!Next
<1>3. ASSUME UNCHANGED generated
      PROVE  OutMap' = OutMap
  BY <1>3 DEF OutMap, Shown
<1>4. ASSUME UNCHANGED <<pc, maxTokens, generated>>
      PROVE  [Promise!Next]_(Promise!streamVars)
  <2>1. PhaseMap' = PhaseMap
    BY <1>4 DEF PhaseMap, Phase
  <2> QED BY <1>1, <1>3, <1>4, <2>1
<1>5. ASSUME NEW r \in Requests
      PROVE  /\ PhaseMap[r] = Phase(r) /\ OutMap[r] = Shown(r)
             /\ pc[r] \in Running => PhaseMap[r] = "open"
             /\ pc[r] = "idle" => PhaseMap[r] = "idle"
             /\ generated[r] \in Seq(Token) /\ Len(generated[r]) \in Nat
             /\ Len(OutMap[r]) = Len(generated[r])
             /\ \A n \in 1 .. Len(generated[r]) :
                  OutMap[r][n].eos = generated[r][n].eos
  <2>1. PhaseMap[r] = Phase(r) /\ OutMap[r] = Shown(r)
    BY <1>5 DEF PhaseMap, OutMap
  <2>2. \A t : View(t).eos = t.eos
    BY DEF View
  <2>3. generated[r] \in Seq(Token)
    BY <1>5 DEF TypeOK
  <2> QED BY <1>5, <2>1, <2>2, <2>3, PhaseOf, ShownOf
\* The generator goes on to its next await.
<1>6. ASSUME NEW r \in Requests, NEW v \in Running, pc[r] \in Running,
             pc' = [pc EXCEPT ![r] = v], UNCHANGED <<maxTokens, generated>>
      PROVE  [Promise!Next]_(Promise!streamVars)
  BY <1>1, <1>3, <1>6, PhaseMoves
\* It fails.
<1>7. ASSUME NEW r \in Requests, pc[r] \in Running,
             pc' = [pc EXCEPT ![r] = "failed"], UNCHANGED <<maxTokens, generated>>
      PROVE  [Promise!Next]_(Promise!streamVars)
  <2>1. PhaseMap[r] = "open" /\ PhaseMap' = [PhaseMap EXCEPT ![r] = "failed"]
    BY <1>5, <1>7, PhaseMoves
  <2>2. Promise!Fail(r)
    BY <1>3, <1>7, <2>1 DEF Promise!Fail, PhaseMap, OutMap
  <2> QED BY <1>2, <2>2
\* It is done: the stream is complete.
<1>8. ASSUME NEW r \in Requests, pc[r] = "sendEnd",
             pc' = [pc EXCEPT ![r] = "done"], UNCHANGED <<maxTokens, generated>>
      PROVE  [Promise!Next]_(Promise!streamVars)
  <2>1. PhaseMap[r] = "open" /\ PhaseMap' = [PhaseMap EXCEPT ![r] = "done"]
    BY <1>5, <1>8, PhaseMoves
  <2> DEFINE g == generated[r]
  <2>2. /\ Len(g) \in Nat /\ g \in Seq(Token) /\ maxTokens[r] \in Nat
        /\ Len(OutMap[r]) = Len(g)
        /\ \A n \in 1 .. Len(g) : OutMap[r][n].eos = g[n].eos
    BY <1>5, TokenLoopAssumption DEF TypeOK
  <2>3. \/ Len(g) = maxTokens[r]
        \/ Len(g) > 0 /\ g[Len(g)].eos
    BY <1>8, <2>2 DEF StopsExactly, StopsAt
  <2>4. \/ Len(OutMap[r]) = maxTokens[r]
        \/ Len(OutMap[r]) > 0 /\ OutMap[r][Len(OutMap[r])].eos
    BY <2>2, <2>3
  <2>5. Promise!Complete(r)
    BY <2>4 DEF Promise!Complete, OutMap
  <2>6. Promise!Close(r)
    BY <1>3, <1>8, <2>1, <2>5 DEF Promise!Close, PhaseMap, OutMap
  <2> QED BY <1>2, <2>6
<1>9. ASSUME NEW r \in Requests, Start(r)
      PROVE  [Promise!Next]_(Promise!streamVars)
  <2>1. PhaseMap[r] = "idle" /\ PhaseMap' = [PhaseMap EXCEPT ![r] = "open"]
    BY <1>5, <1>9, PhaseMoves DEF Start
  <2>2. Promise!Open(r)
    BY <1>3, <1>9, <2>1 DEF Start, Promise!Open, PhaseMap, OutMap
  <2> QED BY <1>2, <2>2
\* The next token: neither limit has been reached, and its context is exact.
<1>10. ASSUME NEW r \in Requests, GetToken(r)
       PROVE  [Promise!Next]_(Promise!streamVars)
  <2> DEFINE g == generated[r]
             t == Head(queue[r])
  <2>1. /\ g \in Seq(Token) /\ Len(g) \in Nat /\ maxTokens[r] \in Nat
        /\ queue[r] \in Seq(Token) /\ t \in Token
    BY <1>10 DEF GetToken, TypeOK
  <2>2. /\ pc[r] = "wait" /\ Len(g) < maxTokens[r]
        /\ \A n \in 1 .. Len(g) : ~g[n].eos
    BY <1>10 DEF GetToken, Counting, CountOf
  <2>3. /\ Len(OutMap[r]) = Len(g)
        /\ \A n \in 1 .. Len(g) : OutMap[r][n].eos = g[n].eos
    BY <1>5
  <2>4. ~Promise!Complete(r)
    <3>1. /\ Len(OutMap[r]) # maxTokens[r]
          /\ ~(Len(OutMap[r]) > 0 /\ OutMap[r][Len(OutMap[r])].eos)
      BY <2>1, <2>2, <2>3
    <3> QED BY <3>1 DEF Promise!Complete, OutMap
  <2>5. /\ generated' = [generated EXCEPT ![r] = Append(@, t)]
        /\ UNCHANGED maxTokens
    BY <1>10 DEF GetToken
  <2>6. t.ctx = Prefix(Len(g) + 1)
    <3>1. generated' \in [Requests -> Seq(Token)] /\ generated'[r] = Append(g, t)
      BY <2>5 DEF TypeOK
    <3>2. Len(g) + 1 \in DOMAIN generated'[r] /\ generated'[r][Len(g) + 1] = t
      BY <2>1, <3>1
    <3> QED BY <3>2 DEF ContextExact, Lockstep
  <2>7. View(t) = Promise!Ideal(Len(OutMap[r]) + 1, t.eos) /\ t.eos \in BOOLEAN
    BY <2>1, <2>3, <2>6 DEF View, Promise!Ideal, Prefix, Token
  <2>8. OutMap' = [OutMap EXCEPT ![r] = Append(@, View(t))]
    BY <2>1, <2>5, ShownGrows
  <2>9. PhaseMap' \in {PhaseMap, [PhaseMap EXCEPT ![r] = "failed"]}
    <3>1. pc' = [pc EXCEPT ![r] = "failed"]
          \/ \E v \in Running : pc' = [pc EXCEPT ![r] = v]
      BY <1>10 DEF GetToken
    <3> QED BY <2>2, <3>1, PhaseMoves
  <2>10. PhaseMap[r] = "open"
    BY <1>5, <2>2
  <2>11. \E eos \in BOOLEAN :
           OutMap' = [OutMap EXCEPT ![r] =
                       Append(@, Promise!Ideal(Len(@) + 1, eos))]
    BY <2>7, <2>8
  <2>12. Promise!Emit(r)
    BY <2>4, <2>5, <2>9, <2>10, <2>11 DEF Promise!Emit, PhaseMap, OutMap
  <2> QED BY <1>2, <2>12
<1>11. ASSUME NEW r \in Requests, EntryStep(r)
       PROVE  [Promise!Next]_(Promise!streamVars)
  <2>1. CASE ForwardEntry(r)
    BY <1>6, <2>1 DEF ForwardEntry
  <2>2. CASE ForwardEntryFails(r)
    BY <1>7, <2>2 DEF ForwardEntryFails, Finish
  <2>3. CASE SendHidden(r)
    BY <1>6, <2>3 DEF SendHidden
  <2>4. CASE SendHiddenFails(r)
    BY <1>4, <1>7, <2>4 DEF SendHiddenFails, Finish
  <2>5. CASE Timeout(r)
    BY <1>7, <2>5 DEF Timeout, Finish
  <2>6. CASE SendEnd(r)
    BY <1>8, <2>6 DEF SendEnd, Finish
  <2>7. CASE SendEndFails(r)
    BY <1>4, <1>8, <2>7 DEF SendEndFails, Finish
  <2>8. CASE Cancel(r)
    BY <1>7, <2>8 DEF Cancel, Finish
  <2> QED BY <1>9, <1>10, <1>11, <2>1, <2>2, <2>3, <2>4, <2>5, <2>6, <2>7, <2>8
          DEF EntryStep
<1>12. (\E r \in Requests : EntryStep(r)) \/ UNCHANGED <<pc, maxTokens, generated>>
  BY DEF Next, ExitStep, vars, entryVars, Dispatch, EntryReload, ExitRecvEnd,
         ExitRecvHidden, ExitForward, ExitForwardFails, SendToken,
         SendTokenFails, ExitReload, LoseFrame
<1> QED BY <1>4, <1>11, <1>12

\* While no frame is accepted by a send that reported an error and no worker
\* reloads its model, what the callers of entry_generate_iter see is a
\* TokenStream: an ideal stream of tokens per request, closed once.
THEOREM LoopImplementsTokenStream ==
  ASSUME Lockstep
  PROVE  Spec => ImplementsTokenStream
<1>1. Init => Promise!Init
  BY DEF Init, Promise!Init, Phase, Shown
<1>2. LoopInv /\ LoopInv' /\ [Next]_vars => [Promise!Next]_(Promise!streamVars)
  BY StreamStep
<1> QED BY LoopInvariant, <1>1, <1>2, PTL DEF Spec, Promise!Spec, ImplementsTokenStream
=============================================================================
