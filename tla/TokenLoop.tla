----------------------------- MODULE TokenLoop -----------------------------
(***************************************************************************)
(* The token loop of worker/pipeline.py over worker/axl_client.py.         *)
(*                                                                         *)
(* An entry worker runs one generator per request (entry_generate_iter)    *)
(* beside one receive loop (entry_recv_loop) that hands tokens to the      *)
(* generators through the EntryDispatcher; an exit worker runs one         *)
(* exit_loop that keeps a key/value cache per request.  They exchange      *)
(* frames through AXL, which the repository only calls over HTTP: nothing  *)
(* in src/ promises an order between two sends, so the network is a set of *)
(* frames in flight.  Two copies of one frame differ in the number of the  *)
(* send attempt that produced them.                                        *)
(*                                                                         *)
(* Tensors are abstracted to where they come from.  A hidden frame is the  *)
(* chunk number it carries (0 is the prompt, n is the n-th sampled token), *)
(* a cache is the sequence of chunks that were run through it, a sampled   *)
(* token is the cache content it was computed from and whether it is EOS.  *)
(***************************************************************************)
EXTENDS Integers, Sequences

CONSTANTS
  Requests,     \* request ids; the orchestrator draws a fresh uuid per call
  MaxTokens,    \* bound: the largest max_tokens a request asks for
  MaxAttempts,  \* attempts AXLClient.send makes (3 in the code)
  Faults,       \* what may go wrong in this instance, a subset of FaultKinds
  None          \* no frame, no token

FaultKinds ==
  { "loss",       \* AXL accepts a frame and never delivers it
    "error",      \* an AXL /send call fails and nothing was accepted
    "duplicate",  \* an AXL /send call fails after the frame was accepted
    "forward",    \* a forward pass raises
    "slow",       \* recv_timeout expires although an answer is on its way
    "cancel",     \* the client of /generate/stream goes away
    "restart" }   \* a worker unloads and loads its model again

ASSUME TokenLoopAssumption ==
  /\ MaxTokens \in Nat \ {0}
  /\ MaxAttempts \in Nat \ {0}
  /\ Faults \subseteq FaultKinds

VARIABLES
  pc,         \* where each entry_generate_iter is
  maxTokens,  \* its max_tokens argument
  seqc,       \* its seq_counter
  attempt,    \* the attempt of the AXLClient.send it is in
  generated,  \* the tokens it has yielded (generated_ids)
  queue,      \* the asyncio.Queue the dispatcher fills for it
  pending,    \* EntryDispatcher._pending: the registered request ids
  toExit,     \* hidden and control frames in flight
  toEntry,    \* token frames in flight
  job,        \* the hidden frame exit_loop is computing, or None
  reply,      \* the token exit_loop is sending, or None
  replyTry,   \* the attempt of that send
  caches,     \* the request ids with an entry in ExitState.caches
  kv          \* the content of those caches

entryVars == <<pc, maxTokens, seqc, attempt, generated, queue, pending>>
exitVars  == <<job, reply, replyTry, caches, kv>>
vars      == <<entryVars, toExit, toEntry, exitVars>>

Attempts == 1 .. MaxAttempts
Running  == {"forward", "send", "wait", "sendEnd"}
Ended    == {"done", "failed"}

Context == Seq(0 .. MaxTokens)
Token   == [req : Requests, seq : 1 .. MaxTokens + 1, ctx : Context, eos : BOOLEAN]

\* A reply remembers which copy of the hidden frame it answers.
Reply    == [token : Token, of : Attempts]
Hidden   == [kind : {"hidden"}, req : Requests, seq : 0 .. MaxTokens, copy : Attempts]
EndFrame == [kind : {"end"}, req : Requests, copy : Attempts]
TokenFrame == [token : Token, of : Attempts, copy : Attempts]

ASSUME NoneAssumption == None \notin Hidden \cup Reply

\* What a forward pass over exactly the chunks 0 .. n - 1 has seen.
Prefix(n) == [i \in 1 .. n |-> i - 1]

TypeOK ==
  /\ pc \in [Requests -> {"idle"} \cup Running \cup Ended]
  /\ maxTokens \in [Requests -> 0 .. MaxTokens]
  /\ seqc \in [Requests -> 0 .. MaxTokens]
  /\ attempt \in [Requests -> Attempts]
  /\ generated \in [Requests -> Seq(Token)]
  /\ queue \in [Requests -> Seq(Token)]
  /\ pending \subseteq Requests
  /\ toExit \subseteq Hidden \cup EndFrame
  /\ toEntry \subseteq TokenFrame
  /\ job \in Hidden \cup {None}
  /\ reply \in Reply \cup {None}
  /\ replyTry \in Attempts
  /\ caches \subseteq Requests
  /\ kv \in [Requests -> Context]

Init ==
  /\ pc = [r \in Requests |-> "idle"]
  /\ maxTokens = [r \in Requests |-> 0]
  /\ seqc = [r \in Requests |-> 0]
  /\ attempt = [r \in Requests |-> 1]
  /\ generated = [r \in Requests |-> <<>>]
  /\ queue = [r \in Requests |-> <<>>]
  /\ pending = {}
  /\ toExit = {}
  /\ toEntry = {}
  /\ job = None
  /\ reply = None
  /\ replyTry = 1
  /\ caches = {}
  /\ kv = [r \in Requests |-> <<>>]

-----------------------------------------------------------------------------
(* The generator of the entry worker.                                      *)

\* Mutant: seq_counter is advanced before the frame is built.
HiddenFrameNext(r, n) == [kind |-> "hidden", req |-> r, seq |-> seqc[r] + 1, copy |-> n]

HiddenFrame(r, n) == [kind |-> "hidden", req |-> r, seq |-> seqc[r], copy |-> n]

ControlEnd(r, n)  == [kind |-> "end", req |-> r, copy |-> n]

\* The generator leaves its try block: the dispatcher forgets the request.
Finish(r, outcome) ==
  /\ pc' = [pc EXCEPT ![r] = outcome]
  /\ pending' = pending \ {r}

\* Mutant: a generator that does not register with the dispatcher.
StartUnregistered(r) ==
  /\ pc[r] = "idle"
  /\ pc' = [pc EXCEPT ![r] = "forward"]
  /\ \E m \in 0 .. MaxTokens : maxTokens' = [maxTokens EXCEPT ![r] = m]
  /\ UNCHANGED <<seqc, attempt, generated, queue, pending, toExit, toEntry, exitVars>>

\* Mutant: a failed generation is started again under the same request id.
StartAgain(r) ==
  /\ pc[r] \in {"idle", "failed"}
  /\ pc' = [pc EXCEPT ![r] = "forward"]
  /\ \E m \in 0 .. MaxTokens : maxTokens' = [maxTokens EXCEPT ![r] = m]
  /\ pending' = pending \cup {r}
  /\ UNCHANGED <<seqc, attempt, generated, queue, toExit, toEntry, exitVars>>

Start(r) ==
  /\ pc[r] = "idle"
  /\ pc' = [pc EXCEPT ![r] = "forward"]
  /\ \E m \in 0 .. MaxTokens : maxTokens' = [maxTokens EXCEPT ![r] = m]
  /\ pending' = pending \cup {r}
  /\ UNCHANGED <<seqc, attempt, generated, queue, toExit, toEntry, exitVars>>

ForwardEntry(r) ==
  /\ pc[r] = "forward"
  /\ pc' = [pc EXCEPT ![r] = "send"]
  /\ UNCHANGED <<maxTokens, seqc, attempt, generated, queue, pending,
                 toExit, toEntry, exitVars>>

\* forward_entry raises: on an error, or because the model was unloaded.
ForwardEntryFails(r) ==
  /\ pc[r] = "forward"
  /\ "forward" \in Faults \/ r \notin pending
  /\ Finish(r, "failed")
  /\ UNCHANGED <<maxTokens, seqc, attempt, generated, queue,
                 toExit, toEntry, exitVars>>

\* One POST of AXLClient.send succeeds: the frame is on its way.
SendHidden(r) ==
  /\ pc[r] = "send"
  /\ toExit' = toExit \cup {HiddenFrame(r, attempt[r])}
  /\ attempt' = [attempt EXCEPT ![r] = 1]
  /\ pc' = [pc EXCEPT ![r] = IF maxTokens[r] = 0 THEN "sendEnd" ELSE "wait"]
  /\ UNCHANGED <<maxTokens, seqc, generated, queue, pending, toEntry, exitVars>>

\* A POST that fails may have been accepted all the same.
MaybeAccepted(net, frame) ==
  \/ "error" \in Faults /\ net' = net
  \/ "duplicate" \in Faults /\ net' = net \cup {frame}

\* Mutant: AXLClient.send without its limit of attempts.
SendHiddenRetriesForever(r) ==
  /\ pc[r] = "send"
  /\ MaybeAccepted(toExit, HiddenFrame(r, attempt[r]))
  /\ attempt' = [attempt EXCEPT ![r] = @ + 1]
  /\ UNCHANGED <<pc, pending, maxTokens, seqc, generated, queue, toEntry, exitVars>>

SendHiddenFails(r) ==
  /\ pc[r] = "send"
  /\ MaybeAccepted(toExit, HiddenFrame(r, attempt[r]))
  /\ \/ /\ attempt[r] < MaxAttempts
        /\ attempt' = [attempt EXCEPT ![r] = @ + 1]
        /\ UNCHANGED <<pc, pending>>
     \/ /\ attempt[r] = MaxAttempts
        /\ attempt' = [attempt EXCEPT ![r] = 1]
        /\ Finish(r, "failed")
  /\ UNCHANGED <<maxTokens, seqc, generated, queue, toEntry, exitVars>>

\* Mutant: max_tokens is compared before the token is counted.
IsLastOffByOne(r, token) == token.eos \/ Len(generated[r]) = maxTokens[r]

IsLast(r, token) == token.eos \/ Len(generated[r]) = maxTokens[r] - 1

\* One iteration of the loop up to its next await.  A generator whose model
\* was unloaded under it (it is not registered any more) fails there.
GetToken(r) ==
  /\ pc[r] = "wait"
  /\ queue[r] # <<>>
  /\ queue' = [queue EXCEPT ![r] = Tail(@)]
  /\ generated' = [generated EXCEPT ![r] = Append(@, Head(queue[r]))]
  /\ \/ /\ IsLast(r, Head(queue[r]))
        /\ pc' = [pc EXCEPT ![r] = "sendEnd"]
        /\ UNCHANGED seqc
     \/ /\ ~IsLast(r, Head(queue[r]))
        /\ seqc' = [seqc EXCEPT ![r] = @ + 1]
        /\ pc' = [pc EXCEPT ![r] = IF r \in pending THEN "forward" ELSE "failed"]
  /\ UNCHANGED <<maxTokens, attempt, pending, toExit, toEntry, exitVars>>

\* Nothing of r is between the hidden frame it sent and its queue.
NothingUnderway(r) ==
  /\ \A f \in toExit : f.req # r
  /\ job # None => job.req # r
  /\ reply # None => reply.token.req # r
  /\ \A f \in toEntry : f.token.req # r

\* Mutant: queue.get() without the wait_for.
TimeoutNever(r) == FALSE

\* Mutant: the hidden frame is sent again when no answer came in time.
TimeoutResends(r) ==
  /\ pc[r] = "wait"
  /\ queue[r] = <<>>
  /\ "slow" \in Faults \/ NothingUnderway(r) \/ r \notin pending
  /\ pc' = [pc EXCEPT ![r] = "send"]
  /\ UNCHANGED <<maxTokens, seqc, attempt, generated, queue, pending,
                 toExit, toEntry, exitVars>>

\* asyncio.wait_for(queue.get(), recv_timeout) expires.
Timeout(r) ==
  /\ pc[r] = "wait"
  /\ queue[r] = <<>>
  /\ "slow" \in Faults \/ NothingUnderway(r) \/ r \notin pending
  /\ Finish(r, "failed")
  /\ UNCHANGED <<maxTokens, seqc, attempt, generated, queue,
                 toExit, toEntry, exitVars>>

\* Mutant: a generation that ends without telling the exit worker.
SendEndDropped(r) ==
  /\ pc[r] = "sendEnd"
  /\ Finish(r, "done")
  /\ UNCHANGED <<maxTokens, seqc, attempt, generated, queue, toExit, toEntry, exitVars>>

SendEnd(r) ==
  /\ pc[r] = "sendEnd"
  /\ toExit' = toExit \cup {ControlEnd(r, attempt[r])}
  /\ Finish(r, "done")
  /\ UNCHANGED <<maxTokens, seqc, attempt, generated, queue, toEntry, exitVars>>

\* The control frame is best effort: the generation is done without it too.
SendEndFails(r) ==
  /\ pc[r] = "sendEnd"
  /\ MaybeAccepted(toExit, ControlEnd(r, attempt[r]))
  /\ \/ /\ attempt[r] < MaxAttempts
        /\ attempt' = [attempt EXCEPT ![r] = @ + 1]
        /\ UNCHANGED <<pc, pending>>
     \/ /\ attempt[r] = MaxAttempts
        /\ Finish(r, "done")
        /\ UNCHANGED attempt
  /\ UNCHANGED <<maxTokens, seqc, generated, queue, toEntry, exitVars>>

\* The streaming response is torn down at the await the generator is in.  A
\* send runs in a thread of its own (asyncio.to_thread), which goes on.
Cancel(r) ==
  /\ "cancel" \in Faults
  /\ pc[r] \in Running
  /\ Finish(r, "failed")
  /\ \/ UNCHANGED toExit
     \/ pc[r] = "send" /\ toExit' = toExit \cup {HiddenFrame(r, attempt[r])}
     \/ pc[r] = "sendEnd" /\ toExit' = toExit \cup {ControlEnd(r, attempt[r])}
  /\ UNCHANGED <<maxTokens, seqc, attempt, generated, queue, toEntry, exitVars>>

\* Mutant: a dispatcher that does not look at the request id.
DispatchToAll(f) ==
  /\ toEntry' = toEntry \ {f}
  /\ queue' = [r \in Requests |->
                IF r \in pending THEN Append(queue[r], f.token) ELSE queue[r]]
  /\ UNCHANGED <<pc, maxTokens, seqc, attempt, generated, pending, toExit, exitVars>>

\* entry_recv_loop takes a token frame: EntryDispatcher.dispatch.
Dispatch(f) ==
  /\ toEntry' = toEntry \ {f}
  /\ queue' = IF f.token.req \in pending
                THEN [queue EXCEPT ![f.token.req] = Append(@, f.token)]
                ELSE queue
  /\ UNCHANGED <<pc, maxTokens, seqc, attempt, generated, pending, toExit, exitVars>>

\* /unload and /load on the entry worker: a new EntryDispatcher, which knows
\* none of the generators that still run.
EntryReload ==
  /\ "restart" \in Faults
  /\ pending # {}
  /\ pending' = {}
  /\ UNCHANGED <<pc, maxTokens, seqc, attempt, generated, queue,
                 toExit, toEntry, exitVars>>

-----------------------------------------------------------------------------
(* exit_loop.                                                              *)

ExitIdle == job = None /\ reply = None

ExitRecvEnd(f) ==
  /\ ExitIdle
  /\ f.kind = "end"
  /\ toExit' = toExit \ {f}
  /\ caches' = caches \ {f.req}
  /\ kv' = [kv EXCEPT ![f.req] = <<>>]
  /\ UNCHANGED <<entryVars, toEntry, job, reply, replyTry>>

ExitRecvHidden(f) ==
  /\ ExitIdle
  /\ f.kind = "hidden"
  /\ toExit' = toExit \ {f}
  /\ job' = f
  /\ caches' = caches \cup {f.req}
  /\ UNCHANGED <<entryVars, toEntry, reply, replyTry, kv>>

\* forward_exit extends the cache by the chunk, then a token is sampled.
ExitForward ==
  /\ job # None
  /\ kv' = [kv EXCEPT ![job.req] = Append(@, job.seq)]
  /\ \E eos \in BOOLEAN :
       reply' = [token |-> [req |-> job.req, seq |-> job.seq + 1,
                            ctx |-> kv'[job.req], eos |-> eos],
                 of    |-> job.copy]
  /\ job' = None
  /\ UNCHANGED <<entryVars, toExit, toEntry, replyTry, caches>>

\* The layers update the cache in place: a pass that raises may have done so.
ExitForwardFails ==
  /\ "forward" \in Faults
  /\ job # None
  /\ \/ UNCHANGED kv
     \/ kv' = [kv EXCEPT ![job.req] = Append(@, job.seq)]
  /\ job' = None
  /\ UNCHANGED <<entryVars, toExit, toEntry, reply, replyTry, caches>>

ReplyFrame == [token |-> reply.token, of |-> reply.of, copy |-> replyTry]

SendToken ==
  /\ reply # None
  /\ toEntry' = toEntry \cup {ReplyFrame}
  /\ reply' = None
  /\ replyTry' = 1
  /\ UNCHANGED <<entryVars, toExit, job, caches, kv>>

SendTokenFails ==
  /\ reply # None
  /\ MaybeAccepted(toEntry, ReplyFrame)
  /\ \/ /\ replyTry < MaxAttempts
        /\ replyTry' = replyTry + 1
        /\ UNCHANGED reply
     \/ /\ replyTry = MaxAttempts
        /\ replyTry' = 1
        /\ reply' = None
  /\ UNCHANGED <<entryVars, toExit, job, caches, kv>>

\* /unload cancels exit_loop, which clears its caches; /load starts another.
\* A send that was running in its thread goes on.
ExitReload ==
  /\ "restart" \in Faults
  /\ caches # {}
  /\ \/ UNCHANGED toEntry
     \/ reply # None /\ toEntry' = toEntry \cup {ReplyFrame}
  /\ job' = None
  /\ reply' = None
  /\ replyTry' = 1
  /\ caches' = {}
  /\ kv' = [r \in Requests |-> <<>>]
  /\ UNCHANGED <<entryVars, toExit>>

-----------------------------------------------------------------------------
LoseFrame ==
  /\ "loss" \in Faults
  /\ \/ /\ \E f \in toExit : toExit' = toExit \ {f}
        /\ UNCHANGED toEntry
     \/ /\ \E f \in toEntry : toEntry' = toEntry \ {f}
        /\ UNCHANGED toExit
  /\ UNCHANGED <<entryVars, exitVars>>

EntryStep(r) ==
  \/ Start(r)
  \/ ForwardEntry(r)
  \/ ForwardEntryFails(r)
  \/ SendHidden(r)
  \/ SendHiddenFails(r)
  \/ GetToken(r)
  \/ Timeout(r)
  \/ SendEnd(r)
  \/ SendEndFails(r)
  \/ Cancel(r)

ExitStep ==
  \/ \E f \in toExit : ExitRecvEnd(f) \/ ExitRecvHidden(f)
  \/ ExitForward
  \/ ExitForwardFails
  \/ SendToken
  \/ SendTokenFails

Next ==
  \/ \E r \in Requests : EntryStep(r)
  \/ \E f \in toEntry : Dispatch(f)
  \/ EntryReload
  \/ ExitStep
  \/ ExitReload
  \/ LoseFrame

Spec == Init /\ [][Next]_vars

\* The event loops run every handler that is ready, threads return, timers
\* fire and /recv is polled: every step the code can take it takes.  Nothing
\* obliges a fault, a cancellation, a reload or a new request to happen.
Fairness ==
  /\ \A r \in Requests :
       WF_vars(\/ ForwardEntry(r) \/ SendHidden(r) \/ GetToken(r) \/ Timeout(r)
               \/ SendEnd(r) \/ SendHiddenFails(r) \/ SendEndFails(r))
  /\ WF_vars(\E f \in toEntry : Dispatch(f))
  /\ WF_vars(ExitStep)

FairSpec == Spec /\ Fairness
-----------------------------------------------------------------------------
(* What must hold.                                                         *)

\* Faults that break the lockstep between the two workers: the code sends a
\* frame again without the receiver being able to tell, or drops the state
\* one side has while the other side goes on.
Lockstep == Faults \cap {"duplicate", "restart"} = {}

\* Every token a generator yields was computed by the exit worker from the
\* prompt and all tokens yielded before it, each exactly once and in order:
\* no loss, late answer, failed pass or other request disturbs the cache.
ContextExact ==
  Lockstep => \A r \in Requests : \A n \in DOMAIN generated[r] :
                generated[r][n].ctx = Prefix(n)

\* Whatever the network and the workers do, the n-th token of a request was
\* sampled for this request and from nothing later than its chunk n - 1: the
\* stream may repeat itself, it cannot run ahead of itself.
NeverAhead ==
  \A r \in Requests : \A n \in DOMAIN generated[r] :
    /\ generated[r][n].req = r
    /\ generated[r][n].seq <= n
    /\ \A i \in DOMAIN generated[r][n].ctx : generated[r][n].ctx[i] < n

\* A generation never goes past EOS or max_tokens, and it reports "done" only
\* when it reached one of them (entry_generate_iter's break and last yield).
StopsAt(r) ==
  /\ Len(generated[r]) <= maxTokens[r]
  /\ \A n \in 1 .. Len(generated[r]) - 1 : ~generated[r][n].eos
  /\ pc[r] \in {"sendEnd", "done"} /\ Len(generated[r]) < maxTokens[r] =>
       /\ generated[r] # <<>>
       /\ generated[r][Len(generated[r])].eos

StopsExactly == \A r \in Requests : StopsAt(r)

\* Once the exit worker has dropped the cache of a finished generation, no
\* straggler makes it create that cache again, even if frames overtake each
\* other.  With max_tokens = 0 nothing has been awaited before the control
\* frame is sent, and with duplicated frames nothing protects the cache.
ForgottenForGood ==
  [][\A r \in Requests :
       /\ "duplicate" \notin Faults
       /\ pc[r] = "done"
       /\ maxTokens[r] > 0
       /\ r \notin caches
       => r \notin caches']_vars

\* The caller's view of the token loop, and the promise it is checked against.
Phase(r) ==
  CASE pc[r] = "idle" -> "idle"
    [] pc[r] \in Running -> "open"
    [] pc[r] = "done" -> "done"
    [] pc[r] = "failed" -> "failed"

Shown(r) == [n \in DOMAIN generated[r] |->
              [ctx |-> generated[r][n].ctx, eos |-> generated[r][n].eos]]

Promise == INSTANCE TokenStream WITH
  phase <- [r \in Requests |-> Phase(r)],
  limit <- maxTokens,
  out   <- [r \in Requests |-> Shown(r)]

\* While both workers stay in lockstep the loop implements TokenStream.
ImplementsTokenStream == Promise!Spec

\* Whatever is lost or fails, a generation ends: the recv_timeout sees to it.
EveryGenerationEnds ==
  \A r \in Requests : pc[r] = "forward" ~> pc[r] \in Ended
=============================================================================
