---------------------------- MODULE TokenStream ----------------------------
(***************************************************************************)
(* What the token loop promises the caller of a generation: a stream of    *)
(* tokens, the n-th of them sampled from the prompt and the n - 1 tokens   *)
(* before it and from nothing else, that is closed by exactly one "done"   *)
(* or failure and is complete when it is closed by "done".                 *)
(*                                                                         *)
(* A token is the list of chunks it was computed from (chunk 0 is the      *)
(* prompt, chunk n the n-th token) and whether it is the EOS token.        *)
(***************************************************************************)
EXTENDS Integers, Sequences

CONSTANTS Requests, MaxTokens

VARIABLES
  phase,  \* what the caller of a request sees
  limit,  \* max_tokens of the request
  out     \* the tokens it has been given

streamVars == <<phase, limit, out>>

Init ==
  /\ phase = [r \in Requests |-> "idle"]
  /\ limit = [r \in Requests |-> 0]
  /\ out = [r \in Requests |-> <<>>]

Open(r) ==
  /\ phase[r] = "idle"
  /\ phase' = [phase EXCEPT ![r] = "open"]
  /\ \E m \in 0 .. MaxTokens : limit' = [limit EXCEPT ![r] = m]
  /\ UNCHANGED out

Ideal(n, eos) == [ctx |-> [i \in 1 .. n |-> i - 1], eos |-> eos]

Complete(r) ==
  \/ Len(out[r]) = limit[r]
  \/ Len(out[r]) > 0 /\ out[r][Len(out[r])].eos

\* The next token, which may find the generation unable to go on.
Emit(r) ==
  /\ phase[r] = "open"
  /\ ~Complete(r)
  /\ \E eos \in BOOLEAN :
       out' = [out EXCEPT ![r] = Append(@, Ideal(Len(@) + 1, eos))]
  /\ phase' \in {phase, [phase EXCEPT ![r] = "failed"]}
  /\ UNCHANGED limit

Close(r) ==
  /\ phase[r] = "open"
  /\ Complete(r)
  /\ phase' = [phase EXCEPT ![r] = "done"]
  /\ UNCHANGED <<limit, out>>

Fail(r) ==
  /\ phase[r] = "open"
  /\ phase' = [phase EXCEPT ![r] = "failed"]
  /\ UNCHANGED <<limit, out>>

Next == \E r \in Requests : Open(r) \/ Emit(r) \/ Close(r) \/ Fail(r)

Spec == Init /\ [][Next]_streamVars
=============================================================================
